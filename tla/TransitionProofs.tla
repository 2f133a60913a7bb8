-------------------------- MODULE TransitionProofs ---------------------------
(***************************************************************************)
(* That no chain of committed and aborted transitions changes the state    *)
(* training left behind, for groups of any size, any parameters, values    *)
(* and faults: that needs nothing of the mechanism that moves the state,   *)
(* only what the two snapshots hold and what the certificate compares.     *)
(* Then what the mechanism delivers: pieces gather back to what was cut    *)
(* up, a clean transition commits, and a fault harms what it is about.     *)
(***************************************************************************)
EXTENDS Transition, Induction, TLAPS

\* What TransitionCertificate.check found nothing in satisfies every one of
\* its six invariants.
LEMMA NothingViolated ==
    ASSUME NEW before, NEW after, Violated(before, after) = {}
    PROVE  /\ ParamResidency(before, after) /\ ContentEquivalence(before, after)
           /\ OptimizerAccounting(before, after) /\ ProgressInvariant(before, after)
           /\ AuxStreamResidency(before, after)
<1>1. "param_residency" \in Invariants /\ "param_residency" \notin Violated(before, after)
  BY DEF Invariants
<1>2. "content_equivalence" \in Invariants /\ "content_equivalence" \notin Violated(before, after)
  BY DEF Invariants
<1>3. "optimizer_accounting" \in Invariants /\ "optimizer_accounting" \notin Violated(before, after)
  BY DEF Invariants
<1>4. "progress_invariant" \in Invariants /\ "progress_invariant" \notin Violated(before, after)
  BY DEF Invariants
<1>5. "aux_stream_residency" \in Invariants /\ "aux_stream_residency" \notin Violated(before, after)
  BY DEF Invariants
<1>6. ParamResidency(before, after)
  BY <1>1 DEF Violated
<1>7. ContentEquivalence(before, after)
  BY <1>2 DEF Violated
<1>8. OptimizerAccounting(before, after)
  BY <1>3 DEF Violated
<1>9. ProgressInvariant(before, after)
  BY <1>4 DEF Violated
<1>10. AuxStreamResidency(before, after)
  BY <1>5 DEF Violated
<1> QED
  BY <1>6, <1>7, <1>8, <1>9, <1>10

\* The verified state has the shape of the state training left behind.
LEMMA VerifiedTyped ==
    ASSUME OriginTyped, NoDrift
    PROVE  /\ {verified.params, verified.moments} \subseteq [Params -> Seq(Values)]
           /\ verified.steps \in [Params -> Nat]
  BY DEF OriginTyped, NoDrift

\* A committed harness transition takes the state over unchanged: the
\* snapshots compare every parameter, slot and counter the group trains on.
LEMMA CommittedHarness ==
    ASSUME IInv, decision = "commit", spec.kind = "harness"
    PROVE  /\ Taken.params = verified.params /\ Taken.moments = verified.moments
           /\ Taken.steps = verified.steps /\ Taken.progress = verified.progress
           /\ Taken.streams = verified.streams
<1>1. /\ phase = "decided" /\ Violated(pre, post) = {}
      /\ pre = SnapshotOfVerified /\ post = SnapshotOfLoaded
      /\ verified.streams = NoStreams
  BY DEF IInv, Snapshotted
<1>2. /\ ParamResidency(pre, post) /\ ContentEquivalence(pre, post)
      /\ OptimizerAccounting(pre, post) /\ ProgressInvariant(pre, post)
  BY <1>1, NothingViolated
<1>3. /\ verified.params \in [Params -> Seq(Values)]
      /\ verified.moments \in [Params -> Seq(Values)]
      /\ verified.steps \in [Params -> Nat]
  BY VerifiedTyped DEF IInv
<1>4. /\ pre.params = verified.params /\ pre.progress = verified.progress
      /\ pre.slots = Slots(verified.moments, verified.steps)
  BY <1>1 DEF SnapshotOfVerified, HarnessSnapshot, Snapshot
<1>5. /\ post.params = [p \in Params \ loaded[0].dropped |-> Materialized("params", p)]
      /\ post.progress = loaded[0].progress
      /\ post.slots = Slots([p \in Params |-> Materialized("moments", p)], loaded[0].steps)
  BY <1>1 DEF SnapshotOfLoaded, HarnessSnapshot, Snapshot
<1>6. \A p \in Params : Materialized("params", p) = verified.params[p]
  <2>1. Params \ loaded[0].dropped = Params
    BY <1>2, <1>3, <1>4, <1>5 DEF ParamResidency
  <2> QED
    BY <1>2, <1>3, <1>4, <1>5, <2>1 DEF ContentEquivalence
<1>7. \A p \in Params : /\ Materialized("moments", p) = verified.moments[p]
                        /\ loaded[0].steps[p] = verified.steps[p]
  <2>1. DOMAIN pre.slots = Params /\ DOMAIN post.slots = Params
    BY <1>3, <1>4, <1>5 DEF Slots
  <2>2. \A p \in Params :
          /\ pre.slots[p] = [exp_avg |-> verified.moments[p], step |-> verified.steps[p]]
          /\ post.slots[p] = [exp_avg |-> Materialized("moments", p), step |-> loaded[0].steps[p]]
    BY <1>3, <1>4, <1>5 DEF Slots
  <2> SUFFICES ASSUME NEW p \in Params
               PROVE  /\ Materialized("moments", p) = verified.moments[p]
                      /\ loaded[0].steps[p] = verified.steps[p]
    OBVIOUS
  <2>3. \A s \in {"exp_avg", "step"} : pre.slots[p][s] = post.slots[p][s]
    <3>1. DOMAIN pre.slots[p] = {"exp_avg", "step"} /\ DOMAIN post.slots[p] = {"exp_avg", "step"}
      BY <2>2
    <3> QED
      BY <1>2, <2>1, <3>1 DEF OptimizerAccounting
  <2>4. pre.slots[p].exp_avg = post.slots[p].exp_avg /\ pre.slots[p].step = post.slots[p].step
    BY <2>3
  <2>5. pre.slots[p].exp_avg = verified.moments[p] /\ pre.slots[p].step = verified.steps[p]
    <3> DEFINE moment == verified.moments[p]
               step == verified.steps[p]
    <3>1. pre.slots[p] = [exp_avg |-> moment, step |-> step]
      BY <2>2
    <3> HIDE DEF moment, step
    <3>2. pre.slots[p].exp_avg = moment /\ pre.slots[p].step = step
      BY <3>1
    <3> QED
      BY <3>2 DEF moment, step
  <2>6. post.slots[p].exp_avg = Materialized("moments", p) /\ post.slots[p].step = loaded[0].steps[p]
    <3> DEFINE moment == Materialized("moments", p)
               step == loaded[0].steps[p]
    <3>1. post.slots[p] = [exp_avg |-> moment, step |-> step]
      BY <2>2
    <3> HIDE DEF moment, step
    <3>2. post.slots[p].exp_avg = moment /\ post.slots[p].step = step
      BY <3>1
    <3> QED
      BY <3>2 DEF moment, step
  <2> QED
    BY <2>4, <2>5, <2>6
<1>8. loaded[0].progress = verified.progress
  BY <1>2, <1>4, <1>5 DEF ProgressInvariant
<1>9. Taken = [params   |-> [p \in Params |-> Materialized("params", p)],
               moments  |-> [p \in Params |-> Materialized("moments", p)],
               steps    |-> [p \in Params |-> loaded[0].steps[p]],
               progress |-> loaded[0].progress,
               streams  |-> NoStreams]
  BY DEF Taken
<1>10. Taken.params = verified.params
  BY <1>3, <1>6, <1>9
<1>11. Taken.moments = verified.moments
  BY <1>3, <1>7, <1>9
<1>12. Taken.steps = verified.steps
  BY <1>3, <1>7, <1>9
<1> QED
  BY <1>1, <1>8, <1>9, <1>10, <1>11, <1>12

\* A committed stream experiment gives every rank its own streams back, but
\* for those whose seeding anew was declared.
LEMMA CommittedStreams ==
    ASSUME IInv, decision = "commit", spec.kind # "harness"
    PROVE  /\ DOMAIN LoadedStreams = DOMAIN verified.streams
           /\ \A r \in DOMAIN verified.streams \ spec.reseeds :
                 LoadedStreams[r] = verified.streams[r]
<1>1. /\ Violated(pre, post) = {}
      /\ pre = SnapshotOfVerified
      /\ post = StreamSnapshot(Painted(spec.worldPost), LoadedStreams, spec.reseeds)
  BY DEF IInv, Snapshotted
<1>2. AuxStreamResidency(pre, post)
  BY <1>1, NothingViolated
<1>3. pre.streams = verified.streams /\ pre.reseeds = {}
  BY <1>1 DEF SnapshotOfVerified, StreamSnapshot, Snapshot
<1>4. post.streams = LoadedStreams /\ post.reseeds = spec.reseeds
  BY <1>1 DEF StreamSnapshot, Snapshot
<1> QED
  BY <1>2, <1>3, <1>4 DEF AuxStreamResidency
-----------------------------------------------------------------------------
LEMMA InitIInv == Init => IInv
<1> SUFFICES ASSUME Init PROVE IInv
  OBVIOUS
<1>1. PICK t \in Trained, streams \in {NoStreams} \cup {Seeds(w) : w \in Worlds} :
        verified = [params |-> t.params, moments |-> t.moments,
                    steps |-> [p \in Params |-> 1],
                    progress |-> [c \in Counters |-> 1],
                    streams |-> streams]
  BY DEF Init
<1>2. OriginTyped
  BY <1>1, TransitionAssumption DEF Init, OriginTyped
<1>3. Snapshotted
  BY DEF Init, Snapshotted
<1>4. NoDrift
  BY DEF Init, NoDrift
<1> QED
  BY <1>2, <1>3, <1>4 DEF IInv

LEMMA NextIInv == IInv /\ [Next]_vars => IInv'
<1> SUFFICES ASSUME IInv, [Next]_vars PROVE IInv'
  OBVIOUS
<1> USE DEF IInv
<1>1. CASE Begin
  <2>1. Snapshotted'
    BY <1>1 DEF Begin, Snapshotted, HarnessSpecs, StreamSpecs
  <2> QED
    BY <1>1, <2>1 DEF Begin, OriginTyped, NoDrift
<1>2. CASE SnapshotPre
  <2>1. Snapshotted'
    BY <1>2 DEF SnapshotPre, Snapshotted, SnapshotOfVerified
  <2> QED
    BY <1>2, <2>1 DEF SnapshotPre, OriginTyped, NoDrift
<1>3. CASE Save
  <2>1. Snapshotted'
    BY <1>3 DEF Save, Snapshotted, SnapshotOfVerified
  <2> QED
    BY <1>3, <2>1 DEF Save, OriginTyped, NoDrift
<1>4. CASE Load \/ LoadWrong \/ Inject
  <2>1. /\ UNCHANGED <<spec, verified, origin, pre, waived, decision>>
        /\ phase \in {"saved", "loaded"} /\ phase' \in {"loaded", "injected"}
    BY <1>4 DEF Load, LoadWrong, Inject
  <2>2. Snapshotted'
    BY <2>1 DEF Snapshotted, SnapshotOfVerified
  <2> QED
    BY <2>1, <2>2 DEF OriginTyped, NoDrift
<1>5. CASE SnapshotPost
  <2>1. Snapshotted'
    BY <1>5 DEF SnapshotPost, Snapshotted, SnapshotOfVerified, SnapshotOfLoaded,
                LoadedStreams, Materialized
  <2> QED
    BY <1>5, <2>1 DEF SnapshotPost, OriginTyped, NoDrift
<1>6. CASE Certify
  <2>1. Snapshotted'
    BY <1>6 DEF Certify, Snapshotted, SnapshotOfVerified, SnapshotOfLoaded,
                LoadedStreams, Materialized
  <2> QED
    BY <1>6, <2>1 DEF Certify, OriginTyped, NoDrift
<1>7. CASE Proceed
  <2>1. Snapshotted' /\ OriginTyped'
    BY <1>7 DEF Proceed, Snapshotted, OriginTyped
  <2>2. CASE decision # "commit"
    BY <1>7, <2>1, <2>2 DEF Proceed, NoDrift
  <2>3. CASE decision = "commit" /\ spec.kind = "harness"
    <3>1. verified' = Taken /\ origin' = origin /\ waived' = waived \cup spec.reseeds
      BY <1>7, <2>3 DEF Proceed
    <3> QED
      BY <2>1, <2>3, <3>1, CommittedHarness DEF NoDrift
  <2>4. CASE decision = "commit" /\ spec.kind # "harness"
    <3>1. verified' = Taken /\ origin' = origin /\ waived' = waived \cup spec.reseeds
      BY <1>7, <2>4 DEF Proceed
    <3>2. Taken = [verified EXCEPT !.streams = LoadedStreams]
      BY <2>4 DEF Taken
    <3> QED
      BY <2>1, <2>4, <3>1, <3>2, CommittedStreams DEF NoDrift
  <2> QED
    BY <2>2, <2>3, <2>4
<1>8. CASE UNCHANGED vars
  BY <1>8 DEF vars, OriginTyped, Snapshotted, NoDrift, SnapshotOfVerified, SnapshotOfLoaded,
              LoadedStreams, Materialized
<1> QED
  BY <1>1, <1>2, <1>3, <1>4, <1>5, <1>6, <1>7, <1>8 DEF Next

\* Between any two steps of a transition the snapshots taken are those of
\* the verified and of the loaded state, and a commit is one without a
\* violation.
THEOREM TransitionInvariance == Spec => []IInv
<1>1. Init => IInv
  BY InitIInv
<1>2. IInv /\ [Next]_vars => IInv'
  BY NextIInv
<1> QED
  BY <1>1, <1>2, PTL DEF Spec

\* run_transition and commit_with_certificate, one after the other and as
\* often as one likes: the verified state is the one training left behind.
THEOREM VerifiedForEver == Spec => []NoDrift
<1>1. IInv => NoDrift
  BY DEF IInv
<1> QED
  BY <1>1, TransitionInvariance, PTL
-----------------------------------------------------------------------------
(* Splitting a tensor and putting it together.                             *)

\* Two equal joins of sequences of the same lengths are equal piece by piece.
LEMMA ConcatCancels ==
    ASSUME NEW S, NEW a \in Seq(S), NEW b \in Seq(S), NEW c \in Seq(S), NEW d \in Seq(S),
           a \o b = c \o d, Len(b) = Len(d)
    PROVE  a = c /\ b = d
<1>1. Len(a) = Len(c)
  <2>1. Len(a \o b) = Len(a) + Len(b) /\ Len(c \o d) = Len(c) + Len(d)
    OBVIOUS
  <2>2. Len(a) \in Nat /\ Len(b) \in Nat /\ Len(c) \in Nat /\ Len(d) \in Nat
    OBVIOUS
  <2> QED
    BY <2>1, <2>2
<1>2. ASSUME NEW i \in 1 .. Len(a) PROVE a[i] = c[i]
  <2>1. (a \o b)[i] = a[i] /\ (c \o d)[i] = c[i]
    BY <1>1
  <2> QED
    BY <2>1
<1>3. ASSUME NEW i \in 1 .. Len(b) PROVE b[i] = d[i]
  <2>1. (a \o b)[Len(a) + i] = b[i] /\ (c \o d)[Len(c) + i] = d[i]
    <3> DEFINE k == Len(a) + i
    <3>1. /\ k \in Len(a) + 1 .. Len(a) + Len(b) /\ k \in Len(c) + 1 .. Len(c) + Len(d)
          /\ k - Len(a) = i /\ k - Len(c) = i
      BY <1>1
    <3> HIDE DEF k
    <3>2. (a \o b)[k] = b[k - Len(a)] /\ (c \o d)[k] = d[k - Len(c)]
      BY <3>1, TwoParts
    <3> QED
      BY <1>1, <3>1, <3>2, Zenon DEF k
  <2> QED
    BY <1>1, <2>1
<1>4. a = c
  <2>1. a = [i \in 1 .. Len(a) |-> a[i]] /\ c = [i \in 1 .. Len(c) |-> c[i]]
    OBVIOUS
  <2> QED
    BY <1>1, <1>2, <2>1
<1>5. b = d
  <2>1. b = [i \in 1 .. Len(b) |-> b[i]] /\ d = [i \in 1 .. Len(d) |-> d[i]]
    OBVIOUS
  <2> QED
    BY <1>3, <2>1
<1> QED
  BY <1>4, <1>5

\* What is flattened determines its pieces, when their lengths are given.
LEMMA FlattenInjective ==
    ASSUME NEW S, NEW n \in Nat \ {0}, NEW u \in [1 .. n -> Seq(S)], NEW v \in [1 .. n -> Seq(S)],
           \A i \in 1 .. n : Len(u[i]) = Len(v[i]), FlattenSeq(u) = FlattenSeq(v)
    PROVE  u = v
<1>1. PICK f \in [1 .. n -> Seq(S)] : Concatenated(f, u, n) /\ FlattenSeq(u) = f[n]
  BY Flattens
<1>2. PICK g \in [1 .. n -> Seq(S)] : Concatenated(g, v, n) /\ FlattenSeq(v) = g[n]
  BY Flattens
<1> DEFINE T == {k \in 1 .. n : f[n + 1 - k] = g[n + 1 - k]}
<1>3. ASSUME NEW i \in 1 .. n, f[i] = g[i]
      PROVE  u[i] = v[i] /\ (i # 1 => f[i - 1] = g[i - 1])
  <2>1. CASE i = 1
    BY <1>1, <1>2, <1>3, <2>1 DEF Concatenated
  <2>2. CASE i # 1
    <3>1. i - 1 \in 1 .. n
      BY <2>2
    <3> DEFINE a == f[i - 1]
               b == u[i]
               c == g[i - 1]
               d == v[i]
    <3>2. a \in Seq(S) /\ c \in Seq(S) /\ b \in Seq(S) /\ d \in Seq(S)
      BY <3>1
    <3>3. a \o b = c \o d
      BY <1>1, <1>2, <1>3, <2>2 DEF Concatenated
    <3>4. Len(b) = Len(d)
      OBVIOUS
    <3>5. a = c /\ b = d
      <4> HIDE DEF a, b, c, d
      <4> QED
        BY <3>2, <3>3, <3>4, ConcatCancels
    <3> QED
      BY <3>5
  <2> QED
    BY <2>1, <2>2
<1>4. 1 .. n \subseteq T
  <2>1. 1 \in T
    <3>1. 1 \in 1 .. n /\ n + 1 - 1 = n
      OBVIOUS
    <3> QED
      BY <1>1, <1>2, <3>1
  <2>2. ASSUME NEW k \in 1 .. n - 1, k \in T PROVE k + 1 \in T
    <3>1. n + 1 - k \in 1 .. n /\ n + 1 - k # 1 /\ (n + 1 - k) - 1 = n + 1 - (k + 1) /\ k + 1 \in 1 .. n
      OBVIOUS
    <3>2. f[n + 1 - k] = g[n + 1 - k]
      BY <2>2
    <3>3. f[(n + 1 - k) - 1] = g[(n + 1 - k) - 1]
      BY <1>3, <3>1, <3>2
    <3> QED
      BY <3>1, <3>3
  <2> HIDE DEF T
  <2> QED
    BY <2>1, <2>2, InductUpTo
<1>5. ASSUME NEW i \in 1 .. n PROVE u[i] = v[i]
  <2>1. n + 1 - i \in 1 .. n /\ n + 1 - (n + 1 - i) = i
    OBVIOUS
  <2>2. f[i] = g[i]
    BY <1>4, <2>1
  <2> QED
    BY <1>3, <2>2
<1> QED
  BY <1>5

\* A prefix and the part that follows it.
LEMMA Prefix ==
    ASSUME NEW S, NEW t \in Seq(S), NEW m \in 0 .. Len(t), NEW k \in m .. Len(t)
    PROVE  /\ SubSeq(t, 1, m) \in Seq(S) /\ SubSeq(t, m + 1, k) \in Seq(S)
           /\ SubSeq(t, 1, m) \o SubSeq(t, m + 1, k) = SubSeq(t, 1, k)
<1> DEFINE a == SubSeq(t, 1, m)
           b == SubSeq(t, m + 1, k)
           c == SubSeq(t, 1, k)
<1>1. Len(t) \in Nat /\ m \in Nat /\ k \in Nat /\ m <= k /\ k <= Len(t) /\ m <= Len(t)
  OBVIOUS
<1>2. a \in Seq(S) /\ Len(a) = m /\ \A i \in 1 .. m : a[i] = t[i]
  BY <1>1
<1>3. b \in Seq(S) /\ Len(b) = k - m /\ \A i \in 1 .. k - m : b[i] = t[m + i]
  BY <1>1
<1>4. c \in Seq(S) /\ Len(c) = k /\ \A i \in 1 .. k : c[i] = t[i]
  <2>1. c \in Seq(S) /\ Len(c) = k
    BY <1>1
  <2>2. \A i \in 1 .. k : c[i] = t[i]
    BY <1>1
  <2> QED
    BY <2>1, <2>2
<1> HIDE DEF a, b, c
<1>5. a \o b \in Seq(S) /\ Len(a \o b) = k
  <2>1. a \in Seq(S) /\ b \in Seq(S)
    BY <1>2, <1>3
  <2>2. a \o b \in Seq(S) /\ Len(a \o b) = Len(a) + Len(b)
    BY <2>1
  <2> QED
    BY <1>1, <1>2, <1>3, <2>2
<1>6. ASSUME NEW i \in 1 .. k PROVE (a \o b)[i] = c[i]
  <2>1. CASE i <= m
    BY <1>1, <1>2, <1>3, <1>4, <2>1
  <2>2. CASE ~(i <= m)
    <3>1. i - m \in 1 .. k - m /\ i = m + (i - m)
      BY <1>1, <2>2
    <3>2. (a \o b)[i] = b[i - m]
      BY <1>1, <1>2, <1>3, <2>2, <3>1
    <3> QED
      BY <1>3, <1>4, <3>1, <3>2
  <2> QED
    BY <2>1, <2>2
<1>7. a \o b = c
  <2> DEFINE e == a \o b
  <2>1. e \in Seq(S) /\ Len(e) = k /\ \A i \in 1 .. k : e[i] = c[i]
    BY <1>5, <1>6
  <2> HIDE DEF e
  <2>2. e = [i \in 1 .. k |-> e[i]] /\ c = [i \in 1 .. k |-> c[i]]
    BY <1>4, <2>1
  <2>3. e = c
    BY <2>1, <2>2
  <2> QED
    BY <2>3 DEF e
<1> QED
  BY <1>2, <1>3, <1>7 DEF a, b, c

\* Chunks rounded up cover all the rows.
LEMMA ChunksCover ==
    ASSUME NEW n \in Nat, NEW w \in Nat \ {0}
    PROVE  Chunk(n, w) \in Nat /\ n <= w * Chunk(n, w)
<1> DEFINE q == (n + w - 1) \div w
           r == (n + w - 1) % w
<1>1. n + w - 1 \in Nat
  OBVIOUS
<1>2. q \in Nat /\ r \in 0 .. w - 1 /\ n + w - 1 = w * q + r
  BY <1>1
<1>3. Chunk(n, w) = q
  BY DEF Chunk
<1> HIDE DEF q, r
<1>4. w * q \in Int
  BY <1>2
<1> QED
  BY <1>2, <1>3, <1>4

\* The rows up to a rank's last are those up to its predecessor's last and its
\* own, even when there are none left for it.
LEMMA PieceFollows ==
    ASSUME NEW S, NEW t \in Seq(S), NEW w \in Nat \ {0}, NEW r \in Nat
    PROVE  /\ Piece(t, w, r) \in Seq(S)
           /\ SubSeq(t, 1, Lesser(r * Chunk(Len(t), w), Len(t))) \o Piece(t, w, r)
                = SubSeq(t, 1, Lesser((r + 1) * Chunk(Len(t), w), Len(t)))
<1> DEFINE n == Len(t)
           c == Chunk(n, w)
           a == r * c
           b == (r + 1) * c
<1>1. n \in Nat /\ c \in Nat
  <2>1. n \in Nat
    OBVIOUS
  <2> HIDE DEF n
  <2> QED
    BY <2>1, ChunksCover
<1>2. Piece(t, w, r) = SubSeq(t, a + 1, Lesser(b, n))
  BY DEF Piece
<1> HIDE DEF c, n
<1>3. a \in Nat /\ b \in Nat /\ a <= b
  <2>1. b = r * c + c
    BY <1>1
  <2>2. r * c \in Nat
    BY <1>1
  <2> QED
    BY <1>1, <2>1, <2>2
<1>4. n = Len(t)
  BY DEF n
<1> HIDE DEF a, b
<1>5. CASE a <= n
  <2> DEFINE k == Lesser(b, n)
  <2>1. a \in 0 .. n /\ k \in a .. n /\ Lesser(a, n) = a
    BY <1>1, <1>3, <1>5 DEF Lesser
  <2> HIDE DEF k
  <2>2. /\ SubSeq(t, a + 1, k) \in Seq(S)
        /\ SubSeq(t, 1, a) \o SubSeq(t, a + 1, k) = SubSeq(t, 1, k)
    BY <1>4, <2>1, Prefix
  <2> QED
    BY <1>2, <2>1, <2>2 DEF k, a, b, c, n
<1>6. CASE ~(a <= n)
  <2>1. Lesser(a, n) = n /\ Lesser(b, n) = n
    BY <1>1, <1>3, <1>6 DEF Lesser
  <2>2. SubSeq(t, a + 1, n) = <<>>
    BY <1>1, <1>3, <1>4, <1>6
  <2>3. SubSeq(t, 1, n) \in Seq(S)
    BY <1>1, <1>4
  <2>4. SubSeq(t, 1, n) \o <<>> = SubSeq(t, 1, n)
    BY <2>3
  <2> QED
    <3>1. Piece(t, w, r) = <<>> /\ <<>> \in Seq(S)
      BY <1>2, <2>1, <2>2
    <3>2. SubSeq(t, 1, Lesser(a, n)) \o Piece(t, w, r) = SubSeq(t, 1, Lesser(b, n))
      BY <2>1, <2>4, <3>1
    <3> QED
      BY <3>1, <3>2 DEF a, b, c, n
<1> QED
  BY <1>5, <1>6

\* The pieces of a split, gathered in the order of the ranks, are the tensor.
LEMMA GathersBack ==
    ASSUME NEW S, NEW t \in Seq(S), NEW w \in Nat \ {0}
    PROVE  FullTensor([r \in Ranks(w) |-> Piece(t, w, r)], w) = t
<1> DEFINE n == Len(t)
           c == Chunk(n, w)
           u == [k \in 1 .. w |-> [r \in Ranks(w) |-> Piece(t, w, r)][k - 1]]
           upTo(k) == SubSeq(t, 1, Lesser(k * c, n))
<1>1. n \in Nat /\ c \in Nat /\ n <= w * c
  <2>1. n \in Nat
    OBVIOUS
  <2> HIDE DEF n
  <2> QED
    BY <2>1, ChunksCover
<1>2. ASSUME NEW k \in 1 .. w
      PROVE  /\ u[k] = Piece(t, w, k - 1) /\ Piece(t, w, k - 1) \in Seq(S)
             /\ upTo(k - 1) \o Piece(t, w, k - 1) = upTo(k)
  <2>1. k - 1 \in Ranks(w) /\ k - 1 \in Nat /\ (k - 1) + 1 = k
    BY DEF Ranks
  <2>2. u[k] = Piece(t, w, k - 1)
    BY <2>1
  <2>3. /\ Piece(t, w, k - 1) \in Seq(S)
        /\ upTo(k - 1) \o Piece(t, w, k - 1) = upTo((k - 1) + 1)
    BY <2>1, PieceFollows
  <2> QED
    BY <2>1, <2>2, <2>3
<1>3. u \in [1 .. w -> Seq(S)]
  BY <1>2
<1>4. upTo(0) = <<>> /\ upTo(w) = t
  <2>1. 0 * c = 0 /\ Lesser(0 * c, n) = 0 /\ w * c \in Nat
    BY <1>1 DEF Lesser
  <2>2. Lesser(w * c, n) = n
    BY <1>1, <2>1 DEF Lesser
  <2>3. SubSeq(t, 1, 0) = <<>> /\ SubSeq(t, 1, Len(t)) = t
    OBVIOUS
  <2> QED
    BY <2>1, <2>2, <2>3
<1>5. FullTensor([r \in Ranks(w) |-> Piece(t, w, r)], w) = FlattenSeq(u)
  BY DEF FullTensor
<1> HIDE DEF u, upTo
<1>6. PICK f \in [1 .. w -> Seq(S)] : Concatenated(f, u, w) /\ FlattenSeq(u) = f[w]
  BY <1>3, Flattens
<1> DEFINE T == {k \in 1 .. w : f[k] = upTo(k)}
<1>7. 1 .. w \subseteq T
  <2>1. 1 \in T
    <3>1. 1 \in 1 .. w /\ 1 - 1 = 0
      OBVIOUS
    <3>2. f[1] = u[1]
      BY <1>6, <3>1 DEF Concatenated
    <3>3. u[1] \in Seq(S) /\ <<>> \o u[1] = upTo(1)
      BY <1>2, <1>4, <3>1
    <3>4. <<>> \o u[1] = u[1]
      BY <3>3
    <3> QED
      BY <3>1, <3>2, <3>3, <3>4
  <2>2. ASSUME NEW k \in 1 .. w - 1, k \in T PROVE k + 1 \in T
    <3>1. k + 1 \in 1 .. w /\ k + 1 # 1 /\ (k + 1) - 1 = k
      OBVIOUS
    <3>2. f[k + 1] = f[k] \o u[k + 1]
      BY <1>6, <3>1 DEF Concatenated
    <3>3. upTo(k) \o u[k + 1] = upTo(k + 1)
      BY <1>2, <3>1
    <3>4. f[k] = upTo(k)
      BY <2>2
    <3> QED
      BY <3>1, <3>2, <3>3, <3>4
  <2> HIDE DEF T
  <2> QED
    BY <2>1, <2>2, InductUpTo
<1>8. f[w] = upTo(w)
  BY <1>7
<1> QED
  BY <1>4, <1>5, <1>6, <1>8
-----------------------------------------------------------------------------
(* What a fault leaves of a rank's state.                                  *)

Content == Int \cup {NaN}

\* A function on the rows of a tensor is a tensor with as many.
LEMMA SameRows ==
    ASSUME NEW S, NEW t \in Seq(S), NEW u \in [DOMAIN t -> S]
    PROVE  u \in Seq(S) /\ Len(u) = Len(t)
<1>1. DOMAIN t = 1 .. Len(t) /\ Len(t) \in Nat
  OBVIOUS
<1> QED
  BY <1>1

\* A parameter replaced by one with as many rows.
LEMMA Replaced ==
    ASSUME NEW ps \in [Params -> Seq(Content)], NEW ms, NEW ss, NEW pr, NEW st, NEW dr, NEW sw,
           NEW p \in Params, NEW t \in Seq(Content), Len(t) = Len(ps[p])
    PROVE  LET held == [params |-> ps, moments |-> ms, steps |-> ss, progress |-> pr,
                        stream |-> st, dropped |-> dr, swapped |-> sw]
           IN  Resembles([held EXCEPT !.params[p] = t], held, "params")
<1> DEFINE held == [params |-> ps, moments |-> ms, steps |-> ss, progress |-> pr,
                    stream |-> st, dropped |-> dr, swapped |-> sw]
           qs == [ps EXCEPT ![p] = t]
<1>1. qs \in [Params -> Seq(Content)] /\ \A q \in Params : Len(qs[q]) = Len(ps[q])
  OBVIOUS
<1>2. [held EXCEPT !.params[p] = t] =
        [params |-> qs, moments |-> ms, steps |-> ss, progress |-> pr,
         stream |-> st, dropped |-> dr, swapped |-> sw]
  <2>1. held.params = ps
    OBVIOUS
  <2>2. [held EXCEPT !.params[p] = t] = [held EXCEPT !.params = qs]
    OBVIOUS
  <2>3. [held EXCEPT !.params = qs] =
        [params |-> qs, moments |-> ms, steps |-> ss, progress |-> pr,
         stream |-> st, dropped |-> dr, swapped |-> sw]
    <3> HIDE DEF qs
    <3> QED
      OBVIOUS
  <2> QED
    BY <2>2, <2>3
<1> HIDE DEF qs
<1>3. Resembles([params |-> qs, moments |-> ms, steps |-> ss, progress |-> pr,
                 stream |-> st, dropped |-> dr, swapped |-> sw], held, "params")
  BY <1>1 DEF Resembles, Content
<1> QED
  BY <1>2, <1>3

LEMMA PickInParams == \A i \in Nat : Pick(i) \in Params
<1>1. NumParams \in Nat \ {0}
  BY TransitionAssumption
<1>2. \A i \in Nat : i % NumParams \in 0 .. NumParams - 1
  BY <1>1
<1> QED
  BY <1>1, <1>2 DEF Pick, Params

\* Every injected fault harms what it is said to and nothing else, and leaves
\* every tensor its number of rows.
LEMMA FaultyResembles ==
    ASSUME NEW ps \in [Params -> Seq(Content)], NEW ms, NEW ss, NEW pr, NEW st, NEW dr, NEW sw,
           NEW fault \in Faults,
           NEW h \in Faulty(fault, [params |-> ps, moments |-> ms, steps |-> ss, progress |-> pr,
                                    stream |-> st, dropped |-> dr, swapped |-> sw])
    PROVE  Resembles(h, [params |-> ps, moments |-> ms, steps |-> ss, progress |-> pr,
                         stream |-> st, dropped |-> dr, swapped |-> sw], HarmedBy(fault))
<1> DEFINE held == [params |-> ps, moments |-> ms, steps |-> ss, progress |-> pr,
                    stream |-> st, dropped |-> dr, swapped |-> sw]
<1>0. \A p \in Params : ps[p] \in Seq(Content) /\ DOMAIN ps[p] = 1 .. Len(ps[p])
                        /\ \A i \in DOMAIN ps[p] : ps[p][i] \in Content
  OBVIOUS
<1>1. held.params = ps /\ held.moments = ms /\ held.steps = ss /\ held.progress = pr
      /\ held.stream = st /\ held.dropped = dr /\ held.swapped = sw
  OBVIOUS
<1>2. ASSUME NEW p \in Params, NEW t \in [DOMAIN ps[p] -> Content], h = [held EXCEPT !.params[p] = t]
      PROVE  Resembles(h, held, "params")
  <2>1. t \in Seq(Content) /\ Len(t) = Len(ps[p])
    BY <1>0, SameRows
  <2> QED
    BY <1>2, <2>1, Replaced
<1>3. CASE fault = "none"
  <2>1. h = held
    BY <1>3 DEF Faulty
  <2> QED
    BY <1>3, <2>1 DEF Resembles, HarmedBy, Content
<1>4. CASE fault = "silent_unloaded_param"
  <2>1. Pick(1) \in Params
    BY PickInParams
  <2>2. PICK fresh \in [DOMAIN ps[Pick(1)] -> Values] : h = [held EXCEPT !.params[Pick(1)] = fresh]
    BY <1>4 DEF Faulty
  <2>3. fresh \in [DOMAIN ps[Pick(1)] -> Content]
    BY TransitionAssumption DEF Content
  <2>4. Resembles(h, held, "params")
    <3> HIDE DEF held
    <3> QED
      BY <1>2, <2>1, <2>2, <2>3
  <2> QED
    BY <1>4, <2>4 DEF HarmedBy
<1>5. CASE fault = "value_corruption"
  <2> DEFINE p == Pick(2)
             t == [i \in DOMAIN ps[p] |-> IF ps[p][i] = NaN THEN NaN ELSE ps[p][i] + 1]
  <2>1. p \in Params
    BY PickInParams
  <2>2. h = [held EXCEPT !.params[p] = t]
    BY <1>5 DEF Faulty
  <2> HIDE DEF p
  <2>3. t \in [DOMAIN ps[p] -> Content]
    BY <1>0, <2>1 DEF Content
  <2>4. Resembles(h, held, "params")
    <3> HIDE DEF held, t
    <3> QED
      BY <1>2, <2>1, <2>2, <2>3
  <2> QED
    BY <1>5, <2>4 DEF HarmedBy
<1>6. CASE fault = "permuted_values"
  <2>0. h \in UNION {{[held EXCEPT !.params[p] = t] : t \in Scrambled(held.params[p])} : p \in Params}
    BY <1>6 DEF Faulty
  <2>1. PICK p \in Params : \E u \in Scrambled(ps[p]) : h = [held EXCEPT !.params[p] = u]
    <3> HIDE DEF held
    <3> QED
      BY <1>1, <2>0
  <2>2. PICK t \in Scrambled(ps[p]) : h = [held EXCEPT !.params[p] = t]
    BY <2>1
  <2>3. PICK f \in [DOMAIN ps[p] -> DOMAIN ps[p]] : t = [i \in DOMAIN ps[p] |-> ps[p][f[i]]]
    BY <2>2 DEF Scrambled
  <2>4. t \in [DOMAIN ps[p] -> Content]
    BY <1>0, <2>3
  <2>5. Resembles(h, held, "params")
    <3> HIDE DEF held
    <3> QED
      BY <1>2, <2>2, <2>4
  <2> QED
    BY <1>6, <2>5 DEF HarmedBy
<1>7. CASE fault = "cross_param_overwrite"
  <2>1. h = CrossOverwritten(held)
    BY <1>7 DEF Faulty
  <2>2. CASE Twins(held) # {}
    <3> DEFINE first == CHOOSE q \in Twins(held) : \A r \in Twins(held) : q <= r
    <3>1. \E q \in Twins(held) : \A r \in Twins(held) : q <= r
      <4>1. Twins(held) \subseteq Nat
        BY DEF Twins, Params
      <4> HIDE DEF held
      <4> QED
        BY <2>2, <4>1, Least
    <3>2. first \in Twins(held)
      BY <3>1
    <3>3. h = [held EXCEPT !.params[first + 1] = ps[first]]
      BY <2>1, <2>2, <1>1 DEF CrossOverwritten
    <3> HIDE DEF first
    <3>4. first \in Params /\ first + 1 \in Params /\ Len(ps[first]) = Len(ps[first + 1])
      <4>1. NumParams \in Nat
        BY TransitionAssumption
      <4> QED
        BY <3>2, <4>1 DEF Twins, Params
    <3>5. ps[first] \in [DOMAIN ps[first + 1] -> Content]
      <4>1. ps[first] \in Seq(Content) /\ DOMAIN ps[first] = DOMAIN ps[first + 1]
        BY <1>0, <3>4
      <4> QED
        BY <4>1
    <3>6. Resembles(h, held, "params")
      <4> HIDE DEF held
      <4> QED
        BY <1>2, <3>3, <3>4, <3>5
    <3> QED
      BY <1>7, <3>6 DEF HarmedBy
  <2>3. CASE Twins(held) = {}
    <3> DEFINE a == Pick(0)
               b == Pick(3)
               n == Lesser(Len(ps[a]), Len(ps[b]))
               t == [i \in DOMAIN ps[b] |-> IF i <= n THEN ps[a][i] ELSE ps[b][i]]
    <3>1. a \in Params /\ b \in Params
      BY PickInParams
    <3>2. h = [held EXCEPT !.params[b] = t]
      BY <2>1, <2>3, <1>1 DEF CrossOverwritten
    <3> HIDE DEF a, b
    <3>3. n <= Len(ps[a]) /\ Len(ps[a]) \in Nat /\ n \in Nat
      BY <1>0, <3>1 DEF Lesser
    <3>4. ASSUME NEW i \in DOMAIN ps[b]
          PROVE  (IF i <= n THEN ps[a][i] ELSE ps[b][i]) \in Content
      <4>1. i \in 1 .. Len(ps[b]) /\ ps[b][i] \in Content
        BY <1>0, <3>1
      <4>2. ASSUME i <= n PROVE ps[a][i] \in Content
        <5> HIDE DEF n
        <5>1. i \in 1 .. Len(ps[a])
          BY <3>3, <4>1, <4>2
        <5> QED
          BY <1>0, <3>1, <5>1
      <4> QED
        BY <4>1, <4>2
    <3>5. t \in [DOMAIN ps[b] -> Content]
      BY <3>4
    <3>6. Resembles(h, held, "params")
      <4> HIDE DEF held, t
      <4> QED
        BY <1>2, <3>1, <3>2, <3>5
    <3> QED
      BY <1>7, <3>6 DEF HarmedBy
  <2> QED
    BY <2>2, <2>3
<1>8. CASE fault = "precision_cast"
  <2> DEFINE p == Pick(4)
             t == [i \in DOMAIN ps[p] |-> IF ps[p][i] = NaN THEN NaN ELSE 2 * (ps[p][i] \div 2)]
  <2>1. p \in Params
    BY PickInParams
  <2>2. h = [held EXCEPT !.params[p] = t]
    BY <1>8 DEF Faulty
  <2> HIDE DEF p
  <2>3. t \in [DOMAIN ps[p] -> Content]
    BY <1>0, <2>1 DEF Content
  <2>4. Resembles(h, held, "params")
    <3> HIDE DEF held, t
    <3> QED
      BY <1>2, <2>1, <2>2, <2>3
  <2> QED
    BY <1>8, <2>4 DEF HarmedBy
<1>9. CASE fault = "stale_optimizer_moment"
  <2>1. \E us : h = [params |-> ps, moments |-> us, steps |-> ss, progress |-> pr,
                     stream |-> st, dropped |-> dr, swapped |-> sw]
    BY <1>9 DEF Faulty
  <2> QED
    BY <1>9, <2>1 DEF Resembles, HarmedBy, Content
<1>10. CASE fault = "step_counter_reset"
  <2>1. \E us : h = [params |-> ps, moments |-> ms, steps |-> us, progress |-> pr,
                     stream |-> st, dropped |-> dr, swapped |-> sw]
    BY <1>10 DEF Faulty
  <2> QED
    BY <1>10, <2>1 DEF Resembles, HarmedBy, Content
<1>11. CASE fault = "progress_reset"
  <2>1. \E us : h = [params |-> ps, moments |-> ms, steps |-> ss, progress |-> us,
                     stream |-> st, dropped |-> dr, swapped |-> sw]
    BY <1>11 DEF Faulty
  <2> QED
    BY <1>11, <2>1 DEF Resembles, HarmedBy, Content
<1>12. CASE fault = "dropped_fqn"
  <2>1. h = [params |-> ps, moments |-> ms, steps |-> ss, progress |-> pr,
             stream |-> st, dropped |-> {1}, swapped |-> sw]
    BY <1>12 DEF Faulty
  <2> QED
    BY <1>12, <2>1 DEF Resembles, HarmedBy, Content
<1>13. CASE fault = "reduction_order_swap"
  <2>1. h = [params |-> ps, moments |-> ms, steps |-> ss, progress |-> pr,
             stream |-> st, dropped |-> dr, swapped |-> TRUE]
    BY <1>13 DEF Faulty
  <2> QED
    BY <1>13, <2>1 DEF Resembles, HarmedBy, Content
<1> QED
  BY <1>3, <1>4, <1>5, <1>6, <1>7, <1>8, <1>9, <1>10, <1>11, <1>12, <1>13 DEF Faults
-----------------------------------------------------------------------------
(* The mechanism between the snapshots.                                    *)

\* What a transition can be asked for.
LEMMA SpecShape ==
    ASSUME Asked, phase # "trained"
    PROVE  /\ spec.worldPre \in Nat \ {0} /\ spec.worldPost \in Nat \ {0}
           /\ spec.fault \in Faults /\ spec.kind \in Kinds
           /\ spec.kind # "harness" => spec.worldPost = spec.worldPre /\ spec.fault = "none"
<1>1. CASE spec \in HarnessSpecs
  BY <1>1, TransitionAssumption DEF HarnessSpecs, Kinds
<1>2. CASE spec \in StreamSpecs
  <2>1. PICK w \in Worlds :
          spec \in [kind : {"cell", "rank"}, worldPre : {w}, worldPost : {w},
                    layoutPre : {"shard"}, layoutPost : {"shard"}, fault : {"none"},
                    reseeds : SUBSET Ranks(w)]
    BY <1>2 DEF StreamSpecs
  <2> QED
    BY <2>1, TransitionAssumption DEF Kinds, Faults
<1> QED
  BY <1>1, <1>2 DEF Asked

\* The verified tensors, rows of numbers.
LEMMA VerifiedContent ==
    ASSUME IInv
    PROVE  /\ verified.params \in [Params -> Seq(Content)]
           /\ verified.moments \in [Params -> Seq(Content)]
<1>1. Values \subseteq Content
  BY TransitionAssumption DEF Content
<1>2. \A t : t \in Seq(Values) => t \in Seq(Content)
  <2>1. ASSUME NEW t \in Seq(Values) PROVE t \in Seq(Content)
    <3>1. Len(t) \in Nat /\ t \in [1 .. Len(t) -> Values]
      OBVIOUS
    <3>2. t \in [1 .. Len(t) -> Content]
      BY <1>1, <3>1
    <3> QED
      BY <3>1, <3>2
  <2> QED
    BY <2>1
<1>3. verified.params \in [Params -> Seq(Values)] /\ verified.moments \in [Params -> Seq(Values)]
  BY VerifiedTyped DEF IInv
<1> HIDE DEF Content
<1> QED
  BY <1>2, <1>3

\* Splitting and storing lose nothing.
LEMMA StoredIsWhole ==
    ASSUME Asked, phase # "trained", NEW t \in Seq(Content)
    PROVE  Stored(t) = t
<1>1. FullTensor([r \in Ranks(spec.worldPre) |-> Piece(t, spec.worldPre, r)], spec.worldPre) = t
  BY SpecShape, GathersBack
<1> QED
  BY <1>1 DEF Stored

LEMMA CheckpointedKept == MechanismInv /\ [Next]_vars => Checkpointed'
<1> SUFFICES ASSUME MechanismInv, [Next]_vars PROVE Checkpointed'
  OBVIOUS
<1>1. CASE Save
  <2>1. phase = "pre"
    BY <1>1 DEF Save
  <2>2. /\ verified.params \in [Params -> Seq(Content)]
        /\ verified.moments \in [Params -> Seq(Content)]
    BY VerifiedContent DEF MechanismInv
  <2>3. \A p \in Params : Stored(verified.params[p]) = verified.params[p]
                          /\ Stored(verified.moments[p]) = verified.moments[p]
    BY <2>1, <2>2, StoredIsWhole DEF MechanismInv
  <2>4. /\ [p \in Params |-> Stored(verified.params[p])] = verified.params
        /\ [p \in Params |-> Stored(verified.moments[p])] = verified.moments
    <3>1. /\ verified.params = [p \in Params |-> verified.params[p]]
          /\ verified.moments = [p \in Params |-> verified.moments[p]]
      BY <2>2
    <3>2. /\ [p \in Params |-> Stored(verified.params[p])] = [p \in Params |-> verified.params[p]]
          /\ [p \in Params |-> Stored(verified.moments[p])] = [p \in Params |-> verified.moments[p]]
      BY <2>3, Zenon
    <3> QED
      BY <3>1, <3>2, Zenon
  <2>5. ckpt' = [params |-> verified.params, moments |-> verified.moments,
                 steps |-> verified.steps, progress |-> verified.progress,
                 streams |-> [z \in {Slot(r) : r \in DOMAIN verified.streams} |->
                                verified.streams[z]]]
    BY <1>1, <2>4, Zenon DEF Save
  <2>6. verified' = verified /\ spec' = spec
    BY <1>1 DEF Save
  <2> QED
    BY <2>5, <2>6, Zenon DEF Checkpointed, Slot
<1>2. CASE ~Save
  <2>1. \/ phase' \notin {"saved", "loaded", "injected", "post", "decided"}
        \/ /\ phase \in {"saved", "loaded", "injected", "post", "decided"}
           /\ UNCHANGED <<verified, spec, ckpt>>
    BY <1>2 DEF Next, Begin, SnapshotPre, Load, LoadWrong, Inject, SnapshotPost, Certify,
                Proceed, vars
  <2>2. CASE phase' \notin {"saved", "loaded", "injected", "post", "decided"}
    BY <2>2 DEF Checkpointed
  <2>3. CASE /\ phase \in {"saved", "loaded", "injected", "post", "decided"}
             /\ UNCHANGED <<verified, spec, ckpt>>
    BY <2>3, Zenon DEF MechanismInv, Checkpointed, Slot
  <2> QED
    BY <2>1, <2>2, <2>3
<1> QED
  BY <1>1, <1>2

\* What a rank is handed is made of tensors again, and resembles itself.
LEMMA DeliveredShape ==
    ASSUME MechanismInv, phase \in {"saved", "loaded", "injected", "post", "decided"}, NEW r \in Nat
    PROVE  /\ Delivered(r).params \in [Params -> Seq(Content)]
           /\ Delivered(r) = [params |-> Delivered(r).params, moments |-> Delivered(r).moments,
                              steps |-> Delivered(r).steps, progress |-> Delivered(r).progress,
                              stream |-> Delivered(r).stream, dropped |-> Delivered(r).dropped,
                              swapped |-> Delivered(r).swapped]
           /\ \A harmed : Resembles(Delivered(r), Delivered(r), harmed)
<1>1. ckpt.params = verified.params
  BY DEF MechanismInv, Checkpointed
<1>2. spec.worldPost \in Nat \ {0}
  BY SpecShape DEF MechanismInv
<1>3. \A p \in Params : Local(ckpt.params[p], spec.layoutPost, spec.worldPost, r) \in Seq(Content)
  <2>1. ASSUME NEW t \in Seq(Content)
        PROVE  Local(t, spec.layoutPost, spec.worldPost, r) \in Seq(Content)
    BY <1>2, PieceFollows DEF Local
  <2> QED
    BY <1>1, <2>1, VerifiedContent DEF MechanismInv
<1>4. Delivered(r).params \in [Params -> Seq(Content)]
  <2>1. Delivered(r).params =
          [p \in Params |-> Local(ckpt.params[p], spec.layoutPost, spec.worldPost, r)]
    BY DEF Delivered
  <2> HIDE DEF Content
  <2> QED
    BY <1>3, <2>1
<1>5. \A harmed : Resembles(Delivered(r), Delivered(r), harmed)
  BY <1>4 DEF Resembles, Content
<1> QED
  BY <1>4, <1>5 DEF Delivered

LEMMA HeldKept == MechanismInv /\ [Next]_vars => Held'
<1> SUFFICES ASSUME MechanismInv, [Next]_vars PROVE Held'
  OBVIOUS
<1>1. CASE Load
  <2>1. phase = "saved" /\ phase' = "loaded" /\ UNCHANGED <<spec, ckpt, broken>>
    BY <1>1 DEF Load
  <2>2. ~broken
    BY <2>1 DEF MechanismInv, Held
  <2>3. loaded' = [r \in Ranks(spec.worldPost) |-> Delivered(r)]
    BY <1>1 DEF Load
  <2>4. \A r \in Ranks(spec.worldPost) : Resembles(Delivered(r), Delivered(r), "nothing")
    BY <2>1, DeliveredShape DEF Ranks
  <2>5. \A r : Delivered(r)' = Delivered(r)
    BY <2>1 DEF Delivered, Slot
  <2>6. Harmed' = "nothing"
    BY <2>1, <2>2 DEF Harmed
  <2>7. \A r \in DOMAIN loaded' : Resembles(loaded'[r], Delivered(r)', Harmed')
    BY <2>3, <2>4, <2>5, <2>6
  <2> QED
    BY <2>1, <2>2, <2>3, <2>7 DEF Held, Resembles
<1>2. CASE LoadWrong
  <2>1. /\ phase = "saved" /\ phase' = "loaded" /\ UNCHANGED <<spec, ckpt>> /\ broken' = TRUE
        /\ spec.kind = "harness" /\ spec.fault = "none"
    BY <1>2 DEF LoadWrong
  <2>2. PICK r \in Ranks(spec.worldPost), p \in Params :
          \E wrong \in [DOMAIN Delivered(r).params[p] -> Values] :
            loaded' = [s \in Ranks(spec.worldPost) |->
                         IF s = r THEN [Delivered(r) EXCEPT !.params[p] = wrong]
                         ELSE Delivered(s)]
    BY <1>2 DEF LoadWrong
  <2>3. PICK wrong \in [DOMAIN Delivered(r).params[p] -> Values] :
          loaded' = [s \in Ranks(spec.worldPost) |->
                       IF s = r THEN [Delivered(r) EXCEPT !.params[p] = wrong]
                       ELSE Delivered(s)]
    BY <2>2
  <2>4. \A s \in Ranks(spec.worldPost) : Resembles(Delivered(s), Delivered(s), "params")
    BY <2>1, DeliveredShape DEF Ranks
  <2>5. Resembles([Delivered(r) EXCEPT !.params[p] = wrong], Delivered(r), "params")
    <3>1. r \in Nat
      BY DEF Ranks
    <3>2. /\ Delivered(r).params \in [Params -> Seq(Content)]
          /\ Delivered(r) = [params |-> Delivered(r).params, moments |-> Delivered(r).moments,
                             steps |-> Delivered(r).steps, progress |-> Delivered(r).progress,
                             stream |-> Delivered(r).stream, dropped |-> Delivered(r).dropped,
                             swapped |-> Delivered(r).swapped]
      BY <2>1, <3>1, DeliveredShape
    <3>3. Delivered(r).params[p] \in Seq(Content)
      BY <3>2
    <3>4. wrong \in [DOMAIN Delivered(r).params[p] -> Content]
      BY TransitionAssumption DEF Content
    <3> HIDE DEF Content
    <3>5. wrong \in Seq(Content) /\ Len(wrong) = Len(Delivered(r).params[p])
      BY <3>3, <3>4, SameRows
    <3> QED
      BY <3>2, <3>5, Replaced
  <2>6. \A s : Delivered(s)' = Delivered(s)
    BY <2>1 DEF Delivered, Slot
  <2>7. Harmed' = "params"
    BY <2>1 DEF Harmed
  <2>8. \A s \in DOMAIN loaded' : Resembles(loaded'[s], Delivered(s)', Harmed')
    BY <2>3, <2>4, <2>5, <2>6, <2>7
  <2> QED
    BY <2>1, <2>3, <2>8 DEF Held, Resembles
<1>3. CASE Inject
  <2>1. phase = "loaded" /\ phase' = "injected" /\ UNCHANGED <<spec, ckpt, broken>>
    BY <1>3 DEF Inject
  <2>2. /\ DOMAIN loaded' = DOMAIN loaded
        /\ \A r \in DOMAIN loaded : loaded'[r] \in Faulty(spec.fault, loaded[r])
    BY <1>3 DEF Inject
  <2>3. /\ DOMAIN loaded = Ranks(spec.worldPost)
        /\ \A r \in DOMAIN loaded : Resembles(loaded[r], Delivered(r), Harmed)
        /\ broken => spec.kind = "harness" /\ spec.fault = "none"
    BY <2>1 DEF MechanismInv, Held
  <2>4. \A r : Delivered(r)' = Delivered(r)
    BY <2>1 DEF Delivered, Slot
  <2>5. CASE broken
    <3>1. Harmed = "params" /\ Harmed' = "params"
      BY <2>1, <2>5 DEF Harmed
    <3>2. \A r \in DOMAIN loaded : loaded'[r] = loaded[r]
      BY <2>2, <2>3, <2>5 DEF Faulty
    <3> QED
      BY <2>1, <2>2, <2>3, <2>4, <3>1, <3>2 DEF Held, Resembles
  <2>6. CASE ~broken
    <3>1. Harmed = "nothing" /\ Harmed' = HarmedBy(spec.fault)
      BY <2>1, <2>6 DEF Harmed, HarmedBy
    <3>2. \A r \in DOMAIN loaded : loaded[r] = Delivered(r)
      BY <2>3, <3>1 DEF Resembles
    <3>3. spec.fault \in Faults
      BY <2>1 DEF MechanismInv, Asked, HarnessSpecs, StreamSpecs, Faults
    <3>4. ASSUME NEW r \in DOMAIN loaded
          PROVE  Resembles(loaded'[r], Delivered(r), HarmedBy(spec.fault))
      <4>1. r \in Nat
        BY <2>3 DEF Ranks
      <4>2. /\ Delivered(r).params \in [Params -> Seq(Content)]
            /\ Delivered(r) = [params |-> Delivered(r).params, moments |-> Delivered(r).moments,
                               steps |-> Delivered(r).steps, progress |-> Delivered(r).progress,
                               stream |-> Delivered(r).stream, dropped |-> Delivered(r).dropped,
                               swapped |-> Delivered(r).swapped]
        BY <2>1, <4>1, DeliveredShape
      <4>3. loaded'[r] \in Faulty(spec.fault, Delivered(r))
        BY <2>2, <3>2
      <4> QED
        BY <3>3, <4>2, <4>3, FaultyResembles
    <3> QED
      BY <2>1, <2>2, <2>3, <2>4, <2>6, <3>1, <3>4 DEF Held, Resembles
  <2> QED
    BY <2>5, <2>6
<1>4. CASE SnapshotPost \/ Certify
  <2>1. /\ phase \in {"injected", "post"} /\ phase' \in {"post", "decided"}
        /\ UNCHANGED <<spec, ckpt, loaded, broken>>
    BY <1>4 DEF SnapshotPost, Certify
  <2>2. \A r : Delivered(r)' = Delivered(r)
    BY <2>1 DEF Delivered, Slot
  <2>3. Harmed' = Harmed
    <3>1. phase # "loaded" /\ phase' # "loaded" /\ spec' = spec /\ broken' = broken
      BY <2>1
    <3>2. Harmed = IF broken THEN "params" ELSE HarmedBy(spec.fault)
      BY <3>1 DEF Harmed
    <3>3. Harmed' = IF broken THEN "params" ELSE HarmedBy(spec.fault)
      BY <3>1 DEF Harmed
    <3> QED
      BY <3>2, <3>3
  <2>4. /\ DOMAIN loaded = Ranks(spec.worldPost)
        /\ \A r \in DOMAIN loaded : Resembles(loaded[r], Delivered(r), Harmed)
        /\ broken => spec.kind = "harness" /\ spec.fault = "none"
    BY <2>1 DEF MechanismInv, Held
  <2>5. \A r \in DOMAIN loaded' : Resembles(loaded'[r], Delivered(r)', Harmed')
    BY <2>1, <2>2, <2>3, <2>4
  <2> QED
    BY <2>1, <2>4, <2>5 DEF Held, Resembles
<1>5. CASE Begin \/ SnapshotPre \/ Save
  BY <1>5 DEF MechanismInv, Held, Begin, SnapshotPre, Save
<1>6. CASE Proceed
  BY <1>6 DEF Held, Proceed
<1>7. CASE UNCHANGED vars
  <2>1. UNCHANGED <<spec, ckpt, loaded, broken, phase>>
    BY <1>7 DEF vars
  <2>2. \A r : Delivered(r)' = Delivered(r)
    BY <2>1 DEF Delivered, Slot
  <2>3. Harmed' = Harmed
    BY <2>1 DEF Harmed, HarmedBy
  <2> QED
    BY <2>1, <2>2, <2>3 DEF MechanismInv, Held, Resembles
<1> QED
  BY <1>1, <1>2, <1>3, <1>4, <1>5, <1>6, <1>7 DEF Next

LEMMA AskedKept == MechanismInv /\ [Next]_vars => Asked'
<1> SUFFICES ASSUME MechanismInv, [Next]_vars PROVE Asked'
  OBVIOUS
<1>1. CASE Begin
  <2>1. CASE verified.streams = NoStreams
    BY <1>1, <2>1 DEF Begin, Asked, HarnessSpecs
  <2>2. CASE verified.streams # NoStreams
    <3>1. /\ spec' \in StreamSpecs /\ Ranks(spec'.worldPre) = DOMAIN verified.streams
          /\ verified' = verified
      BY <1>1, <2>2 DEF Begin
    <3> QED
      BY <3>1 DEF Asked, Ranks
  <2> QED
    BY <2>1, <2>2
<1>2. CASE Proceed
  BY <1>2 DEF Proceed, Asked
<1>3. CASE ~Begin /\ ~Proceed
  <2>1. UNCHANGED <<spec, verified>> /\ (phase' # "trained" => phase # "trained")
    BY <1>3 DEF Next, SnapshotPre, Save, Load, LoadWrong, Inject, SnapshotPost, Certify, vars
  <2> QED
    BY <2>1 DEF MechanismInv, Asked, Ranks
<1> QED
  BY <1>1, <1>2, <1>3

LEMMA DecidedKept == MechanismInv /\ [Next]_vars => Decided'
<1> SUFFICES ASSUME MechanismInv, [Next]_vars PROVE Decided'
  OBVIOUS
<1>1. CASE Certify
  BY <1>1 DEF Certify, Decided
<1>2. CASE ~Certify
  <2>1. \/ phase' # "decided"
        \/ UNCHANGED <<phase, decision, pre, post>>
    BY <1>2 DEF Next, Begin, SnapshotPre, Save, Load, LoadWrong, Inject, SnapshotPost, Proceed,
                vars
  <2> QED
    BY <2>1 DEF MechanismInv, Decided
<1> QED
  BY <1>1, <1>2

\* Splitting, storing, loading and faults of every kind: at each stage of a
\* transition the ranks hold what they were delivered, but for the one part
\* that something was done to.
THEOREM MechanismInvariance == Spec => []MechanismInv
<1>1. Init => MechanismInv
  BY InitIInv DEF Init, MechanismInv, Asked, Checkpointed, Held, Decided
<1>2. MechanismInv /\ [Next]_vars => MechanismInv'
  BY NextIInv, AskedKept, CheckpointedKept, HeldKept, DecidedKept DEF MechanismInv
<1> QED
  BY <1>1, <1>2, PTL DEF Spec
-----------------------------------------------------------------------------
(* What the certificate says of the mechanism.                             *)

\* Split tensors that gather to the same are split the same way.
LEMMA SameSplit ==
    ASSUME NEW S, NEW w \in Nat \ {0}, NEW a \in [Ranks(w) -> Seq(S)], NEW b \in [Ranks(w) -> Seq(S)],
           \A r \in Ranks(w) : Len(a[r]) = Len(b[r]),
           FullTensor(a, w) = FullTensor(b, w)
    PROVE  a = b
<1> DEFINE u == [k \in 1 .. w |-> a[k - 1]]
           v == [k \in 1 .. w |-> b[k - 1]]
<1>1. \A k \in 1 .. w : k - 1 \in Ranks(w)
  BY DEF Ranks
<1>2. u \in [1 .. w -> Seq(S)] /\ v \in [1 .. w -> Seq(S)] /\ \A k \in 1 .. w : Len(u[k]) = Len(v[k])
  BY <1>1
<1>3. FlattenSeq(u) = FlattenSeq(v)
  BY DEF FullTensor
<1> HIDE DEF u, v
<1>4. u = v
  <2>1. /\ u \in [1 .. w -> Seq(S)]
        /\ v \in [1 .. w -> Seq(S)]
    BY <1>2
  <2>2. \A k \in 1 .. w : Len(u[k]) = Len(v[k])
    BY <1>2
  <2> QED
    BY ONLY w \in Nat \ {0}, <1>3, <2>1, <2>2, FlattenInjective, ZenonT(40)
<1>5. ASSUME NEW r \in Ranks(w) PROVE a[r] = b[r]
  <2>1. r + 1 \in 1 .. w /\ (r + 1) - 1 = r
    BY DEF Ranks
  <2>2. u[r + 1] = a[r] /\ v[r + 1] = b[r]
    BY <2>1 DEF u, v
  <2> QED
    BY <1>4, <2>1, <2>2
<1> QED
  BY <1>5

\* What a commit says of the tensors that were gathered.
LEMMA CommittedParams ==
    ASSUME IInv, decision = "commit", spec.kind = "harness", NEW p \in Params
    PROVE  Materialized("params", p) = verified.params[p]
<1>1. Taken.params = verified.params
  BY CommittedHarness
<1>2. Taken.params = [q \in Params |-> Materialized("params", q)]
  BY DEF Taken
<1> QED
  BY <1>1, <1>2

\* Every rank of a committed group holds exactly its own rows.
LEMMA CertifiedPieces == MechanismInv => PiecesCertified
<1> SUFFICES ASSUME MechanismInv, decision = "commit", spec.kind = "harness",
                    NEW r \in DOMAIN loaded, NEW p \in Params,
                    Sharded(verified.params[p], spec.layoutPost, spec.worldPost)
             PROVE  loaded[r].params[p] = Piece(verified.params[p], spec.worldPost, r)
  BY DEF PiecesCertified
<1> DEFINE t == verified.params[p]
           w == spec.worldPost
           a == [s \in Ranks(w) |-> loaded[s].params[p]]
           b == [s \in Ranks(w) |-> Piece(t, w, s)]
<1>1. phase = "decided"
  BY DEF MechanismInv, IInv, Snapshotted
<1>2. /\ DOMAIN loaded = Ranks(w)
      /\ \A s \in Ranks(w) : Resembles(loaded[s], Delivered(s), Harmed)
  BY <1>1 DEF MechanismInv, Held
<1>3. ckpt.params = verified.params
  BY <1>1 DEF MechanismInv, Checkpointed
<1>4. w \in Nat \ {0}
  BY <1>1, SpecShape DEF MechanismInv
<1>5. t \in Seq(Content)
  BY VerifiedContent DEF MechanismInv
<1>6. FullTensor(a, w) = t
  <2>1. Materialized("params", p) = FullTensor([s \in DOMAIN loaded |-> loaded[s].params[p]], w)
    BY <1>3 DEF Materialized
  <2>2. Materialized("params", p) = t
    BY CommittedParams DEF MechanismInv
  <2> QED
    BY <1>2, <2>1, <2>2
<1> HIDE DEF w, t
<1>7. FullTensor(b, w) = t
  BY <1>4, <1>5, GathersBack
<1>8. ASSUME NEW s \in Ranks(w)
      PROVE  /\ loaded[s].params[p] \in Seq(Content) /\ Piece(t, w, s) \in Seq(Content)
             /\ Len(loaded[s].params[p]) = Len(Piece(t, w, s))
  <2>1. s \in Nat
    BY <1>4 DEF Ranks
  <2>2. Piece(t, w, s) \in Seq(Content)
    BY <1>4, <1>5, <2>1, PieceFollows
  <2>3. /\ loaded[s].params \in [Params -> Seq(Content)]
        /\ Len(loaded[s].params[p]) = Len(Delivered(s).params[p])
    BY <1>2 DEF Resembles, Content
  <2>4. Delivered(s).params[p] = Piece(t, w, s)
    BY <1>3 DEF Delivered, Local, t, w
  <2> HIDE DEF Content
  <2> QED
    BY <2>2, <2>3, <2>4
<1>9. a \in [Ranks(w) -> Seq(Content)] /\ b \in [Ranks(w) -> Seq(Content)]
      /\ \A s \in Ranks(w) : Len(a[s]) = Len(b[s])
  <2> HIDE DEF Content
  <2> QED
    BY <1>8
<1> HIDE DEF a, b
<1>10. a = b
  <2>1. FullTensor(a, w) = FullTensor(b, w)
    BY <1>6, <1>7
  <2>2. /\ a \in [Ranks(w) -> Seq(Content)]
        /\ b \in [Ranks(w) -> Seq(Content)]
    BY <1>9
  <2>3. \A s \in Ranks(w) : Len(a[s]) = Len(b[s])
    BY <1>9
  <2> QED
    BY ONLY <1>4, <2>1, <2>2, <2>3, SameSplit, ZenonT(40)
<1>11. a[r] = loaded[r].params[p] /\ b[r] = Piece(t, w, r)
  BY <1>2 DEF a, b
<1> QED
  BY <1>10, <1>11 DEF t, w

\* certify_transition compares what _materialize_full gathers on rank 0, and
\* that is enough: errors of two ranks never cancel out.
THEOREM PiecesAlwaysCertified == Spec => []PiecesCertified
  BY CertifiedPieces, MechanismInvariance, PTL

\* What check reports, by invariant.
LEMMA ViolationsNamed ==
    ASSUME NEW before, NEW after
    PROVE  /\ Violated(before, after) \subseteq Invariants
           /\ "param_residency" \in Violated(before, after) => ~ParamResidency(before, after)
           /\ "content_equivalence" \in Violated(before, after) => ~ContentEquivalence(before, after)
           /\ "optimizer_accounting" \in Violated(before, after) => ~OptimizerAccounting(before, after)
           /\ "progress_invariant" \in Violated(before, after) => ~ProgressInvariant(before, after)
           /\ "reduction_order_bound" \in Violated(before, after) => ~ReductionOrderBound(before, after)
           /\ "aux_stream_residency" \in Violated(before, after) => ~AuxStreamResidency(before, after)
<1>1. Violated(before, after) \subseteq Invariants
  BY DEF Violated
<1>2. "param_residency" \in Violated(before, after) => ~ParamResidency(before, after)
  BY DEF Violated
<1>3. "content_equivalence" \in Violated(before, after) => ~ContentEquivalence(before, after)
  BY DEF Violated
<1>4. "optimizer_accounting" \in Violated(before, after) => ~OptimizerAccounting(before, after)
  BY DEF Violated
<1>5. "progress_invariant" \in Violated(before, after) => ~ProgressInvariant(before, after)
  BY DEF Violated
<1>6. "reduction_order_bound" \in Violated(before, after) => ~ReductionOrderBound(before, after)
  BY DEF Violated
<1>7. "aux_stream_residency" \in Violated(before, after) => ~AuxStreamResidency(before, after)
  BY DEF Violated
<1> QED
  BY <1>1, <1>2, <1>3, <1>4, <1>5, <1>6, <1>7

\* What was neither harmed on the way nor split wrong is gathered whole.
LEMMA Gathered ==
    ASSUME MechanismInv, phase = "decided", NEW p \in Params
    PROVE  /\ Harmed # "params" => Materialized("params", p) = verified.params[p]
           /\ Harmed # "moments" => Materialized("moments", p) = verified.moments[p]
<1> DEFINE w == spec.worldPost
<1>1. /\ DOMAIN loaded = Ranks(w)
      /\ \A s \in Ranks(w) : Resembles(loaded[s], Delivered(s), Harmed)
  BY DEF MechanismInv, Held
<1>2. ckpt.params = verified.params /\ ckpt.moments = verified.moments
  BY DEF MechanismInv, Checkpointed
<1>3. w \in Nat \ {0}
  BY SpecShape DEF MechanismInv
<1>4. verified.params[p] \in Seq(Content) /\ verified.moments[p] \in Seq(Content)
  <2> HIDE DEF Content
  <2> QED
    BY VerifiedContent DEF MechanismInv
<1>5. 0 \in Ranks(w)
  BY <1>3 DEF Ranks
<1>6. ASSUME Harmed # "params" PROVE Materialized("params", p) = verified.params[p]
  <2> DEFINE t == verified.params[p]
  <2>1. \A s \in Ranks(w) : loaded[s].params[p] = Local(t, spec.layoutPost, w, s)
    <3>1. \A s \in Ranks(w) : loaded[s].params = Delivered(s).params
      BY <1>1, <1>6 DEF Resembles
    <3>2. \A s : Delivered(s).params[p] = Local(t, spec.layoutPost, w, s)
      BY <1>2 DEF Delivered
    <3> QED
      BY <3>1, <3>2
  <2>2. CASE Sharded(t, spec.layoutPost, w)
    <3>1. [s \in DOMAIN loaded |-> loaded[s].params[p]] = [s \in Ranks(w) |-> Piece(t, w, s)]
      BY <1>1, <2>1, <2>2 DEF Local
    <3>2. Materialized("params", p) = FullTensor([s \in DOMAIN loaded |-> loaded[s].params[p]], w)
      BY <1>2, <2>2 DEF Materialized
    <3> HIDE DEF t, w
    <3> QED
      BY <1>3, <1>4, <3>1, <3>2, GathersBack DEF t
  <2>3. CASE ~Sharded(t, spec.layoutPost, w)
    <3>1. Materialized("params", p) = loaded[0].params[p]
      BY <1>2, <2>3 DEF Materialized
    <3>2. Local(t, spec.layoutPost, w, 0) = t
      BY <2>3 DEF Local
    <3> HIDE DEF t, w
    <3> QED
      BY <1>5, <2>1, <3>1, <3>2 DEF t
  <2> QED
    BY <2>2, <2>3
<1>7. ASSUME Harmed # "moments" PROVE Materialized("moments", p) = verified.moments[p]
  <2> DEFINE t == verified.moments[p]
  <2>1. \A s \in Ranks(w) : loaded[s].moments[p] = Local(t, spec.layoutPost, w, s)
    <3>1. \A s \in Ranks(w) : loaded[s].moments = Delivered(s).moments
      BY <1>1, <1>7 DEF Resembles
    <3>2. \A s : Delivered(s).moments[p] = Local(t, spec.layoutPost, w, s)
      BY <1>2 DEF Delivered
    <3> QED
      BY <3>1, <3>2
  <2>2. CASE Sharded(t, spec.layoutPost, w)
    <3>1. [s \in DOMAIN loaded |-> loaded[s].moments[p]] = [s \in Ranks(w) |-> Piece(t, w, s)]
      BY <1>1, <2>1, <2>2 DEF Local
    <3>2. Materialized("moments", p) = FullTensor([s \in DOMAIN loaded |-> loaded[s].moments[p]], w)
      BY <1>2, <2>2 DEF Materialized
    <3> HIDE DEF t, w
    <3> QED
      BY <1>3, <1>4, <3>1, <3>2, GathersBack DEF t
  <2>3. CASE ~Sharded(t, spec.layoutPost, w)
    <3>1. Materialized("moments", p) = loaded[0].moments[p]
      BY <1>2, <2>3 DEF Materialized
    <3>2. Local(t, spec.layoutPost, w, 0) = t
      BY <2>3 DEF Local
    <3> HIDE DEF t, w
    <3> QED
      BY <1>5, <2>1, <3>1, <3>2 DEF t
  <2> QED
    BY <2>2, <2>3
<1> QED
  BY <1>6, <1>7

\* What is harmed is all that the certificate of a harness transition can
\* complain about.
LEMMA HarmShows ==
    ASSUME MechanismInv, phase = "decided", spec.kind = "harness"
    PROVE  /\ Harmed # "dropped" => ParamResidency(pre, post) /\ DOMAIN post.params = Params
           /\ Harmed # "params" /\ AllFinite => ContentEquivalence(pre, post)
           /\ Harmed \notin {"moments", "steps"} => OptimizerAccounting(pre, post)
           /\ Harmed # "progress" => ProgressInvariant(pre, post)
           /\ Harmed \notin {"dropped", "swapped"} => ReductionOrderBound(pre, post)
           /\ AuxStreamResidency(pre, post)
           /\ pre.params = verified.params
<1> DEFINE first == loaded[0]
           names == Params \ first.dropped
           ms == [p \in Params |-> Materialized("moments", p)]
<1>1. pre = SnapshotOfVerified /\ post = SnapshotOfLoaded
  BY DEF MechanismInv, IInv, Snapshotted
<1>2. Resembles(first, Delivered(0), Harmed)
  <2>1. spec.worldPost \in Nat \ {0}
    BY SpecShape DEF MechanismInv
  <2>2. 0 \in DOMAIN loaded /\ \A r \in DOMAIN loaded : Resembles(loaded[r], Delivered(r), Harmed)
    BY <2>1 DEF MechanismInv, Held, Ranks
  <2> QED
    BY <2>2
<1>3. /\ Delivered(0).dropped = {} /\ Delivered(0).swapped = FALSE
      /\ Delivered(0).steps = verified.steps /\ Delivered(0).progress = verified.progress
  BY DEF MechanismInv, Checkpointed, Delivered
<1>4. /\ pre.params = verified.params
      /\ pre.slots = Slots(verified.moments, verified.steps)
      /\ pre.progress = verified.progress
      /\ pre.order = SortedNames(DOMAIN verified.params)
      /\ pre.bound = Bound /\ pre.streams = NoStreams
  BY <1>1 DEF SnapshotOfVerified, HarnessSnapshot, Snapshot
<1>5. /\ post.params = [p \in names |-> Materialized("params", p)]
      /\ post.slots = Slots(ms, first.steps)
      /\ post.progress = first.progress
      /\ post.order = IF first.swapped THEN SwappedNames(names) ELSE SortedNames(names)
      /\ post.bound = Bound /\ post.streams = NoStreams
  BY <1>1 DEF SnapshotOfLoaded, HarnessSnapshot, Snapshot
<1>6. /\ verified.params = [p \in Params |-> verified.params[p]]
      /\ verified.moments = [p \in Params |-> verified.moments[p]]
      /\ DOMAIN verified.params = Params
  BY VerifiedTyped DEF MechanismInv, IInv
<1> HIDE DEF first, ms
<1>7. ASSUME Harmed # "dropped"
      PROVE  names = Params /\ ParamResidency(pre, post) /\ DOMAIN post.params = Params
  <2>1. first.dropped = {}
    BY <1>2, <1>3, <1>7 DEF Resembles
  <2> QED
    BY <1>4, <1>5, <1>6, <2>1 DEF ParamResidency
<1>8. ASSUME Harmed # "params", AllFinite PROVE ContentEquivalence(pre, post)
  <2>1. ASSUME NEW p \in DOMAIN pre.params \cap DOMAIN post.params
        PROVE  pre.params[p] = post.params[p] /\ Close(pre.params[p], post.params[p])
    <3>1. p \in Params /\ p \in names
      BY <1>4, <1>5, <1>6, <2>1
    <3>2. post.params[p] = verified.params[p]
      BY <1>5, <1>8, <3>1, Gathered
    <3>3. Finite(verified.params[p])
      BY <1>8, <3>1 DEF AllFinite
    <3> QED
      BY <1>4, <3>2, <3>3 DEF Close
  <2> QED
    BY <2>1 DEF ContentEquivalence
<1>9. ASSUME Harmed \notin {"moments", "steps"} PROVE OptimizerAccounting(pre, post)
  <2>1. first.steps = verified.steps
    BY <1>2, <1>3, <1>9 DEF Resembles
  <2>2. ms = verified.moments
    BY <1>6, <1>9, Gathered DEF ms
  <2>3. pre.slots = post.slots
    BY <1>4, <1>5, <2>1, <2>2
  <2> QED
    BY <2>3 DEF OptimizerAccounting
<1>10. ASSUME Harmed # "progress" PROVE ProgressInvariant(pre, post)
  BY <1>2, <1>3, <1>4, <1>5, <1>10 DEF Resembles, ProgressInvariant
<1>11. ASSUME Harmed \notin {"dropped", "swapped"} PROVE ReductionOrderBound(pre, post)
  <2>1. first.swapped = FALSE
    BY <1>2, <1>3, <1>11 DEF Resembles
  <2>2. names = Params
    BY <1>7, <1>11
  <2> QED
    BY <1>4, <1>5, <1>6, <2>1, <2>2 DEF ReductionOrderBound
<1>12. AuxStreamResidency(pre, post)
  BY <1>4, <1>5 DEF AuxStreamResidency
<1> QED
  BY <1>4, <1>7, <1>8, <1>9, <1>10, <1>11, <1>12

LEMMA FaultsShow == MechanismInv => FaultsAttributed
<1> SUFFICES ASSUME MechanismInv, phase = "decided", spec.kind = "harness", AllFinite
             PROVE  Violated(pre, post) \subseteq Families(spec.fault)
  BY DEF FaultsAttributed
<1> DEFINE V == Violated(pre, post)
<1>1. V \subseteq Invariants
  BY ViolationsNamed
<1>2. /\ "param_residency" \in V => Harmed = "dropped"
      /\ "content_equivalence" \in V => Harmed = "params"
      /\ "optimizer_accounting" \in V => Harmed \in {"moments", "steps"}
      /\ "progress_invariant" \in V => Harmed = "progress"
      /\ "reduction_order_bound" \in V => Harmed \in {"dropped", "swapped"}
      /\ "aux_stream_residency" \notin V
  BY ViolationsNamed, HarmShows
<1> HIDE DEF V
<1>3. spec.fault \in Faults
  BY DEF MechanismInv, Asked, HarnessSpecs, StreamSpecs, Faults
<1>4. broken => spec.fault = "none"
  BY DEF MechanismInv, Held
<1>5. Harmed = IF broken THEN "params" ELSE HarmedBy(spec.fault)
  BY DEF Harmed
<1>6. CASE spec.fault \in {"silent_unloaded_param", "value_corruption", "permuted_values",
                           "cross_param_overwrite", "precision_cast"}
  <2>1. Harmed = "params" /\ Families(spec.fault) = {"content_equivalence"}
    BY <1>4, <1>5, <1>6 DEF HarmedBy, Families
  <2> QED
    BY <1>1, <1>2, <2>1 DEF Invariants, V
<1>7. CASE spec.fault = "stale_optimizer_moment"
  <2>1. Harmed = "moments" /\ Families(spec.fault) = {"optimizer_accounting"}
    BY <1>4, <1>5, <1>7 DEF HarmedBy, Families
  <2> QED
    BY <1>1, <1>2, <2>1 DEF Invariants, V
<1>8. CASE spec.fault = "step_counter_reset"
  <2>1. Harmed = "steps" /\ Families(spec.fault) = {"optimizer_accounting"}
    BY <1>4, <1>5, <1>8 DEF HarmedBy, Families
  <2> QED
    BY <1>1, <1>2, <2>1 DEF Invariants, V
<1>9. CASE spec.fault = "progress_reset"
  <2>1. Harmed = "progress" /\ Families(spec.fault) = {"progress_invariant"}
    BY <1>4, <1>5, <1>9 DEF HarmedBy, Families
  <2> QED
    BY <1>1, <1>2, <2>1 DEF Invariants, V
<1>10. CASE spec.fault = "dropped_fqn"
  <2>1. Harmed = "dropped" /\ Families(spec.fault) = {"param_residency", "reduction_order_bound"}
    BY <1>4, <1>5, <1>10 DEF HarmedBy, Families
  <2> QED
    BY <1>1, <1>2, <2>1 DEF Invariants, V
<1>11. CASE spec.fault = "reduction_order_swap"
  <2>1. Harmed = "swapped" /\ Families(spec.fault) = {"reduction_order_bound"}
    BY <1>4, <1>5, <1>11 DEF HarmedBy, Families
  <2> QED
    BY <1>1, <1>2, <2>1 DEF Invariants, V
<1>12. CASE spec.fault = "none"
  <2>1. Harmed \in {"params", "nothing"} /\ Families(spec.fault) = {"content_equivalence"}
    BY <1>5, <1>12 DEF HarmedBy, Families
  <2> QED
    BY <1>1, <1>2, <2>1 DEF Invariants, V
<1> QED
  BY <1>3, <1>6, <1>7, <1>8, <1>9, <1>10, <1>11, <1>12 DEF Faults

\* test_each_fault_triggers_expected_invariant, for parameters, layouts and
\* groups of any size: a fault is never attributed to a family of invariants
\* that is not its own.
THEOREM FaultsAlwaysAttributed == Spec => []FaultsAttributed
  BY FaultsShow, MechanismInvariance, PTL
-----------------------------------------------------------------------------
(* What a transition without a fault comes to.                             *)

\* Nothing is harmed on the way.
LEMMA CleanHarness ==
    ASSUME MechanismInv, phase = "decided", Harmed = "nothing", spec.kind = "harness"
    PROVE  Violated(pre, post) = {} <=> AllFinite
<1>1. ASSUME AllFinite PROVE Violated(pre, post) = {}
  BY <1>1, HarmShows, ViolationsNamed DEF Invariants
<1>2. ASSUME Violated(pre, post) = {} PROVE AllFinite
  <2>1. ContentEquivalence(pre, post)
    BY <1>2, NothingViolated
  <2>2. DOMAIN post.params = Params /\ pre.params = verified.params /\ DOMAIN verified.params = Params
    BY HarmShows, VerifiedTyped DEF MechanismInv, IInv
  <2>3. \A p \in Params : Close(pre.params[p], post.params[p])
    BY <2>1, <2>2 DEF ContentEquivalence
  <2> QED
    BY <2>2, <2>3 DEF AllFinite, Close
<1> QED
  BY <1>1, <1>2

\* The streams of a clean experiment come back as the checkpoint's slots have
\* them.
LEMMA CleanStreams ==
    ASSUME MechanismInv, phase = "decided", Harmed = "nothing", spec.kind # "harness"
    PROVE  Violated(pre, post) = {} <=>
             \A r \in DOMAIN verified.streams \ spec.reseeds :
                verified.streams[r] = verified.streams[Slot(r)]
<1> DEFINE w == spec.worldPost
<1>1. pre = SnapshotOfVerified /\ post = StreamSnapshot(Painted(w), LoadedStreams, spec.reseeds)
  BY DEF MechanismInv, IInv, Snapshotted
<1>2. spec.worldPre = w /\ w \in Nat \ {0} /\ DOMAIN verified.streams = Ranks(w)
  <2>1. spec.worldPre = w /\ DOMAIN verified.streams = Ranks(w)
    BY DEF MechanismInv, Asked, HarnessSpecs, StreamSpecs
  <2> QED
    BY <2>1, SpecShape DEF MechanismInv
<1>3. /\ DOMAIN LoadedStreams = Ranks(w)
      /\ \A r \in Ranks(w) : LoadedStreams[r] = verified.streams[Slot(r)]
  <2>1. DOMAIN loaded = Ranks(w) /\ \A r \in DOMAIN loaded : Resembles(loaded[r], Delivered(r), Harmed)
    BY DEF MechanismInv, Held
  <2>2. \A r \in Ranks(w) : loaded[r].stream = Delivered(r).stream
    BY <2>1 DEF Resembles
  <2>3. ckpt.streams = [s \in {Slot(r) : r \in Ranks(w)} |-> verified.streams[s]]
    BY <1>2 DEF MechanismInv, Checkpointed
  <2>4. \A r \in Ranks(w) : Delivered(r).stream = verified.streams[Slot(r)]
    BY <2>3 DEF Delivered
  <2> QED
    BY <2>1, <2>2, <2>4 DEF LoadedStreams
<1>4. /\ pre.params = Painted(w) /\ pre.slots = [p \in {} |-> 0]
      /\ pre.progress = [global_step |-> 1] /\ pre.order = NoOrder /\ pre.bound = Bound
      /\ pre.streams = verified.streams /\ pre.reseeds = {}
  BY <1>1, <1>2 DEF SnapshotOfVerified, StreamSnapshot, Snapshot
<1>5. /\ post.params = Painted(w) /\ post.slots = [p \in {} |-> 0]
      /\ post.progress = [global_step |-> 1] /\ post.order = NoOrder /\ post.bound = Bound
      /\ post.streams = LoadedStreams /\ post.reseeds = spec.reseeds
  BY <1>1 DEF StreamSnapshot, Snapshot
<1>6. /\ ParamResidency(pre, post) /\ OptimizerAccounting(pre, post)
      /\ ProgressInvariant(pre, post) /\ ReductionOrderBound(pre, post)
  BY <1>4, <1>5 DEF ParamResidency, OptimizerAccounting, ProgressInvariant, ReductionOrderBound
<1>7. ContentEquivalence(pre, post)
  <2>1. ASSUME NEW r \in DOMAIN Painted(w) PROVE Close(Painted(w)[r], Painted(w)[r])
    <3>1. r \in Int /\ Painted(w)[r] = <<r, r>>
      BY <1>2 DEF Painted, Ranks
    <3>2. Finite(<<r, r>>)
      BY <3>1, NaNAssumption DEF Finite
    <3> QED
      BY <3>1, <3>2 DEF Close
  <2> QED
    BY <1>4, <1>5, <2>1 DEF ContentEquivalence
<1>8. AuxStreamResidency(pre, post) <=>
        \A r \in Ranks(w) \ spec.reseeds : verified.streams[r] = verified.streams[Slot(r)]
  BY <1>2, <1>3, <1>4, <1>5 DEF AuxStreamResidency
<1>9. Violated(pre, post) = {} <=> AuxStreamResidency(pre, post)
  BY <1>6, <1>7, NothingViolated, ViolationsNamed DEF Invariants
<1> QED
  BY <1>2, <1>8, <1>9

LEMMA CleanDecision == MechanismInv => CleanCommits
<1> SUFFICES ASSUME MechanismInv, phase = "decided", spec.fault = "none", ~broken
             PROVE  CleanCommits
  BY DEF CleanCommits
<1>1. Harmed = "nothing"
  BY DEF Harmed, HarmedBy
<1>2. decision = "commit" <=> Violated(pre, post) = {}
  BY DEF MechanismInv, Decided
<1>3. spec.kind \in {"harness", "cell", "rank"}
  BY DEF MechanismInv, Asked, HarnessSpecs, StreamSpecs
<1>4. CASE spec.kind = "harness"
  BY <1>1, <1>2, <1>4, CleanHarness DEF CleanCommits
<1>5. CASE spec.kind = "cell"
  BY <1>1, <1>2, <1>5, CleanStreams DEF CleanCommits, Slot
<1>6. CASE spec.kind = "rank"
  BY <1>1, <1>2, <1>6, CleanStreams DEF CleanCommits, Slot
<1> QED
  BY <1>3, <1>4, <1>5, <1>6

\* Between any two layouts and group sizes: a transition nothing went wrong
\* in commits, unless a parameter holds a NaN or ranks share a stream's slot.
THEOREM CleanAlwaysCommits == Spec => []CleanCommits
  BY CleanDecision, MechanismInvariance, PTL
=============================================================================
