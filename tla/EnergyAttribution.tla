------------------------- MODULE EnergyAttribution --------------------------
(***************************************************************************)
(* A ledger on a running meter: the client starts and stops the meter and  *)
(* marks the phases of its pod, reading the clock and then the meter's     *)
(* running total, while the poller keeps integrating.                      *)
(***************************************************************************)
EXTENDS TelemetrySources, PodLedger

CONSTANT MaxMarks   \* bound: marks of the ledger

ASSUME MarksAssumption == MaxMarks \in Nat

VARIABLES
    marks,    \* _marks
    marking,  \* the clock read of the mark under way, or NoSample
    sampled   \* per mark: the samples its reading of the meter included (history)

vars == <<sourceVars, marks, marking, sampled>>

Init == SourcesInit /\ marks = <<>> /\ marking = NoSample /\ sampled = <<>>

\* mark reads the clock ...  A bound: nothing is marked once a thread has
\* been abandoned.
BeginMark ==
    /\ client = "ready" /\ Len(marks) < MaxMarks /\ ~abandoned
    /\ marking = NoSample
    /\ marking' = now
    /\ UNCHANGED <<sourceVars, marks, sampled>>

\* ... and then the meter.
EndMark ==
    /\ marking # NoSample
    /\ marks' = Append(marks, [t |-> marking, e |-> energy])
    /\ marking' = NoSample
    /\ sampled' = Append(sampled, Len(trace))
    /\ UNCHANGED sourceVars

\* The client is one thread: it starts or stops nothing inside mark.
Next ==
    \/ BeginMark \/ EndMark
    \/ /\ UNCHANGED <<marks, marking, sampled>>
       /\ \/ marking = NoSample /\ (BeginStop \/ \E p \in Pollers : Start(p))
          \/ Tick \/ RaplPoll
          \/ \E inTime \in BOOLEAN : EndStop(inTime)
          \/ \E p \in Pollers : CheckStop(p) \/ ReadPower(p) \/ Integrate(p)

Spec == Init /\ [][Next]_vars
-----------------------------------------------------------------------------
\* Where each source's energy may come from.  A meter whose threads all ended
\* when stop joined them bills no tick twice and none outside its time: the
\* marginal meter none in which it was stopped.  A RAPL source polled at least
\* once per range of the counter bills every watt, however often it wrapped.
NotOverbilled ==
    IF kind = "rapl" THEN ~missed => energy = lastDrawn - firstDrawn
                     ELSE ~abandoned => energy <= due

\* A marginal meter that was started once at most.
FirstLife == kind = "marginal" /\ ~abandoned /\ \A p \in Pollers : p > 1 => poller[p].pc = "unborn"

\* The time of the last sample in the k-th mark's reading, of the first one
\* when the meter had none yet.
ReadUpTo(k) == trace[AtLeast(1, sampled[k])].t

\* How far the k-th mark's reading of the meter is ahead of its timestamp: what
\* the trace bills from the one to the other, negative when it lags behind.  The
\* reading that seals a report is not ahead, as the trace ends with it.
Ahead(k) ==
    IF k > Len(marks) THEN 0
    ELSE MarginalFromTrace(trace, marks[k].t, ReadUpTo(k))
         - MarginalFromTrace(trace, ReadUpTo(k), marks[k].t)

\* The two reports give every interval the same energy but for how far the
\* readings at its two ends are ahead of their timestamps; so they agree on an
\* interval whose marks fall on samples.  And a reading lags by one sample at
\* most: of those it lacks, only the first may be older than the timestamp.
LedgersAgree ==
    FirstLife /\ trace # <<>> =>
        \A k \in 1 .. Len(marks) :
            /\ Report(marks, energy)[k] - ReportFromTrace(marks, trace)[k] = Ahead(k + 1) - Ahead(k)
            /\ \A i \in sampled[k] + 2 .. Len(trace) : marks[k].t <= trace[i].t
-----------------------------------------------------------------------------
Sample == [t : Int, w : 0 .. 1]
Poller == [pc : Places, at : Int, w : 0 .. 1]

TypeOK ==
    /\ kind \in Kinds /\ now \in Nat /\ due \in Nat /\ energy \in Nat
    /\ stopping \in BOOLEAN /\ initialized \in BOOLEAN
    /\ missed \in BOOLEAN /\ abandoned \in BOOLEAN
    /\ client \in {"ready", "joining"}
    /\ thread \in Pollers \cup {NoThread}
    /\ poller \in [Pollers -> Poller]
    /\ lastTs \in Int /\ trace \in Seq(Sample)
    /\ raplLast \in {NoSample} \cup 0 .. MaxRange - 1
    /\ drawn \in Nat /\ firstDrawn \in Nat /\ lastDrawn \in Nat
    /\ marks \in Seq(LedgerMark) /\ marking \in Int /\ sampled \in Seq(Nat)

\* Only the thread that start remembers is alive, and RAPL has none.
OneThread ==
    \A p \in Pollers :
        /\ ~abandoned /\ Alive(p) => p = thread
        /\ kind = "rapl" => poller[p].pc = "unborn"

\* A poll's clock is between the last sample and now; what has been billed and
\* the time since the last sample fit in the time that may be billed.
Running == kind = "nvml" \/ \E p \in Pollers : Alive(p)

Billed ==
    /\ \A p \in Pollers : poller[p].pc \in {"clock", "power"} => poller[p].at <= now
    /\ ~abandoned =>
         /\ kind # "rapl" => energy <= due
         /\ \A p \in Pollers : poller[p].pc \in {"clock", "power"} =>
              lastTs <= poller[p].at /\ energy + (now - poller[p].at) <= due
         /\ lastTs <= now
         /\ Running /\ lastTs # NoSample => energy + (now - lastTs) <= due
    /\ kind = "nvml" /\ lastTs # NoSample => \E p \in Pollers : poller[p].pc # "unborn"

\* The counter's last reading, and what its readings add up to.
Counted ==
    IF raplLast = NoSample
    THEN /\ kind = "rapl" => energy = 0
         /\ ~missed /\ lastDrawn = firstDrawn
    ELSE /\ kind = "rapl"
         /\ raplLast = lastDrawn % MaxRange /\ lastDrawn <= drawn
         /\ ~missed => energy = lastDrawn - firstDrawn

\* The marks are in the order of the clock and of the meter.
MarksInOrder ==
    /\ \A i \in 1 .. Len(marks) :
         /\ marks[i].t <= now /\ marks[i].e <= energy
         /\ marking # NoSample => marks[i].t <= marking
         /\ \A j \in 1 .. i : marks[j].t <= marks[i].t /\ marks[j].e <= marks[i].e
    /\ marking <= now

\* Through the first life of a marginal meter its trace is in the order of time,
\* ends with the last sample, and sums to what the meter integrated.
Slices == [i \in 1 .. Len(trace) - 1 |-> trace[i + 1].w * (trace[i + 1].t - trace[i].t)]

Traced ==
    /\ \A p \in Pollers : poller[p].pc \in {"clock", "power"} => poller[p].at \in Nat
    /\ FirstLife =>
         /\ \A i \in 1 .. Len(trace) :
              trace[i].t >= 0 /\ \A j \in 1 .. i : trace[j].t <= trace[i].t
         /\ lastTs = IF trace = <<>> THEN NoSample ELSE trace[Len(trace)].t
         /\ energy = Total(Slices, Len(trace) - 1)
         /\ (\A p \in Pollers : poller[p].pc = "unborn") => trace = <<>>

\* A mark's reading is what its samples integrated.  Once a sample has come
\* after it, whatever is polled is younger than the mark's timestamp.
Sampled ==
    /\ Len(sampled) = Len(marks)
    /\ FirstLife => \A k \in 1 .. Len(marks) :
         /\ sampled[k] <= Len(trace)
         /\ marks[k].e = Total(Slices, sampled[k] - 1)
         /\ \A i \in sampled[k] + 2 .. Len(trace) : marks[k].t <= trace[i].t
         /\ sampled[k] < Len(trace) => \A p \in Pollers :
              poller[p].pc \in {"clock", "power"} => marks[k].t <= poller[p].at

IInv == TypeOK /\ OneThread /\ Billed /\ Counted /\ MarksInOrder /\ Traced /\ Sampled
=============================================================================
