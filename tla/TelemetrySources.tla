-------------------------- MODULE TelemetrySources --------------------------
(***************************************************************************)
(* The energy meters, one of three kinds per behaviour: MarginalEnergyMeter*)
(* and NvmlTelemetrySource integrate power from a polling thread that      *)
(* start and stop create and join; RaplTelemetrySource is polled by its    *)
(* callers and differences a counter that wraps.  stop waits two seconds   *)
(* for the thread and then abandons it, so a later start can leave two.    *)
(* Power is one or zero watts above the background, energy in watt-ticks.  *)
(***************************************************************************)
EXTENDS Integers, Sequences

CONSTANTS
    MaxTime,    \* bound: ticks of the clock
    MaxStarts,  \* bound: threads started
    MaxRange,   \* max_energy_range_uj, in watt-ticks
    Busy        \* the ticks in which the device draws a watt above the background

ASSUME SourcesAssumption ==
    /\ MaxTime \in Nat /\ MaxStarts \in Nat
    /\ MaxRange \in Nat \ {0}
    /\ Busy \subseteq 0 .. MaxTime

NoSample == -1
Kinds == {"marginal", "nvml", "rapl"}
Pollers == 1 .. MaxStarts
NoThread == 0

VARIABLES
    kind,         \* which source is in use
    now,          \* the monotonic clock
    stopping,     \* _stop_event
    thread,       \* _thread: a poller, or NoThread
    poller,       \* per thread: where it is in _run, its clock and power reads
    initialized,  \* _initialized: NVML is up
    lastTs,       \* _last_ts, _last_poll_ts
    energy,       \* _marginal_kwh, _energy_kwh, _cumulative_kwh
    trace,        \* _trace
    raplLast,     \* _last_energy_uj
    client,       \* "ready", or "joining" inside stop
    drawn,        \* energy the package has drawn (its counter shows it modulo MaxRange)
    due,          \* ticks in which the source may bill (history)
    firstDrawn,   \* drawn at the first RAPL sample (history)
    lastDrawn,    \* drawn at the last one (history)
    missed,       \* a poll came a whole MaxRange after the last (history)
    abandoned     \* a join timed out (history)

pollVars == <<lastTs, energy, trace>>
raplVars == <<raplLast, drawn, firstDrawn, lastDrawn, missed>>
threadVars == <<stopping, thread, initialized, client, abandoned>>
sourceVars == <<kind, now, due, poller, pollVars, raplVars, threadVars>>

Places == {"unborn", "check", "clock", "power", "gone"}
Alive(p) == poller[p].pc \in {"check", "clock", "power"}

SourcesInit ==
    /\ kind \in Kinds
    /\ now = 0 /\ due = 0
    /\ stopping = FALSE /\ thread = NoThread /\ initialized = FALSE
    /\ poller = [p \in Pollers |-> [pc |-> "unborn", at |-> NoSample, w |-> 0]]
    /\ lastTs = NoSample /\ energy = 0 /\ trace = <<>>
    /\ raplLast = NoSample /\ drawn \in 0 .. MaxRange - 1
    /\ firstDrawn = 0 /\ lastDrawn = 0 /\ missed = FALSE
    /\ client = "ready" /\ abandoned = FALSE

\* The clock moves; a package may draw a watt meanwhile.  A marginal meter may
\* bill the ticks in which it has a poller, an NVML source those since its
\* first start.
Tick ==
    /\ now < MaxTime
    /\ now' = now + 1
    /\ \E w \in 0 .. 1 : drawn' = IF kind = "rapl" THEN drawn + w ELSE drawn
    /\ due' = IF \/ kind = "marginal" /\ \E p \in Pollers : Alive(p)
                 \/ kind = "nvml" /\ \E p \in Pollers : poller[p].pc # "unborn"
              THEN due + 1 ELSE due
    /\ UNCHANGED <<kind, poller, pollVars, raplLast, firstDrawn, lastDrawn, missed, threadVars>>
-----------------------------------------------------------------------------
\* Mutant: start keeps the time of the last sample, as the NVML source does.
StartKeepingLast(p) ==
    /\ kind # "rapl" /\ client = "ready"
    /\ IF thread = NoThread THEN TRUE ELSE ~Alive(thread)
    /\ poller[p].pc = "unborn" /\ \A q \in 1 .. p - 1 : poller[q].pc # "unborn"
    /\ initialized' = TRUE /\ stopping' = FALSE /\ thread' = p
    /\ poller' = [poller EXCEPT ![p] = [pc |-> "check", at |-> NoSample, w |-> 0]]
    /\ UNCHANGED <<kind, now, due, lastTs, energy, trace, raplVars, client, abandoned>>

\* start: NVML up, the event cleared, a new thread, unless one is alive.  The
\* marginal meter forgets its last sample, the NVML source keeps it.
Start(p) ==
    /\ kind # "rapl" /\ client = "ready"
    /\ IF thread = NoThread THEN TRUE ELSE ~Alive(thread)
    /\ poller[p].pc = "unborn" /\ \A q \in 1 .. p - 1 : poller[q].pc # "unborn"
    /\ initialized' = TRUE /\ stopping' = FALSE /\ thread' = p
    /\ poller' = [poller EXCEPT ![p] = [pc |-> "check", at |-> NoSample, w |-> 0]]
    /\ lastTs' = IF kind = "marginal" THEN NoSample ELSE lastTs
    /\ UNCHANGED <<kind, now, due, energy, trace, raplVars, client, abandoned>>

\* stop sets the event and joins the thread; without one it changes nothing
\* that a start does not reset.
BeginStop ==
    /\ client = "ready" /\ thread # NoThread
    /\ stopping' = TRUE
    /\ client' = "joining"
    /\ UNCHANGED <<kind, now, due, poller, pollVars, raplVars, thread, initialized, abandoned>>

\* The thread has ended, or the two seconds are over: either way it is
\* forgotten and NVML is shut down.
EndStop(inTime) ==
    /\ client = "joining"
    /\ inTime <=> ~Alive(thread)
    /\ thread' = NoThread /\ initialized' = FALSE /\ client' = "ready"
    /\ abandoned' = (abandoned \/ ~inTime)
    /\ UNCHANGED <<kind, now, due, poller, pollVars, raplVars, stopping>>
-----------------------------------------------------------------------------
\* _run waits for a poll interval, one tick, or for the event, and looks at
\* the event; _poll_once begins with the clock, outside the lock.
CheckStop(p) ==
    /\ poller[p].pc = "check"
    /\ stopping \/ now > poller[p].at
    /\ poller' = [poller EXCEPT ![p] =
           IF stopping THEN [pc |-> "gone", at |-> NoSample, w |-> 0]
                       ELSE [pc |-> "clock", at |-> now, w |-> 0]]
    /\ UNCHANGED <<kind, now, due, pollVars, raplVars, threadVars>>

\* NVML is asked for the power; shut down, it raises, the poll is logged and
\* given up, and the loop waits for its next turn.
ReadPower(p) ==
    /\ poller[p].pc = "clock"
    /\ poller' = [poller EXCEPT ![p] =
           IF initialized
           THEN [pc |-> "power", at |-> poller[p].at, w |-> IF now \in Busy THEN 1 ELSE 0]
           ELSE [pc |-> "check", at |-> poller[p].at, w |-> 0]]
    /\ UNCHANGED <<kind, now, due, pollVars, raplVars, threadVars>>

\* The slice since the last sample, never negative; none before the first.
Slice(p) ==
    IF lastTs = NoSample \/ poller[p].at < lastTs THEN 0 ELSE poller[p].at - lastTs

\* Under the lock: the sample is recorded and its slice added.
Integrate(p) ==
    /\ poller[p].pc = "power"
    /\ energy' = energy + (IF poller[p].w = 1 THEN Slice(p) ELSE 0)
    /\ lastTs' = poller[p].at
    /\ trace' = IF kind = "marginal"
                THEN Append(trace, [t |-> poller[p].at, w |-> poller[p].w]) ELSE trace
    /\ poller' = [poller EXCEPT ![p] = [pc |-> "check", at |-> poller[p].at, w |-> 0]]
    /\ UNCHANGED <<kind, now, due, raplVars, threadVars>>
-----------------------------------------------------------------------------
\* A reading below the last one means that the counter wrapped.
Delta(reading) ==
    IF reading < raplLast THEN reading - raplLast + MaxRange ELSE reading - raplLast

\* RaplTelemetrySource.poll, by any thread: the counter is read inside the lock.
RaplPoll ==
    /\ kind = "rapl"
    /\ raplLast' = drawn % MaxRange
    /\ energy' = IF raplLast = NoSample THEN energy ELSE energy + Delta(drawn % MaxRange)
    /\ firstDrawn' = IF raplLast = NoSample THEN drawn ELSE firstDrawn
    /\ lastDrawn' = drawn
    /\ missed' = (missed \/ (raplLast # NoSample /\ drawn - lastDrawn >= MaxRange))
    /\ UNCHANGED <<kind, now, due, poller, lastTs, trace, drawn, threadVars>>
=============================================================================
