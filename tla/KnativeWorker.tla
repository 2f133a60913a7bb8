--------------------------- MODULE KnativeWorker ----------------------------
(***************************************************************************)
(* The worker container's HTTP server: /work and /reshard run in threads   *)
(* that share the record TIMESTAMPS with no lock.  The first request to    *)
(* find no init stamp initialises CUDA; every stamp is a check and then a  *)
(* write, and the request counter a read and then a write.                 *)
(***************************************************************************)
EXTENDS Integers, Sequences, FiniteSets

CONSTANTS
    Requests,   \* the requests, each handled by a thread of its own
    Endpoints,  \* what each asks for: "work" or "reshard"
    MaxOffset   \* bound: ticks since the container started

ASSUME WorkerAssumption ==
    /\ Endpoints \in [Requests -> {"work", "reshard"}]
    /\ MaxOffset \in Nat

NoStamp == -1
Kind == {"work", "reshard"}

VARIABLES
    offset,        \* _offset_now()
    at,            \* where each request's handler is
    received,      \* received_offset of each request
    completed,     \* completed_offset of each request
    readCount,     \* the counter each request has read
    initStamp,     \* cuda_init_complete_offset_s
    firstReceived, \* first_work_request_received_offset_s, and of reshard
    firstCompleted,\* first_work_request_completed_offset_s, and of reshard
    count,         \* work_request_count, reshard_count
    history        \* work_request_history, reshard_history

workerVars == <<offset, at, received, completed, readCount, initStamp,
                firstReceived, firstCompleted, count, history>>

WorkerInit ==
    /\ offset = 0 /\ initStamp = NoStamp
    /\ at = [r \in Requests |-> "waiting"]
    /\ received = [r \in Requests |-> NoStamp]
    /\ completed = [r \in Requests |-> NoStamp]
    /\ readCount = [r \in Requests |-> 0]
    /\ firstReceived = [k \in Kind |-> NoStamp]
    /\ firstCompleted = [k \in Kind |-> NoStamp]
    /\ count = [k \in Kind |-> 0]
    /\ history = [k \in Kind |-> <<>>]

Goes(r, from, to) == at[r] = from /\ at' = [at EXCEPT ![r] = to]

Pass ==
    /\ offset < MaxOffset /\ offset' = offset + 1
    /\ UNCHANGED <<at, received, completed, readCount, initStamp, firstReceived,
                   firstCompleted, count, history>>

\* The handler reads the clock ...
Receive(r) ==
    /\ Goes(r, "waiting", "received")
    /\ received' = [received EXCEPT ![r] = offset]
    /\ UNCHANGED <<offset, completed, readCount, initStamp, firstReceived, firstCompleted,
                   count, history>>

\* ... sees whether an earlier request has been stamped ...
CheckFirst(r) ==
    /\ Goes(r, "received", IF firstReceived[Endpoints[r]] = NoStamp THEN "unseen" ELSE "init")
    /\ UNCHANGED <<offset, received, completed, readCount, initStamp, firstReceived,
                   firstCompleted, count, history>>

\* ... and stamps its own clock if none was.
StampFirst(r) ==
    /\ Goes(r, "unseen", "init")
    /\ firstReceived' = [firstReceived EXCEPT ![Endpoints[r]] = received[r]]
    /\ UNCHANGED <<offset, received, completed, readCount, initStamp, firstCompleted,
                   count, history>>

\* Mutant: the init is marked complete when it begins.
CheckInitEager(r) ==
    /\ Goes(r, "init", IF initStamp = NoStamp THEN "spinning" ELSE "working")
    /\ initStamp' = IF initStamp = NoStamp THEN offset ELSE initStamp
    /\ UNCHANGED <<offset, received, completed, readCount, firstReceived, firstCompleted,
                   count, history>>

\* _mock_cuda_init_once: no stamp yet, and this thread spins ...
CheckInit(r) ==
    /\ Goes(r, "init", IF initStamp = NoStamp THEN "spinning" ELSE "working")
    /\ UNCHANGED <<offset, received, completed, readCount, initStamp, firstReceived,
                   firstCompleted, count, history>>

\* ... and stamps, whoever has stamped meanwhile.
Initialised(r) ==
    /\ Goes(r, "spinning", "working")
    /\ initStamp' = offset
    /\ UNCHANGED <<offset, received, completed, readCount, firstReceived, firstCompleted,
                   count, history>>

\* The work is done; the handler reads the clock.
Complete(r) ==
    /\ Goes(r, "working", "done")
    /\ completed' = [completed EXCEPT ![r] = offset]
    /\ UNCHANGED <<offset, received, readCount, initStamp, firstReceived, firstCompleted,
                   count, history>>

CheckLast(r) ==
    /\ Goes(r, "done", IF firstCompleted[Endpoints[r]] = NoStamp THEN "unfinished" ELSE "counting")
    /\ UNCHANGED <<offset, received, completed, readCount, initStamp, firstReceived,
                   firstCompleted, count, history>>

StampLast(r) ==
    /\ Goes(r, "unfinished", "counting")
    /\ firstCompleted' = [firstCompleted EXCEPT ![Endpoints[r]] = completed[r]]
    /\ UNCHANGED <<offset, received, completed, readCount, initStamp, firstReceived,
                   count, history>>

\* The counter is read, then written one higher; the record is appended.
ReadCount(r) ==
    /\ Goes(r, "counting", "counted")
    /\ readCount' = [readCount EXCEPT ![r] = count[Endpoints[r]]]
    /\ UNCHANGED <<offset, received, completed, initStamp, firstReceived, firstCompleted,
                   count, history>>

WriteCount(r) ==
    /\ Goes(r, "counted", "recording")
    /\ count' = [count EXCEPT ![Endpoints[r]] = readCount[r] + 1]
    /\ UNCHANGED <<offset, received, completed, readCount, initStamp, firstReceived,
                   firstCompleted, history>>

Record(r) ==
    /\ Goes(r, "recording", "answered")
    /\ history' = [history EXCEPT ![Endpoints[r]] = Append(@, r)]
    /\ UNCHANGED <<offset, received, completed, readCount, initStamp, firstReceived,
                   firstCompleted, count>>

Handle(r) ==
    \/ Receive(r) \/ CheckFirst(r) \/ StampFirst(r) \/ CheckInit(r) \/ Initialised(r)
    \/ Complete(r) \/ CheckLast(r) \/ StampLast(r) \/ ReadCount(r) \/ WriteCount(r) \/ Record(r)
=============================================================================
