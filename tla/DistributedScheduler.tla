-------------------------- MODULE DistributedScheduler --------------------------
(***************************************************************************)
(* One scheduled job on several scheduler processes, which keep each other *)
(* from running it at the same time by a lock in Redis.                    *)
(*                                                                         *)
(* Time is discrete: a timer fires when it is due, a handler takes as long *)
(* as it likes, and the lock lives for twice the interval.  A run of the   *)
(* job has one step per Redis call.                                        *)
(*                                                                         *)
(* Operators named <definition>_<fault> are variants of the definition that *)
(* follows them with a plausible bug; no specification uses them.          *)
(***************************************************************************)
EXTENDS Naturals

CONSTANTS
    Instances,   \* scheduler processes
    Runs,        \* runs of the job that can be in progress at once
    NoRun,       \* the key is not in Redis
    Interval,    \* intervalMs
    MaxStarts,   \* bound: processes that are started, and started again
    MaxFailures  \* bound: processes that die and Redis calls that fail

ASSUME SchedulerAssumption ==
    /\ Instances # {}
    /\ NoRun \notin Runs /\ Interval \in Nat \ {0}
    /\ MaxStarts \in Nat /\ MaxFailures \in Nat

VARIABLES
    lock,      \* the run that wrote the key: its value is unique to the run
    ttl,       \* what is left of the key's time to live
    timer,     \* time until an instance's interval fires; started when it is below it
    up,        \* instances whose timers run
    run,
    stray,     \* history: a lock expired after its owner was read and before the delete
    starts, failures

schedulerVars == <<lock, ttl, timer, up, run, stray, starts, failures>>

-----------------------------------------------------------------------------
LockDuration == 2 * Interval

\* late: the lock expired under this run.
RunRows == [pc : {"idle", "acquire", "job", "get", "del"}, inst : Instances, late : BOOLEAN]

NotRunning == [pc |-> "idle", inst |-> CHOOSE i \in Instances : TRUE, late |-> FALSE]

AtRun(r, label)   == run[r].pc = label
Goto(r, label) == run' = [run EXCEPT ![r].pc = label]
End(r)         == run' = [run EXCEPT ![r] = NotRunning]
Failure        == failures < MaxFailures /\ failures' = failures + 1

SchedulerInit ==
    /\ lock = NoRun /\ ttl = 0 /\ stray = FALSE /\ starts = 0 /\ failures = 0
    /\ timer = [i \in Instances |-> 0]
    /\ up = {}
    /\ run = [r \in Runs |-> NotRunning]

-----------------------------------------------------------------------------
\* startScheduledJobs runs every job at once, then at each interval.
Start(i) ==
    /\ i \notin up /\ starts < MaxStarts
    /\ starts' = starts + 1
    /\ up' = up \cup {i}
    /\ timer' = [timer EXCEPT ![i] = 0]
    /\ UNCHANGED <<lock, ttl, run, stray, failures>>

\* stopScheduledJobs clears the interval; a run in progress goes on.
Stop(i) ==
    /\ i \in up
    /\ up' = up \ {i}
    /\ UNCHANGED <<lock, ttl, timer, run, stray, starts, failures>>

\* executeJob: also while an earlier run of the same process goes on.
Fire(i) ==
    /\ i \in up /\ timer[i] = 0
    /\ timer' = [timer EXCEPT ![i] = Interval]
    /\ \E r \in Runs : AtRun(r, "idle")
    /\ LET r == CHOOSE r \in Runs : AtRun(r, "idle") IN
       run' = [run EXCEPT ![r] = [pc |-> "acquire", inst |-> i, late |-> FALSE]]
    /\ UNCHANGED <<lock, ttl, up, stray, starts, failures>>

\* acquireLock: SET key value PX NX.
Acquire_NoPx(r) ==
    /\ AtRun(r, "acquire")
    /\ IF lock = NoRun THEN lock' = r /\ Goto(r, "job") ELSE End(r) /\ UNCHANGED lock
    /\ UNCHANGED <<ttl, timer, up, stray, starts, failures>>
Acquire(r) ==
    /\ AtRun(r, "acquire")
    /\ IF lock = NoRun
       THEN lock' = r /\ ttl' = LockDuration /\ Goto(r, "job")
       ELSE End(r) /\ UNCHANGED <<lock, ttl>>
    /\ UNCHANGED <<timer, up, stray, starts, failures>>

\* An error counts as not acquired.
AcquireFails(r) ==
    /\ AtRun(r, "acquire") /\ Failure
    /\ End(r)
    /\ UNCHANGED <<lock, ttl, timer, up, stray, starts>>

\* The handler returns, or it throws and the lock is left to expire.
JobReturns(r) ==
    /\ AtRun(r, "job")
    /\ Goto(r, "get")
    /\ UNCHANGED <<lock, ttl, timer, up, stray, starts, failures>>

JobThrows(r) ==
    /\ AtRun(r, "job")
    /\ End(r)
    /\ UNCHANGED <<lock, ttl, timer, up, stray, starts, failures>>

\* releaseLock: the owner is read, ...
ReadOwner_Ignored(r) ==
    /\ AtRun(r, "get")
    /\ Goto(r, "del")
    /\ UNCHANGED <<lock, ttl, timer, up, stray, starts, failures>>
ReadOwner(r) ==
    /\ AtRun(r, "get")
    /\ IF lock = r THEN Goto(r, "del") ELSE End(r)
    /\ UNCHANGED <<lock, ttl, timer, up, stray, starts, failures>>

\* ... and then the key is deleted, whosever it is by now.
DeleteLock(r) ==
    /\ AtRun(r, "del")
    /\ lock' = NoRun /\ ttl' = 0
    /\ End(r)
    /\ UNCHANGED <<timer, up, stray, starts, failures>>

\* Either call fails: the lock stays.
ReleaseFails(r) ==
    /\ run[r].pc \in {"get", "del"} /\ Failure
    /\ End(r)
    /\ UNCHANGED <<lock, ttl, timer, up, stray, starts>>

\* A process dies with its timers and runs.
Dies(i) ==
    /\ Failure
    /\ up' = up \ {i}
    /\ run' = [r \in Runs |-> IF run[r].inst = i THEN NotRunning ELSE run[r]]
    /\ UNCHANGED <<lock, ttl, timer, stray, starts>>

\* Time passes; it waits for no handler, only for timers and for Redis to answer SET.
Tick ==
    /\ \A i \in up : timer[i] > 0
    /\ \A r \in Runs : ~AtRun(r, "acquire")
    /\ timer' = [i \in Instances |-> IF i \in up THEN timer[i] - 1 ELSE timer[i]]
    /\ ttl' = IF ttl = 0 THEN 0 ELSE ttl - 1
    /\ IF ttl = 1
       THEN /\ lock' = NoRun
            /\ run' = [r \in Runs |-> IF r = lock /\ ~AtRun(r, "idle")
                                      THEN [run[r] EXCEPT !.late = TRUE] ELSE run[r]]
            /\ stray' = (stray \/ \E r \in Runs : r = lock /\ AtRun(r, "del"))
       ELSE UNCHANGED <<lock, run, stray>>
    /\ UNCHANGED <<up, starts, failures>>

-----------------------------------------------------------------------------
Execute(r) == Acquire(r) \/ JobReturns(r) \/ JobThrows(r) \/ ReadOwner(r) \/ DeleteLock(r)

SchedulerNext ==
    \/ \E i \in Instances : Start(i) \/ Stop(i) \/ Fire(i) \/ Dies(i)
    \/ \E r \in Runs : Execute(r) \/ AcquireFails(r) \/ ReleaseFails(r)
    \/ Tick

SchedulerSpec == SchedulerInit /\ [][SchedulerNext]_schedulerVars

\* Timers fire, handlers end, time passes.
SchedulerFairSpec ==
    /\ SchedulerSpec
    /\ WF_schedulerVars(Tick)
    /\ \A i \in Instances : WF_schedulerVars(Fire(i))
    /\ \A r \in Runs : WF_schedulerVars(Execute(r))

-----------------------------------------------------------------------------
SchedulerTypeOK ==
    /\ lock \in Runs \cup {NoRun}
    /\ ttl \in 0..LockDuration
    /\ timer \in [Instances -> 0..Interval]
    /\ up \subseteq Instances
    /\ run \in [Runs -> RunRows]
    /\ stray \in BOOLEAN /\ starts \in 0..MaxStarts /\ failures \in 0..MaxFailures

\* The job runs twice at a time only if one of the runs outlived its lock, or a
\* release was overtaken by the expiry between its two calls.  Nothing else lets a
\* second run in: no throw, no failing call, no dying process, no timer of the
\* same process (executeJob, acquireLock, releaseLock).
Holding(r) == run[r].pc \in {"job", "get", "del"}
OverlapOnlyAfterExpiry ==
    \A r, q \in Runs : r # q /\ Holding(r) /\ Holding(q) => run[r].late \/ run[q].late \/ stray

\* As long as some process stays up the job runs again and again, although handlers
\* throw, releases fail and processes die with the lock.
JobKeepsRunning ==
    (\E i \in Instances : <>[](i \in up)) => []<>(\E r \in Runs : AtRun(r, "job"))
================================================================================
