------------------------------ MODULE Notifications -----------------------------
(***************************************************************************)
(* The push notification of one event to one user: notify is called for it *)
(* by several processes (a retried job, two instances), a key in Redis     *)
(* keeps all calls but one from writing a Notification row, a Bull job     *)
(* delivers the row through FCM, and a job that keeps failing is buried in *)
(* the dead-letter queue.                                                  *)
(*                                                                         *)
(* A row is named after the call that created it.  The delivery picks the  *)
(* token used last: here any active token.  A fault is a failing call, a   *)
(* process that dies, or a key that expires before the second call.        *)
(*                                                                         *)
(* Operators named <definition>_<fault> are variants of the definition that *)
(* follows them with a plausible bug; no specification uses them.          *)
(***************************************************************************)
EXTENDS Naturals, FiniteSets

CONSTANTS
    Calls,        \* calls of notify with the same event, user and order
    Processes,    \* processes that call notify
    Handlers,     \* handlers of delivery jobs that can run at once
    Tokens,       \* push tokens of the user
    None,         \* no token, no handler, no call
    MaxAttempts,  \* NOTIFICATION_QUEUE_ATTEMPTS
    MaxStalled,   \* maxStalledCount
    MaxFaults     \* bound

ASSUME NotificationsAssumption ==
    /\ IsFiniteSet(Calls) /\ Processes # {} /\ Calls # {}
    /\ None \notin Handlers \cup Tokens \cup Calls
    /\ MaxAttempts \in Nat \ {0} /\ MaxStalled \in Nat /\ MaxFaults \in Nat

VARIABLES
    call,     \* a call of notify: its place and its process
    claimed,  \* the dedupe key is in Redis
    local,    \* processes whose localDedupeStore has the key
    row,      \* the Notification of a call, by its status
    job,      \* its Bull job
    handler,  \* deliverNotificationById in progress
    active,   \* tokens with isActive
    gone,     \* tokens FCM no longer knows
    buried,   \* notifications in the dead-letter queue
    pushes,   \* history: what a call's notification sent to the phone, 2 for more
    faults,
    unsure    \* history: faults after which the code cannot tell what happened

vars == <<call, claimed, local, row, job, handler, active, gone, buried, pushes, faults, unsure>>

notifyVars   == <<call, claimed, local>>
deliveryVars == <<job, handler, active, gone, buried, pushes>>

-----------------------------------------------------------------------------
CallPlaces    == {"idle", "claim", "create", "enqueue", "mark", "done", "skipped", "died"}
HandlerPlaces == {"idle", "read", "send", "noToken", "sent", "invalid", "refused", "rejected",
                  "complete", "throw", "bury"}
Unsure        == {"dedupe", "push", "record", "enqueue", "stall"}

NoJob == [state |-> "none", made |-> 0, stalled |-> 0, owner |-> None]
Idle  == [pc |-> "idle", note |-> None, token |-> None]

AtCall(c, label) == call[c].pc = label
GoCall(c, label) == call' = [call EXCEPT ![c].pc = label]
At(h, label)     == handler[h].pc = label
Go(h, label)     == handler' = [handler EXCEPT ![h].pc = label]
NoFault          == UNCHANGED <<faults, unsure>>
Fault(kind)      == faults < MaxFaults /\ faults' = faults + 1 /\ unsure' = unsure \cup kind

SetRow(c, status) == row' = [row EXCEPT ![c] = status]

Init ==
    /\ call = [c \in Calls |-> [pc |-> "idle", proc |-> CHOOSE p \in Processes : TRUE]]
    /\ claimed = FALSE /\ local = {}
    /\ row = [c \in Calls |-> "none"]
    /\ job = [c \in Calls |-> NoJob]
    /\ handler = [h \in Handlers |-> Idle]
    /\ active = Tokens /\ gone = {} /\ buried = {}
    /\ pushes = [c \in Calls |-> 0]
    /\ faults = 0 /\ unsure = {}

-----------------------------------------------------------------------------
\* The event is emitted somewhere; the user's preference may refuse it.
Notify(c, p) ==
    /\ AtCall(c, "idle")
    /\ \E allowed \in BOOLEAN :
        call' = [call EXCEPT ![c] = [pc |-> IF allowed THEN "claim" ELSE "done", proc |-> p]]
    /\ UNCHANGED <<claimed, local, row, deliveryVars>> /\ NoFault

\* claimDedupeKey: SET key NX; the store of the process stands in for a failing Redis.
ClaimDedupeKey_PerProcess(c) ==
    /\ AtCall(c, "claim")
    /\ GoCall(c, IF call[c].proc \in local THEN "done" ELSE "create")
    /\ local' = local \cup {call[c].proc}
    /\ UNCHANGED <<claimed, row, deliveryVars>> /\ NoFault
ClaimDedupeKey(c) ==
    /\ AtCall(c, "claim")
    /\ \/ /\ GoCall(c, IF claimed THEN "done" ELSE "create")
          /\ claimed' = TRUE
          /\ UNCHANGED local /\ NoFault
       \/ /\ GoCall(c, IF call[c].proc \in local THEN "done" ELSE "create")
          /\ local' = local \cup {call[c].proc}
          /\ UNCHANGED claimed /\ Fault({"dedupe"})
    /\ UNCHANGED <<row, deliveryVars>>

\* The key outlives its purpose by a day, but two calls may be further apart.
KeyExpires ==
    /\ claimed \/ local # {}
    /\ claimed' = FALSE /\ local' = {} /\ Fault({"dedupe"})
    /\ UNCHANGED <<call, row, deliveryVars>>

\* A failing create leaves the key claimed: the outer catch skips the notification.
CreateRow(c) ==
    /\ AtCall(c, "create")
    /\ \/ GoCall(c, "enqueue") /\ SetRow(c, "pending") /\ NoFault
       \/ GoCall(c, "skipped") /\ UNCHANGED row /\ Fault({})
    /\ UNCHANGED <<claimed, local, deliveryVars>>

\* The job may have been added although the call failed.
Enqueue(c) ==
    /\ AtCall(c, "enqueue")
    /\ \/ /\ job' = [job EXCEPT ![c].state = "waiting"]
          /\ \/ GoCall(c, "done") /\ NoFault
             \/ GoCall(c, "mark") /\ Fault({"enqueue"})
       \/ GoCall(c, "mark") /\ UNCHANGED job /\ Fault({})
    /\ UNCHANGED <<claimed, local, row, handler, active, gone, buried, pushes>>

MarkNotEnqueued_LogsOnly(c) ==
    /\ AtCall(c, "mark")
    /\ GoCall(c, "done")
    /\ UNCHANGED <<claimed, local, row, deliveryVars>> /\ NoFault
\* The inner catch marks the row; if that write fails too, the outer catch only logs.
MarkNotEnqueued(c) ==
    /\ AtCall(c, "mark")
    /\ \/ GoCall(c, "done") /\ SetRow(c, "failed") /\ NoFault
       \/ GoCall(c, "skipped") /\ UNCHANGED row /\ Fault({})
    /\ UNCHANGED <<claimed, local, deliveryVars>>

CallerDies(c) ==
    /\ call[c].pc \notin {"idle", "done", "skipped", "died"} /\ Fault({})
    /\ GoCall(c, "died")
    /\ UNCHANGED <<claimed, local, row, deliveryVars>>

-----------------------------------------------------------------------------
\* A worker takes a waiting job.
TakeJob(c) ==
    /\ job[c].state = "waiting" /\ \E h \in Handlers : At(h, "idle")
    /\ LET h == CHOOSE h \in Handlers : At(h, "idle") IN
       /\ job' = [job EXCEPT ![c].state = "active", ![c].owner = h]
       /\ handler' = [handler EXCEPT ![h] = [Idle EXCEPT !.pc = "read", !.note = c]]
    /\ UNCHANGED <<notifyVars, row, active, gone, buried, pushes>> /\ NoFault

\* deliverNotificationById: the active token used last, if there is one.
PickToken(h) ==
    /\ At(h, "read")
    /\ IF active = {}
       THEN Go(h, "noToken")
       ELSE \E t \in active : handler' = [handler EXCEPT ![h].pc = "send", ![h].token = t]
    /\ UNCHANGED <<notifyVars, row, job, active, gone, buried, pushes>> /\ NoFault

Pushed(h) ==
    pushes' = [pushes EXCEPT ![handler[h].note] = IF @ < 2 THEN @ + 1 ELSE @]

\* sendFCM against the timeout: it is accepted, refused for the token, refused for
\* another reason, or runs into an error or the timeout, whatever becomes of the push.
SendFCM(h) ==
    /\ At(h, "send")
    /\ \/ handler[h].token \notin gone /\ Pushed(h) /\ Go(h, "sent") /\ NoFault
       \/ handler[h].token \in gone /\ Go(h, "invalid") /\ UNCHANGED pushes /\ NoFault
       \/ Go(h, "rejected") /\ UNCHANGED pushes /\ NoFault
       \/ handler[h].token \notin gone /\ Pushed(h) /\ Go(h, "rejected") /\ Fault({"push"})
    /\ UNCHANGED <<notifyVars, row, job, active, gone, buried>>

DeactivateInvalidToken(h) ==
    /\ At(h, "invalid")
    /\ active' = active \ {handler[h].token}
    /\ Go(h, "refused")
    /\ UNCHANGED <<notifyVars, row, job, gone, buried, pushes>> /\ NoFault

\* The outcome is written to the row; a refused token is no reason to retry.
RecordOutcome_CountsAttempted(h) ==
    /\ handler[h].pc \in {"sent", "noToken", "refused", "rejected"}
    /\ SetRow(handler[h].note, IF At(h, "noToken") THEN "failed" ELSE "sent")
    /\ Go(h, IF At(h, "rejected") THEN "throw" ELSE "complete")
    /\ UNCHANGED <<notifyVars, job, active, gone, buried, pushes>> /\ NoFault
RecordOutcome(h) ==
    /\ handler[h].pc \in {"sent", "noToken", "refused", "rejected"}
    /\ SetRow(handler[h].note, IF At(h, "sent") THEN "sent" ELSE "failed")
    /\ Go(h, IF At(h, "rejected") THEN "throw" ELSE "complete")
    /\ UNCHANGED <<notifyVars, job, active, gone, buried, pushes>> /\ NoFault

\* A failing read or write of the database fails the attempt.  After the push it leaves
\* no record of it: Bull tries again, and pushes again.
DatabaseFails(h) ==
    /\ handler[h].pc \in {"read", "sent", "noToken", "invalid", "refused", "rejected"}
    /\ Fault(IF At(h, "sent") THEN {"record"} ELSE {})
    /\ Go(h, "throw")
    /\ UNCHANGED <<notifyVars, row, job, active, gone, buried, pushes>>

\* Bull lets the handler that holds the job's lock complete it ...
Complete(h) ==
    LET c == handler[h].note IN
    /\ At(h, "complete")
    /\ handler' = [handler EXCEPT ![h] = Idle]
    /\ job' = IF job[c].owner = h
              THEN [job EXCEPT ![c].state = "completed", ![c].owner = None] ELSE job
    /\ UNCHANGED <<notifyVars, row, active, gone, buried, pushes>> /\ NoFault

\* ... or fail it: one attempt more.  The failed event's listener buries a job that made
\* its attempts.
AllAttemptsMade(made) == made >= MaxAttempts

Throw(h) ==
    LET c    == handler[h].note
        made == job[c].made + 1
    IN
    /\ At(h, "throw")
    /\ IF job[c].owner # h
       THEN UNCHANGED job
       ELSE job' = [job EXCEPT ![c] =
                    [@ EXCEPT !.state = IF made < MaxAttempts THEN "waiting" ELSE "failed",
                              !.made = made, !.owner = None]]
    /\ IF job[c].owner = h /\ AllAttemptsMade(made)
       THEN Go(h, "bury") ELSE handler' = [handler EXCEPT ![h] = Idle]
    /\ UNCHANGED <<notifyVars, row, active, gone, buried, pushes>> /\ NoFault

\* Adding the job to the dead-letter queue may fail.
Bury(h) ==
    /\ At(h, "bury")
    /\ \/ buried' = buried \cup {handler[h].note} /\ NoFault
       \/ UNCHANGED buried /\ Fault({})
    /\ handler' = [handler EXCEPT ![h] = Idle]
    /\ UNCHANGED <<notifyVars, row, job, active, gone, pushes>>

HandlerDies(h) ==
    /\ ~At(h, "idle") /\ Fault({"stall"})
    /\ handler' = [handler EXCEPT ![h] = Idle]
    /\ UNCHANGED <<notifyVars, row, job, active, gone, buried, pushes>>

\* Bull requeues an active job whose worker stopped renewing its lock: the worker
\* died, or (a fault) it is only slow and its handler goes on.  Too often stalled,
\* the job fails without an attempt and without a dead letter.
Stalled(c) ==
    /\ job[c].state = "active"
    /\ IF handler[job[c].owner].note # c THEN NoFault ELSE Fault({"stall"})
    /\ IF job[c].stalled < MaxStalled
       THEN job' = [job EXCEPT ![c].owner = None, ![c].stalled = @ + 1, ![c].state = "waiting"]
       ELSE job' = [job EXCEPT ![c].owner = None, ![c].state = "failed"]
    /\ UNCHANGED <<notifyVars, row, handler, active, gone, buried, pushes>>

-----------------------------------------------------------------------------
\* The app is uninstalled, its permission withdrawn: FCM drops the token.
TokenGone(t) ==
    /\ t \notin gone
    /\ gone' = gone \cup {t}
    /\ UNCHANGED <<notifyVars, row, job, handler, active, buried, pushes>> /\ NoFault

-----------------------------------------------------------------------------
Emit(c) ==
    ClaimDedupeKey(c) \/ CreateRow(c) \/ Enqueue(c) \/ MarkNotEnqueued(c)

Deliver(h) ==
    \/ PickToken(h) \/ SendFCM(h) \/ DeactivateInvalidToken(h) \/ RecordOutcome(h)
    \/ Complete(h) \/ Throw(h) \/ Bury(h)

Next ==
    \/ \E c \in Calls : Emit(c) \/ CallerDies(c) \/ TakeJob(c) \/ Stalled(c)
                        \/ (\E p \in Processes : Notify(c, p))
    \/ \E h \in Handlers : Deliver(h) \/ DatabaseFails(h) \/ HandlerDies(h)
    \/ \E t \in Tokens : TokenGone(t)
    \/ KeyExpires

Spec == Init /\ [][Next]_vars

\* A process that lives ends what it began; Bull hands out waiting jobs and checks
\* for stalled ones.
FairSpec ==
    /\ Spec
    /\ \A c \in Calls : WF_vars(Emit(c)) /\ WF_vars(TakeJob(c))
                        /\ WF_vars(Stalled(c) /\ handler[job[c].owner].note # c)
    /\ \A h \in Handlers : WF_vars(Deliver(h))

-----------------------------------------------------------------------------
TypeOK ==
    /\ call \in [Calls -> [pc : CallPlaces, proc : Processes]]
    /\ claimed \in BOOLEAN /\ local \subseteq Processes
    /\ row \in [Calls -> {"none", "pending", "sent", "failed"}]
    /\ job \in [Calls -> [state : {"none", "waiting", "active", "completed", "failed"},
                          made : 0..MaxAttempts, stalled : 0..MaxStalled,
                          owner : Handlers \cup {None}]]
    /\ handler \in [Handlers -> [pc : HandlerPlaces, note : Calls \cup {None},
                                 token : Tokens \cup {None}]]
    /\ active \subseteq Tokens /\ gone \subseteq Tokens /\ buried \subseteq Calls
    /\ pushes \in [Calls -> 0..2]
    /\ faults \in 0..MaxFaults /\ unsure \subseteq Unsure

\* However many processes announce the event, the phone rings once and the user's list
\* shows it once, unless the code was left unsure: for the list, Redis refused the key or
\* the key expired; for the phone, FCM ended in an error or the timeout after sending,
\* the push could not be recorded on the row, or Bull delivered a job twice after its
\* worker died or stalled (claimDedupeKey, deliverNotificationById and its rethrow).
AnnouncedOnce ==
    /\ "dedupe" \notin unsure => Cardinality({c \in Calls : row[c] # "none"}) <= 1
    /\ unsure \cap {"push", "record", "stall"} = {} => \A c \in Calls : pushes[c] <= 1

\* The row's status is what happened at the phone: "sent" is never written without a
\* push, and when a push was sent and nobody works on the row any more it says so,
\* unless FCM ended in an error after sending, the row could not be written, the job was
\* added by a call that failed, or Bull delivered it twice (the places that write status).
StatusTellsPush ==
    \A c \in Calls :
        /\ row[c] = "sent" => pushes[c] > 0
        /\ /\ pushes[c] > 0 /\ unsure \subseteq {"dedupe"}
           /\ \A h \in Handlers : handler[h].note # c
           => row[c] = "sent"

\* A row that was created is sent or failed in the end, with two exceptions, which the
\* code has.  A row without a job stays pending if its creator died before it could queue
\* the row, or if both queueing it and marking it failed: notify's outer catch only logs.
\* And Bull may give up on a job, which its failed set still holds (notify's catches, the
\* catch of deliverNotificationById, the stalled check).
PendingResolved ==
    \A c \in Calls :
        row[c] = "pending" ~>
            \/ row[c] # "pending"
            \/ job[c].state = "failed"
            \/ job[c].state = "none" /\ call[c].pc \in {"died", "skipped"}
================================================================================
