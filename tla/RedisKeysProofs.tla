---------------------------- MODULE RedisKeysProofs ----------------------------
(***************************************************************************)
(* Theorems about Notifications and DistributedScheduler, the components in *)
(* which processes keep apart by a key in Redis that expires, for any      *)
(* processes, any times and any faults.                                    *)
(*                                                                         *)
(* Notifications: the dedupe key keeps all calls but one from the database, *)
(* the lock of a Bull job keeps all handlers but one from the phone, and   *)
(* the handler that holds it has either pushed and will say so, or has not *)
(* pushed and may be tried again.                                          *)
(*                                                                         *)
(* DistributedScheduler: a run whose lock has not expired owns the key, and *)
(* nothing but the expiry takes the key from its owner, until a release    *)
(* has deleted somebody else's.                                            *)
(***************************************************************************)
EXTENDS Notifications, DistributedScheduler, FiniteSetTheorems, TLAPS

-----------------------------------------------------------------------------
(* Notifications: the inductive invariant.                                 *)

\* A call writes its row before it queues the job, and a job has attempts left
\* while Bull may still run it.
CallOK(c) ==
    /\ call[c].pc \in {"idle", "claim", "create"} => row[c] = "none"
    /\ call[c].pc \in {"idle", "claim", "create", "enqueue"} => job[c] = NoJob
    /\ call[c].pc \in {"enqueue", "mark"} => row[c] # "none"
    /\ job[c].state # "none" => row[c] # "none"
    /\ job[c].state = "none" => pushes[c] = 0
    /\ job[c].state \in {"waiting", "active"} => job[c].made < MaxAttempts
    /\ job[c].state = "active" <=> job[c].owner # None
    /\ row[c] = "sent" => pushes[c] > 0

HandlerOK(h) ==
    /\ At(h, "idle") <=> handler[h].note = None
    /\ handler[h].note # None => job[handler[h].note].state # "none"
    /\ At(h, "sent") => pushes[handler[h].note] > 0

BaseInv == /\ TypeOK
           /\ \A c \in Calls : CallOK(c)
           /\ \A h \in Handlers : HandlerOK(h)

\* The call that was let through.
Past(c) == AtCall(c, "create") \/ row[c] # "none"

DedupeInv ==
    "dedupe" \notin unsure =>
        \A c \in Calls : Past(c) => claimed /\ \A d \in Calls : Past(d) => d = c

\* A job is in the hands of one handler, and that handler holds its lock.
LockInv ==
    "stall" \notin unsure =>
        /\ \A c \in Calls : job[c].state = "active" => handler[job[c].owner].note = c
        /\ \A h \in Handlers : handler[h].note # None =>
               IF At(h, "bury") THEN job[handler[h].note].state = "failed"
                                ELSE job[handler[h].note].owner = h

Unpushed == {"read", "send", "noToken", "invalid", "refused", "rejected", "throw"}

\* What may be tried again has not been pushed.
PushInv ==
    unsure \cap {"push", "record", "stall"} = {} =>
        /\ \A c \in Calls : pushes[c] <= 1 /\ (job[c].state = "waiting" => pushes[c] = 0)
        /\ \A h \in Handlers : handler[h].pc \in Unpushed => pushes[handler[h].note] = 0

\* A row is marked as not enqueued only if its job was not.
MarkInv ==
    "enqueue" \notin unsure => \A c \in Calls : AtCall(c, "mark") => job[c].state = "none"

\* A push is on record, or its handler is about to record it.
RecordInv ==
    unsure \subseteq {"dedupe"} =>
        \A c \in Calls : pushes[c] > 0 =>
            row[c] = "sent" \/ \E h \in Handlers : handler[h].note = c /\ At(h, "sent")

NotifyInv == BaseInv /\ DedupeInv /\ LockInv /\ PushInv /\ MarkInv /\ RecordInv

-----------------------------------------------------------------------------
(* The types, and how one call, one row, one job or one handler changes.   *)

CallType    == call \in [Calls -> [pc : CallPlaces, proc : Processes]]
KeyType     == claimed \in BOOLEAN /\ local \subseteq Processes
RowType     == row \in [Calls -> {"none", "pending", "sent", "failed"}]
JobRecords  == [state : {"none", "waiting", "active", "completed", "failed"},
                made : 0..MaxAttempts, stalled : 0..MaxStalled, owner : Handlers \cup {None}]
JobType     == job \in [Calls -> JobRecords]
HandlerRecords == [pc : HandlerPlaces, note : Calls \cup {None}, token : Tokens \cup {None}]
HandlerType == handler \in [Handlers -> HandlerRecords]
PhoneType   == active \subseteq Tokens /\ gone \subseteq Tokens /\ buried \subseteq Calls
PushType    == pushes \in [Calls -> 0..2]
FaultType   == faults \in 0..MaxFaults /\ unsure \subseteq Unsure

LEMMA TypeParts ==
  /\ TypeOK <=> /\ CallType /\ KeyType /\ RowType /\ JobType
                /\ HandlerType /\ PhoneType /\ PushType /\ FaultType
  /\ TypeOK' <=> /\ CallType' /\ KeyType' /\ RowType' /\ JobType'
                 /\ HandlerType' /\ PhoneType' /\ PushType' /\ FaultType'
  BY DEF TypeOK, CallType, KeyType, RowType, JobType, JobRecords, HandlerType, HandlerRecords,
         PhoneType, PushType, FaultType

LEMMA HandlerPlacesValues == \A l \in HandlerPlaces : l \in
  {"idle", "read", "send", "noToken", "sent", "invalid", "refused", "rejected",
   "complete", "throw", "bury"}
  BY DEF HandlerPlaces

\* Faults are counted, and what they leave unsure stays unsure.
Counted == FaultType' /\ unsure \subseteq unsure'

LEMMA NoFaultCounted ==
  ASSUME FaultType, NoFault
  PROVE  Counted /\ unsure' = unsure
  BY DEF FaultType, NoFault, Counted

LEMMA FaultCounted ==
  ASSUME FaultType, NEW kind \in SUBSET Unsure, Fault(kind)
  PROVE  Counted /\ kind \subseteq unsure'
  <1>1. faults' \in 0..MaxFaults BY NotificationsAssumption DEF FaultType, Fault
  <1>2. unsure' = unsure \cup kind BY DEF Fault
  <1> QED BY <1>1, <1>2 DEF FaultType, Counted

CallTurns(c, label) ==
    /\ CallType'
    /\ call'[c].pc = label
    /\ \A d \in Calls : d # c => call'[d] = call[d]

RowTurns(c, status) ==
    /\ RowType'
    /\ row'[c] = status
    /\ \A d \in Calls : d # c => row'[d] = row[d]

JobTurns(c, j) ==
    /\ JobType'
    /\ job'[c] = j
    /\ \A d \in Calls : d # c => job'[d] = job[d]

HandlerTurns(h, label, note) ==
    /\ HandlerType'
    /\ handler'[h].pc = label /\ handler'[h].note = note
    /\ \A g \in Handlers : g # h => handler'[g] = handler[g]

LEMMA GoCallTurns ==
  ASSUME CallType, NEW c \in Calls, NEW label \in CallPlaces, GoCall(c, label)
  PROVE  CallTurns(c, label)
  <1>1. PICK k : k = [call[c] EXCEPT !.pc = label] OBVIOUS
  <1>2. k \in [pc : CallPlaces, proc : Processes] /\ k.pc = label BY <1>1 DEF CallType
  <1>3. call' = [call EXCEPT ![c] = k] BY <1>1 DEF GoCall
  <1> QED BY <1>2, <1>3 DEF CallType, CallTurns

LEMMA SetRowTurns ==
  ASSUME RowType, NEW c \in Calls, NEW status \in {"none", "pending", "sent", "failed"},
         SetRow(c, status)
  PROVE  RowTurns(c, status)
  BY DEF SetRow, RowType, RowTurns

LEMMA HandlerSet ==
  ASSUME HandlerType, NEW h \in Handlers, NEW k \in HandlerRecords,
         handler' = [handler EXCEPT ![h] = k]
  PROVE  HandlerTurns(h, k.pc, k.note)
  BY DEF HandlerType, HandlerTurns

LEMMA GoTurns ==
  ASSUME HandlerType, NEW h \in Handlers, NEW label \in HandlerPlaces, Go(h, label)
  PROVE  HandlerTurns(h, label, handler[h].note)
  <1>1. PICK k : k = [handler[h] EXCEPT !.pc = label] OBVIOUS
  <1>2. k \in HandlerRecords /\ k.pc = label /\ k.note = handler[h].note
    BY <1>1 DEF HandlerType, HandlerRecords
  <1>3. handler' = [handler EXCEPT ![h] = k] BY <1>1 DEF Go
  <1> QED BY <1>2, <1>3, HandlerSet

LEMMA IdleTurns ==
  ASSUME HandlerType, NEW h \in Handlers, handler' = [handler EXCEPT ![h] = Idle]
  PROVE  HandlerTurns(h, "idle", None)
  <1>1. Idle \in HandlerRecords /\ Idle.pc = "idle" /\ Idle.note = None
    BY DEF Idle, HandlerRecords, HandlerPlaces
  <1> QED BY <1>1, HandlerSet

LEMMA JobSet ==
  ASSUME JobType, NEW c \in Calls, NEW j \in JobRecords, job' = [job EXCEPT ![c] = j]
  PROVE  JobTurns(c, j)
  BY DEF JobType, JobTurns

\* A handler that is not idle works on a row.
LEMMA Busy ==
  ASSUME BaseInv, NEW h \in Handlers, ~At(h, "idle")
  PROVE  /\ handler[h].note \in Calls /\ handler[h].note # None
         /\ job[handler[h].note].state # "none" /\ row[handler[h].note] # "none"
  <1>1. HandlerType /\ HandlerOK(h) BY TypeParts DEF BaseInv
  <1>2. handler[h].note # None BY <1>1 DEF HandlerOK
  <1>3. handler[h].note \in Calls BY <1>1, <1>2 DEF HandlerType, HandlerRecords
  <1>4. CallOK(handler[h].note) BY <1>3 DEF BaseInv
  <1> QED BY <1>1, <1>2, <1>3, <1>4 DEF HandlerOK, CallOK

-----------------------------------------------------------------------------
(* What a step leaves alone, an invariant keeps.                           *)

LEMMA DedupeKept ==
  ASSUME DedupeInv, unsure \subseteq unsure', claimed' = claimed,
         \A c \in Calls : Past(c)' => Past(c)
  PROVE  DedupeInv'
  BY DEF DedupeInv

LEMMA PastKept ==
  ASSUME UNCHANGED call, \A c \in Calls : row'[c] # "none" => row[c] # "none"
  PROVE  \A c \in Calls : Past(c)' => Past(c)
  BY DEF Past, AtCall

LEMMA LockKept ==
  ASSUME LockInv, unsure \subseteq unsure', UNCHANGED <<job, handler>>
  PROVE  LockInv'
  BY DEF LockInv, At

LEMMA PushKept ==
  ASSUME PushInv, unsure \subseteq unsure', UNCHANGED <<job, handler, pushes>>
  PROVE  PushInv'
  BY DEF PushInv

LEMMA MarkKept ==
  ASSUME MarkInv, unsure \subseteq unsure',
         \A c \in Calls : AtCall(c, "mark")' => AtCall(c, "mark"),
         \A c \in Calls : job[c].state = "none" => job'[c].state = "none"
  PROVE  MarkInv'
  BY DEF MarkInv

LEMMA RecordKept ==
  ASSUME RecordInv, unsure \subseteq unsure', UNCHANGED <<handler, pushes>>,
         \A c \in Calls : row[c] = "sent" => row'[c] = "sent" \/ pushes[c] = 0
  PROVE  RecordInv'
  BY DEF RecordInv, At

-----------------------------------------------------------------------------
(* The calls of notify.                                                    *)

LEMMA StepNotify ==
  ASSUME NotifyInv, NEW c \in Calls, NEW p \in Processes, Notify(c, p)
  PROVE  NotifyInv'
  <1>0. BaseInv /\ TypeOK /\ CallOK(c) BY DEF NotifyInv, BaseInv
  <1>1. UNCHANGED <<claimed, local, row, job, handler, active, gone, buried, pushes>>
    BY DEF Notify, deliveryVars
  <1>2. Counted /\ unsure' = unsure BY <1>0, NoFaultCounted, TypeParts DEF Notify
  <1>3. PICK l \in {"claim", "done"} : CallTurns(c, l)
    <2>1. PICK l \in {"claim", "done"} : call' = [call EXCEPT ![c] = [pc |-> l, proc |-> p]]
      BY DEF Notify
    <2>2. PICK k : k = [pc |-> l, proc |-> p] OBVIOUS
    <2>3. k \in [pc : CallPlaces, proc : Processes] /\ k.pc = l BY <2>2 DEF CallPlaces
    <2>4. call' = [call EXCEPT ![c] = k] BY <2>1, <2>2
    <2> QED BY <1>0, <2>3, <2>4, TypeParts DEF CallType, CallTurns
  <1>4. TypeOK'
    BY <1>0, <1>1, <1>2, <1>3, TypeParts
    DEF Counted, CallTurns, KeyType, RowType, JobType, HandlerType, PhoneType, PushType
  <1>5. call[c].pc = "idle" BY DEF Notify, AtCall
  <1>6. ASSUME NEW d \in Calls PROVE CallOK(d)'
    BY <1>0, <1>1, <1>3, <1>5 DEF BaseInv, CallOK, CallTurns
  <1>7. ASSUME NEW h \in Handlers PROVE HandlerOK(h)'
    BY <1>0, <1>1 DEF BaseInv, HandlerOK, At
  <1>8. \A d \in Calls : Past(d)' => Past(d) BY <1>1, <1>3 DEF Past, AtCall, CallTurns
  <1>9. \A d \in Calls : AtCall(d, "mark")' => AtCall(d, "mark") BY <1>3 DEF AtCall, CallTurns
  <1>10. DedupeInv' /\ LockInv' /\ PushInv' /\ MarkInv' /\ RecordInv'
    BY <1>1, <1>2, <1>8, <1>9, DedupeKept, LockKept, PushKept, MarkKept, RecordKept DEF NotifyInv
  <1> QED BY <1>4, <1>6, <1>7, <1>10 DEF NotifyInv, BaseInv

LEMMA StepClaim ==
  ASSUME NotifyInv, NEW c \in Calls, ClaimDedupeKey(c)
  PROVE  NotifyInv'
  <1>0. BaseInv /\ TypeOK /\ CallOK(c) BY DEF NotifyInv, BaseInv
  <1>1. UNCHANGED <<row, job, handler, active, gone, buried, pushes>>
    BY DEF ClaimDedupeKey, deliveryVars
  <1>2. Counted /\ (unsure' = unsure \/ "dedupe" \in unsure')
    BY <1>0, NoFaultCounted, FaultCounted, TypeParts DEF ClaimDedupeKey, Unsure
  <1>3. PICK l \in {"done", "create"} : CallTurns(c, l)
    BY <1>0, GoCallTurns, TypeParts DEF ClaimDedupeKey, CallPlaces
  <1>4. KeyType'
    <2>1. call[c].proc \in Processes BY <1>0, TypeParts DEF CallType
    <2> QED BY <1>0, <2>1, TypeParts DEF KeyType, ClaimDedupeKey, NoFault
  <1>5. TypeOK'
    BY <1>0, <1>1, <1>2, <1>3, <1>4, TypeParts
    DEF Counted, CallTurns, RowType, JobType, HandlerType, PhoneType, PushType
  <1>6. call[c].pc = "claim" BY DEF ClaimDedupeKey, AtCall
  <1>7. ASSUME NEW d \in Calls PROVE CallOK(d)'
    BY <1>0, <1>1, <1>3, <1>6 DEF BaseInv, CallOK, CallTurns
  <1>8. ASSUME NEW h \in Handlers PROVE HandlerOK(h)'
    BY <1>0, <1>1 DEF BaseInv, HandlerOK, At
  <1>9. \A d \in Calls : AtCall(d, "mark")' => AtCall(d, "mark") BY <1>3 DEF AtCall, CallTurns
  <1>10. LockInv' /\ PushInv' /\ MarkInv' /\ RecordInv'
    BY <1>1, <1>2, <1>9, LockKept, PushKept, MarkKept, RecordKept DEF NotifyInv, Counted
  <1>11. DedupeInv'
    <2>1. CASE "dedupe" \in unsure' BY <2>1 DEF DedupeInv
    <2>2. CASE "dedupe" \notin unsure'
      <3>1. "dedupe" \notin unsure BY <1>2, <2>2 DEF Counted
      <3>2. GoCall(c, IF claimed THEN "done" ELSE "create") /\ claimed'
        <4>1. ~Fault({"dedupe"}) BY <2>2 DEF Fault
        <4> QED BY <4>1 DEF ClaimDedupeKey
      <3>3. CASE claimed
        <4>1. CallTurns(c, "done")
          BY <1>0, <3>2, <3>3, GoCallTurns, TypeParts DEF CallPlaces
        <4>2. \A d \in Calls : Past(d)' => Past(d)
          BY <1>1, <4>1 DEF Past, AtCall, CallTurns
        <4> QED BY <1>2, <3>2, <3>3, <4>2, DedupeKept DEF NotifyInv, Counted
      <3>4. CASE ~claimed
        <4>1. \A d \in Calls : ~Past(d) BY <3>1, <3>4 DEF NotifyInv, DedupeInv
        <4>2. \A d \in Calls : Past(d)' => d = c
          BY <1>1, <1>3, <4>1 DEF Past, AtCall, CallTurns
        <4> QED BY <3>2, <4>2 DEF DedupeInv
      <3> QED BY <3>3, <3>4
    <2> QED BY <2>1, <2>2
  <1> QED BY <1>5, <1>7, <1>8, <1>10, <1>11 DEF NotifyInv, BaseInv

LEMMA StepKeyExpires ==
  ASSUME NotifyInv, KeyExpires
  PROVE  NotifyInv'
  <1>0. BaseInv /\ TypeOK BY DEF NotifyInv, BaseInv
  <1>1. UNCHANGED <<call, row, job, handler, active, gone, buried, pushes>>
    BY DEF KeyExpires, deliveryVars
  <1>2. Counted /\ "dedupe" \in unsure'
    BY <1>0, FaultCounted, TypeParts DEF KeyExpires, Unsure
  <1>3. KeyType' BY DEF KeyExpires, KeyType
  <1>4. TypeOK'
    BY <1>0, <1>1, <1>2, <1>3, TypeParts
    DEF Counted, CallType, RowType, JobType, HandlerType, PhoneType, PushType
  <1>5. BaseInv' BY <1>0, <1>1, <1>4 DEF BaseInv, CallOK, HandlerOK, At
  <1>6. LockInv' /\ PushInv' /\ MarkInv' /\ RecordInv'
    BY <1>1, <1>2, LockKept, PushKept, MarkKept, RecordKept DEF NotifyInv, Counted, AtCall
  <1>7. DedupeInv' BY <1>2 DEF DedupeInv
  <1> QED BY <1>5, <1>6, <1>7 DEF NotifyInv

LEMMA StepCreateRow ==
  ASSUME NotifyInv, NEW c \in Calls, CreateRow(c)
  PROVE  NotifyInv'
  <1>0. BaseInv /\ TypeOK /\ CallOK(c) BY DEF NotifyInv, BaseInv
  <1>1. UNCHANGED <<claimed, local, job, handler, active, gone, buried, pushes>>
    BY DEF CreateRow, deliveryVars
  <1>2. Counted
    BY <1>0, NoFaultCounted, FaultCounted, TypeParts DEF CreateRow
  <1>3. call[c].pc = "create" /\ row[c] = "none" /\ job[c] = NoJob /\ pushes[c] = 0
        /\ job[c].state = "none"
    BY <1>0 DEF CreateRow, AtCall, CallOK, NoJob
  <1>4. \/ CallTurns(c, "enqueue") /\ RowTurns(c, "pending")
        \/ CallTurns(c, "skipped") /\ row' = row
    BY <1>0, GoCallTurns, SetRowTurns, TypeParts DEF CreateRow, CallPlaces
  <1>5. TypeOK'
    BY <1>0, <1>1, <1>2, <1>4, TypeParts
    DEF Counted, CallTurns, RowTurns, RowType, KeyType, JobType, HandlerType, PhoneType, PushType
  <1>6. ASSUME NEW d \in Calls PROVE CallOK(d)'
    <2>1. CASE d = c
      BY <1>0, <1>1, <1>3, <1>4, <2>1 DEF CallOK, CallTurns, RowTurns
    <2>2. CASE d # c
      BY <1>0, <1>1, <1>4, <2>2 DEF BaseInv, CallOK, CallTurns, RowTurns
    <2> QED BY <2>1, <2>2
  <1>7. ASSUME NEW h \in Handlers PROVE HandlerOK(h)'
    BY <1>0, <1>1 DEF BaseInv, HandlerOK, At
  <1>8. \A d \in Calls : Past(d)' => Past(d)
    BY <1>3, <1>4 DEF Past, AtCall, CallTurns, RowTurns
  <1>9. \A d \in Calls : AtCall(d, "mark")' => AtCall(d, "mark")
    BY <1>4 DEF AtCall, CallTurns
  <1>10. \A d \in Calls : row[d] = "sent" => row'[d] = "sent" \/ pushes[d] = 0
    BY <1>3, <1>4 DEF RowTurns
  <1>11. DedupeInv' /\ LockInv' /\ PushInv' /\ MarkInv' /\ RecordInv'
    BY <1>1, <1>2, <1>8, <1>9, <1>10, DedupeKept, LockKept, PushKept, MarkKept, RecordKept
    DEF NotifyInv, Counted
  <1> QED BY <1>5, <1>6, <1>7, <1>11 DEF NotifyInv, BaseInv

LEMMA StepEnqueue ==
  ASSUME NotifyInv, NEW c \in Calls, Enqueue(c)
  PROVE  NotifyInv'
  <1>0. BaseInv /\ TypeOK /\ CallOK(c) BY DEF NotifyInv, BaseInv
  <1>1. UNCHANGED <<claimed, local, row, handler, active, gone, buried, pushes>>
    BY DEF Enqueue
  <1>2. call[c].pc = "enqueue" /\ row[c] # "none" /\ job[c] = NoJob
        /\ job[c].state = "none" /\ pushes[c] = 0
    BY <1>0 DEF Enqueue, AtCall, CallOK, NoJob
  <1>3. Counted
    BY <1>0, NoFaultCounted, FaultCounted, TypeParts DEF Enqueue, Unsure
  <1>4. PICK l \in {"done", "mark"} : CallTurns(c, l)
    BY <1>0, GoCallTurns, TypeParts DEF Enqueue, CallPlaces
  <1> DEFINE j == [NoJob EXCEPT !.state = "waiting"]
  <1>5. /\ j \in JobRecords /\ j.state = "waiting" /\ j.made = 0 /\ j.owner = None
        /\ NoJob.owner = None /\ NoJob.made = 0
    BY NotificationsAssumption DEF NoJob, JobRecords
  <1>6. \/ job' = job
        \/ JobTurns(c, j) /\ (l = "mark" => "enqueue" \in unsure')
    <2>1. CASE UNCHANGED job BY <2>1
    <2>2. CASE /\ job' = [job EXCEPT ![c].state = "waiting"]
               /\ GoCall(c, "done") \/ (GoCall(c, "mark") /\ Fault({"enqueue"}))
      <3>1. job' = [job EXCEPT ![c] = j] BY <1>2, <2>2
      <3>2. JobTurns(c, j) BY <1>0, <1>5, <3>1, JobSet, TypeParts
      <3>3. CASE GoCall(c, "done")
        <4>1. CallTurns(c, "done") BY <1>0, <3>3, GoCallTurns, TypeParts DEF CallPlaces
        <4> QED BY <1>4, <3>2, <4>1 DEF CallTurns
      <3>4. CASE Fault({"enqueue"}) BY <3>2, <3>4 DEF Fault
      <3> QED BY <2>2, <3>3, <3>4
    <2> QED BY <2>1, <2>2 DEF Enqueue
  <1> HIDE DEF j
  <1>7. TypeOK'
    BY <1>0, <1>1, <1>3, <1>4, <1>6, TypeParts
    DEF Counted, CallTurns, JobTurns, RowType, KeyType, JobType, HandlerType, PhoneType, PushType
  <1>8. ASSUME NEW d \in Calls PROVE CallOK(d)'
    <2>1. CASE d = c
      <3>1. job'[c].state \in {"none", "waiting"} /\ job'[c].made = 0 /\ job'[c].owner = None
        BY <1>2, <1>5, <1>6 DEF JobTurns, NoJob
      <3> QED BY <1>0, <1>1, <1>2, <1>4, <2>1, <3>1, NotificationsAssumption DEF CallOK, CallTurns
    <2>2. CASE d # c
      BY <1>0, <1>1, <1>4, <1>6, <2>2 DEF BaseInv, CallOK, CallTurns, JobTurns
    <2> QED BY <2>1, <2>2
  <1>9. \A d \in Calls : job[d].state # "none" => job'[d] = job[d]
    BY <1>2, <1>6 DEF JobTurns
  <1>10. \A h \in Handlers : /\ handler[h].note # None => handler[h].note \in Calls
                             /\ HandlerOK(h)
    BY <1>0, TypeParts DEF BaseInv, HandlerType, HandlerRecords
  <1>11. ASSUME NEW h \in Handlers PROVE HandlerOK(h)'
    BY <1>1, <1>9, <1>10 DEF HandlerOK, At
  <1>12. \A d \in Calls : Past(d)' => Past(d) BY <1>1, <1>4 DEF Past, AtCall, CallTurns
  <1>13. DedupeInv' /\ RecordInv'
    BY <1>1, <1>3, <1>12, DedupeKept, RecordKept DEF NotifyInv, Counted
  <1>14. LockInv'
    <2>1. \A d \in Calls : job'[d].state = "active" => job'[d] = job[d]
      BY <1>2, <1>5, <1>6 DEF JobTurns
    <2>2. \A h \in Handlers : handler[h].note # None => job'[handler[h].note] = job[handler[h].note]
      BY <1>9, <1>10 DEF HandlerOK
    <2> QED BY <1>1, <1>3, <2>1, <2>2 DEF NotifyInv, LockInv, Counted, At
  <1>15. PushInv'
    <2>1. \A d \in Calls : job'[d] = job[d] \/ pushes[d] = 0
      BY <1>2, <1>6 DEF JobTurns
    <2>2. 0 <= 1 OBVIOUS
    <2> QED BY <1>1, <1>3, <2>1, <2>2 DEF NotifyInv, PushInv, Counted
  <1>16. MarkInv'
    BY <1>2, <1>3, <1>4, <1>6 DEF NotifyInv, MarkInv, AtCall, CallTurns, JobTurns, Counted
  <1> QED BY <1>7, <1>8, <1>11, <1>13, <1>14, <1>15, <1>16 DEF NotifyInv, BaseInv

LEMMA StepMark ==
  ASSUME NotifyInv, NEW c \in Calls, MarkNotEnqueued(c)
  PROVE  NotifyInv'
  <1>0. BaseInv /\ TypeOK /\ CallOK(c) BY DEF NotifyInv, BaseInv
  <1>1. UNCHANGED <<claimed, local, job, handler, active, gone, buried, pushes>>
    BY DEF MarkNotEnqueued, deliveryVars
  <1>2. Counted /\ unsure' = unsure
    <2>1. CASE NoFault BY <1>0, <2>1, NoFaultCounted, TypeParts
    <2>2. CASE Fault({})
      <3>1. Counted BY <1>0, <2>2, FaultCounted, TypeParts
      <3>2. unsure' = unsure BY <2>2 DEF Fault
      <3> QED BY <3>1, <3>2
    <2> QED BY <2>1, <2>2 DEF MarkNotEnqueued
  <1>3. call[c].pc = "mark" /\ row[c] # "none"
    BY <1>0 DEF MarkNotEnqueued, AtCall, CallOK
  <1>4. \/ CallTurns(c, "done") /\ RowTurns(c, "failed")
        \/ CallTurns(c, "skipped") /\ row' = row
    BY <1>0, GoCallTurns, SetRowTurns, TypeParts DEF MarkNotEnqueued, CallPlaces
  <1>5. TypeOK'
    BY <1>0, <1>1, <1>2, <1>4, TypeParts
    DEF Counted, CallTurns, RowTurns, RowType, KeyType, JobType, HandlerType, PhoneType, PushType
  <1>6. ASSUME NEW d \in Calls PROVE CallOK(d)'
    <2>1. CASE d = c
      BY <1>0, <1>1, <1>3, <1>4, <2>1 DEF CallOK, CallTurns, RowTurns
    <2>2. CASE d # c
      BY <1>0, <1>1, <1>4, <2>2 DEF BaseInv, CallOK, CallTurns, RowTurns
    <2> QED BY <2>1, <2>2
  <1>7. ASSUME NEW h \in Handlers PROVE HandlerOK(h)'
    BY <1>0, <1>1 DEF BaseInv, HandlerOK, At
  <1>8. \A d \in Calls : Past(d)' => Past(d)
    BY <1>3, <1>4 DEF Past, AtCall, CallTurns, RowTurns
  <1>9. \A d \in Calls : AtCall(d, "mark")' => AtCall(d, "mark")
    BY <1>4 DEF AtCall, CallTurns
  <1>10. DedupeInv' /\ LockInv' /\ PushInv' /\ MarkInv'
    BY <1>1, <1>2, <1>8, <1>9, DedupeKept, LockKept, PushKept, MarkKept DEF NotifyInv
  <1>11. RecordInv'
    <2>1. CASE "enqueue" \in unsure BY <1>2, <2>1 DEF RecordInv
    <2>2. CASE "enqueue" \notin unsure
      <3>1. job[c].state = "none" BY <1>3, <2>2 DEF NotifyInv, MarkInv, AtCall
      <3>2. pushes[c] = 0 BY <1>0, <3>1 DEF CallOK
      <3>3. \A d \in Calls : row[d] = "sent" => row'[d] = "sent" \/ pushes[d] = 0
        BY <1>4, <3>2 DEF RowTurns
      <3> QED BY <1>1, <1>2, <3>3, RecordKept DEF NotifyInv
    <2> QED BY <2>1, <2>2
  <1> QED BY <1>5, <1>6, <1>7, <1>10, <1>11 DEF NotifyInv, BaseInv

LEMMA StepCallerDies ==
  ASSUME NotifyInv, NEW c \in Calls, CallerDies(c)
  PROVE  NotifyInv'
  <1>0. BaseInv /\ TypeOK /\ CallOK(c) BY DEF NotifyInv, BaseInv
  <1>1. UNCHANGED <<claimed, local, row, job, handler, active, gone, buried, pushes>>
    BY DEF CallerDies, deliveryVars
  <1>2. Counted BY <1>0, FaultCounted, TypeParts DEF CallerDies
  <1>3. CallTurns(c, "died")
    BY <1>0, GoCallTurns, TypeParts DEF CallerDies, CallPlaces
  <1>4. TypeOK'
    BY <1>0, <1>1, <1>2, <1>3, TypeParts
    DEF Counted, CallTurns, RowType, KeyType, JobType, HandlerType, PhoneType, PushType
  <1>5. ASSUME NEW d \in Calls PROVE CallOK(d)'
    BY <1>0, <1>1, <1>3 DEF BaseInv, CallOK, CallTurns
  <1>6. ASSUME NEW h \in Handlers PROVE HandlerOK(h)'
    BY <1>0, <1>1 DEF BaseInv, HandlerOK, At
  <1>7. \A d \in Calls : Past(d)' => Past(d) BY <1>1, <1>3 DEF Past, AtCall, CallTurns
  <1>8. \A d \in Calls : AtCall(d, "mark")' => AtCall(d, "mark")
    BY <1>3 DEF AtCall, CallTurns
  <1>9. DedupeInv' /\ LockInv' /\ PushInv' /\ MarkInv' /\ RecordInv'
    BY <1>1, <1>2, <1>7, <1>8, DedupeKept, LockKept, PushKept, MarkKept, RecordKept
    DEF NotifyInv, Counted
  <1> QED BY <1>4, <1>5, <1>6, <1>9 DEF NotifyInv, BaseInv

-----------------------------------------------------------------------------
(* The handlers of delivery jobs.                                          *)

\* A handler goes on with its row and has not pushed, or a fault hides that it has.
LEMMA Works ==
  ASSUME NotifyInv, NEW h \in Handlers,
         NEW label \in {"send", "noToken", "invalid", "refused", "rejected", "throw"},
         ~At(h, "idle"), ~At(h, "bury"), HandlerTurns(h, label, handler[h].note),
         UNCHANGED <<call, claimed, local, row, job, pushes>>, PhoneType', Counted,
         handler[h].pc \in Unpushed \/ "record" \in unsure'
  PROVE  NotifyInv'
  <1>0. BaseInv /\ TypeOK BY DEF NotifyInv, BaseInv
  <1>1. handler[h].note \in Calls /\ handler[h].note # None
        /\ job[handler[h].note].state # "none"
    BY <1>0, Busy
  <1>2. TypeOK'
    BY <1>0, TypeParts DEF CallType, KeyType, RowType, JobType, PushType, HandlerTurns, Counted
  <1>3. ASSUME NEW c \in Calls PROVE CallOK(c)' BY <1>0 DEF BaseInv, CallOK
  <1>4. ASSUME NEW g \in Handlers PROVE HandlerOK(g)'
    <2>1. CASE g = h BY <1>1, <2>1 DEF HandlerTurns, HandlerOK, At
    <2>2. CASE g # h BY <1>0, <2>2 DEF BaseInv, HandlerTurns, HandlerOK, At
    <2> QED BY <2>1, <2>2
  <1>5. DedupeInv' /\ MarkInv'
    BY PastKept, DedupeKept, MarkKept DEF NotifyInv, Counted, AtCall
  <1>6. \A g \in Handlers : /\ handler'[g].note = handler[g].note
                            /\ At(g, "bury")' <=> At(g, "bury")
    BY DEF HandlerTurns, At
  <1>7. LockInv'
    <2>1. CASE "stall" \in unsure' BY <2>1 DEF LockInv
    <2>2. CASE "stall" \notin unsure'
      <3>1. "stall" \notin unsure BY <2>2 DEF Counted
      <3>2. ASSUME NEW c \in Calls, job[c].state = "active"
            PROVE  handler'[job[c].owner].note = c
        <4>1. job[c].owner \in Handlers
          BY <1>0, <3>2, TypeParts DEF BaseInv, CallOK, JobType, JobRecords
        <4> QED BY <1>6, <3>1, <3>2, <4>1 DEF NotifyInv, LockInv
      <3> QED BY <1>6, <3>1, <3>2 DEF NotifyInv, LockInv
    <2> QED BY <2>1, <2>2
  <1>8. PushInv'
    <2>1. CASE unsure' \cap {"push", "record", "stall"} # {} BY <2>1 DEF PushInv
    <2>2. CASE unsure' \cap {"push", "record", "stall"} = {}
      <3>1. unsure \cap {"push", "record", "stall"} = {} /\ handler[h].pc \in Unpushed
        BY <2>2 DEF Counted
      <3>2. ASSUME NEW g \in Handlers, handler'[g].pc \in Unpushed
            PROVE  pushes[handler'[g].note] = 0
        BY <3>1, <3>2 DEF HandlerTurns, NotifyInv, PushInv
      <3> QED BY <3>1, <3>2 DEF NotifyInv, PushInv
    <2> QED BY <2>1, <2>2
  <1>9. RecordInv'
    <2>1. CASE ~(unsure' \subseteq {"dedupe"}) BY <2>1 DEF RecordInv
    <2>2. CASE unsure' \subseteq {"dedupe"}
      <3>1. unsure \subseteq {"dedupe"} /\ ~At(h, "sent")
        BY <2>2 DEF Counted, At, Unpushed
      <3>2. \A g \in Handlers : At(g, "sent") => At(g, "sent")'
        BY <3>1 DEF HandlerTurns, At
      <3> QED BY <1>6, <3>1, <3>2 DEF NotifyInv, RecordInv
    <2> QED BY <2>1, <2>2
  <1> QED BY <1>2, <1>3, <1>4, <1>5, <1>7, <1>8, <1>9 DEF NotifyInv, BaseInv

LEMMA StepPickToken ==
  ASSUME NotifyInv, NEW h \in Handlers, PickToken(h)
  PROVE  NotifyInv'
  <1>0. TypeOK BY DEF NotifyInv, BaseInv
  <1>1. UNCHANGED <<call, claimed, local, row, job, pushes>> /\ PhoneType' /\ Counted
    BY <1>0, NoFaultCounted, TypeParts DEF PickToken, notifyVars, PhoneType
  <1>2. ~At(h, "idle") /\ ~At(h, "bury") /\ handler[h].pc \in Unpushed
    BY DEF PickToken, At, Unpushed
  <1>3. \E l \in {"send", "noToken"} : HandlerTurns(h, l, handler[h].note)
    <2>1. CASE Go(h, "noToken")
      BY <1>0, <2>1, GoTurns, TypeParts DEF HandlerPlaces
    <2>2. CASE \E t \in active : handler' = [handler EXCEPT ![h].pc = "send", ![h].token = t]
      <3>1. PICK t \in active : handler' = [handler EXCEPT ![h].pc = "send", ![h].token = t]
        BY <2>2
      <3>2. t \in Tokens BY <1>0, TypeParts DEF PhoneType
      <3>3. PICK k : k = [handler[h] EXCEPT !.pc = "send", !.token = t] OBVIOUS
      <3>4. k \in HandlerRecords /\ k.pc = "send" /\ k.note = handler[h].note
        BY <1>0, <3>2, <3>3, TypeParts DEF HandlerType, HandlerRecords, HandlerPlaces
      <3>5. handler' = [handler EXCEPT ![h] = k] BY <3>1, <3>3
      <3>6. HandlerTurns(h, k.pc, k.note) BY <1>0, <3>4, <3>5, HandlerSet, TypeParts
      <3> QED BY <3>4, <3>6
    <2> QED BY <2>1, <2>2 DEF PickToken
  <1> QED BY <1>1, <1>2, <1>3, Works

\* A push reaches the phone: from the handler that nobody else shares the row with.
LEMMA Pushes ==
  ASSUME NotifyInv, NEW h \in Handlers, NEW label \in {"sent", "rejected"},
         At(h, "send"), Pushed(h), HandlerTurns(h, label, handler[h].note),
         UNCHANGED <<call, claimed, local, row, job, active, gone, buried>>, Counted,
         label = "sent" \/ "push" \in unsure'
  PROVE  NotifyInv'
  <1>0. BaseInv /\ TypeOK BY DEF NotifyInv, BaseInv
  <1> DEFINE c == handler[h].note
  <1>1. ~At(h, "idle") BY DEF At
  <1>2. c \in Calls /\ c # None /\ job[c].state # "none" BY <1>0, <1>1, Busy
  <1>3. /\ pushes' \in [Calls -> 0..2] /\ pushes'[c] > 0
        /\ pushes[c] = 0 => pushes'[c] = 1
        /\ \A d \in Calls : d # c => pushes'[d] = pushes[d]
    <2>1. PICK n : n = IF pushes[c] < 2 THEN pushes[c] + 1 ELSE pushes[c] OBVIOUS
    <2>2. pushes' = [pushes EXCEPT ![c] = n] BY <2>1 DEF Pushed
    <2>3. pushes[c] \in 0..2 BY <1>0, <1>2, TypeParts DEF PushType
    <2>4. n \in 0..2 /\ n > 0 /\ (pushes[c] = 0 => n = 1) BY <2>1, <2>3
    <2> HIDE DEF c
    <2> QED BY <1>0, <1>2, <2>2, <2>4, TypeParts DEF PushType
  <1>4. TypeOK'
    BY <1>0, <1>3, TypeParts
    DEF CallType, KeyType, RowType, JobType, PhoneType, PushType, HandlerTurns, Counted
  <1>5. ASSUME NEW d \in Calls PROVE CallOK(d)'
    <2>1. CASE d = c BY <1>0, <1>2, <1>3, <2>1 DEF BaseInv, CallOK
    <2>2. CASE d # c BY <1>0, <1>3, <2>2 DEF BaseInv, CallOK
    <2> QED BY <2>1, <2>2
  <1>6. ASSUME NEW g \in Handlers PROVE HandlerOK(g)'
    <2>1. CASE g = h BY <1>2, <1>3, <2>1 DEF HandlerTurns, HandlerOK, At
    <2>2. CASE g # h
      <3>1. HandlerOK(g) /\ handler'[g] = handler[g] BY <1>0, <2>2 DEF BaseInv, HandlerTurns
      <3>2. At(g, "sent") => handler[g].note \in Calls BY <1>0, Busy DEF At
      <3> QED BY <1>3, <3>1, <3>2 DEF HandlerOK, At
    <2> QED BY <2>1, <2>2
  <1>7. DedupeInv' /\ MarkInv'
    BY PastKept, DedupeKept, MarkKept DEF NotifyInv, Counted, AtCall
  <1>8. \A g \in Handlers : /\ handler'[g].note = handler[g].note
                            /\ At(g, "bury")' <=> At(g, "bury")
    BY DEF HandlerTurns, At
  <1>9. LockInv'
    <2>1. CASE "stall" \in unsure' BY <2>1 DEF LockInv
    <2>2. CASE "stall" \notin unsure'
      <3>1. "stall" \notin unsure BY <2>2 DEF Counted
      <3>2. ASSUME NEW d \in Calls, job[d].state = "active"
            PROVE  handler'[job[d].owner].note = d
        <4>1. job[d].owner \in Handlers
          BY <1>0, <3>2, TypeParts DEF BaseInv, CallOK, JobType, JobRecords
        <4> QED BY <1>8, <3>1, <3>2, <4>1 DEF NotifyInv, LockInv
      <3> QED BY <1>8, <3>1, <3>2 DEF NotifyInv, LockInv
    <2> QED BY <2>1, <2>2
  <1>10. PushInv'
    <2>1. CASE unsure' \cap {"push", "record", "stall"} # {} BY <2>1 DEF PushInv
    <2>2. CASE unsure' \cap {"push", "record", "stall"} = {}
      <3>1. unsure \cap {"push", "record", "stall"} = {} /\ label = "sent" BY <2>2 DEF Counted
      <3>2. "stall" \notin unsure BY <3>1
      <3>3. pushes[c] = 0 BY <3>1 DEF NotifyInv, PushInv, At, Unpushed
      <3>4. job[c].owner = h BY <1>2, <3>2 DEF NotifyInv, LockInv, At
      <3>5. job[c].state = "active"
        <4>1. h # None BY NotificationsAssumption
        <4> QED BY <1>0, <1>2, <3>4, <4>1 DEF BaseInv, CallOK
      <3>6. ASSUME NEW g \in Handlers, handler'[g].pc \in Unpushed
            PROVE  pushes'[handler'[g].note] = 0
        <4>1. g # h BY <3>1, <3>6 DEF HandlerTurns, Unpushed
        <4>2. handler'[g] = handler[g] /\ pushes[handler[g].note] = 0
          BY <3>1, <3>6, <4>1 DEF HandlerTurns, NotifyInv, PushInv
        <4>3. handler[g].note \in Calls /\ handler[g].note # None
          BY <1>0, <3>6, <4>2, Busy DEF At, Unpushed
        <4>4. handler[g].note # c
          BY <1>2, <3>2, <3>4, <3>6, <4>1, <4>2 DEF NotifyInv, LockInv, At, Unpushed
        <4> QED BY <1>3, <4>2, <4>3, <4>4
      <3>7. ASSUME NEW d \in Calls
            PROVE  pushes'[d] <= 1 /\ (job'[d].state = "waiting" => pushes'[d] = 0)
        <4>1. CASE d = c
          <5>1. pushes'[d] = 1 BY <1>3, <3>3, <4>1
          <5>2. job'[d].state = "active" BY <3>5, <4>1
          <5> QED BY <5>1, <5>2
        <4>2. CASE d # c BY <1>3, <3>1, <4>2 DEF NotifyInv, PushInv
        <4> QED BY <4>1, <4>2
      <3> QED BY <3>6, <3>7 DEF PushInv
    <2> QED BY <2>1, <2>2
  <1>11. RecordInv'
    <2>1. CASE ~(unsure' \subseteq {"dedupe"}) BY <2>1 DEF RecordInv
    <2>2. CASE unsure' \subseteq {"dedupe"}
      <3>1. unsure \subseteq {"dedupe"} /\ label = "sent" BY <2>2 DEF Counted
      <3>2. ASSUME NEW d \in Calls, pushes'[d] > 0
            PROVE  row[d] = "sent" \/ \E g \in Handlers : handler'[g].note = d /\ At(g, "sent")'
        <4>1. CASE d = c BY <3>1, <4>1 DEF HandlerTurns, At
        <4>2. CASE d # c
          <5>1. pushes[d] > 0 BY <1>3, <3>2, <4>2
          <5>2. CASE row[d] = "sent" BY <5>2
          <5>3. CASE \E g \in Handlers : handler[g].note = d /\ At(g, "sent")
            BY <4>2, <5>3 DEF HandlerTurns, At
          <5> QED BY <3>1, <5>1, <5>2, <5>3 DEF NotifyInv, RecordInv
        <4> QED BY <4>1, <4>2
      <3> QED BY <3>2 DEF RecordInv
    <2> QED BY <2>1, <2>2
  <1> QED BY <1>4, <1>5, <1>6, <1>7, <1>9, <1>10, <1>11 DEF NotifyInv, BaseInv

LEMMA StepSend ==
  ASSUME NotifyInv, NEW h \in Handlers, SendFCM(h)
  PROVE  NotifyInv'
  <1>0. TypeOK BY DEF NotifyInv, BaseInv
  <1>1. UNCHANGED <<call, claimed, local, row, job, active, gone, buried>> /\ PhoneType'
    BY <1>0, TypeParts DEF SendFCM, notifyVars, PhoneType
  <1>2. At(h, "send") /\ ~At(h, "idle") /\ ~At(h, "bury") /\ handler[h].pc \in Unpushed
    BY DEF SendFCM, At, Unpushed
  <1>3. \A l \in {"sent", "invalid", "rejected"} :
           Go(h, l) => HandlerTurns(h, l, handler[h].note)
    BY <1>0, GoTurns, TypeParts DEF HandlerPlaces
  <1>4. CASE Pushed(h) /\ Go(h, "sent") /\ NoFault
    BY <1>0, <1>1, <1>2, <1>3, <1>4, NoFaultCounted, Pushes, TypeParts
  <1>5. CASE Pushed(h) /\ Go(h, "rejected") /\ Fault({"push"})
    <2>1. Counted /\ "push" \in unsure' BY <1>0, <1>5, FaultCounted, TypeParts DEF Unsure
    <2> QED BY <1>1, <1>2, <1>3, <1>5, <2>1, Pushes
  <1>6. CASE Go(h, "invalid") /\ UNCHANGED pushes /\ NoFault
    BY <1>0, <1>1, <1>2, <1>3, <1>6, NoFaultCounted, Works, TypeParts
  <1>7. CASE Go(h, "rejected") /\ UNCHANGED pushes /\ NoFault
    BY <1>0, <1>1, <1>2, <1>3, <1>7, NoFaultCounted, Works, TypeParts
  <1> QED BY <1>4, <1>5, <1>6, <1>7 DEF SendFCM

LEMMA StepDeactivate ==
  ASSUME NotifyInv, NEW h \in Handlers, DeactivateInvalidToken(h)
  PROVE  NotifyInv'
  <1>0. TypeOK BY DEF NotifyInv, BaseInv
  <1>1. UNCHANGED <<call, claimed, local, row, job, pushes>> /\ PhoneType' /\ Counted
    BY <1>0, NoFaultCounted, TypeParts DEF DeactivateInvalidToken, notifyVars, PhoneType
  <1>2. ~At(h, "idle") /\ ~At(h, "bury") /\ handler[h].pc \in Unpushed
    BY DEF DeactivateInvalidToken, At, Unpushed
  <1>3. HandlerTurns(h, "refused", handler[h].note)
    BY <1>0, GoTurns, TypeParts DEF DeactivateInvalidToken, HandlerPlaces
  <1> QED BY <1>1, <1>2, <1>3, Works

LEMMA StepDatabaseFails ==
  ASSUME NotifyInv, NEW h \in Handlers, DatabaseFails(h)
  PROVE  NotifyInv'
  <1>0. TypeOK BY DEF NotifyInv, BaseInv
  <1>1. UNCHANGED <<call, claimed, local, row, job, pushes>> /\ PhoneType'
    BY <1>0, TypeParts DEF DatabaseFails, notifyVars, PhoneType
  <1>2. Counted /\ (At(h, "sent") => "record" \in unsure')
    BY <1>0, FaultCounted, TypeParts DEF DatabaseFails, Unsure
  <1>3. /\ ~At(h, "idle") /\ ~At(h, "bury")
        /\ handler[h].pc \in Unpushed \/ At(h, "sent")
    BY DEF DatabaseFails, At, Unpushed
  <1>4. HandlerTurns(h, "throw", handler[h].note)
    BY <1>0, GoTurns, TypeParts DEF DatabaseFails, HandlerPlaces
  <1> QED BY <1>1, <1>2, <1>3, <1>4, Works

LEMMA StepRecord ==
  ASSUME NotifyInv, NEW h \in Handlers, RecordOutcome(h)
  PROVE  NotifyInv'
  <1>0. BaseInv /\ TypeOK BY DEF NotifyInv, BaseInv
  <1> DEFINE c == handler[h].note
  <1>1. ~At(h, "idle") /\ ~At(h, "bury") BY DEF RecordOutcome, At
  <1>2. c \in Calls /\ c # None /\ job[c].state # "none" /\ row[c] # "none"
    BY <1>0, <1>1, Busy
  <1>3. UNCHANGED <<call, claimed, local, job, active, gone, buried, pushes>>
    BY DEF RecordOutcome, notifyVars
  <1>4. Counted /\ unsure' = unsure
    BY <1>0, NoFaultCounted, TypeParts DEF RecordOutcome
  <1>5. PICK s \in {"sent", "failed"} : RowTurns(c, s) /\ (s = "sent" <=> At(h, "sent"))
    BY <1>0, <1>2, SetRowTurns, TypeParts DEF RecordOutcome
  <1>6. PICK l \in {"throw", "complete"} : /\ HandlerTurns(h, l, c)
                                           /\ l = "throw" => At(h, "rejected")
    BY <1>0, GoTurns, TypeParts DEF RecordOutcome, HandlerPlaces
  <1>7. At(h, "sent") => pushes[c] > 0 BY <1>0 DEF BaseInv, HandlerOK
  <1>8. handler[h].pc \in {"sent", "noToken", "refused", "rejected"} BY DEF RecordOutcome
  <1> HIDE DEF c
  <1>9. TypeOK'
    BY <1>0, <1>3, <1>4, <1>5, <1>6, TypeParts
    DEF CallType, KeyType, JobType, PhoneType, PushType, HandlerTurns, RowTurns, Counted
  <1>10. ASSUME NEW d \in Calls PROVE CallOK(d)'
    <2>1. CASE d = c
      <3>1. CallOK(c) BY <1>0, <1>2 DEF BaseInv
      <3> QED BY <1>2, <1>3, <1>5, <1>7, <2>1, <3>1 DEF CallOK, RowTurns
    <2>2. CASE d # c BY <1>0, <1>3, <1>5, <2>2 DEF BaseInv, CallOK, RowTurns
    <2> QED BY <2>1, <2>2
  <1>11. ASSUME NEW g \in Handlers PROVE HandlerOK(g)'
    <2>1. CASE g = h BY <1>2, <1>3, <1>6, <2>1 DEF HandlerTurns, HandlerOK, At
    <2>2. CASE g # h BY <1>0, <1>3, <1>6, <2>2 DEF BaseInv, HandlerTurns, HandlerOK, At
    <2> QED BY <2>1, <2>2
  <1>12. DedupeInv' /\ MarkInv'
    <2>1. \A d \in Calls : row'[d] # "none" => row[d] # "none" BY <1>2, <1>5 DEF RowTurns
    <2> QED BY <1>3, <1>4, <2>1, PastKept, DedupeKept, MarkKept DEF NotifyInv, AtCall
  <1>13. \A g \in Handlers : /\ handler'[g].note = handler[g].note
                             /\ At(g, "bury")' <=> At(g, "bury")
    BY <1>1, <1>6 DEF HandlerTurns, At, c
  <1>14. LockInv'
    <2>1. CASE "stall" \in unsure BY <1>4, <2>1 DEF LockInv
    <2>2. CASE "stall" \notin unsure
      <3>1. ASSUME NEW d \in Calls, job[d].state = "active"
            PROVE  handler'[job[d].owner].note = d
        <4>1. job[d].owner \in Handlers
          BY <1>0, <3>1, TypeParts DEF BaseInv, CallOK, JobType, JobRecords
        <4> QED BY <1>13, <2>2, <3>1, <4>1 DEF NotifyInv, LockInv
      <3> QED BY <1>3, <1>13, <2>2, <3>1 DEF NotifyInv, LockInv
    <2> QED BY <2>1, <2>2
  <1>15. PushInv'
    <2>1. CASE unsure \cap {"push", "record", "stall"} # {} BY <1>4, <2>1 DEF PushInv
    <2>2. CASE unsure \cap {"push", "record", "stall"} = {}
      <3>1. ASSUME NEW g \in Handlers, handler'[g].pc \in Unpushed
            PROVE  pushes[handler'[g].note] = 0
        BY <1>6, <2>2, <3>1 DEF HandlerTurns, NotifyInv, PushInv, Unpushed, At, c
      <3> QED BY <1>3, <2>2, <3>1 DEF NotifyInv, PushInv
    <2> QED BY <2>1, <2>2
  <1>16. RecordInv'
    <2>1. CASE ~(unsure \subseteq {"dedupe"}) BY <1>4, <2>1 DEF RecordInv
    <2>2. CASE unsure \subseteq {"dedupe"}
      <3>1. ASSUME NEW d \in Calls, pushes[d] > 0
            PROVE  row'[d] = "sent" \/ \E g \in Handlers : handler'[g].note = d /\ At(g, "sent")'
        <4>1. CASE d = c
          <5>1. CASE At(h, "sent") BY <1>5, <4>1, <5>1 DEF RowTurns
          <5>2. CASE ~At(h, "sent")
            <6>1. unsure \cap {"push", "record", "stall"} = {} BY <2>2
            <6>2. pushes[c] = 0
              BY <1>8, <5>2, <6>1 DEF NotifyInv, PushInv, Unpushed, At, c
            <6> QED BY <3>1, <4>1, <6>2
          <5> QED BY <5>1, <5>2
        <4>2. CASE d # c
          <5>1. CASE row[d] = "sent" BY <1>5, <4>2, <5>1 DEF RowTurns
          <5>2. CASE \E g \in Handlers : handler[g].note = d /\ At(g, "sent")
            <6>1. PICK g \in Handlers : handler[g].note = d /\ At(g, "sent") BY <5>2
            <6>2. g # h BY <4>2, <6>1 DEF c
            <6> QED BY <1>6, <6>1, <6>2 DEF HandlerTurns, At
          <5> QED BY <2>2, <3>1, <5>1, <5>2 DEF NotifyInv, RecordInv
        <4> QED BY <4>1, <4>2
      <3> QED BY <1>3, <3>1 DEF RecordInv
    <2> QED BY <2>1, <2>2
  <1> QED BY <1>9, <1>10, <1>11, <1>12, <1>14, <1>15, <1>16 DEF NotifyInv, BaseInv

\* A handler ends, and gives its job back if it holds the lock.
LEMMA Leaves ==
  ASSUME NotifyInv, NEW h \in Handlers, NEW c, c = handler[h].note,
         ~At(h, "idle"), HandlerTurns(h, "idle", None),
         UNCHANGED <<call, claimed, local, row, pushes>>, PhoneType', Counted, JobType',
         \A d \in Calls : job'[d] = job[d] \/ d = c,
         \/ job'[c] = job[c] /\ (At(h, "bury") \/ "stall" \in unsure')
         \/ /\ job[c].owner = h
            /\ job'[c].state \in {"waiting", "completed", "failed"} /\ job'[c].owner = None
            /\ job'[c].state = "waiting" => job'[c].made < MaxAttempts /\ At(h, "throw"),
         At(h, "sent") => "stall" \in unsure'
  PROVE  NotifyInv'
  <1>0. BaseInv /\ TypeOK BY DEF NotifyInv, BaseInv
  <1>1. c \in Calls /\ c # None /\ job[c].state # "none" /\ row[c] # "none" BY <1>0, Busy
  <1>2. TypeOK'
    BY <1>0, TypeParts DEF CallType, KeyType, RowType, PushType, HandlerTurns, Counted
  <1>3. h # None BY NotificationsAssumption
  <1>4. CallOK(c) /\ (job[c].owner = h => job[c].state = "active")
    BY <1>0, <1>1, <1>3 DEF BaseInv, CallOK
  <1>5. ASSUME NEW d \in Calls PROVE CallOK(d)'
    <2>1. CASE job'[d] = job[d] BY <1>0, <2>1 DEF BaseInv, CallOK
    <2>2. CASE job'[d] # job[d]
      <3>1. d = c BY <2>2
      <3>2. job[c].state = "active" BY <1>4, <2>2, <3>1
      <3>3. call[c].pc \notin {"idle", "claim", "create", "enqueue"}
        BY <1>4, <3>2 DEF CallOK, NoJob
      <3> QED BY <1>1, <1>4, <2>2, <3>1, <3>3 DEF CallOK
    <2> QED BY <2>1, <2>2
  <1>6. \A d \in Calls : job[d].state # "none" <=> job'[d].state # "none"
    BY <1>1
  <1>7. ASSUME NEW g \in Handlers PROVE HandlerOK(g)'
    <2>1. CASE g = h BY <2>1 DEF HandlerTurns, HandlerOK, At
    <2>2. CASE g # h
      <3>1. handler'[g] = handler[g] /\ HandlerOK(g) BY <1>0, <2>2 DEF HandlerTurns, BaseInv
      <3>2. handler[g].note # None => handler[g].note \in Calls
        BY <1>0, TypeParts DEF HandlerType, HandlerRecords
      <3> QED BY <1>6, <3>1, <3>2 DEF HandlerOK, At
    <2> QED BY <2>1, <2>2
  <1>8. DedupeInv' /\ MarkInv'
    BY <1>6, PastKept, DedupeKept, MarkKept DEF NotifyInv, Counted, AtCall
  <1>9. LockInv'
    <2>1. CASE "stall" \in unsure' BY <2>1 DEF LockInv
    <2>2. CASE "stall" \notin unsure'
      <3>1. "stall" \notin unsure BY <2>2 DEF Counted
      <3>2. ASSUME NEW d \in Calls, job'[d].state = "active"
            PROVE  handler'[job'[d].owner].note = d
        <4>1. job'[d] = job[d] BY <3>2
        <4>2. job[d].owner \in Handlers
          BY <1>0, <3>2, <4>1, TypeParts DEF BaseInv, CallOK, JobType, JobRecords
        <4>3. handler[job[d].owner].note = d BY <3>1, <3>2, <4>1 DEF NotifyInv, LockInv
        <4>4. job[d].owner # h
          <5>1. SUFFICES ASSUME job[d].owner = h PROVE FALSE OBVIOUS
          <5>2. d = c BY <4>3, <5>1
          <5>3. At(h, "bury") BY <2>2, <3>2, <5>2
          <5>4. job[c].state = "failed" BY <1>1, <3>1, <5>3 DEF NotifyInv, LockInv
          <5> QED BY <3>2, <4>1, <5>2, <5>4
        <4> QED BY <4>1, <4>2, <4>3, <4>4 DEF HandlerTurns
      <3>3. ASSUME NEW g \in Handlers, handler'[g].note # None
            PROVE  IF At(g, "bury")' THEN job'[handler'[g].note].state = "failed"
                                     ELSE job'[handler'[g].note].owner = g
        <4>1. g # h BY <3>3 DEF HandlerTurns
        <4>2. handler'[g] = handler[g] BY <4>1 DEF HandlerTurns
        <4> DEFINE d == handler[g].note
        <4>3. d \in Calls BY <1>0, <3>3, <4>2, TypeParts DEF HandlerType, HandlerRecords
        <4>4. IF At(g, "bury") THEN job[d].state = "failed" ELSE job[d].owner = g
          BY <3>1, <3>3, <4>2 DEF NotifyInv, LockInv
        <4>5. job'[d] = job[d] BY <1>4, <4>1, <4>3, <4>4
        <4> QED BY <4>2, <4>4, <4>5 DEF At
      <3> QED BY <3>2, <3>3 DEF LockInv
    <2> QED BY <2>1, <2>2
  <1>10. PushInv'
    <2>1. CASE unsure' \cap {"push", "record", "stall"} # {} BY <2>1 DEF PushInv
    <2>2. CASE unsure' \cap {"push", "record", "stall"} = {}
      <3>1. unsure \cap {"push", "record", "stall"} = {} BY <2>2 DEF Counted
      <3>2. ASSUME NEW g \in Handlers, handler'[g].pc \in Unpushed
            PROVE  pushes[handler'[g].note] = 0
        BY <3>1, <3>2 DEF HandlerTurns, NotifyInv, PushInv, Unpushed
      <3>3. ASSUME NEW d \in Calls
            PROVE  pushes[d] <= 1 /\ (job'[d].state = "waiting" => pushes[d] = 0)
        <4>1. CASE job'[d] = job[d] BY <3>1, <4>1 DEF NotifyInv, PushInv
        <4>2. CASE job'[d] # job[d]
          <5>1. d = c /\ (job'[c].state = "waiting" => At(h, "throw")) BY <4>2
          <5>2. At(h, "throw") => pushes[c] = 0 BY <3>1 DEF NotifyInv, PushInv, Unpushed, At
          <5> QED BY <3>1, <5>1, <5>2 DEF NotifyInv, PushInv
        <4> QED BY <4>1, <4>2
      <3> QED BY <3>2, <3>3 DEF PushInv
    <2> QED BY <2>1, <2>2
  <1>11. RecordInv'
    <2>1. CASE ~(unsure' \subseteq {"dedupe"}) BY <2>1 DEF RecordInv
    <2>2. CASE unsure' \subseteq {"dedupe"}
      <3>1. unsure \subseteq {"dedupe"} /\ ~At(h, "sent") BY <2>2 DEF Counted
      <3>2. \A g \in Handlers : At(g, "sent") => At(g, "sent")' /\ handler'[g] = handler[g]
        BY <3>1 DEF HandlerTurns, At
      <3> QED BY <3>1, <3>2 DEF NotifyInv, RecordInv
    <2> QED BY <2>1, <2>2
  <1> QED BY <1>2, <1>5, <1>7, <1>8, <1>9, <1>10, <1>11 DEF NotifyInv, BaseInv

\* A handler that does not hold its job's lock has been declared stalled.
LEMMA LockLost ==
  ASSUME NotifyInv, NEW h \in Handlers, ~At(h, "idle"), ~At(h, "bury"),
         job[handler[h].note].owner # h
  PROVE  "stall" \in unsure
  <1>1. handler[h].note # None BY Busy DEF NotifyInv
  <1> QED BY <1>1 DEF NotifyInv, LockInv

LEMMA StepComplete ==
  ASSUME NotifyInv, NEW h \in Handlers, Complete(h)
  PROVE  NotifyInv'
  <1>0. BaseInv /\ TypeOK BY DEF NotifyInv, BaseInv
  <1> DEFINE c == handler[h].note
  <1>1. ~At(h, "idle") /\ ~At(h, "bury") /\ ~At(h, "sent") BY DEF Complete, At
  <1>2. c \in Calls BY <1>0, <1>1, Busy
  <1>3. UNCHANGED <<call, claimed, local, row, pushes>> /\ PhoneType' /\ Counted
        /\ unsure' = unsure
    BY <1>0, NoFaultCounted, TypeParts DEF Complete, notifyVars, PhoneType
  <1>4. HandlerTurns(h, "idle", None) BY <1>0, IdleTurns, TypeParts DEF Complete
  <1>5. CASE job[c].owner = h
    <2>1. job' = [job EXCEPT ![c].state = "completed", ![c].owner = None]
      BY <1>5 DEF Complete
    <2>2. PICK j : j = [job[c] EXCEPT !.state = "completed", !.owner = None] OBVIOUS
    <2>3. j \in JobRecords /\ j.state = "completed" /\ j.owner = None
      <3>1. job[c] \in JobRecords BY <1>0, <1>2, TypeParts DEF JobType
      <3> HIDE DEF c
      <3> QED BY <2>2, <3>1 DEF JobRecords
    <2> HIDE DEF c
    <2>4. job' = [job EXCEPT ![c] = j] BY <2>1, <2>2
    <2>5. JobTurns(c, j) BY <1>0, <1>2, <2>3, <2>4, JobSet, TypeParts
    <2>6. c = handler[h].note BY DEF c
    <2> QED BY <1>1, <1>3, <1>4, <1>5, <2>3, <2>5, <2>6, Leaves DEF JobTurns
  <1>6. CASE job[c].owner # h
    <2>1. job' = job BY <1>6 DEF Complete
    <2>2. JobType' BY <1>0, <2>1, TypeParts DEF JobType
    <2>3. "stall" \in unsure' BY <1>1, <1>3, <1>6, LockLost
    <2> QED BY <1>1, <1>3, <1>4, <2>1, <2>2, <2>3, Leaves
  <1> QED BY <1>5, <1>6

LEMMA StepBury ==
  ASSUME NotifyInv, NEW h \in Handlers, Bury(h)
  PROVE  NotifyInv'
  <1>0. BaseInv /\ TypeOK BY DEF NotifyInv, BaseInv
  <1>1. ~At(h, "idle") /\ At(h, "bury") /\ ~At(h, "sent") BY DEF Bury, At
  <1>2. handler[h].note \in Calls BY <1>0, <1>1, Busy
  <1>3. UNCHANGED <<call, claimed, local, row, job, active, gone, pushes>>
    BY DEF Bury, notifyVars
  <1>4. Counted
    BY <1>0, NoFaultCounted, FaultCounted, TypeParts DEF Bury
  <1>5. PhoneType' BY <1>0, <1>2, <1>3, TypeParts DEF Bury, PhoneType
  <1>6. HandlerTurns(h, "idle", None) BY <1>0, IdleTurns, TypeParts DEF Bury
  <1>7. JobType' BY <1>0, <1>3, TypeParts DEF JobType
  <1> QED BY <1>1, <1>3, <1>4, <1>5, <1>6, <1>7, Leaves

LEMMA StepHandlerDies ==
  ASSUME NotifyInv, NEW h \in Handlers, HandlerDies(h)
  PROVE  NotifyInv'
  <1>0. BaseInv /\ TypeOK BY DEF NotifyInv, BaseInv
  <1>1. UNCHANGED <<call, claimed, local, row, job, pushes>> /\ PhoneType'
    BY <1>0, TypeParts DEF HandlerDies, notifyVars, PhoneType
  <1>2. Counted /\ "stall" \in unsure'
    BY <1>0, FaultCounted, TypeParts DEF HandlerDies, Unsure
  <1>3. HandlerTurns(h, "idle", None) BY <1>0, IdleTurns, TypeParts DEF HandlerDies
  <1>4. JobType' BY <1>0, <1>1, TypeParts DEF JobType
  <1> QED BY <1>1, <1>2, <1>3, <1>4, Leaves DEF HandlerDies

LEMMA StepThrow ==
  ASSUME NotifyInv, NEW h \in Handlers, Throw(h)
  PROVE  NotifyInv'
  <1>0. BaseInv /\ TypeOK BY DEF NotifyInv, BaseInv
  <1>1. ~At(h, "idle") /\ ~At(h, "bury") /\ ~At(h, "sent") /\ At(h, "throw")
        /\ handler[h].pc \in Unpushed
    BY DEF Throw, At, Unpushed
  <1>2. PICK c \in Calls : c = handler[h].note BY <1>0, <1>1, Busy
  <1>3. c # None /\ job[c].state # "none" /\ row[c] # "none" BY <1>0, <1>1, <1>2, Busy
  <1>4. UNCHANGED <<call, claimed, local, row, active, gone, buried, pushes>> /\ PhoneType'
        /\ Counted /\ unsure' = unsure
    BY <1>0, NoFaultCounted, TypeParts DEF Throw, notifyVars, PhoneType
  <1>5. CASE job[c].owner # h
    <2>1. job' = job /\ handler' = [handler EXCEPT ![h] = Idle] BY <1>2, <1>5 DEF Throw
    <2>2. HandlerTurns(h, "idle", None) BY <1>0, <2>1, IdleTurns, TypeParts
    <2>3. JobType' BY <1>0, <2>1, TypeParts DEF JobType
    <2>4. "stall" \in unsure' BY <1>1, <1>2, <1>4, <1>5, LockLost
    <2> QED BY <1>1, <1>2, <1>4, <2>1, <2>2, <2>3, <2>4, Leaves
  <1>6. CASE job[c].owner = h
    <2>1. job[c] \in JobRecords BY <1>0, TypeParts DEF JobType
    <2>2. job[c].state = "active" /\ job[c].made < MaxAttempts
      <3>1. h # None BY NotificationsAssumption
      <3> QED BY <1>0, <1>6, <3>1 DEF BaseInv, CallOK
    <2>3. PICK n \in 0..MaxAttempts : n = job[c].made + 1
      <3>1. job[c].made \in 0..MaxAttempts BY <2>1 DEF JobRecords
      <3> QED BY <2>2, <3>1, NotificationsAssumption
    <2>4. PICK s \in {"waiting", "failed"} : s = IF n < MaxAttempts THEN "waiting" ELSE "failed"
      OBVIOUS
    <2>5. PICK j : j = [job[c] EXCEPT !.state = s, !.made = n, !.owner = None] OBVIOUS
    <2>6. j \in JobRecords /\ j.state = s /\ j.made = n /\ j.owner = None
      BY <2>1, <2>5 DEF JobRecords
    <2>7. job' = [job EXCEPT ![c] = j] BY <1>2, <1>6, <2>3, <2>4, <2>5 DEF Throw
    <2>8. JobTurns(c, j) BY <1>0, <2>6, <2>7, JobSet, TypeParts
    <2>9. CASE n < MaxAttempts
      <3>1. handler' = [handler EXCEPT ![h] = Idle]
        BY <1>2, <2>3, <2>9, NotificationsAssumption DEF Throw, AllAttemptsMade
      <3>2. HandlerTurns(h, "idle", None) BY <1>0, <3>1, IdleTurns, TypeParts
      <3> QED BY <1>1, <1>2, <1>4, <1>6, <2>4, <2>6, <2>8, <2>9, <3>2, Leaves DEF JobTurns
    <2>10. CASE ~(n < MaxAttempts)
      <3>1. Go(h, "bury")
        BY <1>2, <1>6, <2>3, <2>10, NotificationsAssumption DEF Throw, AllAttemptsMade
      <3>2. HandlerTurns(h, "bury", c)
        BY <1>0, <1>2, <3>1, GoTurns, TypeParts DEF HandlerPlaces
      <3>3. job'[c].state = "failed" /\ job'[c].owner = None
            /\ \A d \in Calls : d # c => job'[d] = job[d]
        BY <2>4, <2>6, <2>8, <2>10 DEF JobTurns
      <3>4. TypeOK'
        BY <1>0, <1>4, <2>8, <3>2, TypeParts
        DEF CallType, KeyType, RowType, PushType, HandlerTurns, JobTurns, Counted
      <3>5. ASSUME NEW d \in Calls PROVE CallOK(d)'
        <4>1. CASE d = c
          <5>1. CallOK(c) BY <1>0 DEF BaseInv
          <5>2. call[c].pc \notin {"idle", "claim", "create", "enqueue"}
            BY <2>2, <5>1 DEF CallOK, NoJob
          <5> QED BY <1>3, <1>4, <3>3, <4>1, <5>1, <5>2 DEF CallOK
        <4>2. CASE d # c BY <1>0, <1>4, <3>3, <4>2 DEF BaseInv, CallOK
        <4> QED BY <4>1, <4>2
      <3>6. \A d \in Calls : job[d].state # "none" <=> job'[d].state # "none"
        BY <1>3, <3>3
      <3>7. ASSUME NEW g \in Handlers PROVE HandlerOK(g)'
        <4>1. CASE g = h BY <1>3, <3>2, <3>3, <4>1 DEF HandlerTurns, HandlerOK, At
        <4>2. CASE g # h
          <5>1. handler'[g] = handler[g] /\ HandlerOK(g)
            BY <1>0, <3>2, <4>2 DEF HandlerTurns, BaseInv
          <5>2. handler[g].note # None => handler[g].note \in Calls
            BY <1>0, TypeParts DEF HandlerType, HandlerRecords
          <5> QED BY <1>4, <3>6, <5>1, <5>2 DEF HandlerOK, At
        <4> QED BY <4>1, <4>2
      <3>8. DedupeInv' /\ MarkInv'
        BY <1>4, <3>6, PastKept, DedupeKept, MarkKept DEF NotifyInv, AtCall
      <3>9. LockInv'
        <4>1. CASE "stall" \in unsure BY <1>4, <4>1 DEF LockInv
        <4>2. CASE "stall" \notin unsure
          <5>1. ASSUME NEW d \in Calls, job'[d].state = "active"
                PROVE  handler'[job'[d].owner].note = d
            <6>1. d # c BY <3>3, <5>1
            <6>2. job'[d] = job[d] BY <3>3, <6>1
            <6>3. job[d].owner \in Handlers
              BY <1>0, <5>1, <6>2, TypeParts DEF BaseInv, CallOK, JobType, JobRecords
            <6>4. handler[job[d].owner].note = d BY <4>2, <5>1, <6>2 DEF NotifyInv, LockInv
            <6>5. job[d].owner # h BY <1>2, <6>1, <6>4
            <6> QED BY <3>2, <6>2, <6>3, <6>4, <6>5 DEF HandlerTurns
          <5>2. ASSUME NEW g \in Handlers, handler'[g].note # None
                PROVE  IF At(g, "bury")' THEN job'[handler'[g].note].state = "failed"
                                         ELSE job'[handler'[g].note].owner = g
            <6>1. CASE g = h BY <3>2, <3>3, <6>1 DEF HandlerTurns, At
            <6>2. CASE g # h
              <7>1. handler'[g] = handler[g] BY <3>2, <6>2 DEF HandlerTurns
              <7> DEFINE d == handler[g].note
              <7>2. d \in Calls BY <1>0, <5>2, <7>1, TypeParts DEF HandlerType, HandlerRecords
              <7>3. IF At(g, "bury") THEN job[d].state = "failed" ELSE job[d].owner = g
                BY <4>2, <5>2, <7>1 DEF NotifyInv, LockInv
              <7>4. d # c BY <1>6, <2>2, <6>2, <7>3
              <7>5. job'[d] = job[d] BY <3>3, <7>2, <7>4
              <7> QED BY <7>1, <7>3, <7>5 DEF At
            <6> QED BY <6>1, <6>2
          <5> QED BY <5>1, <5>2 DEF LockInv
        <4> QED BY <4>1, <4>2
      <3>10. PushInv'
        <4>1. CASE unsure \cap {"push", "record", "stall"} # {} BY <1>4, <4>1 DEF PushInv
        <4>2. CASE unsure \cap {"push", "record", "stall"} = {}
          <5>1. ASSUME NEW g \in Handlers, handler'[g].pc \in Unpushed
                PROVE  pushes[handler'[g].note] = 0
            BY <3>2, <4>2, <5>1 DEF HandlerTurns, NotifyInv, PushInv, Unpushed
          <5>2. ASSUME NEW d \in Calls
                PROVE  pushes[d] <= 1 /\ (job'[d].state = "waiting" => pushes[d] = 0)
            BY <3>3, <4>2 DEF NotifyInv, PushInv
          <5> QED BY <1>4, <5>1, <5>2 DEF PushInv
        <4> QED BY <4>1, <4>2
      <3>11. RecordInv'
        <4>1. \A g \in Handlers : At(g, "sent") => At(g, "sent")' /\ handler'[g] = handler[g]
          BY <1>1, <3>2 DEF HandlerTurns, At
        <4> QED BY <1>4, <4>1 DEF NotifyInv, RecordInv
      <3> QED BY <3>4, <3>5, <3>7, <3>8, <3>9, <3>10, <3>11 DEF NotifyInv, BaseInv
    <2> QED BY <2>9, <2>10
  <1> QED BY <1>5, <1>6

-----------------------------------------------------------------------------
(* Bull.                                                                   *)

LEMMA StepTakeJob ==
  ASSUME NotifyInv, NEW c \in Calls, TakeJob(c)
  PROVE  NotifyInv'
  <1>0. BaseInv /\ TypeOK BY DEF NotifyInv, BaseInv
  <1>1. UNCHANGED <<call, claimed, local, row, active, gone, buried, pushes>> /\ PhoneType'
        /\ Counted /\ unsure' = unsure
    BY <1>0, NoFaultCounted, TypeParts DEF TakeJob, notifyVars, PhoneType
  <1>2. PICK h \in Handlers :
           /\ At(h, "idle")
           /\ job' = [job EXCEPT ![c].state = "active", ![c].owner = h]
           /\ handler' = [handler EXCEPT ![h] = [Idle EXCEPT !.pc = "read", !.note = c]]
    <2> DEFINE k == CHOOSE g \in Handlers : At(g, "idle")
    <2>1. k \in Handlers /\ At(k, "idle") BY DEF TakeJob
    <2> QED BY <2>1 DEF TakeJob
  <1>3. job[c].state = "waiting" /\ job[c] \in JobRecords /\ CallOK(c)
    BY <1>0, TypeParts DEF TakeJob, JobType, BaseInv
  <1>4. c # None /\ h # None /\ handler[h].note = None
    BY <1>0, <1>2, NotificationsAssumption DEF BaseInv, HandlerOK
  <1>5. HandlerTurns(h, "read", c)
    <2>1. PICK k : k = [Idle EXCEPT !.pc = "read", !.note = c] OBVIOUS
    <2>2. k \in HandlerRecords /\ k.pc = "read" /\ k.note = c
      BY <2>1 DEF Idle, HandlerRecords, HandlerPlaces
    <2>3. handler' = [handler EXCEPT ![h] = k] BY <1>2, <2>1
    <2> QED BY <1>0, <2>2, <2>3, HandlerSet, TypeParts
  <1>6. PICK j \in JobRecords : /\ JobTurns(c, j) /\ j.state = "active" /\ j.owner = h
                                /\ j.made = job[c].made
    <2>1. PICK j : j = [job[c] EXCEPT !.state = "active", !.owner = h] OBVIOUS
    <2>2. j \in JobRecords /\ j.state = "active" /\ j.owner = h /\ j.made = job[c].made
      BY <1>3, <2>1 DEF JobRecords
    <2>3. job' = [job EXCEPT ![c] = j] BY <1>2, <2>1
    <2> QED BY <1>0, <2>2, <2>3, JobSet, TypeParts
  <1>7. TypeOK'
    BY <1>0, <1>1, <1>5, <1>6, TypeParts
    DEF CallType, KeyType, RowType, PushType, HandlerTurns, JobTurns, Counted
  <1>8. ASSUME NEW d \in Calls PROVE CallOK(d)'
    <2>1. CASE d = c
      <3>1. call[c].pc \notin {"idle", "claim", "create", "enqueue"}
        BY <1>3 DEF CallOK, NoJob
      <3> QED BY <1>1, <1>3, <1>4, <1>6, <2>1, <3>1 DEF CallOK, JobTurns
    <2>2. CASE d # c BY <1>0, <1>1, <1>6, <2>2 DEF BaseInv, CallOK, JobTurns
    <2> QED BY <2>1, <2>2
  <1>9. \A d \in Calls : job[d].state # "none" <=> job'[d].state # "none"
    BY <1>3, <1>6 DEF JobTurns
  <1>10. \A g \in Handlers : handler[g].note # None => handler[g].note \in Calls
    BY <1>0, TypeParts DEF HandlerType, HandlerRecords
  <1>11. ASSUME NEW g \in Handlers PROVE HandlerOK(g)'
    <2>1. CASE g = h BY <1>4, <1>5, <1>6, <2>1 DEF HandlerTurns, HandlerOK, JobTurns, At
    <2>2. CASE g # h
      BY <1>0, <1>1, <1>5, <1>9, <1>10, <2>2 DEF BaseInv, HandlerTurns, HandlerOK, At
    <2> QED BY <2>1, <2>2
  <1>12. DedupeInv' /\ MarkInv'
    BY <1>1, <1>9, PastKept, DedupeKept, MarkKept DEF NotifyInv, AtCall
  <1>13. LockInv'
    <2>1. CASE "stall" \in unsure BY <1>1, <2>1 DEF LockInv
    <2>2. CASE "stall" \notin unsure
      <3>1. ASSUME NEW d \in Calls, job'[d].state = "active"
            PROVE  handler'[job'[d].owner].note = d
        <4>1. CASE d = c BY <1>5, <1>6, <4>1 DEF HandlerTurns, JobTurns
        <4>2. CASE d # c
          <5>1. job'[d] = job[d] BY <1>6, <4>2 DEF JobTurns
          <5>2. job[d].owner \in Handlers
            BY <1>0, <3>1, <5>1, TypeParts DEF BaseInv, CallOK, JobType, JobRecords
          <5>3. handler[job[d].owner].note = d BY <2>2, <3>1, <5>1 DEF NotifyInv, LockInv
          <5>4. d # None BY NotificationsAssumption
          <5>5. job[d].owner # h BY <1>4, <5>3, <5>4
          <5> QED BY <1>5, <5>1, <5>2, <5>3, <5>5 DEF HandlerTurns
        <4> QED BY <4>1, <4>2
      <3>2. ASSUME NEW g \in Handlers, handler'[g].note # None
            PROVE  IF At(g, "bury")' THEN job'[handler'[g].note].state = "failed"
                                     ELSE job'[handler'[g].note].owner = g
        <4>1. CASE g = h BY <1>5, <1>6, <4>1 DEF HandlerTurns, JobTurns, At
        <4>2. CASE g # h
          <5>1. handler'[g] = handler[g] BY <1>5, <4>2 DEF HandlerTurns
          <5> DEFINE d == handler[g].note
          <5>2. d \in Calls BY <1>10, <3>2, <5>1
          <5>3. IF At(g, "bury") THEN job[d].state = "failed" ELSE job[d].owner = g
            BY <2>2, <3>2, <5>1 DEF NotifyInv, LockInv
          <5>4. g # None BY NotificationsAssumption
          <5>5. job[c].owner = None BY <1>3 DEF CallOK
          <5>6. d # c BY <1>3, <5>3, <5>4, <5>5
          <5>7. job'[d] = job[d] BY <1>6, <5>2, <5>6 DEF JobTurns
          <5> QED BY <5>1, <5>3, <5>7 DEF At
        <4> QED BY <4>1, <4>2
      <3> QED BY <3>1, <3>2 DEF LockInv
    <2> QED BY <2>1, <2>2
  <1>14. PushInv'
    <2>1. CASE unsure \cap {"push", "record", "stall"} # {} BY <1>1, <2>1 DEF PushInv
    <2>2. CASE unsure \cap {"push", "record", "stall"} = {}
      <3>1. ASSUME NEW g \in Handlers, handler'[g].pc \in Unpushed
            PROVE  pushes[handler'[g].note] = 0
        BY <1>3, <1>5, <2>2, <3>1 DEF HandlerTurns, NotifyInv, PushInv
      <3>2. ASSUME NEW d \in Calls
            PROVE  pushes[d] <= 1 /\ (job'[d].state = "waiting" => pushes[d] = 0)
        BY <1>6, <2>2 DEF JobTurns, NotifyInv, PushInv
      <3> QED BY <1>1, <3>1, <3>2 DEF PushInv
    <2> QED BY <2>1, <2>2
  <1>15. RecordInv'
    <2>1. \A g \in Handlers : At(g, "sent") => At(g, "sent")' /\ handler'[g] = handler[g]
      BY <1>2, <1>5 DEF HandlerTurns, At
    <2> QED BY <1>1, <2>1 DEF NotifyInv, RecordInv
  <1> QED BY <1>7, <1>8, <1>11, <1>12, <1>13, <1>14, <1>15 DEF NotifyInv, BaseInv

LEMMA StepStalled ==
  ASSUME NotifyInv, NEW c \in Calls, Stalled(c)
  PROVE  NotifyInv'
  <1>0. BaseInv /\ TypeOK BY DEF NotifyInv, BaseInv
  <1>1. UNCHANGED <<call, claimed, local, row, handler, active, gone, buried, pushes>>
    BY DEF Stalled, notifyVars
  <1>2. job[c].state = "active" /\ job[c] \in JobRecords /\ CallOK(c)
    BY <1>0, TypeParts DEF Stalled, JobType, BaseInv
  <1>3. Counted /\ "stall" \in unsure'
    <2>1. CASE handler[job[c].owner].note # c
      <3>1. Counted /\ unsure' = unsure
        BY <1>0, <2>1, NoFaultCounted, TypeParts DEF Stalled
      <3>2. "stall" \in unsure BY <1>2, <2>1 DEF NotifyInv, LockInv
      <3> QED BY <3>1, <3>2
    <2>2. CASE handler[job[c].owner].note = c
      BY <1>0, <2>2, FaultCounted, TypeParts DEF Stalled, Unsure
    <2> QED BY <2>1, <2>2
  <1>4. PICK j \in JobRecords : /\ JobTurns(c, j) /\ j.state \in {"waiting", "failed"}
                                /\ j.owner = None /\ j.made = job[c].made
    <2>1. CASE job[c].stalled < MaxStalled
      <3>1. PICK n \in 0..MaxStalled : n = job[c].stalled + 1
        <4>1. job[c].stalled \in 0..MaxStalled BY <1>2 DEF JobRecords
        <4> QED BY <2>1, <4>1, NotificationsAssumption
      <3>2. PICK j : j = [job[c] EXCEPT !.owner = None, !.stalled = n, !.state = "waiting"]
        OBVIOUS
      <3>3. /\ j \in JobRecords /\ j.state = "waiting" /\ j.owner = None
            /\ j.made = job[c].made
        BY <1>2, <3>2 DEF JobRecords
      <3>4. job' = [job EXCEPT ![c] = j] BY <2>1, <3>1, <3>2 DEF Stalled
      <3>5. JobTurns(c, j) BY <1>0, <3>3, <3>4, JobSet, TypeParts
      <3> QED BY <3>3, <3>5
    <2>2. CASE ~(job[c].stalled < MaxStalled)
      <3>1. PICK j : j = [job[c] EXCEPT !.owner = None, !.state = "failed"] OBVIOUS
      <3>2. /\ j \in JobRecords /\ j.state = "failed" /\ j.owner = None
            /\ j.made = job[c].made
        BY <1>2, <3>1 DEF JobRecords
      <3>3. job' = [job EXCEPT ![c] = j] BY <2>2, <3>1 DEF Stalled
      <3>4. JobTurns(c, j) BY <1>0, <3>2, <3>3, JobSet, TypeParts
      <3> QED BY <3>2, <3>4
    <2> QED BY <2>1, <2>2
  <1>5. TypeOK'
    BY <1>0, <1>1, <1>3, <1>4, TypeParts
    DEF CallType, KeyType, RowType, HandlerType, PhoneType, PushType, JobTurns, Counted
  <1>6. ASSUME NEW d \in Calls PROVE CallOK(d)'
    <2>1. CASE d = c
      <3>1. call[c].pc \notin {"idle", "claim", "create", "enqueue"}
        BY <1>2 DEF CallOK, NoJob
      <3> QED BY <1>1, <1>2, <1>4, <2>1, <3>1 DEF CallOK, JobTurns
    <2>2. CASE d # c BY <1>0, <1>1, <1>4, <2>2 DEF BaseInv, CallOK, JobTurns
    <2> QED BY <2>1, <2>2
  <1>7. \A d \in Calls : job[d].state # "none" <=> job'[d].state # "none"
    BY <1>2, <1>4 DEF JobTurns
  <1>8. ASSUME NEW g \in Handlers PROVE HandlerOK(g)'
    <2>1. handler[g].note # None => handler[g].note \in Calls
      BY <1>0, TypeParts DEF HandlerType, HandlerRecords
    <2> QED BY <1>0, <1>1, <1>7, <2>1 DEF BaseInv, HandlerOK, At
  <1>9. DedupeInv' /\ MarkInv'
    BY <1>1, <1>3, <1>7, PastKept, DedupeKept, MarkKept DEF NotifyInv, Counted, AtCall
  <1>10. LockInv' /\ PushInv' /\ RecordInv' BY <1>3 DEF LockInv, PushInv, RecordInv
  <1> QED BY <1>5, <1>6, <1>8, <1>9, <1>10 DEF NotifyInv, BaseInv

LEMMA Stays ==
  ASSUME NotifyInv, UNCHANGED <<call, claimed, local, row, job, handler, pushes>>,
         PhoneType', Counted
  PROVE  NotifyInv'
  <1>0. BaseInv /\ TypeOK BY DEF NotifyInv, BaseInv
  <1>1. TypeOK'
    BY <1>0, TypeParts
    DEF CallType, KeyType, RowType, JobType, HandlerType, PushType, Counted
  <1>2. BaseInv' BY <1>0, <1>1 DEF BaseInv, CallOK, HandlerOK, At
  <1>3. DedupeInv' /\ LockInv' /\ PushInv' /\ MarkInv' /\ RecordInv'
    BY PastKept, DedupeKept, LockKept, PushKept, MarkKept, RecordKept
    DEF NotifyInv, Counted, AtCall
  <1> QED BY <1>2, <1>3 DEF NotifyInv

LEMMA StepTokenGone ==
  ASSUME NotifyInv, NEW t \in Tokens, TokenGone(t)
  PROVE  NotifyInv'
  <1>0. TypeOK BY DEF NotifyInv, BaseInv
  <1>1. Counted BY <1>0, NoFaultCounted, TypeParts DEF TokenGone
  <1>2. PhoneType' BY <1>0, TypeParts DEF TokenGone, PhoneType
  <1> QED BY <1>1, <1>2, Stays DEF TokenGone, notifyVars

-----------------------------------------------------------------------------
(* The invariant, and what it says.                                        *)

LEMMA NotifyInit == Init => NotifyInv
  <1> SUFFICES ASSUME Init PROVE NotifyInv OBVIOUS
  <1> USE NotificationsAssumption
  <1>1. CallType
    <2>1. PICK p \in Processes : p = CHOOSE q \in Processes : TRUE OBVIOUS
    <2>2. call = [c \in Calls |-> [pc |-> "idle", proc |-> p]] BY <2>1 DEF Init
    <2> QED BY <2>2 DEF CallType, CallPlaces
  <1>2. JobType
    <2>1. NoJob \in JobRecords BY DEF NoJob, JobRecords
    <2> QED BY <2>1 DEF Init, JobType
  <1>3. HandlerType
    <2>1. Idle \in HandlerRecords BY DEF Idle, HandlerRecords, HandlerPlaces
    <2> QED BY <2>1 DEF Init, HandlerType
  <1>4. TypeOK
    <2>1. KeyType /\ PhoneType BY DEF Init, KeyType, PhoneType
    <2>4. FaultType
      <3>1. 0 \in 0..MaxFaults BY NotificationsAssumption
      <3> QED BY <3>1 DEF Init, FaultType
    <2>2. RowType BY DEF Init, RowType
    <2>3. PushType BY DEF Init, PushType
    <2> QED BY <1>1, <1>2, <1>3, <2>1, <2>2, <2>3, <2>4, TypeParts
  <1>5. \A c \in Calls : /\ call[c].pc = "idle" /\ row[c] = "none" /\ job[c] = NoJob
                         /\ pushes[c] = 0
    BY DEF Init
  <1>6. NoJob.state = "none" /\ NoJob.owner = None BY DEF NoJob
  <1>7. \A h \in Handlers : handler[h].pc = "idle" /\ handler[h].note = None
    BY DEF Init, Idle
  <1>8. BaseInv BY <1>4, <1>5, <1>6, <1>7 DEF BaseInv, CallOK, HandlerOK, At
  <1>9. DedupeInv /\ MarkInv BY <1>5 DEF DedupeInv, MarkInv, Past, AtCall
  <1>10. LockInv /\ PushInv /\ RecordInv
    BY <1>5, <1>6, <1>7 DEF LockInv, PushInv, RecordInv, Unpushed
  <1> QED BY <1>8, <1>9, <1>10 DEF NotifyInv

LEMMA NotifyStep == NotifyInv /\ [Next]_vars => NotifyInv'
  <1> SUFFICES ASSUME NotifyInv, [Next]_vars PROVE NotifyInv' OBVIOUS
  <1>1. ASSUME NEW c \in Calls, Emit(c) \/ CallerDies(c) PROVE NotifyInv'
    BY <1>1, StepClaim, StepCreateRow, StepEnqueue, StepMark, StepCallerDies DEF Emit
  <1>2. ASSUME NEW c \in Calls, TakeJob(c) \/ Stalled(c) PROVE NotifyInv'
    BY <1>2, StepTakeJob, StepStalled
  <1>3. ASSUME NEW c \in Calls, NEW p \in Processes, Notify(c, p) PROVE NotifyInv'
    BY <1>3, StepNotify
  <1>4. ASSUME NEW h \in Handlers, Deliver(h) PROVE NotifyInv'
    BY <1>4, StepPickToken, StepSend, StepDeactivate, StepRecord, StepComplete, StepThrow,
       StepBury DEF Deliver
  <1>5. ASSUME NEW h \in Handlers, DatabaseFails(h) \/ HandlerDies(h) PROVE NotifyInv'
    BY <1>5, StepDatabaseFails, StepHandlerDies
  <1>6. CASE (\E t \in Tokens : TokenGone(t)) \/ KeyExpires
    BY <1>6, StepTokenGone, StepKeyExpires
  <1>7. CASE UNCHANGED vars
    <2>1. TypeOK BY DEF NotifyInv, BaseInv
    <2>2. PhoneType' /\ Counted
      BY <1>7, <2>1, TypeParts DEF vars, PhoneType, FaultType, Counted
    <2> QED BY <1>7, <2>2, Stays DEF vars
  <1> QED BY <1>1, <1>2, <1>3, <1>4, <1>5, <1>6, <1>7 DEF Next

LEMMA NotifyInvariant == Spec => []NotifyInv
  <1>1. Init => NotifyInv BY NotifyInit
  <1>2. NotifyInv /\ [Next]_vars => NotifyInv' BY NotifyStep
  <1> QED BY <1>1, <1>2, PTL DEF Spec

\* Calls, rows, jobs, handlers and tokens keep their types.
THEOREM NotificationsTypeCorrect == Spec => []TypeOK
  <1>1. NotifyInv => TypeOK BY DEF NotifyInv, BaseInv
  <1> QED BY <1>1, NotifyInvariant, PTL

LEMMA OneRow ==
  ASSUME NotifyInv, "dedupe" \notin unsure
  PROVE  Cardinality({c \in Calls : row[c] # "none"}) <= 1
  <1> DEFINE S == {c \in Calls : row[c] # "none"}
  <1>1. \A c, d \in S : c = d BY DEF NotifyInv, DedupeInv, Past
  <1>2. CASE S = {}
    <2>1. Cardinality(S) = 0 BY <1>2, FS_EmptySet
    <2> QED BY <2>1
  <1>3. CASE S # {}
    <2>1. PICK c : c \in S BY <1>3
    <2>2. S = {c} BY <1>1, <2>1
    <2>3. Cardinality(S) = 1 BY <2>2, FS_Singleton
    <2> QED BY <2>3
  <1> QED BY <1>2, <1>3

\* However many processes announce an event, and in whatever order they claim,
\* die and retry, one row is written while the dedupe key holds, and the phone
\* rings once while no push is left unanswered or unrecorded and no job stalls
\* (claimDedupeKey, deliverNotificationById and its rethrow).
THEOREM AnnouncedOnceCorrect == Spec => []AnnouncedOnce
  <1>1. NotifyInv => AnnouncedOnce
    <2> SUFFICES ASSUME NotifyInv PROVE AnnouncedOnce OBVIOUS
    <2>1. "dedupe" \notin unsure => Cardinality({c \in Calls : row[c] # "none"}) <= 1
      BY OneRow
    <2>2. unsure \cap {"push", "record", "stall"} = {} => \A c \in Calls : pushes[c] <= 1
      BY DEF NotifyInv, PushInv
    <2> QED BY <2>1, <2>2 DEF AnnouncedOnce
  <1> QED BY <1>1, NotifyInvariant, PTL

\* A row says "sent" only if the phone was pushed; and a push that nobody works on
\* any more is on record, unless the code was left unsure (the places that
\* write a Notification's status).
THEOREM StatusTellsPushCorrect == Spec => []StatusTellsPush
  <1>1. NotifyInv => StatusTellsPush
    <2> SUFFICES ASSUME NotifyInv, NEW c \in Calls
                 PROVE  /\ row[c] = "sent" => pushes[c] > 0
                        /\ /\ pushes[c] > 0 /\ unsure \subseteq {"dedupe"}
                           /\ \A h \in Handlers : handler[h].note # c
                           => row[c] = "sent"
      BY DEF StatusTellsPush
    <2>1. row[c] = "sent" => pushes[c] > 0 BY DEF NotifyInv, BaseInv, CallOK
    <2>2. ASSUME pushes[c] > 0, unsure \subseteq {"dedupe"},
                 \A h \in Handlers : handler[h].note # c
          PROVE  row[c] = "sent"
      BY <2>2 DEF NotifyInv, RecordInv
    <2> QED BY <2>1, <2>2
  <1> QED BY <1>1, NotifyInvariant, PTL

-----------------------------------------------------------------------------
(* DistributedScheduler: the inductive invariant.                          *)

\* A run in progress whose lock has not expired owns the key, unless a release
\* has deleted somebody else's.
HolderOwns == ~stray => \A r \in Runs : Holding(r) /\ ~run[r].late => lock = r

\* A run that has read itself as the owner still is, unless it was overtaken.
DeleterOwns == ~stray => \A r \in Runs : AtRun(r, "del") => lock = r

OwnerInv == SchedulerTypeOK /\ HolderOwns /\ DeleterOwns

USE SchedulerAssumption DEF SchedulerAssumption

-----------------------------------------------------------------------------
LEMMA NotRunningType == NotRunning \in RunRows /\ NotRunning.pc = "idle"
  BY DEF NotRunning, RunRows

\* The function updates of the model keep the type of what a run remembers.
LEMMA GotoType ==
  ASSUME run \in [Runs -> RunRows], NEW r \in Runs,
         NEW l \in {"idle", "acquire", "job", "get", "del"}, Goto(r, l)
  PROVE  run' \in [Runs -> RunRows]
  BY DEF Goto, RunRows

LEMMA LateType ==
  ASSUME NEW entry \in RunRows
  PROVE  [entry EXCEPT !.late = TRUE] \in RunRows
  BY DEF RunRows

LEMMA EndType ==
  ASSUME run \in [Runs -> RunRows], NEW r \in Runs, End(r)
  PROVE  run' \in [Runs -> RunRows]
  BY NotRunningType DEF End

-----------------------------------------------------------------------------
LEMMA InitSchedulerType == SchedulerInit => SchedulerTypeOK
<1>. SUFFICES ASSUME SchedulerInit PROVE SchedulerTypeOK
  OBVIOUS
<1>1. 0 \in 0..Interval /\ 0 \in 0..LockDuration /\ 0 \in 0..MaxStarts /\ 0 \in 0..MaxFailures
  BY DEF LockDuration
<1>2. timer \in [Instances -> 0..Interval]
  BY <1>1 DEF SchedulerInit
<1>3. run \in [Runs -> RunRows]
  BY NotRunningType DEF SchedulerInit
<1>. QED
  BY <1>1, <1>2, <1>3 DEF SchedulerInit, SchedulerTypeOK

LEMMA InitOwner == SchedulerInit => HolderOwns /\ DeleterOwns
  BY NotRunningType DEF SchedulerInit, HolderOwns, DeleterOwns, Holding, AtRun

LEMMA StepSchedulerType == SchedulerTypeOK /\ [SchedulerNext]_schedulerVars => SchedulerTypeOK'
<1>. SUFFICES ASSUME SchedulerTypeOK, [SchedulerNext]_schedulerVars PROVE SchedulerTypeOK'
  OBVIOUS
<1>. USE DEF SchedulerTypeOK
<1>1. CASE UNCHANGED schedulerVars
  BY <1>1 DEF schedulerVars
<1>2. ASSUME NEW i \in Instances, Start(i) PROVE SchedulerTypeOK'
  BY <1>2 DEF Start
<1>3. ASSUME NEW i \in Instances, Stop(i) PROVE SchedulerTypeOK'
  BY <1>3 DEF Stop
<1>4. ASSUME NEW i \in Instances, Fire(i) PROVE SchedulerTypeOK'
  <2>. DEFINE r == CHOOSE r \in Runs : AtRun(r, "idle")
              entry == [pc |-> "acquire", inst |-> i, late |-> FALSE]
  <2>1. r \in Runs
    BY <1>4 DEF Fire
  <2>2. entry \in RunRows
    BY DEF RunRows
  <2>3. run' = [run EXCEPT ![r] = entry]
    BY <1>4 DEF Fire
  <2>. HIDE DEF r, entry
  <2>4. run' \in [Runs -> RunRows]
    BY <2>1, <2>2, <2>3
  <2>. QED
    BY <1>4, <2>4 DEF Fire
<1>5. ASSUME NEW i \in Instances, Dies(i) PROVE SchedulerTypeOK'
  <2>1. run' \in [Runs -> RunRows]
    BY <1>5, NotRunningType DEF Dies
  <2>. QED
    BY <1>5, <2>1 DEF Dies, Failure
<1>6. ASSUME NEW r \in Runs, Acquire(r) PROVE SchedulerTypeOK'
  <2>1. run' \in [Runs -> RunRows]
    BY <1>6, GotoType, EndType DEF Acquire
  <2>. QED
    BY <1>6, <2>1 DEF Acquire, LockDuration
<1>7. ASSUME NEW r \in Runs, JobReturns(r) \/ JobThrows(r) \/ ReadOwner(r) PROVE SchedulerTypeOK'
  <2>1. run' \in [Runs -> RunRows]
    BY <1>7, GotoType, EndType DEF JobReturns, JobThrows, ReadOwner
  <2>. QED
    BY <1>7, <2>1 DEF JobReturns, JobThrows, ReadOwner
<1>8. ASSUME NEW r \in Runs, DeleteLock(r) PROVE SchedulerTypeOK'
  <2>1. run' \in [Runs -> RunRows]
    BY <1>8, EndType DEF DeleteLock
  <2>. QED
    BY <1>8, <2>1 DEF DeleteLock, LockDuration
<1>9. ASSUME NEW r \in Runs, AcquireFails(r) \/ ReleaseFails(r) PROVE SchedulerTypeOK'
  <2>1. run' \in [Runs -> RunRows]
    BY <1>9, EndType DEF AcquireFails, ReleaseFails
  <2>. QED
    BY <1>9, <2>1 DEF AcquireFails, ReleaseFails, Failure
<1>10. ASSUME Tick PROVE SchedulerTypeOK'
  <2>1. timer' \in [Instances -> 0..Interval]
    BY <1>10 DEF Tick
  <2>2. ttl' \in 0..LockDuration
    BY <1>10 DEF Tick, LockDuration
  <2>3. run' \in [Runs -> RunRows] /\ lock' \in Runs \cup {NoRun} /\ stray' \in BOOLEAN
    <3>1. CASE ttl = 1
      <4>1. run' = [r \in Runs |-> IF r = lock /\ ~AtRun(r, "idle")
                                  THEN [run[r] EXCEPT !.late = TRUE] ELSE run[r]]
        BY <1>10, <3>1 DEF Tick
      <4>2. run' \in [Runs -> RunRows]
        BY <4>1, LateType
      <4>. QED
        BY <1>10, <3>1, <4>2, Zenon DEF Tick
    <3>2. CASE ttl # 1
      BY <1>10, <3>2 DEF Tick
    <3>. QED
      BY <3>1, <3>2
  <2>. QED
    BY <1>10, <2>1, <2>2, <2>3 DEF Tick
<1>. QED
  BY <1>1, <1>2, <1>3, <1>4, <1>5, <1>6, <1>7, <1>8, <1>9, <1>10 DEF SchedulerNext, Execute

LEMMA StepOwner == OwnerInv /\ [SchedulerNext]_schedulerVars => HolderOwns' /\ DeleterOwns'
<1>. SUFFICES ASSUME OwnerInv, [SchedulerNext]_schedulerVars PROVE HolderOwns' /\ DeleterOwns'
  OBVIOUS
<1>. USE DEF OwnerInv, SchedulerTypeOK, HolderOwns, DeleterOwns, Holding, AtRun
<1>0. ASSUME UNCHANGED <<lock, stray>>,
             \A q \in Runs : run'[q] = run[q] \/ run'[q].pc \in {"idle", "acquire"}
                             \/ (run[q].pc = "job" /\ run'[q] = [run[q] EXCEPT !.pc = "get"])
      PROVE  HolderOwns' /\ DeleterOwns'
  BY <1>0 DEF RunRows
<1>1. CASE UNCHANGED schedulerVars
  BY <1>1 DEF schedulerVars
<1>2. ASSUME NEW i \in Instances, Start(i) \/ Stop(i) PROVE HolderOwns' /\ DeleterOwns'
  BY <1>2 DEF Start, Stop
<1>3. ASSUME NEW i \in Instances, Fire(i) PROVE HolderOwns' /\ DeleterOwns'
  <2>. DEFINE r == CHOOSE r \in Runs : AtRun(r, "idle")
  <2>1. run' = [run EXCEPT ![r] = [pc |-> "acquire", inst |-> i, late |-> FALSE]]
    BY <1>3 DEF Fire
  <2>. HIDE DEF r
  <2>. QED
    BY <1>0, <1>3, <2>1 DEF Fire
<1>4. ASSUME NEW i \in Instances, Dies(i) PROVE HolderOwns' /\ DeleterOwns'
  BY <1>0, <1>4, NotRunningType DEF Dies
<1>5. ASSUME NEW r \in Runs, Acquire(r) PROVE HolderOwns' /\ DeleterOwns'
  <2>1. CASE lock = NoRun
    \* Nobody else holds: he would own the key.
    BY <1>5, <2>1 DEF Acquire, Goto, RunRows
  <2>2. CASE lock # NoRun
    BY <1>0, <1>5, <2>2, NotRunningType DEF Acquire, End
  <2>. QED
    BY <2>1, <2>2
<1>6. ASSUME NEW r \in Runs, JobReturns(r) PROVE HolderOwns' /\ DeleterOwns'
  BY <1>0, <1>6 DEF JobReturns, Goto, RunRows
<1>7. ASSUME NEW r \in Runs, JobThrows(r) \/ AcquireFails(r) \/ ReleaseFails(r)
      PROVE  HolderOwns' /\ DeleterOwns'
  BY <1>0, <1>7, NotRunningType DEF JobThrows, AcquireFails, ReleaseFails, End
<1>8. ASSUME NEW r \in Runs, ReadOwner(r) PROVE HolderOwns' /\ DeleterOwns'
  <2>1. CASE lock = r
    BY <1>8, <2>1 DEF ReadOwner, Goto, RunRows
  <2>2. CASE lock # r
    BY <1>0, <1>8, <2>2, NotRunningType DEF ReadOwner, End
  <2>. QED
    BY <2>1, <2>2
<1>9. ASSUME NEW r \in Runs, DeleteLock(r) PROVE HolderOwns' /\ DeleterOwns'
  \* r owns the key it deletes, so no other run holds it.
  BY <1>9, NotRunningType DEF DeleteLock, End
<1>10. ASSUME Tick PROVE HolderOwns' /\ DeleterOwns'
  <2>1. CASE ttl = 1
    \* The owner is late from now on; if it was about to delete, its release strays.
    <3>1. /\ lock' = NoRun
          /\ \A r \in Runs : run'[r] = IF r = lock /\ ~AtRun(r, "idle")
                                      THEN [run[r] EXCEPT !.late = TRUE] ELSE run[r]
          /\ stray' = (stray \/ \E r \in Runs : r = lock /\ AtRun(r, "del"))
      BY <1>10, <2>1, Zenon DEF Tick
    <3>2. \A r \in Runs : run'[r].pc = run[r].pc
                          /\ run'[r].late = (run[r].late \/ (r = lock /\ run[r].pc # "idle"))
      BY <3>1 DEF RunRows
    <3>3. stray' \/ (~stray /\ \A r \in Runs : r = lock => run[r].pc # "del")
      BY <3>1
    <3>. QED
      BY <3>2, <3>3
  <2>2. CASE ttl # 1
    BY <1>10, <2>2 DEF Tick
  <2>. QED
    BY <2>1, <2>2
<1>. QED
  BY <1>1, <1>2, <1>3, <1>4, <1>5, <1>6, <1>7, <1>8, <1>9, <1>10 DEF SchedulerNext, Execute

LEMMA OwnerInvCorrect == SchedulerSpec => []OwnerInv
<1>1. SchedulerInit => OwnerInv
  BY InitSchedulerType, InitOwner DEF OwnerInv
<1>2. OwnerInv /\ [SchedulerNext]_schedulerVars => OwnerInv'
  BY StepSchedulerType, StepOwner DEF OwnerInv
<1>. QED
  BY <1>1, <1>2, PTL DEF SchedulerSpec

-----------------------------------------------------------------------------
\* The scheduler's state always has its type: in particular, the key never lives
\* longer than twice the interval (acquireLock, executeJob).
THEOREM SchedulerTypeCorrect == SchedulerSpec => []SchedulerTypeOK
<1>1. OwnerInv => SchedulerTypeOK
  BY DEF OwnerInv
<1>. QED
  BY <1>1, OwnerInvCorrect, PTL

\* Two runs of the job overlap only after a lock expired under one of them
\* (acquireLock, releaseLock).
THEOREM OverlapCorrect == SchedulerSpec => []OverlapOnlyAfterExpiry
<1>1. OwnerInv => OverlapOnlyAfterExpiry
  BY DEF OwnerInv, HolderOwns, OverlapOnlyAfterExpiry
<1>. QED
  BY <1>1, OwnerInvCorrect, PTL
================================================================================
