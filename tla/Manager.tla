------------------------------- MODULE Manager -------------------------------
(***************************************************************************)
(* The download manager (manager.rs): the task table, the FIFO queue, the  *)
(* worker semaphore, the dispatch loop, the workers, the destination       *)
(* guards and the API calls that pause, resume, retry, cancel, remove and  *)
(* shut down.                                                              *)
(*                                                                         *)
(* The manager runs on a multi-threaded tokio runtime and takes each of    *)
(* its locks for one statement only, so every lock section is one action   *)
(* here and a call is a sequence of them.  What the engine does inside a   *)
(* worker is reduced to its effect on `.part' and to how it ends.          *)
(***************************************************************************)
EXTENDS Integers, Sequences, FiniteSets

CONSTANTS
    Task,           \* ids add() can hand out; each is used at most once
    Dest,           \* normalised destination paths
    DestOf,         \* DestOf[t]: the destination of task t
    Worker,         \* slots for the workers alive at one time
    Caller,         \* threads calling the API, one call at a time each
    MaxConcurrent,  \* the size of the worker semaphore
    MaxCalls,       \* bound: calls a caller makes, besides add
    Ops,            \* the operations, besides add, that callers use
    None            \* no worker, no task

AllOps == {"pause", "resume", "retry", "cancel", "remove", "shutdown"}

ASSUME MaxConcurrentAssumption == MaxConcurrent \in Nat \ {0}
ASSUME DestOfAssumption == DestOf \in [Task -> Dest]
ASSUME OpsAssumption == Ops \subseteq AllOps /\ MaxCalls \in Nat
ASSUME WorkerAssumption == 
    IsFiniteSet(Worker) /\ None \notin Worker /\ None \notin Task

VARIABLES
    tasks,       \* ids in the task table
    state,       \* state[t]: Entry.state ("absent": add not called yet)
    queue,       \* Inner.queue
    cancelled,   \* cancelled[t]: is the token now in Entry.cancel cancelled?
    handle,      \* handle[t]: the unfinished worker Entry.handle refers to
    permits,     \* free permits of Inner.semaphore
    notified,    \* the stored permit of Inner.dispatch (a tokio Notify)
    destLocks,   \* Inner.dest_locks
    part,        \* destinations whose .part file exists
    dpc, held, spawned,  \* dispatcher: step, popped id, worker just spawned
    aborted,             \* shutdown has aborted the dispatcher
    wpc, wtask, wtoken,                     \* workers
    cpc, cop, ctask, cstop, ctake, cwaits,  \* callers
    calls        \* calls[c]: how many calls c has begun, for the bound

dispVars == <<dpc, held, spawned>>
workerVars == <<wpc, wtask, wtoken>>
callerVars == <<cpc, cop, ctask, cstop, ctake, cwaits, calls>>
entryVars == <<tasks, state, cancelled, handle>>
vars == <<entryVars, queue, permits, notified, destLocks, part, dispVars,
          aborted, workerVars, callerVars>>

TaskState ==
    {"Queued", "Downloading", "Paused", "Completed", "Failed", "Cancelled"}

DispatcherStep == {"pop", "get", "acquire", "putback", "store", "wait", "gone"}

\* Steps of a worker; "free" is a slot with no unfinished worker in it.
WorkerStep == {"free", "lock", "busy", "start", "token", "engine", "ok",
               "cancelled", "failed", "release", "notify", "return", "busy_release", "busy_notify"}

CallerStep ==
    {"idle", "pause_read", "resume_check", "retry_check", "renew", "enqueue",
     "notify", "dequeue", "stop", "write", "take", "await", "unlink", "unmap",
     "stop_all", "take_all", "abort"}

\* What a worker sees of its CancellationToken: not cloned yet, the token
\* still in Entry.cancel, or one that resume/retry has replaced since.
TokenView == {"none", "current", "old_live", "old_cancelled"}

TypeOK ==
    /\ tasks \subseteq Task
    /\ state \in [Task -> TaskState \cup {"absent"}]
    /\ queue \in Seq(Task)
    /\ cancelled \in [Task -> BOOLEAN]
    /\ handle \in [Task -> Worker \cup {None}]
    /\ permits \in 0..MaxConcurrent
    /\ notified \in BOOLEAN /\ aborted \in BOOLEAN
    /\ destLocks \subseteq Dest /\ part \subseteq Dest
    /\ dpc \in DispatcherStep
    /\ held \in Task \cup {None}
    /\ spawned \in Worker \cup {None}
    /\ wpc \in [Worker -> WorkerStep]
    /\ wtask \in [Worker -> Task \cup {None}]
    /\ wtoken \in [Worker -> TokenView]
    /\ cpc \in [Caller -> CallerStep]
    /\ cop \in [Caller -> AllOps \cup {"add", "none"}]
    /\ ctask \in [Caller -> Task \cup {None}]
    /\ cstop \in [Caller -> SUBSET Task]
    /\ ctake \in [Caller -> SUBSET Task]
    /\ cwaits \in [Caller -> SUBSET Worker]
    /\ calls \in [Caller -> 0..MaxCalls]

\* VecDeque::retain(|x| *x != id): q without t, in order.  The kept positions
\* are counted instead of filtered recursively, as a proof needs it.
Kept(q, t) == {i \in DOMAIN q : q[i] # t}
Rank(K, i) == Cardinality({k \in K : k <= i})
Retain(q, t) ==
    [j \in 1..Cardinality(Kept(q, t)) |->
        q[CHOOSE i \in Kept(q, t) : Rank(Kept(q, t), i) = j]]

Init ==
    /\ tasks = {}
    /\ state = [t \in Task |-> "absent"]
    /\ queue = <<>>
    /\ cancelled = [t \in Task |-> FALSE]
    /\ handle = [t \in Task |-> None]
    /\ permits = MaxConcurrent
    /\ notified = FALSE /\ aborted = FALSE
    /\ destLocks = {} /\ part = {}
    /\ dpc = "pop" /\ held = None /\ spawned = None
    /\ wpc = [w \in Worker |-> "free"]
    /\ wtask = [w \in Worker |-> None]
    /\ wtoken = [w \in Worker |-> "none"]
    /\ cpc = [c \in Caller |-> "idle"]
    /\ cop = [c \in Caller |-> "none"]
    /\ ctask = [c \in Caller |-> None]
    /\ cstop = [c \in Caller |-> {}]
    /\ ctake = [c \in Caller |-> {}]
    /\ cwaits = [c \in Caller |-> {}]
    /\ calls = [c \in Caller |-> 0]

WDest(w) == DestOf[wtask[w]]

\* The worker's token has been cancelled.
Stopped(w) == \/ wtoken[w] = "old_cancelled"
              \/ wtoken[w] = "current" /\ cancelled[wtask[w]]

-----------------------------------------------------------------------------
(* The dispatch loop                                                       *)

DUnchanged == UNCHANGED <<entryVars, destLocks, part, aborted, callerVars>>

DPop ==
    /\ dpc = "pop"
    /\ IF queue = <<>>
         THEN /\ dpc' = "wait"
              /\ UNCHANGED <<held, queue>>
         ELSE /\ held' = Head(queue)
              /\ queue' = Tail(queue)
              /\ dpc' = "get"
    /\ UNCHANGED <<spawned, permits, notified, workerVars>>
    /\ DUnchanged

\* An id that has left the table since it was queued is skipped.
DGet ==
    /\ dpc = "get"
    /\ IF held \in tasks
         THEN dpc' = "acquire" /\ UNCHANGED held
         ELSE dpc' = "pop" /\ held' = None
    /\ UNCHANGED <<spawned, queue, permits, notified, workerVars>>
    /\ DUnchanged

\* try_acquire_owned and tokio::spawn: the loop never looks at the state.
DSpawn(w) ==
    /\ dpc = "acquire" /\ permits > 0
    /\ wpc[w] = "free"
    /\ permits' = permits - 1
    /\ wpc' = [wpc EXCEPT ![w] = "lock"]
    /\ wtask' = [wtask EXCEPT ![w] = held]
    /\ wtoken' = [wtoken EXCEPT ![w] = "none"]
    /\ spawned' = w
    /\ dpc' = "store"
    /\ UNCHANGED <<held, queue, notified>>
    /\ DUnchanged

DNoPermit ==
    /\ dpc = "acquire" /\ permits = 0
    /\ dpc' = "putback"
    /\ UNCHANGED <<held, spawned, queue, permits, notified, workerVars>>
    /\ DUnchanged

\* Mutant: without a permit the popped id is dropped.
DPutBack_Drops ==
    /\ dpc = "putback"
    /\ dpc' = "wait" /\ held' = None
    /\ UNCHANGED <<queue, spawned, permits, notified, workerVars>>
    /\ DUnchanged

DPutBack ==
    /\ dpc = "putback"
    /\ queue' = <<held>> \o queue
    /\ dpc' = "wait" /\ held' = None
    /\ UNCHANGED <<spawned, permits, notified, workerVars>>
    /\ DUnchanged

\* A worker that returned meanwhile leaves a finished handle, here None
\* (awaiting a finished handle returns at once).
DStore ==
    /\ dpc = "store"
    /\ handle' = [handle EXCEPT ![held] = spawned]
    /\ spawned' = None /\ held' = None
    /\ dpc' = "pop"
    /\ UNCHANGED <<tasks, state, cancelled, queue, permits, notified,
                   destLocks, part, aborted, workerVars, callerVars>>

DWake ==
    /\ dpc = "wait" /\ notified
    /\ notified' = FALSE
    /\ dpc' = "pop"
    /\ UNCHANGED <<held, spawned, queue, permits, workerVars>>
    /\ DUnchanged

\* An abort takes effect where the loop awaits.
DAborted ==
    /\ dpc = "wait" /\ aborted
    /\ dpc' = "gone"
    /\ UNCHANGED <<held, spawned, queue, permits, notified, workerVars>>
    /\ DUnchanged

Dispatcher ==
    \/ DPop \/ DGet \/ DNoPermit \/ DPutBack \/ DStore \/ DWake \/ DAborted
    \/ \E w \in Worker : DSpawn(w)

-----------------------------------------------------------------------------
(* The worker                                                              *)

Step(w, from, to) == wpc[w] = from /\ wpc' = [wpc EXCEPT ![w] = to]

WUnchanged ==
    UNCHANGED <<tasks, cancelled, queue, dpc, held, aborted, cpc, cop,
                ctask, cstop, ctake, calls>>

NoReturn == UNCHANGED <<handle, spawned, cwaits, wtask>>

\* Mutant: the guard is taken without looking whether it is held.
WLock_Unchecked(w) ==
    /\ Step(w, "lock", "start")
    /\ destLocks' = destLocks \cup {WDest(w)}
    /\ UNCHANGED <<state, permits, notified, part, wtoken>>
    /\ WUnchanged /\ NoReturn

WLock(w) ==
    /\ Step(w, "lock", "start")
    /\ WDest(w) \notin destLocks
    /\ destLocks' = destLocks \cup {WDest(w)}
    /\ UNCHANGED <<state, permits, notified, part, wtoken>>
    /\ WUnchanged /\ NoReturn

WBusy(w) ==
    /\ Step(w, "lock", "busy")
    /\ WDest(w) \in destLocks
    /\ UNCHANGED <<state, permits, notified, destLocks, part, wtoken>>
    /\ WUnchanged /\ NoReturn

WBusyFail(w) ==
    /\ Step(w, "busy", "busy_release")
    /\ state' = [state EXCEPT ![wtask[w]] = "Failed"]
    /\ UNCHANGED <<permits, notified, destLocks, part, wtoken>>
    /\ WUnchanged /\ NoReturn

\* Written whatever the state has become since the id was queued.
WStart(w) ==
    /\ Step(w, "start", "token")
    /\ state' = [state EXCEPT ![wtask[w]] = "Downloading"]
    /\ UNCHANGED <<permits, notified, destLocks, part, wtoken>>
    /\ WUnchanged /\ NoReturn

\* The context clones the token that is in the entry at this moment.
WToken(w) ==
    /\ Step(w, "token", "engine")
    /\ wtoken' = [wtoken EXCEPT ![w] = "current"]
    /\ UNCHANGED <<state, permits, notified, destLocks, part>>
    /\ WUnchanged /\ NoReturn

\* The engine creates, fills, restarts or discards the .part file.
EngineIO(w) ==
    /\ wpc[w] = "engine"
    /\ part' \in {part \cup {WDest(w)}, part \ {WDest(w)}}
    /\ part' # part
    /\ UNCHANGED <<state, permits, notified, destLocks, wpc, wtoken>>
    /\ WUnchanged /\ NoReturn

Ended(w, result) ==
    /\ Step(w, "engine", result)
    /\ wtoken' = [wtoken EXCEPT ![w] = "none"]

\* Engine::run returns Ok: the .part was renamed (or never needed).  A
\* cancelled token does not exclude this: the last bytes may be in already.
EngineOk(w) ==
    /\ Ended(w, "ok")
    /\ part' = part \ {WDest(w)}
    /\ UNCHANGED <<state, permits, notified, destLocks>>
    /\ WUnchanged /\ NoReturn

EngineCancelled(w) ==
    /\ Stopped(w)
    /\ Ended(w, "cancelled")
    /\ UNCHANGED <<state, permits, notified, destLocks, part>>
    /\ WUnchanged /\ NoReturn

EngineFailed(w) ==
    /\ Ended(w, "failed")
    /\ UNCHANGED <<state, permits, notified, destLocks, part>>
    /\ WUnchanged /\ NoReturn

\* The result becomes the state; a cancelled run leaves the one it finds.
WFinish(w) ==
    /\ \/ /\ Step(w, "ok", "release")
          /\ state' = [state EXCEPT ![wtask[w]] = "Completed"]
       \/ /\ Step(w, "failed", "release")
          /\ state' = [state EXCEPT ![wtask[w]] = "Failed"]
       \/ /\ Step(w, "cancelled", "release")
          /\ UNCHANGED state
    /\ UNCHANGED <<permits, notified, destLocks, part, wtoken>>
    /\ WUnchanged /\ NoReturn

\* Mutant: the early return of a refused worker leaks its permit.
WRelease_Leaks(w) ==
    /\ \/ Step(w, "release", "notify") /\ permits' = permits + 1
       \/ Step(w, "busy_release", "busy_notify") /\ UNCHANGED permits
    /\ UNCHANGED <<state, notified, destLocks, part, wtoken>>
    /\ WUnchanged /\ NoReturn

\* Mutant: the early return gives the permit back by hand, and its drop does
\* so again.
WRelease_Twice(w) ==
    /\ \/ Step(w, "release", "notify") /\ permits' = permits + 1
       \/ Step(w, "busy_release", "busy_notify") /\ permits' = permits + 2
    /\ UNCHANGED <<state, notified, destLocks, part, wtoken>>
    /\ WUnchanged /\ NoReturn

WRelease(w) ==
    /\ \/ Step(w, "release", "notify")
       \/ Step(w, "busy_release", "busy_notify")
    /\ permits' = permits + 1
    /\ UNCHANGED <<state, notified, destLocks, part, wtoken>>
    /\ WUnchanged /\ NoReturn

\* The slot is free again; handles of a finished worker are forgotten.
Returned(w) ==
    /\ wtask' = [wtask EXCEPT ![w] = None]
    /\ handle' = [t \in Task |-> IF handle[t] = w THEN None ELSE handle[t]]
    /\ spawned' = IF spawned = w THEN None ELSE spawned
    /\ cwaits' = [c \in Caller |-> cwaits[c] \ {w}]

\* Mutant: notify_waiters, which stores no permit, for notify_one.
WNotify_Waiters(w) ==
    /\ notified' = (notified \/ dpc = "wait")
    /\ \/ Step(w, "notify", "return") /\ NoReturn
       \/ Step(w, "busy_notify", "free") /\ Returned(w)
    /\ UNCHANGED <<state, permits, destLocks, part, wtoken>>
    /\ WUnchanged

\* The worker that was refused the guard returns without one.
WNotify(w) ==
    /\ notified' = TRUE
    /\ \/ Step(w, "notify", "return") /\ NoReturn
       \/ Step(w, "busy_notify", "free") /\ Returned(w)
    /\ UNCHANGED <<state, permits, destLocks, part, wtoken>>
    /\ WUnchanged

\* _dest_guard is dropped last, when the function returns.
WReturn(w) ==
    /\ Step(w, "return", "free")
    /\ destLocks' = destLocks \ {WDest(w)}
    /\ Returned(w)
    /\ UNCHANGED <<state, permits, notified, part, wtoken>>
    /\ WUnchanged

WorkerBody(w) ==
    \/ WLock(w) \/ WBusy(w) \/ WBusyFail(w) \/ WStart(w) \/ WToken(w)
    \/ WFinish(w) \/ WRelease(w) \/ WNotify(w) \/ WReturn(w)

EngineEnd(w) == EngineOk(w) \/ EngineCancelled(w) \/ EngineFailed(w)

WorkerNext(w) == WorkerBody(w) \/ EngineIO(w) \/ EngineEnd(w)

-----------------------------------------------------------------------------
(* The API calls                                                           *)

Begin(c, op, t, step) ==
    /\ cpc[c] = "idle"
    /\ cpc' = [cpc EXCEPT ![c] = step]
    /\ cop' = [cop EXCEPT ![c] = op]
    /\ ctask' = [ctask EXCEPT ![c] = t]
    /\ IF op = "add"
         THEN UNCHANGED calls
         ELSE /\ calls[c] < MaxCalls
              /\ calls' = [calls EXCEPT ![c] = @ + 1]

CStep(c, from, to) ==
    /\ cpc[c] = from
    /\ cpc' = [cpc EXCEPT ![c] = to]
    /\ IF to = "idle"
         THEN /\ cop' = [cop EXCEPT ![c] = "none"]
              /\ ctask' = [ctask EXCEPT ![c] = None]
         ELSE UNCHANGED <<cop, ctask>>
    /\ UNCHANGED calls

CUnchanged ==
    UNCHANGED <<permits, destLocks, dispVars, wpc, wtask>>

CallKept == UNCHANGED <<cstop, ctake>>

\* add: a fresh id, the entry, then the queue, then the notification.
Add(c, t) ==
    /\ state[t] = "absent"
    /\ Begin(c, "add", t, "enqueue")
    /\ tasks' = tasks \cup {t}
    /\ state' = [state EXCEPT ![t] = "Queued"]
    /\ UNCHANGED <<cancelled, handle, queue, notified, part, aborted, wtoken,
                   cstop, ctake, cwaits>>
    /\ CUnchanged

FirstStep(op) == CASE op = "pause" -> "pause_read"
                   [] op = "resume" -> "resume_check"
                   [] op = "retry" -> "retry_check"
                   [] OTHER -> "write"

\* The lookup entry(id) that starts pause, resume, retry, cancel and remove.
Call(c, op, t) ==
    /\ op \in Ops \ {"shutdown"}
    /\ t \in tasks
    /\ Begin(c, op, t, FirstStep(op))
    /\ UNCHANGED <<entryVars, queue, notified, part, aborted, wtoken,
                   cstop, ctake, cwaits>>
    /\ CUnchanged

\* pause decides from a state it reads and then unlocks.
PauseRead(c) ==
    /\ CStep(c, "pause_read",
             CASE state[ctask[c]] \in {"Completed", "Cancelled"} -> "idle"
               [] state[ctask[c]] = "Queued" -> "dequeue"
               [] OTHER -> "stop")
    /\ UNCHANGED <<entryVars, queue, notified, part, aborted, wtoken, cwaits>>
    /\ CUnchanged /\ CallKept

Requeue(c, from, allowed) ==
    /\ CStep(c, from, IF state[ctask[c]] \in allowed THEN "renew" ELSE "idle")
    /\ state' = IF state[ctask[c]] \in allowed
                  THEN [state EXCEPT ![ctask[c]] = "Queued"] ELSE state
    /\ UNCHANGED <<tasks, cancelled, handle, queue, notified, part, aborted,
                   wtoken, cwaits>>
    /\ CUnchanged /\ CallKept

ResumeCheck(c) == Requeue(c, "resume_check", {"Paused"})
RetryCheck(c) == Requeue(c, "retry_check", {"Failed", "Cancelled"})

\* A fresh token for the entry: workers that hold the old one are out of
\* reach of later calls.
Renew(c) ==
    LET t == ctask[c]
        old == IF cancelled[t] THEN "old_cancelled" ELSE "old_live"
    IN  /\ CStep(c, "renew", "enqueue")
        /\ cancelled' = [cancelled EXCEPT ![t] = FALSE]
        /\ wtoken' = [w \in Worker |->
                        IF wtask[w] = t /\ wtoken[w] = "current"
                          THEN old ELSE wtoken[w]]
        /\ UNCHANGED <<tasks, state, handle, queue, notified, part, aborted,
                       cwaits>>
        /\ CUnchanged /\ CallKept

Enqueue(c) ==
    /\ CStep(c, "enqueue", "notify")
    /\ queue' = Append(queue, ctask[c])
    /\ UNCHANGED <<entryVars, notified, part, aborted, wtoken, cwaits>>
    /\ CUnchanged /\ CallKept

Notify(c) ==
    /\ CStep(c, "notify", "idle")
    /\ notified' = TRUE
    /\ UNCHANGED <<entryVars, queue, part, aborted, wtoken, cwaits>>
    /\ CUnchanged /\ CallKept

\* queue.retain(|x| *x != id)
Dequeue(c) ==
    /\ CStep(c, "dequeue", IF cop[c] = "pause" THEN "write" ELSE "stop")
    /\ queue' = Retain(queue, ctask[c])
    /\ UNCHANGED <<entryVars, notified, part, aborted, wtoken, cwaits>>
    /\ CUnchanged /\ CallKept

\* Mutant: the token is not cancelled.
Stop_Forgets(c) ==
    /\ CStep(c, "stop", IF cop[c] = "pause" THEN "write" ELSE "take")
    /\ UNCHANGED <<entryVars, queue, notified, part, aborted, wtoken, cwaits>>
    /\ CUnchanged /\ CallKept

\* Entry.cancel is locked and its current token cancelled.
Stop(c) ==
    /\ CStep(c, "stop", IF cop[c] = "pause" THEN "write" ELSE "take")
    /\ cancelled' = [cancelled EXCEPT ![ctask[c]] = TRUE]
    /\ UNCHANGED <<tasks, state, handle, queue, notified, part, aborted,
                   wtoken, cwaits>>
    /\ CUnchanged /\ CallKept

\* pause and cancel write their state without looking at the one there.
Write(c) ==
    /\ CStep(c, "write", IF cop[c] = "pause" THEN "take" ELSE "dequeue")
    /\ state' = [state EXCEPT ![ctask[c]] =
                   IF cop[c] = "pause" THEN "Paused" ELSE "Cancelled"]
    /\ UNCHANGED <<tasks, cancelled, handle, queue, notified, part, aborted,
                   wtoken, cwaits>>
    /\ CUnchanged /\ CallKept

Take(c) ==
    /\ CStep(c, "take", "await")
    /\ cwaits' = [cwaits EXCEPT ![c] = {handle[ctask[c]]} \ {None}]
    /\ handle' = [handle EXCEPT ![ctask[c]] = None]
    /\ UNCHANGED <<tasks, state, cancelled, queue, notified, part, aborted,
                   wtoken>>
    /\ CUnchanged /\ CallKept

Await(c) ==
    /\ cwaits[c] = {}
    /\ CStep(c, "await", CASE cop[c] = "pause" -> "idle"
                           [] cop[c] = "shutdown" -> "abort"
                           [] OTHER -> "unlink")
    /\ UNCHANGED <<entryVars, queue, notified, part, aborted, wtoken, cwaits>>
    /\ CUnchanged /\ CallKept

\* cancel removes the .part of its task, whoever is writing it.
Unlink(c) ==
    /\ CStep(c, "unlink", IF cop[c] = "remove" THEN "unmap" ELSE "idle")
    /\ part' = part \ {DestOf[ctask[c]]}
    /\ UNCHANGED <<entryVars, queue, notified, aborted, wtoken, cwaits>>
    /\ CUnchanged /\ CallKept

Unmap(c) ==
    /\ CStep(c, "unmap", "idle")
    /\ tasks' = tasks \ {ctask[c]}
    /\ UNCHANGED <<state, cancelled, handle, queue, notified, part, aborted,
                   wtoken, cwaits>>
    /\ CUnchanged /\ CallKept

\* shutdown works on a copy of the table taken here.
Shutdown(c) ==
    /\ "shutdown" \in Ops
    /\ Begin(c, "shutdown", None, "stop_all")
    /\ cstop' = [cstop EXCEPT ![c] = tasks]
    /\ ctake' = [ctake EXCEPT ![c] = tasks]
    /\ UNCHANGED <<entryVars, queue, notified, part, aborted, wtoken, cwaits>>
    /\ CUnchanged

StopOne(c, t) ==
    /\ cpc[c] = "stop_all" /\ t \in cstop[c]
    /\ cancelled' = [cancelled EXCEPT ![t] = TRUE]
    /\ cstop' = [cstop EXCEPT ![c] = @ \ {t}]
    /\ UNCHANGED <<tasks, state, handle, queue, notified, part, aborted,
                   wtoken, cpc, cop, ctask, ctake, cwaits, calls>>
    /\ CUnchanged

StoppedAll(c) ==
    /\ cstop[c] = {}
    /\ CStep(c, "stop_all", "take_all")
    /\ UNCHANGED <<entryVars, queue, notified, part, aborted, wtoken, cwaits>>
    /\ CUnchanged /\ CallKept

TakeOne(c, t) ==
    /\ cpc[c] = "take_all" /\ t \in ctake[c]
    /\ cwaits' = [cwaits EXCEPT ![c] = @ \cup ({handle[t]} \ {None})]
    /\ handle' = [handle EXCEPT ![t] = None]
    /\ ctake' = [ctake EXCEPT ![c] = @ \ {t}]
    /\ UNCHANGED <<tasks, state, cancelled, queue, notified, part, aborted,
                   wtoken, cpc, cop, ctask, cstop, calls>>
    /\ CUnchanged

TookAll(c) ==
    /\ ctake[c] = {}
    /\ CStep(c, "take_all", "await")
    /\ UNCHANGED <<entryVars, queue, notified, part, aborted, wtoken, cwaits>>
    /\ CUnchanged /\ CallKept

Abort(c) ==
    /\ CStep(c, "abort", "idle")
    /\ aborted' = TRUE
    /\ UNCHANGED <<entryVars, queue, notified, part, wtoken, cwaits>>
    /\ CUnchanged /\ CallKept

\* The calls a thread may start.
CallerBegin(c) ==
    \/ Shutdown(c)
    \/ \E t \in Task : Add(c, t) \/ \E op \in Ops : Call(c, op, t)

\* The steps that carry a started call to its end.
CallerStepNext(c) ==
    \/ PauseRead(c) \/ ResumeCheck(c) \/ RetryCheck(c) \/ Renew(c)
    \/ Enqueue(c) \/ Notify(c) \/ Dequeue(c) \/ Stop(c) \/ Write(c)
    \/ Take(c) \/ Await(c) \/ Unlink(c) \/ Unmap(c)
    \/ StoppedAll(c) \/ TookAll(c) \/ Abort(c)
    \/ \E t \in Task : StopOne(c, t) \/ TakeOne(c, t)

-----------------------------------------------------------------------------

Next ==
    \/ Dispatcher
    \/ \E w \in Worker : WorkerNext(w)
    \/ \E c \in Caller : CallerBegin(c) \/ CallerStepNext(c)

Spec == Init /\ [][Next]_vars

\* tokio polls every runnable task, so the dispatcher, a worker and a call
\* in progress go on; an engine that has been told to stop comes back.
StopFairness ==
    /\ WF_vars(Dispatcher)
    /\ \A w \in Worker : WF_vars(WorkerBody(w))
    /\ \A w \in Worker : WF_vars(Stopped(w) /\ EngineEnd(w))
    /\ \A c \in Caller : WF_vars(CallerStepNext(c))

StopSpec == Spec /\ StopFairness

\* With transfers that end by themselves as well.
EndSpec == StopSpec /\ \A w \in Worker : WF_vars(EngineEnd(w))
-----------------------------------------------------------------------------
(* Properties                                                              *)

Holding(w) == wpc[w] \in {"lock", "busy", "start", "token", "engine", "ok",
                          "cancelled", "failed", "release", "busy_release"}

Guarding(w) == wpc[w] \in {"start", "token", "engine", "ok", "cancelled",
                           "failed", "release", "notify", "return"}

\* No permit is lost or returned twice on any path of a worker, the refused
\* one included, so never more than max_concurrent workers run
\* (dispatch_loop and worker).
PermitsConserved ==
    permits + Cardinality({w \in Worker : Holding(w)}) = MaxConcurrent

\* Two workers never write the same .part at once, even when one task has
\* been dispatched twice; and a destination stays locked exactly as long as
\* some worker has its guard, so no path leaves it locked for ever
\* (DestGuard).
OneWriterPerDest ==
    /\ \A v, w \in Worker :
          Guarding(v) /\ Guarding(w) /\ WDest(v) = WDest(w) => v = w
    /\ destLocks = {WDest(w) : w \in {v \in Worker : Guarding(v)}}

WillNotify ==
    \/ notified
    \/ \E w \in Worker : Holding(w) \/ wpc[w] \in {"notify", "busy_notify"}
    \/ \E c \in Caller : cpc[c] = "notify"

\* The dispatcher never sleeps, or is about to, next to a non-empty queue
\* with nobody left to wake it: a permit is given back before the wake-up
\* and an id is queued before it (add, resume, retry, worker).
NoLostWakeup ==
    /\ dpc = "putback" => WillNotify
    /\ dpc = "wait" /\ queue # <<>> => WillNotify

Elements(q) == {q[i] : i \in DOMAIN q}

Calling(t) == \E c \in Caller : ctask[c] = t

\* A Queued task that no call is working on is in the queue, in the
\* dispatcher's hands, or has a worker that will move it on: no call that
\* has returned leaves a task waiting for nothing.  (With callers that do
\* not race each other on one task.)
QueuedNotForgotten ==
    \A t \in tasks :
        state[t] = "Queued" /\ ~Calling(t) =>
            \/ t \in Elements(queue)
            \/ held = t
            \/ \E w \in Worker :
                  wtask[w] = t /\ wpc[w] \in {"lock", "busy", "start"}

\* A queued task gets its turn, if transfers end and the manager is not shut
\* down: no hand-over between a finished worker, the notification and the
\* dispatcher is missed (dispatch_loop, worker).
QueuedGetsTurn ==
    \A t \in Task : state[t] = "Queued" ~> state[t] # "Queued" \/ aborted

\* A worker that a call waits for and that no call has told to stop: the
\* entry's token was renewed over it, or the call is a pause, which reads
\* Queued, cancels nothing and takes the handle the dispatcher has stored
\* meanwhile.  Only the end of its transfer brings it back.
OutOfReach(c, w) ==
    /\ wpc[w] = "engine" /\ ~Stopped(w)
    /\ wtoken[w] = "old_live" \/ cop[c] = "pause"

\* Every call comes back although no transfer ends by itself, or waits for a
\* worker out of its reach: a cancel, remove or shutdown reaches its workers
\* with the entry's token wherever dispatcher and worker are when it cancels
\* it, and so does a pause that finds its task running (pause, cancel,
\* shutdown, worker).
CallsReturn ==
    \A c \in Caller :
        cpc[c] # "idle" ~>
            \/ cpc[c] = "idle"
            \/ cpc[c] = "await" /\ \E w \in cwaits[c] : OutOfReach(c, w)

=============================================================================
