---------------------------- MODULE UploadQueue ----------------------------
(* The upload side of the MeshCore.io bridge (src/meshcore_io/runtime.rs,   *)
(* src/meshcore_io/queue.rs): adverts are admitted as jobs, at most one per *)
(* node; a pool of workers claims, posts and retries them; node_state keeps *)
(* the cooldown and the last accepted advert of a node; stop() wakes and    *)
(* joins the workers.                                                       *)
(*                                                                          *)
(* One action is one critical section of RuntimeInner.state or one          *)
(* suspension of a worker.  The wall clock is read before the lock is taken *)
(* and may be older than the state found under it: `now' is some reading in *)
(* 0..clock.  tokio's Notify::notify_waiters reaches only the tasks that    *)
(* are waiting at that moment: `woken' are the ones it reached.             *)
EXTENDS Poster, FiniteSets, Functions

CONSTANTS
    Nodes,                 \* node public keys
    Timestamps,            \* advert timestamps
    Adverts,               \* the adverts that may arrive: [node, ts]
    Workers,               \* config.workers tasks
    max_queued_uploads,
    attempts,              \* config.attempts, the job's retries_allowed
    min_reupload_seconds,
    retry_delay_ms,
    MaxBackoff,            \* 300_000
    Cooldown,              \* VALID_ADVERT_COOLDOWN_MS
    SeenTTL,               \* SEEN_ADVERT_TTL_MS
    MaxNodeEntries,        \* MAX_NODE_ENTRIES
    MaxTimestamp,          \* u32::MAX
    Radios,                \* radio parameters a status may have left behind
    Exchanges,             \* what the outside may do with a post (Poster)
    MaxTime,               \* bound of the model's clock
    MaxJobs,               \* bound on the jobs of the model
    MaxRejected            \* bound on the rejections counted in the model

ASSUME UploadAssumption ==
    /\ Timestamps \subseteq 0..MaxTimestamp
    /\ Adverts \subseteq [node : Nodes, ts : Timestamps]
    /\ IsFiniteSet(Nodes) /\ IsFiniteSet(Workers)
    /\ {max_queued_uploads, attempts, min_reupload_seconds, retry_delay_ms,
        MaxBackoff, Cooldown, SeenTTL, MaxTimestamp, MaxTime, MaxJobs,
        MaxRejected} \subseteq Nat
    /\ MaxNodeEntries \in Nat \ {0}
    /\ None \notin Int

VARIABLES
    jobs,          \* RuntimeState.jobs, as a set of rows
    node_state,    \* RuntimeState.node_state
    node_order,    \* its insertion order: node -> index
    next_job_id,
    completed_uploads, dropped_uploads, capacity_rejected_uploads,
    pc,            \* worker -> progress through worker_loop
    row,           \* worker -> the clone of the row it claimed, or None
    woken,         \* workers that notify_waiters reached
    stopped,       \* RuntimeInner.stopped
    stopper,       \* progress of stop()
    clock,         \* now_ms()
    misjudged      \* history: jobs whose end does not fit the server's answer

queueVars == <<jobs, node_state, node_order, next_job_id, completed_uploads,
               dropped_uploads, capacity_rejected_uploads>>
workerVars == <<pc, row>>
stopVars == <<stopped, stopper>>
uploadVars == <<queueVars, workerVars, woken, stopVars, clock, misjudged>>

Least(a, b) == IF a < b THEN a ELSE b

Goto(w, stage) == pc' = [pc EXCEPT ![w] = stage]
NotifyWaiters(stages) == woken' = woken \cup {w \in Workers : pc[w] \in stages}

DefaultNode == [cooldown_until |-> None, accepted_timestamp |-> None,
                accepted_expires_at |-> None]
NodeOf(n) == IF n \in DOMAIN node_state THEN node_state[n] ELSE DefaultNode

IsAfter(option, now) == option # None /\ option > now

\* IndexMap::insert: a new key goes last, a known one keeps its place.
InsertNode(n, state) ==
    [m \in DOMAIN node_state \cup {n} |-> IF m = n THEN state ELSE node_state[m]]
OrderWith(n) ==
    IF n \in DOMAIN node_order THEN node_order
    ELSE [m \in DOMAIN node_order \cup {n} |->
             IF m = n THEN Cardinality(DOMAIN node_order) ELSE node_order[m]]

\* shift_remove_index and retain: what is kept moves up.
Reindexed(order, kept) ==
    [n \in kept |-> Cardinality({m \in kept : order[m] < order[n]})]

----------------------------------------------------------------------------
(* admit_job                                                                *)

\* previous.saturating_add(min_reupload_seconds as u32)
WrappingUpload(previous) == (previous + min_reupload_seconds) % (MaxTimestamp + 1)
NextUpload(previous) ==
    Least(previous + min_reupload_seconds, MaxTimestamp)

SeenRecently(n, ts, now) ==
    LET node == NodeOf(n) IN
    /\ IsAfter(node.accepted_expires_at, now)
    /\ \/ node.accepted_timestamp >= ts
       \/ ts < NextUpload(node.accepted_timestamp)

Queued(n) == \E j \in jobs : j.node = n

InCooldown(n, now) == IsAfter(NodeOf(n).cooldown_until, now)

AtCapacity == Cardinality(jobs) >= max_queued_uploads

\* The first keys of the order are dropped until MaxNodeEntries are left.
NoTrim(order) == order
TrimOrder(order) ==
    LET dropped == Cardinality(DOMAIN order) - MaxNodeEntries IN
    Reindexed(order, {n \in DOMAIN order : order[n] >= dropped})

\* The end of process_ingress: the job carries the rounded parameters.
Uploadable(radio) == Valid(Rounded(radio))

AdmitJob(n, ts, radio, now) ==
    LET id    == next_job_id + 1
        nodes == InsertNode(n, [NodeOf(n) EXCEPT !.cooldown_until = now + Cooldown])
    IN
    /\ next_job_id < MaxJobs
    /\ Uploadable(radio)
    /\ ~SeenRecently(n, ts, now) /\ ~InCooldown(n, now) /\ ~Queued(n) /\ ~AtCapacity
    /\ next_job_id' = id
    /\ jobs' = jobs \cup {[id |-> id, node |-> n, ts |-> ts, status |-> "pending",
                           next |-> now, count |-> 0, radio |-> Rounded(radio)]}
    /\ node_order' = TrimOrder(OrderWith(n))
    /\ node_state' = [m \in DOMAIN node_order' |-> nodes[m]]
    /\ NotifyWaiters({"waiting"})
    /\ UNCHANGED <<completed_uploads, dropped_uploads, capacity_rejected_uploads,
                   workerVars, stopVars, clock, misjudged>>

RejectJob(n, ts, now) ==
    /\ capacity_rejected_uploads < MaxRejected
    /\ ~SeenRecently(n, ts, now) /\ ~InCooldown(n, now) /\ ~Queued(n) /\ AtCapacity
    /\ capacity_rejected_uploads' = capacity_rejected_uploads + 1
    /\ UNCHANGED <<jobs, node_state, node_order, next_job_id, completed_uploads,
                   dropped_uploads, workerVars, woken, stopVars, clock, misjudged>>

----------------------------------------------------------------------------
(* worker_loop and claim_job                                                *)

CheckStopped(w) ==
    /\ pc[w] = "check"
    /\ Goto(w, IF stopped THEN "gone" ELSE "claim")
    /\ UNCHANGED <<queueVars, row, woken, stopVars, clock, misjudged>>

Claimable(now) == {j \in jobs : j.status \in {"pending", "retry"} /\ j.next <= now}

Earliest(S) ==
    CHOOSE j \in S : \A k \in S : j.next < k.next \/ (j.next = k.next /\ j.id <= k.id)

LeavePending(j) == [j EXCEPT !.count = @ + 1]
Claimed(j) == [j EXCEPT !.status = "processing", !.count = @ + 1]

ClaimJob(w, now) ==
    LET j == Earliest(Claimable(now)) IN
    /\ pc[w] = "claim"
    /\ Claimable(now) # {}
    /\ jobs' = (jobs \ {j}) \cup {Claimed(j)}
    /\ row' = [row EXCEPT ![w] = Claimed(j)]
    /\ Goto(w, "process")
    /\ UNCHANGED <<node_state, node_order, next_job_id, completed_uploads,
                   dropped_uploads, capacity_rejected_uploads, woken, stopVars, clock, misjudged>>

\* Nothing to claim: the worker waits for a notification or 250 ms.
Wait(w, now) ==
    /\ pc[w] = "claim"
    /\ Claimable(now) = {}
    /\ Goto(w, "waiting")
    /\ UNCHANGED <<queueVars, row, woken, stopVars, clock, misjudged>>

NoPollTimer == FALSE
PollTimer == TRUE

Wake(w) ==
    /\ pc[w] = "waiting"
    /\ w \in woken \/ PollTimer
    /\ woken' = woken \ {w}
    /\ Goto(w, "check")
    /\ UNCHANGED <<queueVars, row, stopVars, clock, misjudged>>

----------------------------------------------------------------------------
(* process_job and the ways it ends.  Each of them looks the row up again,  *)
(* by id and status, under the lock.                                        *)

Limit == IF attempts < 1 THEN 1 ELSE attempts

Current(w) == {j \in jobs : j.id = row[w].id /\ j.status = "processing"}

Done(w) == Goto(w, "check") /\ row' = [row EXCEPT ![w] = None]

FinishCompleted(w, accepted, now) ==
    LET n     == row[w].node
        state == IF accepted
                   THEN [cooldown_until |-> None, accepted_timestamp |-> row[w].ts,
                         accepted_expires_at |-> now + SeenTTL]
                   ELSE [NodeOf(n) EXCEPT !.cooldown_until = None]
    IN
    /\ jobs' = jobs \ Current(w)
    /\ IF Current(w) = {}
         THEN UNCHANGED <<completed_uploads, node_state, node_order>>
         ELSE /\ completed_uploads' = completed_uploads + 1
              /\ node_state' = InsertNode(n, state)
              /\ node_order' = OrderWith(n)
    /\ UNCHANGED <<next_job_id, dropped_uploads, capacity_rejected_uploads>>

KeepCooldown(n) == node_state
ClearCooldown(n) ==
    IF n \in DOMAIN node_state THEN [node_state EXCEPT ![n].cooldown_until = None]
                               ELSE node_state

FinishDropped(w) ==
    /\ jobs' = jobs \ Current(w)
    /\ IF Current(w) = {}
         THEN UNCHANGED <<dropped_uploads, node_state>>
         ELSE /\ dropped_uploads' = dropped_uploads + 1
              /\ node_state' = ClearCooldown(row[w].node)
    /\ UNCHANGED <<node_order, next_job_id, completed_uploads, capacity_rejected_uploads>>

Backoff(count) == Least(retry_delay_ms * 2 ^ (count - 1), MaxBackoff)

ScheduleRetry(w, now) ==
    \E jitter \in 0..Least(999, Backoff(row[w].count) \div 4) :
        /\ jobs' = (jobs \ Current(w)) \cup
               {[j EXCEPT !.status = "retry",
                          !.next = now + Backoff(j.count) + jitter] : j \in Current(w)}
        /\ UNCHANGED <<node_state, node_order, next_job_id, completed_uploads,
                       dropped_uploads, capacity_rejected_uploads>>

\* The attempt limit is checked, then the request is under way and the worker
\* listens to shutdown.
StartPost(w) ==
    /\ pc[w] = "process"
    /\ IF row[w].count > Limit
         THEN FinishDropped(w) /\ Done(w)
         ELSE Goto(w, "posting") /\ UNCHANGED <<queueVars, row>>
    /\ UNCHANGED <<woken, stopVars, clock, misjudged>>

\* An answer that settles an upload: it was read whole, and it is a success, a
\* client error other than 408 and 429, or carries a code that decides.
Settles(x) ==
    /\ x.sent /\ ~x.broken /\ ~Oversized(x)
    /\ \/ x.status \in 200..299 \/ x.status \in (400..499) \ {408, 429}
       \/ x.code \in TerminalCodes \cup {"NODES_INSERTED"}

\* The failures that are to be retried (RUST.md lines 272-273): the network's, 408,
\* 429 and 5xx.  A 3xx and an oversized 2xx or 4xx are neither this nor settled.
Transient(x) ==
    /\ ~Settles(x)
    /\ ~x.sent \/ x.broken \/ x.status \in {408, 429} \cup (500..599)

\* Whether a job may end, or may go on, after this answer to attempt `count'.
FitsAnswer(x, count, ended) ==
    /\ dry_run \/ Settles(x) \/ count >= Limit => ended
    /\ ~dry_run /\ Transient(x) /\ count < Limit => ~ended

\* post() answers, at the latest after its timeout.
PostReturns(w, exchange, now) ==
    LET result == Post(row[w].radio, exchange)
        ended  == \A j \in jobs' : j.id # row[w].id
    IN
    /\ pc[w] = "posting"
    /\ CASE result = "accepted" -> FinishCompleted(w, TRUE, now)
         [] result = "rejected" -> FinishCompleted(w, FALSE, now)
         [] result = "retry" ->
                IF row[w].count < Limit THEN ScheduleRetry(w, now) ELSE FinishDropped(w)
    /\ Done(w)
    /\ woken' = woken \ {w}
    /\ misjudged' = IF FitsAnswer(exchange, row[w].count, ended)
                      THEN misjudged ELSE misjudged \cup {row[w].id}
    /\ UNCHANGED <<stopVars, clock>>

\* shutdown.notified() wins the select: the row stays as it is.
CancelPost(w) ==
    /\ pc[w] = "posting"
    /\ w \in woken
    /\ Done(w)
    /\ woken' = woken \ {w}
    /\ UNCHANGED <<queueVars, stopVars, clock, misjudged>>

----------------------------------------------------------------------------
(* sweep_state on node_state, stop() and the clock.                         *)

Live(state) ==
    IsAfter(state.cooldown_until, clock) \/ IsAfter(state.accepted_expires_at, clock)

Sweep ==
    /\ \E n \in DOMAIN node_state : ~Live(node_state[n])
    /\ node_order' = Reindexed(node_order, {n \in DOMAIN node_state : Live(node_state[n])})
    /\ node_state' = Restrict(node_state, DOMAIN node_order')
    /\ UNCHANGED <<jobs, next_job_id, completed_uploads, dropped_uploads,
                   capacity_rejected_uploads, workerVars, woken, stopVars, clock, misjudged>>

BeginStop ==
    /\ ~stopped
    /\ stopped' = TRUE
    /\ stopper' = "notify"
    /\ UNCHANGED <<queueVars, workerVars, woken, clock, misjudged>>

NotifyShutdown ==
    /\ stopper = "notify"
    /\ stopper' = "join"
    /\ NotifyWaiters({"waiting", "posting"})
    /\ UNCHANGED <<queueVars, workerVars, stopped, clock, misjudged>>

Join ==
    /\ stopper = "join"
    /\ \A w \in Workers : pc[w] = "gone"
    /\ stopper' = "done"
    /\ UNCHANGED <<queueVars, workerVars, woken, stopped, clock, misjudged>>

Tick ==
    /\ clock < MaxTime
    /\ clock' = clock + 1
    /\ UNCHANGED <<queueVars, workerVars, woken, stopVars, misjudged>>

----------------------------------------------------------------------------
UploadInit ==
    /\ jobs = {}
    /\ node_state = [n \in {} |-> DefaultNode]
    /\ node_order = [n \in {} |-> 0]
    /\ next_job_id = 0
    /\ completed_uploads = 0 /\ dropped_uploads = 0 /\ capacity_rejected_uploads = 0
    /\ pc = [w \in Workers |-> "check"]
    /\ row = [w \in Workers |-> None]
    /\ woken = {}
    /\ stopped = FALSE /\ stopper = "no"
    /\ clock = 0
    /\ misjudged = {}

WorkerStep(w) ==
    \/ CheckStopped(w) \/ Wake(w) \/ StartPost(w) \/ CancelPost(w)
    \/ \E now \in 0..clock :
          \/ ClaimJob(w, now) \/ Wait(w, now)
          \/ \E exchange \in Exchanges : PostReturns(w, exchange, now)

UploadNext ==
    \/ \E advert \in Adverts, now \in 0..clock :
          \/ \E radio \in Radios : AdmitJob(advert.node, advert.ts, radio, now)
          \/ RejectJob(advert.node, advert.ts, now)
    \/ \E w \in Workers : WorkerStep(w)
    \/ Sweep \/ BeginStop \/ NotifyShutdown \/ Join \/ Tick

UploadSpec == UploadInit /\ [][UploadNext]_uploadVars

(* Tokio runs every worker that can make progress, the poll timer fires and *)
(* an HTTP request ends by its timeout; stop() runs on once started.        *)
FairUploadSpec ==
    /\ UploadSpec
    /\ \A w \in Workers : WF_uploadVars(WorkerStep(w))
    /\ WF_uploadVars(NotifyShutdown) /\ WF_uploadVars(Join)

----------------------------------------------------------------------------
Option(S) == S \cup {None}
NodeStates == [cooldown_until : Option(Nat), accepted_timestamp : Option(Timestamps),
               accepted_expires_at : Option(Nat)]
Rows == [id : 1..MaxJobs, node : Nodes, ts : Timestamps,
         status : {"pending", "processing", "retry"}, next : Nat, count : Nat,
         radio : {Rounded(r) : r \in Radios}]

ASSUME RowAssumption == None \notin Rows

(* Jobs, node table and counters have their types, and the node table and   *)
(* its insertion order hold the same nodes (runtime.rs lines 49-62).        *)
UploadTypeOK ==
    /\ jobs \subseteq Rows
    /\ node_state \in [DOMAIN node_state -> NodeStates]
    /\ DOMAIN node_state \subseteq Nodes
    /\ node_order \in [DOMAIN node_state -> 0..(Cardinality(DOMAIN node_state) - 1)]
    /\ IsInjective(node_order)
    /\ next_job_id \in 0..MaxJobs
    /\ {completed_uploads, dropped_uploads, capacity_rejected_uploads} \subseteq Nat
    /\ pc \in [Workers -> {"check", "claim", "waiting", "process", "posting", "gone"}]
    /\ row \in [Workers -> Option(Rows)]
    /\ woken \subseteq Workers
    /\ stopped \in BOOLEAN /\ stopper \in {"no", "notify", "join", "done"}
    /\ clock \in 0..MaxTime
    /\ misjudged \subseteq 1..MaxJobs

(* Every job in processing is in the hands of exactly one worker and that   *)
(* worker's copy is still what the queue holds; only a job whose post was   *)
(* cancelled by stop() has none.  So a job is not posted twice at a time    *)
(* and the lookups by id and status of lines 551-557, 575-581 and 608-614   *)
(* never miss.                                                              *)
ProcessingIsHeldByOne ==
    /\ \A w \in Workers : pc[w] \in {"process", "posting"} => row[w] \in jobs
    /\ \A v, w \in Workers : row[v] = row[w] /\ row[v] # None => v = w
    /\ \A j \in jobs : j.status = "processing" /\ ~stopped => \E w \in Workers : row[w] = j

(* At most one job per node and at most max_queued_uploads in all, and each *)
(* is posted at most attempts (or once, if that is 0) times.                *)
QueueIsBounded ==
    /\ \A j, k \in jobs : j.node = k.node => j = k
    /\ Cardinality(jobs) <= max_queued_uploads
    /\ \A w \in Workers :
           pc[w] = "posting" => row[w].count <= (IF attempts = 0 THEN 1 ELSE attempts)

(* Every admitted job is completed or dropped, once, or still queued.       *)
EveryJobIsCounted ==
    next_job_id = completed_uploads + dropped_uploads + Cardinality(jobs)

(* Every job ends once and as the server's answer says: after a network     *)
(* failure, a 408, a 429 or a 5xx it keeps its remaining attempts, and an   *)
(* answer that settles the upload is final, so no upload is lost to a busy  *)
(* server and none is posted again after it was judged (runtime.rs lines    *)
(* 536-545, poster.rs lines 80-110).  What becomes of a job after a 3xx or  *)
(* an oversized 2xx or 4xx is left open: the code retries it.               *)
JobsEndAsAnswered == EveryJobIsCounted /\ misjudged = {}

(* A node is in cooldown only while its job is queued: however the job      *)
(* ends, the node's next advert is welcome at once (lines 593, 599, 619).   *)
CooldownEndsWithTheJob ==
    \A n \in DOMAIN node_state : node_state[n].cooldown_until # None => Queued(n)

(* No advert is uploaded again that the remembered acceptance covers: a     *)
(* queued job is newer than the node's last accepted advert by at least     *)
(* min_reupload_seconds, or as new as a timestamp can be, as long as that   *)
(* acceptance is remembered (admit_job, with the u32 sum saturating).       *)
NoReuploadOfAccepted ==
    \A j \in jobs :
        IsAfter(NodeOf(j.node).accepted_expires_at, clock) =>
            /\ j.ts > NodeOf(j.node).accepted_timestamp
            /\ \/ j.ts >= NodeOf(j.node).accepted_timestamp + min_reupload_seconds
               \/ j.ts = MaxTimestamp

(* The node table stays bounded although only admit_job trims it: a         *)
(* completed job can put back an evicted node (line 589), so the table may  *)
(* exceed MAX_NODE_ENTRIES, but only through completed jobs, and by no more *)
(* than the jobs the queue can hold.                                        *)
NodeTableBounded ==
    Cardinality(DOMAIN node_state) <=
        MaxNodeEntries + Least(completed_uploads, max_queued_uploads)

(* The tables of the upload side have their types and their limits: one job *)
(* per node, max_queued_uploads jobs, a bounded node table whose map and    *)
(* insertion order agree (runtime.rs lines 49-62, 465-488, 589).            *)
TablesAreBounded == UploadTypeOK /\ QueueIsBounded /\ NodeTableBounded

(* stop() returns: a worker that misses the notification because it is on   *)
(* its way between the stopped check and its wait (lines 495-503, 532-535)  *)
(* still notices, by its timer or when its request ends.                    *)
StopReturns == stopped ~> stopper = "done"
============================================================================
