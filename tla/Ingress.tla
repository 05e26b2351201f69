------------------------------ MODULE Ingress ------------------------------
(* The ingress side of the MeshCore.io bridge (src/meshcore_io/runtime.rs,  *)
(* src/meshcore_io/ingress.rs): publish hooks offer status and packet       *)
(* messages, duplicates within a window are ignored, one loop works through *)
(* the queue and retries what may succeed later, and a cleanup task forgets *)
(* what has expired.  A status leaves the radio parameters of its observer  *)
(* behind; the advert of a packet is admitted to UploadQueue with them.     *)
(*                                                                          *)
(* One action is one critical section of RuntimeInner.state.  offer_publish *)
(* and the loop read the wall clock before they wait for the lock, and so   *)
(* arrive with a reading up to MaxLag old.                                  *)
(*                                                                          *)
(* The three tables are ordered in the code and sets of rows here: the ids  *)
(* of the queue are its order, and place is the order of the other two.     *)
EXTENDS Integers, FiniteSets

CONSTANTS
    Messages,         \* [kind, observer, tag]: see below
    Observers,        \* observer ids
    max_ingress,      \* max(10_000, 20 * max_queued_uploads)
    ingress_dedup_ms,
    MaxDedup,         \* MAX_INGRESS_DEDUP_ENTRIES
    MaxObservers,     \* MAX_OBSERVER_ENTRIES
    Retention,        \* INGRESS_RETENTION_MS
    ObserverTTL,      \* OBSERVER_TTL_MS
    RetryDelay,       \* INGRESS_RETRY_DELAY_MS
    MaxAttempts,      \* MAX_INGRESS_ATTEMPTS
    None,             \* no row in hand; history value of what never happened
    MaxLag,           \* bound on the age of a clock reading
    MaxOffers,        \* bound on the accepted offers of the model
    MaxOfferTime,     \* bound on the time of offers ...
    MaxTime           \* ... and on the clock, late enough for them to end

(* What process_ingress makes of a message: "status" has radio parameters   *)
(* that are valid, "mute" is a status without them, "advert" a packet with  *)
(* a verified advert of a node that is uploaded, "plain" another packet,    *)
(* "garbled" an unparseable or unverified one, and "other" is a topic that  *)
(* is neither /status nor /packets.  The digest of topic and payload stands *)
(* for the message; tag tells messages of one kind apart.                   *)
Kinds == {"status", "mute", "advert", "plain", "garbled", "other"}

ASSUME IngressAssumption ==
    /\ Messages \subseteq [kind : Kinds, observer : Observers, tag : Nat]
    /\ IsFiniteSet(Messages)
    /\ {ingress_dedup_ms, Retention, ObserverTTL, RetryDelay, MaxLag, MaxOffers,
        MaxOfferTime, MaxTime} \subseteq Nat
    /\ {max_ingress, MaxDedup, MaxObservers, MaxAttempts} \subseteq Nat \ {0}
    /\ None \notin Int

VARIABLES
    ingress,          \* RuntimeState.ingress, in the order of the ids
    dedup,            \* [msg, expires, place]
    observer_radio,   \* [observer, updated_at, expires_at, place]
    next_ingress_id,
    next_place,       \* the place of the next new observer
    loop,             \* progress of ingress_loop
    held,             \* the row the loop has claimed (its copy), or None
    result,           \* what process_ingress returned for it, or None
    cleanup,          \* progress of cleanup_loop
    stopped,          \* RuntimeInner.stopped
    stopper,          \* progress of stop()
    woken,            \* shutdown.notify_waiters reached the cleanup task
    clock,
    took,             \* history: message -> received_at of its last acceptance
    squeezed,         \* history: messages whose dedup entry MaxDedup took since
    newest            \* history: observer -> latest status processed, as long as
                      \* MaxObservers has not squeezed it out

tables == <<ingress, dedup, observer_radio, next_ingress_id, next_place>>
loopVars == <<loop, held, result>>
taskVars == <<cleanup, stopped, stopper, woken>>
ingressHistory == <<took, squeezed, newest>>
ingressVars == <<tables, loopVars, taskVars, clock, ingressHistory>>

Readings == {now \in 0..clock : clock - now <= MaxLag}

\* shift_remove_index(0) while an IndexMap is over its limit, which it is by
\* one entry at most: it is trimmed after every insertion.
Front(entries) == CHOOSE e \in entries : \A f \in entries : e.place <= f.place
Surplus(entries, limit) ==
    IF Cardinality(entries) > limit THEN {Front(entries)} ELSE {}

----------------------------------------------------------------------------
(* offer_publish                                                            *)

RelevantTopic(msg) == msg.kind # "other"

NeverDuplicate(msg, now) == FALSE
IsDuplicate(msg, now) == \E e \in dedup : e.msg = msg /\ e.expires > now

\* The expired entry of the message goes, its new one comes last.
Remembered(msg, now) ==
    {e \in dedup : e.msg # msg}
        \cup {[msg |-> msg, expires |-> now + ingress_dedup_ms,
               place |-> next_ingress_id + 1]}

\* A new row is due at once: its retry_at, Instant::now(), is never in the
\* future, and 0 stands for it.
NewRow(msg, now) ==
    [id |-> next_ingress_id + 1, msg |-> msg, received_at |-> now,
     expires_at |-> now + Retention, processing |-> FALSE, attempts |-> 0,
     retry_at |-> 0]

\* The offers that are not taken: stopped, irrelevant, full or a duplicate.
IgnoreOffer(msg, now) ==
    /\ \/ stopped \/ ~RelevantTopic(msg)
       \/ Cardinality(ingress) >= max_ingress
       \/ IsDuplicate(msg, now)
    /\ UNCHANGED ingressVars

TakeOffer(msg, now) ==
    LET entries == Remembered(msg, now)
        lost    == Surplus(entries, MaxDedup)
    IN
    /\ ~stopped /\ RelevantTopic(msg)
    /\ Cardinality(ingress) < max_ingress
    /\ ~IsDuplicate(msg, now)
    /\ next_ingress_id < MaxOffers /\ clock <= MaxOfferTime
    /\ dedup' = entries \ lost
    /\ ingress' = ingress \cup {NewRow(msg, now)}
    /\ next_ingress_id' = next_ingress_id + 1
    /\ took' = [took EXCEPT ![msg] = now]
    /\ squeezed' = (squeezed \ {msg}) \cup {e.msg : e \in lost}
    /\ UNCHANGED <<observer_radio, next_place, loopVars, taskVars, clock, newest>>

----------------------------------------------------------------------------
(* ingress_loop                                                             *)

CheckStopped ==
    /\ loop = "check"
    /\ loop' = IF stopped THEN "gone" ELSE "claim"
    /\ UNCHANGED <<tables, held, result, taskVars, clock, ingressHistory>>

Eligible(row, now) ==
    ~row.processing /\ row.expires_at > now /\ row.retry_at <= clock

EligibleAt(now) == {row \in ingress : Eligible(row, now)}

First(rows) == CHOOSE row \in rows : \A other \in rows : row.id <= other.id

Claim(now) ==
    LET row     == First(EligibleAt(now))
        claimed == [row EXCEPT !.processing = TRUE]
    IN
    /\ loop = "claim"
    /\ EligibleAt(now) # {}
    /\ ingress' = (ingress \ {row}) \cup {claimed}
    /\ held' = claimed
    /\ loop' = "process"
    /\ UNCHANGED <<dedup, observer_radio, next_ingress_id, next_place, result, taskVars,
                   clock, ingressHistory>>

\* Nothing to claim: the loop waits for a notification or 250 ms and starts
\* over.  It may always be the timer that ends the wait, so that a missed
\* notification is a wait like any other.
Wait(now) ==
    /\ loop = "claim"
    /\ EligibleAt(now) = {}
    /\ loop' = "check"
    /\ UNCHANGED <<tables, held, result, taskVars, clock, ingressHistory>>

Return(outcome) == loop' = "finish" /\ result' = outcome

\* remember_status: a status no newer than the remembered one is ignored.
NeverOutdated(observer, received_at) == FALSE
Outdated(observer, received_at) ==
    \E e \in observer_radio : e.observer = observer /\ e.updated_at >= received_at

Known(observer) == {e \in observer_radio : e.observer = observer}

Radio(observer, received_at, place) ==
    [observer |-> observer, updated_at |-> received_at,
     expires_at |-> received_at + ObserverTTL, place |-> place]

\* IndexMap::insert keeps the place of a known observer.
WithRadio(observer, received_at) ==
    IF Known(observer) = {}
      THEN observer_radio \cup {Radio(observer, received_at, next_place)}
      ELSE (observer_radio \ Known(observer))
               \cup {Radio(observer, received_at, e.place) : e \in Known(observer)}

RememberStatus ==
    LET o    == held.msg.observer
        all  == WithRadio(o, held.received_at)
        lost == Surplus(all, MaxObservers)
    IN
    /\ loop = "process"
    /\ held.msg.kind = "status"
    /\ IF Outdated(o, held.received_at)
         THEN UNCHANGED <<observer_radio, next_place, newest>>
         ELSE /\ observer_radio' = all \ lost
              /\ next_place' = IF Known(o) = {} THEN next_place + 1 ELSE next_place
              /\ newest' = [p \in Observers |->
                               IF p \in {e.observer : e \in lost} THEN None
                               ELSE IF p = o /\ newest[o] \notin held.received_at..clock
                                    THEN held.received_at
                                    ELSE newest[p]]
    /\ Return("ok")
    /\ UNCHANGED <<ingress, dedup, next_ingress_id, held, taskVars, clock, took, squeezed>>

\* The messages process_ingress is done with at once.
Pass ==
    /\ loop = "process"
    /\ held.msg.kind \in {"mute", "plain", "garbled"}
    /\ Return(IF held.msg.kind = "garbled" THEN "permanent" ELSE "ok")
    /\ UNCHANGED <<tables, held, taskVars, clock, ingressHistory>>

\* The advert needs the radio parameters of its observer (stored ones are
\* valid, the default ones are not) and then a place among the upload jobs.
RadioOf(observer) ==
    {e \in Known(observer) : e.expires_at > clock}

LookUpRadio ==
    /\ loop = "process"
    /\ held.msg.kind = "advert"
    /\ IF RadioOf(held.msg.observer) = {} THEN Return("retry")
                                          ELSE loop' = "admit" /\ UNCHANGED result
    /\ UNCHANGED <<tables, held, taskVars, clock, ingressHistory>>

\* admit_job (UploadQueue): anything but CapacityRejected is a success.
Admit ==
    /\ loop = "admit"
    /\ \E outcome \in {"ok", "retry"} : Return(outcome)
    /\ UNCHANGED <<tables, held, taskVars, clock, ingressHistory>>

\* The match on the result, with the row looked up again by its id.
RetriesLeft(row) == row.attempts + 1 < MaxAttempts

Retried(row) ==
    [row EXCEPT !.processing = FALSE, !.attempts = @ + 1,
                !.retry_at = clock + RetryDelay]

Finish ==
    LET found   == {row \in ingress : row.id = held.id}
        retried == {row \in found : result = "retry" /\ RetriesLeft(row)}
    IN
    /\ loop = "finish"
    /\ ingress' = (ingress \ found) \cup {Retried(row) : row \in retried}
    /\ held' = None /\ result' = None
    /\ loop' = "check"
    /\ UNCHANGED <<dedup, observer_radio, next_ingress_id, next_place, taskVars, clock,
                   ingressHistory>>

----------------------------------------------------------------------------
(* cleanup_loop and stop()                                                  *)

CleanupCheck ==
    /\ cleanup = "check"
    /\ cleanup' = IF stopped THEN "gone" ELSE "waiting"
    /\ UNCHANGED <<tables, loopVars, stopped, stopper, woken, clock, ingressHistory>>

KeptUnexpired(row) == row.expires_at > clock
KeptAlways(row) == TRUE
Kept(row) == row.processing \/ row.expires_at > clock

\* sweep_state, at a tick of the interval.
Sweep ==
    /\ cleanup = "waiting"
    /\ ingress' = {row \in ingress : Kept(row)}
    /\ dedup' = {e \in dedup : e.expires > clock}
    /\ observer_radio' = {e \in observer_radio : e.expires_at > clock}
    /\ cleanup' = "check"
    /\ woken' = FALSE
    /\ UNCHANGED <<next_ingress_id, next_place, loopVars, stopped, stopper, clock,
                   ingressHistory>>

CleanupStops ==
    /\ cleanup = "waiting"
    /\ woken
    /\ cleanup' = "gone"
    /\ woken' = FALSE
    /\ UNCHANGED <<tables, loopVars, stopped, stopper, clock, ingressHistory>>

BeginStop ==
    /\ ~stopped
    /\ stopped' = TRUE
    /\ stopper' = "notify"
    /\ UNCHANGED <<tables, loopVars, cleanup, woken, clock, ingressHistory>>

NotifyShutdown ==
    /\ stopper = "notify"
    /\ stopper' = "join"
    /\ woken' = (cleanup = "waiting")
    /\ UNCHANGED <<tables, loopVars, cleanup, stopped, clock, ingressHistory>>

Join ==
    /\ stopper = "join"
    /\ loop = "gone" /\ cleanup = "gone"
    /\ stopper' = "done"
    /\ UNCHANGED <<tables, loopVars, cleanup, stopped, woken, clock, ingressHistory>>

Tick ==
    /\ clock < MaxTime
    /\ clock' = clock + 1
    /\ UNCHANGED <<tables, loopVars, taskVars, ingressHistory>>

----------------------------------------------------------------------------
IngressInit ==
    /\ ingress = {} /\ dedup = {} /\ observer_radio = {}
    /\ next_ingress_id = 0 /\ next_place = 0
    /\ loop = "check" /\ held = None /\ result = None
    /\ cleanup = "check" /\ stopped = FALSE /\ stopper = "no" /\ woken = FALSE
    /\ clock = 0
    /\ took = [m \in Messages |-> None]
    /\ squeezed = {}
    /\ newest = [o \in Observers |-> None]

LoopStep ==
    \/ CheckStopped \/ RememberStatus \/ Pass \/ LookUpRadio \/ Admit \/ Finish
    \/ \E now \in Readings : Claim(now) \/ Wait(now)

IngressNext ==
    \/ \E msg \in Messages, now \in Readings : IgnoreOffer(msg, now) \/ TakeOffer(msg, now)
    \/ LoopStep
    \/ CleanupCheck \/ Sweep \/ CleanupStops
    \/ BeginStop \/ NotifyShutdown \/ Join
    \/ Tick

IngressSpec == IngressInit /\ [][IngressNext]_ingressVars

(* Tokio runs the loop and the cleanup task, its timers (the poll of the    *)
(* loop, the interval of the cleanup) fire, time passes, and stop() runs on *)
(* once started.                                                            *)
FairIngressSpec ==
    /\ IngressSpec
    /\ WF_ingressVars(LoopStep)
    /\ WF_ingressVars(CleanupCheck \/ Sweep \/ CleanupStops)
    /\ WF_ingressVars(NotifyShutdown) /\ WF_ingressVars(Join)
    /\ WF_ingressVars(Tick)

----------------------------------------------------------------------------
Rows == [id : Nat, msg : Messages, received_at : Nat, expires_at : Nat,
         processing : BOOLEAN, attempts : 0..(MaxAttempts - 1), retry_at : Nat]
DedupEntries == [msg : Messages, expires : Nat, place : Nat]
RadioEntries == [observer : Observers, updated_at : Nat, expires_at : Nat, place : Nat]

(* The three tables hold rows of their types within their limits, no row    *)
(* has used up its attempts, and the tasks are at known steps (runtime.rs   *)
(* lines 49-62 and 262).                                                    *)
IngressTypeOK ==
    /\ ingress \subseteq Rows /\ Cardinality(ingress) <= max_ingress
    /\ dedup \subseteq DedupEntries /\ Cardinality(dedup) <= MaxDedup
    /\ observer_radio \subseteq RadioEntries /\ Cardinality(observer_radio) <= MaxObservers
    /\ next_ingress_id \in Nat /\ next_place \in Nat
    /\ loop \in {"check", "claim", "process", "admit", "finish", "gone"}
    /\ held \in Rows \cup {None}
    /\ result \in {"ok", "retry", "permanent", None}
    /\ cleanup \in {"check", "waiting", "gone"}
    /\ stopped \in BOOLEAN /\ stopper \in {"no", "notify", "join", "done"}
    /\ woken \in BOOLEAN
    /\ clock \in 0..MaxTime
    /\ took \in [Messages -> Nat \cup {None}]
    /\ squeezed \subseteq Messages
    /\ newest \in [Observers -> Nat \cup {None}]

(* The row in processing is the one the loop works on, and it is still      *)
(* queued when the loop comes back for it: the sweep of the cleanup task    *)
(* never takes it away, even when it has expired meanwhile (line 634), so   *)
(* no result is lost at lines 251-253.                                      *)
ProcessingRowIsHeld ==
    {row \in ingress : row.processing} =
        IF loop \in {"process", "admit", "finish"} THEN {held} ELSE {}

(* The ingress tables keep their types and limits and the loop's row stays  *)
(* queued, whatever offers and sweeps come between claim and finish.        *)
TablesKeepTheHeldRow == IngressTypeOK /\ ProcessingRowIsHeld

(* A message is taken twice only if its window had passed by then, or if    *)
(* newer ones squeezed it out of the dedup table (lines 133-144), although  *)
(* offers come to the lock with old readings of the clock and the cleanup   *)
(* task forgets entries by a newer one.                                     *)
TakenOncePerWindow ==
    [][\A row \in ingress' :
          row.id > next_ingress_id /\ took[row.msg] # None =>
          row.msg \in squeezed \/ clock >= took[row.msg] + ingress_dedup_ms]_ingressVars

(* Adverts are uploaded with the radio parameters of the status received    *)
(* last, of those processed: statuses may be queued in another order than   *)
(* they were received, and the later received wins (lines 415-421).  The    *)
(* parameters are lost only when they have expired or MaxObservers other    *)
(* observers have pushed them out.                                          *)
RadioIsTheNewest ==
    \A o \in Observers :
        /\ \A e \in RadioOf(o) : e.updated_at = newest[o]
        /\ newest[o] # None /\ RadioOf(o) = {} => newest[o] + ObserverTTL <= clock

(* Every message taken leaves the queue, processed or given up, or the      *)
(* bridge is stopped and stop() returns: a retried message does not stay    *)
(* forever or keep the ones behind it from being processed.                 *)
QueueDrainsOrStops == ingress # {} ~> ingress = {} \/ stopper = "done"
============================================================================
