---------------------------- MODULE TargetBridge ----------------------------
(* Forwarding to the target broker (src/target_mqtt): publish hooks offer   *)
(* messages to a bounded queue (forwarding.rs), one worker hands them to    *)
(* the MQTT client one at a time and waits for each to be written, and the  *)
(* event loop of the client (connection.rs) tells the worker through a FIFO *)
(* of callbacks (tracker.rs).  stop() ends it all.                          *)
(*                                                                          *)
(* An offer, the worker, the event loop and stop() run on different tokio   *)
(* workers; one action is one access to an atomic, a lock or a channel.     *)
(* A message is the number of its acceptance into the queue.  The channel   *)
(* into the client is unbounded here: it has room for 1000 requests and     *)
(* only the single worker adds to it, at most one per 5 s without a write.  *)
EXTENDS Integers, FiniteSets, Sequences, SequencesExt

CONSTANTS
    Publishers,   \* publish hooks that offer messages
    max_pending,  \* TARGET_MAX_PENDING
    Reconnects,   \* whether reconnect_period_ms # 0: the configurations to consider
    NoMessage,    \* no message in hand, no callback answer
    MaxOffers     \* bound on the offers of the model

ASSUME BridgeAssumption ==
    /\ IsFiniteSet(Publishers)
    /\ max_pending \in Nat \ {0}
    /\ Reconnects \subseteq BOOLEAN
    /\ NoMessage \notin Nat
    /\ MaxOffers \in Nat

VARIABLES
    offer,        \* publisher -> its progress through offer_publish
    pending,      \* Inner.pending
    stopping,     \* Inner.stopping
    tx,           \* Inner.tx is Some
    queue,        \* the mpsc queue
    worker,       \* progress of the worker through forward()
    hand,         \* the message the worker forwards
    answer,       \* what the callback of that message was completed with
    tracker,      \* WriteTracker.queue
    chan,         \* requests in the channel of the MQTT client
    loop,         \* the event loop
    connected,    \* RumqttTarget.connected
    reconnects,   \* the configuration's reconnect_period_ms # 0
    stopper,      \* progress of stop()
    dropped, successful,
    offers,       \* history: number of offers that found the bridge running
    accepted,     \* history: number of messages put into the queue
    written,      \* history: the messages written to the target, in order
    completed,    \* history: the messages whose forward() returned Ok
    timed_out,    \* history: some publish has timed out
    abandoned     \* history: number of messages an abort took along

offerVars == <<offer, tx, queue, accepted, offers>>
workerVars == <<worker, hand, completed, timed_out>>
sinkVars == <<answer, tracker, chan, loop, connected, reconnects, written>>
stopVars == <<stopping, stopper, abandoned>>
counters == <<pending, dropped, successful>>
bridgeVars == <<offerVars, workerVars, sinkVars, stopVars, counters>>

Drop == dropped' = dropped + 1
GiveBack == pending' = pending - 1

----------------------------------------------------------------------------
(* offer_publish_with_retain, for a topic should_forward_to_target allows.  *)

OfferGoto(p, stage) == offer' = [offer EXCEPT ![p] = stage]

BeginOffer(p) ==
    /\ offer[p] = "idle"
    /\ ~stopping
    /\ offers < MaxOffers
    /\ offers' = offers + 1
    /\ OfferGoto(p, "connected?")
    /\ UNCHANGED <<tx, queue, accepted, workerVars, sinkVars, stopVars, counters>>

CheckConnected(p) ==
    /\ offer[p] = "connected?"
    /\ IF connected THEN OfferGoto(p, "reserve") /\ UNCHANGED dropped
                    ELSE OfferGoto(p, "idle") /\ Drop
    /\ UNCHANGED <<tx, queue, accepted, offers, workerVars, sinkVars, stopVars,
                   pending, successful>>

HasRoom == pending < max_pending

Reserve(p) ==
    /\ offer[p] = "reserve"
    /\ IF HasRoom
         THEN OfferGoto(p, "clone") /\ pending' = pending + 1 /\ UNCHANGED dropped
         ELSE OfferGoto(p, "idle") /\ Drop /\ UNCHANGED pending
    /\ UNCHANGED <<tx, queue, accepted, offers, workerVars, sinkVars, stopVars, successful>>

CloneSender(p) ==
    /\ offer[p] = "clone"
    /\ IF tx THEN OfferGoto(p, "send") /\ UNCHANGED <<pending, dropped>>
             ELSE OfferGoto(p, "idle") /\ GiveBack /\ Drop
    /\ UNCHANGED <<tx, queue, accepted, offers, workerVars, sinkVars, stopVars, successful>>

\* A worker that is done or aborted has dropped the receiver.
TrySend(p) ==
    /\ offer[p] = "send"
    /\ OfferGoto(p, "idle")
    /\ IF worker = "gone" \/ Len(queue) = max_pending
         THEN GiveBack /\ Drop /\ UNCHANGED <<queue, accepted>>
         ELSE /\ accepted' = accepted + 1
              /\ queue' = Append(queue, accepted')
              /\ UNCHANGED <<pending, dropped>>
    /\ UNCHANGED <<tx, offers, workerVars, sinkVars, stopVars, successful>>

----------------------------------------------------------------------------
(* worker_loop, forward, publish and RumqttTarget::publish.                 *)

Receive ==
    /\ worker = "recv"
    /\ queue # << >>
    /\ worker' = "ready?"
    /\ hand' = Head(queue)
    /\ queue' = Tail(queue)
    /\ answer' = NoMessage
    /\ UNCHANGED <<offer, tx, accepted, offers, completed, timed_out, tracker, chan, loop,
                   connected, written, reconnects, stopVars, counters>>

\* recv() returns None once the last sender, clones included, is dropped.
WorkerEnds ==
    /\ worker = "recv"
    /\ queue = << >> /\ ~tx /\ \A p \in Publishers : offer[p] # "send"
    /\ worker' = "gone"
    /\ UNCHANGED <<offerVars, hand, completed, timed_out, sinkVars, stopVars, counters>>

EnsureReady ==
    /\ worker = "ready?"
    /\ worker' = IF stopping \/ ~connected THEN "failed" ELSE "submit"
    /\ UNCHANGED <<offerVars, hand, completed, timed_out, sinkVars, stopVars, counters>>

Submit ==
    /\ worker = "submit"
    /\ worker' = "request"
    /\ tracker' = Append(tracker, hand)
    /\ UNCHANGED <<offerVars, hand, completed, timed_out, answer, chan, loop, connected,
                   written, reconnects, stopVars, counters>>

\* AsyncClient::publish fails when the event loop, and with it the receiving
\* end of the channel, is gone: the callback is removed by its id.  No two
\* callbacks have one id, so retain removes the first that has it.
Request ==
    /\ worker = "request"
    /\ IF loop = "ended"
         THEN /\ tracker' = RemoveFirst(tracker, hand)
              /\ worker' = "failed"
              /\ UNCHANGED chan
         ELSE /\ chan' = Append(chan, hand)
              /\ worker' = "await"
              /\ UNCHANGED tracker
    /\ UNCHANGED <<offerVars, hand, completed, timed_out, answer, loop, connected,
                   written, reconnects, stopVars, counters>>

Answered ==
    /\ worker = "await"
    /\ answer # NoMessage
    /\ worker' = IF answer = "ok" THEN "succeeded" ELSE "failed"
    /\ UNCHANGED <<offerVars, hand, completed, timed_out, sinkVars, stopVars, counters>>

\* The publish timeout drops the future and the receiver of the callback; the
\* callback stays in the tracker.
TimeoutRetries ==
    /\ worker = "await"
    /\ answer = NoMessage
    /\ worker' = "submit"
    /\ UNCHANGED <<offerVars, hand, completed, timed_out, sinkVars, stopVars, counters>>
NoTimeout == worker = "await" /\ answer # NoMessage /\ Answered
Timeout ==
    /\ worker = "await"
    /\ answer = NoMessage
    /\ worker' = "failed"
    /\ timed_out' = TRUE
    /\ UNCHANGED <<offerVars, hand, completed, sinkVars, stopVars, counters>>

\* The match of forward() on the result.
DropUncounted == successful' = successful /\ dropped' = dropped
CountResult ==
    IF worker = "succeeded"
      THEN successful' = successful + 1 /\ UNCHANGED dropped
      ELSE Drop /\ UNCHANGED successful

Account ==
    /\ worker \in {"succeeded", "failed"}
    /\ CountResult
    /\ completed' = IF worker = "succeeded" THEN completed \cup {hand} ELSE completed
    /\ worker' = "release"
    /\ UNCHANGED <<offerVars, hand, timed_out, sinkVars, stopVars, pending>>

Release ==
    /\ worker = "release"
    /\ worker' = "recv"
    /\ hand' = NoMessage
    /\ GiveBack
    /\ UNCHANGED <<offerVars, completed, timed_out, sinkVars, stopVars, dropped, successful>>

----------------------------------------------------------------------------
(* The event loop.  rumqttc itself is external: poll() connects, writes the *)
(* requests of the channel in order with one Outgoing event each, and on an *)
(* error of an established connection empties the channel (the requests are *)
(* discarded when the next clean session starts).                           *)

\* A completed callback reaches the worker if it still waits for that message.
Complete(messages, outcome) ==
    answer' = IF hand \in messages /\ worker \in {"request", "await"} /\ answer = NoMessage
                THEN outcome ELSE answer

ConnAck ==
    /\ loop = "down"
    /\ loop' = "up"
    /\ connected' = TRUE
    /\ UNCHANGED <<offerVars, workerVars, answer, tracker, chan, written, reconnects,
                   stopVars, counters>>

PollWrites ==
    /\ loop = "up"
    /\ chan # << >>
    /\ loop' = "event"
    /\ chan' = Tail(chan)
    /\ written' = Append(written, Head(chan))
    /\ UNCHANGED <<offerVars, workerVars, answer, tracker, connected, reconnects,
                   stopVars, counters>>

OutgoingEvent ==
    /\ loop = "event"
    /\ loop' = "up"
    /\ IF tracker = << >>
         THEN UNCHANGED <<tracker, answer>>
         ELSE tracker' = Tail(tracker) /\ Complete({Head(tracker)}, "ok")
    /\ UNCHANGED <<offerVars, workerVars, chan, connected, written, reconnects,
                   stopVars, counters>>

PollFails ==
    /\ loop \in {"up", "down"}
    /\ loop' = "error"
    /\ chan' = IF loop = "up" THEN << >> ELSE chan
    /\ UNCHANGED <<offerVars, workerVars, answer, tracker, connected, written,
                   reconnects, stopVars, counters>>

MarkUnavailable ==
    /\ loop = "error"
    /\ loop' = "drain"
    /\ connected' = FALSE
    /\ UNCHANGED <<offerVars, workerVars, answer, tracker, chan, written, reconnects,
                   stopVars, counters>>

FailCallbacks ==
    /\ loop = "drain"
    /\ tracker' = << >>
    /\ Complete(ToSet(tracker), "err")
    /\ loop' = IF reconnects THEN "down" ELSE "ended"
    /\ chan' = IF reconnects THEN chan ELSE << >>
    /\ UNCHANGED <<offerVars, workerVars, connected, written, reconnects, stopVars,
                   counters>>

----------------------------------------------------------------------------
(* TargetBridge::stop and RumqttTarget::stop.                               *)

BeginStop ==
    /\ ~stopping
    /\ stopping' = TRUE
    /\ stopper' = "close"
    /\ UNCHANGED <<offerVars, workerVars, sinkVars, abandoned, counters>>

CloseQueue ==
    /\ stopper = "close"
    /\ stopper' = "join"
    /\ tx' = FALSE
    /\ UNCHANGED <<offer, queue, accepted, offers, workerVars, sinkVars, stopping,
                   abandoned, counters>>

Join ==
    /\ stopper = "join"
    /\ worker = "gone"
    /\ stopper' = "disconnect"
    /\ UNCHANGED <<offerVars, workerVars, sinkVars, stopping, abandoned, counters>>

\* The drain deadline: abort takes effect where the worker is suspended, and
\* what it holds and what is queued is dropped uncounted.
AbortWorker ==
    /\ stopper = "join"
    /\ worker \in {"recv", "await"}
    /\ stopper' = "disconnect"
    /\ worker' = "gone"
    /\ hand' = NoMessage
    /\ queue' = << >>
    /\ abandoned' = Len(queue) + (IF worker = "await" THEN 1 ELSE 0)
    /\ UNCHANGED <<offer, tx, accepted, offers, completed, timed_out, sinkVars, stopping,
                   counters>>

StopSink ==
    /\ stopper = "disconnect"
    /\ stopper' = "drain"
    /\ connected' = FALSE
    /\ UNCHANGED <<offerVars, workerVars, answer, tracker, chan, loop, written,
                   reconnects, stopping, abandoned, counters>>

StopCallbacks ==
    /\ stopper = "drain"
    /\ stopper' = "abort"
    /\ tracker' = << >>
    /\ UNCHANGED <<offerVars, workerVars, answer, chan, loop, connected, written,
                   reconnects, stopping, abandoned, counters>>

AbortLoop ==
    /\ stopper = "abort"
    /\ stopper' = "stopped"
    /\ loop' = "ended"
    /\ chan' = << >>
    /\ UNCHANGED <<offerVars, workerVars, answer, tracker, connected, written,
                   reconnects, stopping, abandoned, counters>>

----------------------------------------------------------------------------
BridgeInit ==
    /\ offer = [p \in Publishers |-> "idle"]
    /\ pending = 0 /\ dropped = 0 /\ successful = 0
    /\ stopping = FALSE /\ stopper = "no" /\ tx = TRUE
    /\ queue = << >> /\ tracker = << >> /\ chan = << >>
    /\ worker = "recv" /\ hand = NoMessage /\ answer = NoMessage
    /\ loop = "down" /\ connected = FALSE /\ reconnects \in Reconnects
    /\ offers = 0 /\ accepted = 0 /\ abandoned = 0
    /\ written = << >> /\ completed = {} /\ timed_out = FALSE

OfferStep(p) == CheckConnected(p) \/ Reserve(p) \/ CloneSender(p) \/ TrySend(p)
WorkerStep ==
    \/ Receive \/ WorkerEnds \/ EnsureReady \/ Submit \/ Request
    \/ Answered \/ Timeout \/ Account \/ Release
LoopStep == OutgoingEvent \/ MarkUnavailable \/ FailCallbacks
StopStep ==
    \/ CloseQueue \/ Join \/ AbortWorker \/ StopSink \/ StopCallbacks \/ AbortLoop

BridgeNext ==
    \/ \E p \in Publishers : BeginOffer(p) \/ OfferStep(p)
    \/ WorkerStep
    \/ LoopStep \/ ConnAck \/ PollWrites \/ PollFails
    \/ BeginStop \/ StopStep

BridgeSpec == BridgeInit /\ [][BridgeNext]_bridgeVars

(* Tokio runs every task that can make progress and fires every timer.      *)
(* Nothing is assumed of the network: it may never connect, write or fail.  *)
FairBridgeSpec ==
    /\ BridgeSpec
    /\ \A p \in Publishers : WF_bridgeVars(OfferStep(p))
    /\ WF_bridgeVars(WorkerStep) /\ WF_bridgeVars(LoopStep) /\ WF_bridgeVars(StopStep)

----------------------------------------------------------------------------
(* Counters stay natural numbers (pending is a usize, forwarding.rs line    *)
(* 144), queues hold messages, and every task is at a known step.           *)
BridgeTypeOK ==
    /\ offer \in [Publishers -> {"idle", "connected?", "reserve", "clone", "send"}]
    /\ pending \in Nat /\ dropped \in Nat /\ successful \in Nat
    /\ {stopping, tx, connected, reconnects, timed_out} \subseteq BOOLEAN
    /\ queue \in Seq(Nat) /\ tracker \in Seq(Nat) /\ chan \in Seq(Nat)
    /\ worker \in {"recv", "ready?", "submit", "request", "await", "succeeded",
                   "failed", "release", "gone"}
    /\ hand \in Nat \cup {NoMessage}
    /\ answer \in {NoMessage, "ok", "err"}
    /\ loop \in {"down", "up", "event", "error", "drain", "ended"}
    /\ stopper \in {"no", "close", "join", "disconnect", "drain", "abort", "stopped"}
    /\ offers \in Nat /\ accepted \in Nat /\ abandoned \in Nat
    /\ written \in Seq(Nat) /\ completed \subseteq Nat

At(stages) == Cardinality({p \in Publishers : offer[p] \in stages})
Held == IF hand = NoMessage THEN 0 ELSE 1

(* Every place of the bounded queue is reserved by an offer on its way,     *)
(* taken by a queued message or by the one in the worker's hand; only an    *)
(* abort at the drain deadline keeps places.  So the limit of forwarding.rs *)
(* line 117 is a limit on messages, a place is never lost or freed twice on *)
(* any of the six ways out of offer_publish and forward, and try_send finds *)
(* room in the queue of max_pending for every reservation (lines 134-137).  *)
PendingCountsMessages ==
    /\ pending = At({"clone", "send"}) + Len(queue) + Held + abandoned
    /\ pending <= max_pending

(* Every offer a running bridge got is counted once, as dropped or as       *)
(* successful, when it is no longer on its way - but for the ones an abort  *)
(* takes along.                                                             *)
EveryOfferIsCounted ==
    LET inWork == IF hand # NoMessage /\ worker # "release" THEN 1 ELSE 0 IN
    offers = dropped + successful + abandoned + inWork + Len(queue)
               + At({"connected?", "reserve", "clone", "send"})

(* The bookkeeping of offer_publish, forward and stop (forwarding.rs lines  *)
(* 97-161, 194-213) adds up on every interleaving: places and offers.       *)
PlacesAndOffersAddUp ==
    BridgeTypeOK /\ PendingCountsMessages /\ EveryOfferIsCounted

\* The messages that may still reach the target.
InFlight ==
    ToSet(queue) \cup ToSet(chan)
      \cup (IF worker \in {"ready?", "submit", "request"} THEN {hand} ELSE {})

Promise == INSTANCE AtMostOnceFifo WITH waiting <- InFlight, out <- written

(* RUST.md lines 106-107: the bridge delivers at most once and in offer     *)
(* order, across timeouts, lost connections, reconnects and shutdown.       *)
DeliversAtMostOnceInOrder == Promise!FifoSpec

(* A place is not held forever, whatever the network does: time and again   *)
(* all places are free, unless an abort ended the worker.                   *)
PlacesComeBack == []<>(pending = abandoned)

(* connection.rs lines 136-140: "a later event can never consume a wrong    *)
(* callback" - so a publish whose callback said Ok has been written, at     *)
(* least as long as no publish has timed out.                               *)
OkMeansWritten == timed_out \/ completed \subseteq ToSet(written)
============================================================================
