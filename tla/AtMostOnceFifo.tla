-------------------------- MODULE AtMostOnceFifo --------------------------
(* What the bridge to the target broker promises (RUST.md: "one bounded     *)
(* FIFO worker queue so retained neighbor publishes reach the target in     *)
(* offer order", QoS 0): an accepted message is written at most once, in    *)
(* the order of acceptance, and may be lost at any time before.             *)
EXTENDS Naturals, Sequences

VARIABLES
    accepted,   \* number of accepted messages; they are numbered from 1
    waiting,    \* the accepted messages that may still be written
    out         \* the messages written, in order

fifoVars == <<accepted, waiting, out>>

FifoInit == accepted = 0 /\ waiting = {} /\ out = << >>

Accept ==
    /\ accepted' = accepted + 1
    /\ waiting' = waiting \cup {accepted'}
    /\ UNCHANGED out

Lose ==
    /\ waiting' \in SUBSET waiting
    /\ UNCHANGED <<accepted, out>>

Deliver ==
    \E m \in waiting :
        /\ \A n \in waiting : m <= n
        /\ waiting' = waiting \ {m}
        /\ out' = Append(out, m)
        /\ UNCHANGED accepted

FifoSpec == FifoInit /\ [][Accept \/ Lose \/ Deliver]_fifoVars
============================================================================
