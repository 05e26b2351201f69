------------------------- MODULE MCObserverSessions -------------------------
(* Model-checking instance of ObserverSessions: two observer connections    *)
(* compete for one key while a second key stays unused, and two viewers     *)
(* compete for the single place of their account.                           *)
EXTENDS ObserverSessions

CONSTANTS a1, a2, v1, v2, ka, kb, viewer

MCKeyOf == [c \in Observers |-> ka]
MCUserOf == [c \in Viewers |-> viewer]
MCMax == [u \in Users |-> 1]
============================================================================
