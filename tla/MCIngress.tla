----------------------------- MODULE MCIngress -----------------------------
(* Model-checking instance of Ingress: statuses of two observers compete    *)
(* for one place in the radio table, next to an advert that needs one of    *)
(* them, a garbled packet and an irrelevant topic; two places in the queue, *)
(* one in the dedup table, two attempts.                                    *)
EXTENDS Ingress

CONSTANTS oa, ob

Msg(kind, observer, tag) == [kind |-> kind, observer |-> observer, tag |-> tag]
MCMessages == {Msg("status", oa, 1), Msg("status", ob, 1),
               Msg("advert", oa, 1), Msg("garbled", ob, 1), Msg("other", oa, 1)}
============================================================================
