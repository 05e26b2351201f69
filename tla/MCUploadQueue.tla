--------------------------- MODULE MCUploadQueue ---------------------------
(* Model-checking instance of UploadQueue: adverts of three nodes compete   *)
(* for two queue places and one remembered node; two attempts per job.  The *)
(* adverts of n1 lie inside, at the end of and beyond the re-upload window  *)
(* of one another, with and without the sum saturating.  One set of radio   *)
(* parameters becomes valid only by rounding, one never is.  The exchanges  *)
(* meet every branch of the poster's classification.                        *)
EXTENDS UploadQueue

CONSTANTS n1, n2, n3

MCAdverts == [node : {n1}, ts : Timestamps] \cup [node : {n2, n3}, ts : {2}]

Radio(freq) == [freq |-> freq, bw |-> 62500, sf |-> 8, cr |-> 5]
MCRadios == {Radio(999996), Radio(None)}

Answer(status, code) ==
    [sent |-> TRUE, status |-> status, declared |-> None, received |-> 1,
     broken |-> FALSE, code |-> code]
MCExchanges ==
    {Answer(200, "NODES_INSERTED"), Answer(200, None), Answer(500, "ERR_COORDS_"),
     Answer(404, "other"), Answer(429, "other"),
     Answer(503, None), Answer(304, None),
     [Answer(404, None) EXCEPT !.broken = TRUE],
     [Answer(404, None) EXCEPT !.received = MAX_RESPONSE_BYTES + 1],
     [Answer(200, None) EXCEPT !.declared = MAX_RESPONSE_BYTES + 1],
     [Answer(200, None) EXCEPT !.sent = FALSE]}
============================================================================
