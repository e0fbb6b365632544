--------------------------- MODULE MCRateLimiter ---------------------------
(* A small instance of RateLimiter for TLC: an hour of two ticks and a day of *)
(* three.  The day begins its second bucket within the second hour, and its   *)
(* limit is below that of its hours together.  A login's window is one tick,  *)
(* so that its reset and its late calls fall into the next one.               *)
EXTENDS RateLimiter

MCLimit == [sc \in Scopes |-> 1]
MCWidth == [hour |-> 2, day |-> 3, email |-> 1, address |-> 1]
MCMaxTime == [k \in Handlers |-> IF k = "quota" THEN 3 ELSE 1]
============================================================================
