---------------------------- MODULE StatusCache ----------------------------
(***************************************************************************)
(* PremiumStatusCache, for one server: an answer that lasts for a TTL and  *)
(* the last one that was known, which does not end. Each way to pay has a  *)
(* cache of its own.                                                       *)
(***************************************************************************)
CONSTANT None \* no entry

ASSUME NoneIsNoAnswer == None \notin BOOLEAN

Caches == [fresh : BOOLEAN \cup {None}, known : BOOLEAN \cup {None}]

Empty == [fresh |-> None, known |-> None]

\* set: an answer really given, which becomes the fallback.
Known(v) == [fresh |-> v, known |-> v]

\* set_provisional: the fallback stays.
Provisional(c, v) == [c EXCEPT !.fresh = v]

\* invalidate, and the end of a TTL.
Defect_NotDropped(c) == c
Invalidate(c) == [c EXCEPT !.fresh = None]

\* What a failed lookup answers: the fallback, or open, or closed.
Guess(c, default) == IF c.known = None THEN default ELSE c.known
=============================================================================
