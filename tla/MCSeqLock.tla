----------------------------- MODULE MCSeqLock ------------------------------
(* The point store with numbers for its data, for TLC. *)
EXTENDS SeqLock

CONSTANTS w1, w2, s1p, r1, x1, a1

\* GOOD with the limit bits HIGH (2): differs from the zeroed segment in both
\* halves, and makes the bits the TIMEOUT mark must keep visible.
MCQualities == {QMake(QGood, 2)}

\* Readers do not act on one another, so each cast has one kind of them.
MCCasts == {{w1, s1p, r1, a1}, {w1, s1p, x1}}
MCLiveCasts == {{w1, w2, r1}, {w1, x1}, {w1, s1p, r1}, {w1, w2, x1}}
MCTearCasts == {{w1, x1}}

=============================================================================
