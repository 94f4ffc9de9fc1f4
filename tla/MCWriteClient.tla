--------------------------- MODULE MCWriteClient ---------------------------
(* Two points; a user that may write both in partition 1 but only the first  *)
(* in partition 0.  The second write, if it is of the second point, is of    *)
(* the wrong type.                                                           *)
EXTENDS WriteClient

MCRule(uid, q, first, last) ==
  [kind |-> "rule", rule |-> [uid |-> uid, partition |-> q, first |-> first, last |-> last]]
MCPolicy == << [MCRule(0, 0, 0, 0) EXCEPT !.kind = "blank"],
               MCRule(7, Any, 1, 1), MCRule(7, 1, 2, 3), MCRule(8, Any, 0, 9) >>
MCRejected == {[point |-> 2, stamp |-> 2]}

=============================================================================
