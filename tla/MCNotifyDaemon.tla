--------------------------- MODULE MCNotifyDaemon ---------------------------
(* Two connections, a point with a deadband, small buffers, for TLC. *)
EXTENDS NotifyDaemon

\* A deadband of one, and an EURange that only the value 3 leaves: 0, 1, 2 creeps
\* away within the deadband, 2, 3 crosses the limit within it.
MCMeta == [p \in Points |-> [rbe |-> TRUE, deadband |-> 1, eur |-> TRUE, lo |-> 0, hi |-> 2]]
\* Nothing configured: every write is announced.
MCNoMeta == [p \in Points |-> [rbe |-> FALSE, deadband |-> 0, eur |-> FALSE, lo |-> 0, hi |-> 0]]
MCPermitted == {<<0, 1>>}
MCZeroPermitted == {0} \X Points

=============================================================================
