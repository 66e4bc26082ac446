---------------------------- MODULE MCCloseouts ----------------------------
(* A closeout with a step and the queue they share, for TLC. *)
EXTENDS Closeouts

CONSTANT i1

McCorrelations == {i1}

\* A source that answers, and one that does not.
McProbes == {[source |-> "known", warning |-> FALSE], [source |-> "unknown", warning |-> TRUE]}

\* A warning of the backup probe, which forces the severity of its peers and whose
\* linked gate is still open.
McEvents ==
  {[type |-> "source_unknown", about |-> 0, correlation |-> i1, source |-> "unknown",
    gate |-> TRUE, severity |-> High, state |-> "open"]}
=============================================================================
