------------------------------- MODULE MCChat -------------------------------
(* ChatStream on small instances. *)
EXTENDS ChatStream

CONSTANT Answered   \* bound: sends that get an answer, the others fail before it

\* Two stops of a page never fall into the same millisecond.
DistinctNext ==
  \/ \E r \in Sends :
        \/ Send(r) \/ AgentStep(r) \/ Break(r)
        \/ PageStep(r) /\ (r \in Answered \/ UNCHANGED apc)
        \/ LineStep(r) /\ OneStopPerMillisecond
  \/ Absorb \/ HistoryArrives

DistinctSpec == Init /\ [][DistinctNext]_vars /\ Fairness
=============================================================================
