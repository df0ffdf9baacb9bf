------------------------------ MODULE MCTitle ------------------------------
(* One conversation without failures, without tools and without deletion:
   requests 1, 2, 3, ... one after the other, every message plain text. *)
EXTENDS SessionPersistence

Plain(i) ==
  /\ pc[i] = "append" => clock' = clock + 1
  /\ pc'[i] = "append" => msg'[i].kind = "text"

SequentialNext ==
  \E i \in Invocations :
    /\ \A j \in Invocations : j < i => pc[j] = "done"
    /\ Receive(i) \/ (AgentStep(i) /\ Plain(i)) \/ TitleEnds(i)

SequentialSpec == Init /\ [][SequentialNext]_vars
=============================================================================
