---------------------------- MODULE MCClientSend ----------------------------
(* A small instance of ClientSend for TLC.                                 *)
EXTENDS ClientSend, TLC

CONSTANTS c1, c2, i1, k1, k2, agentID, home, proj, state, agent, p1, p2, p3, none

\* Two paths of one directory, and one into the agent's own workspace.
PathsLead == p1 :> proj @@ p2 :> proj @@ p3 :> agent

\* The state directory, with the agent's workspace, and a project, all below the root.
Tree == {<<d, d>> : d \in Dirs} \cup {<<proj, home>>, <<state, home>>, <<agent, state>>, <<agent, home>>}

\* The other key is that of another client.
OneKey == i1 :> k1

On(p, s) == [policy |-> p, sandbox |-> s]
Three == {On("agent", "seatbelt"), On("per_conversation", "seatbelt"), On("agent", "e2b")}
=============================================================================
