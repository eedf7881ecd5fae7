------------------------------ MODULE MCAgentInbox ------------------------------
(* Module AgentInbox with two rows, the second a worker's result.            *)
EXTENDS AgentInbox

MCResults == {2}
================================================================================
