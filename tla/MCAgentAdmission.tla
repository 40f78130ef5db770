-------------------------- MODULE MCAgentAdmission --------------------------
(* AgentAdmission for TLC: three launches at a ceiling of one.             *)
EXTENDS AgentAdmission

(* "Launch did not happen: free the slot immediately" (agent-admission.ts): *)
(* a slot without a commit belongs to a launch that is still under way.    *)
NoSlotLeaks == \A l \in Launches : slot[l] = "pending" => Is(l, {"admitted"})
=============================================================================
