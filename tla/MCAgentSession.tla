--------------------------- MODULE MCAgentSession ---------------------------
(* Instances of AgentSession: generators and suites.                        *)
EXTENDS AgentSession

Plain ==
  [kind |-> "opencode", precreate |-> FALSE, keep |-> FALSE, retries |-> 1,
   evolution |-> FALSE]

PlainConfigs == {Plain}

(* Both generators, with and without precreated and kept containers, and    *)
(* an evolution task, which is never retried.                               *)
MCConfigs ==
  {[Plain EXCEPT !.precreate = p, !.keep = k] : p, k \in BOOLEAN}
  \cup {[Plain EXCEPT !.kind = "pi", !.keep = k] : k \in BOOLEAN}
  \cup {[Plain EXCEPT !.kind = "pi", !.precreate = TRUE],
        [Plain EXCEPT !.evolution = TRUE, !.keep = TRUE]}
=============================================================================
