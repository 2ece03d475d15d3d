----------------------------- MODULE PolicyDesk -----------------------------
(***************************************************************************)
(* Who decided? The LLM agent (agent/policy_agent.py) answers, or hides    *)
(* its failure behind a heuristic of its own and moves a counter; the      *)
(* orchestrator's _decide_action, called by any number of sessions at once *)
(* on one shared agent, compares that counter across the call to label the *)
(* decision "llm" or to take the baseline's decision instead.              *)
(***************************************************************************)
EXTENDS Integers, FiniteSets

CONSTANTS
  Sessions,     \* sessions that need a decision
  HasAgent,     \* the agents that may be configured: TRUE for an LLM
  MaxFallbacks  \* bound: fallbacks after which nobody asks the agent

ASSUME PolicyAssumption == HasAgent \subseteq BOOLEAN /\ MaxFallbacks \in Nat /\ IsFiniteSet(Sessions)

VARIABLES
  agent,      \* the process has an LLM agent
  fallbacks,  \* PolicyAgent.fallback_count, one for all sessions
  desk,       \* per session: the provider call that is out and how many there were
  before,     \* per session: fallbacks_before
  decided     \* the decision just recorded: agent_type, and who it really came from
policyVars == <<agent, fallbacks, desk, before, decided>>

NoDecision == [by |-> "none", from |-> "none"]
Asleep == [at |-> "idle", calls |-> 0]
PolicyInit ==
  /\ agent \in HasAgent /\ fallbacks = 0
  /\ desk = [s \in Sessions |-> Asleep] /\ before = [s \in Sessions |-> 0]
  /\ decided = NoDecision

\* What the provider may answer. "fatal" is 401, 402, 403 or 404; every other
\* error, a timeout too, is "transient".
Answers == {"valid", "garbled", "fatal", "transient"}

----------------------------------------------------------------------------
\* decide

Send(s, place) == desk' = [desk EXCEPT ![s] = [at |-> place, calls |-> @.calls + 1]]

\* The three calls one decision may make. A transient error of the first call is
\* retried once; an answer that does not parse is corrected once.
Again(s, answer) ==
  CASE desk[s].at = "first" /\ answer = "transient" -> "second"
    [] desk[s].at \in {"first", "second"} /\ answer = "garbled" -> "correction"
    [] OTHER -> "none"

----------------------------------------------------------------------------
\* _decide_action

Record(by, from) == decided' = [by |-> by, from |-> from]

\* No agent could be built, or it raised before it asked the provider.
DecideAlone(s) ==
  /\ desk[s].at = "idle"
  /\ Record("xgboost", "baseline")
  /\ UNCHANGED <<agent, fallbacks, desk, before>>

AskAgent(s) ==
  /\ agent /\ desk[s].at = "idle" /\ fallbacks < MaxFallbacks
  /\ before' = [before EXCEPT ![s] = fallbacks]
  /\ Send(s, "first")
  /\ UNCHANGED <<agent, fallbacks, decided>>

AskAgain(s) ==
  /\ \E answer \in Answers :
       Again(s, answer) # "none" /\ Send(s, Again(s, answer))
  /\ desk[s].at # "idle"
  /\ UNCHANGED <<agent, fallbacks, before, decided>>

\* The comparison follows the return of decide() without another await.
\* Variant: an agent that answers is taken at its word.
TakenAtItsWord(s, count) == TRUE
Trusted(s, count) == count = before[s]

Conclude(s, from, count) ==
  /\ fallbacks' = count
  /\ IF Trusted(s, count) THEN Record("llm", from) ELSE Record("xgboost", "baseline")
  /\ desk' = [desk EXCEPT ![s] = Asleep]
  /\ UNCHANGED <<agent, before>>

AgentAnswers(s) == desk[s].at # "idle" /\ Conclude(s, "llm", fallbacks)
AgentFallsBack(s) ==
  /\ desk[s].at # "idle"
  /\ \E answer \in Answers \ {"valid"} : Again(s, answer) = "none"
  /\ Conclude(s, "heuristic", fallbacks + 1)

PolicyNext == \E s \in Sessions :
  DecideAlone(s) \/ AskAgent(s) \/ AskAgain(s) \/ AgentAnswers(s) \/ AgentFallsBack(s)
PolicySpec == PolicyInit /\ [][PolicyNext]_policyVars

----------------------------------------------------------------------------
\* Properties

PolicyTypeOK ==
  /\ agent \in BOOLEAN /\ fallbacks \in 0..(MaxFallbacks + Cardinality(Sessions))
  /\ desk \in [Sessions -> [at: {"idle", "first", "second", "correction"}, calls: 0..3]]
  /\ before \in [Sessions -> 0..MaxFallbacks]

\* The trail names who actually decided, however the decisions of several
\* sessions overlap on the one counter: what it calls the LLM's came from the LLM,
\* and the agent's private heuristic is never acted on (_decide_action: "without
\* it the audit trail claims an LLM made calls it never saw").
AuditNamesDecider ==
  /\ decided.by = "llm" <=> decided.from = "llm"
  /\ decided.from # "heuristic"
=============================================================================
