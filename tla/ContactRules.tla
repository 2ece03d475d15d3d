---------------------------- MODULE ContactRules ----------------------------
(***************************************************************************)
(* When may this case be contacted, and how: one recovery case from its    *)
(* first decision to its close, through the deciders (LLM agent, trained   *)
(* model, heuristic), the steps that correct a decision (rail resolution,  *)
(* notice downgrade, blackout clamp, default rail), the guardrail gate,    *)
(* parking, firing and the ladder.                                         *)
(*                                                                         *)
(* Time counts in units of which Day make a day. A decision is made on a   *)
(* context built before the agent was asked and validated against it after *)
(* the answer, up to Think units later. Sessions that overlap on one case  *)
(* are AttemptPipeline's and PaymentRail's subject, the customer tallies   *)
(* behind the two contact limits ContactLedger's, the B2B hours of         *)
(* invoices AccountDesk's: here a limit is reached or not at any time.     *)
(***************************************************************************)
EXTENDS Integers, FiniteSets

CONSTANTS
  Day,          \* units in a day
  Start, End,   \* retry_blackout_start_hour, _end_hour, in units
  Policies,     \* RISK_POLICIES: [window, first, gap, budget, rail] per risk type
  PayWindow,    \* consent_window_hours of a failed payment
  PayLimit,     \* max_retries_per_payment
  NoticeValid,  \* mandate_predebit_notification_valid_hours
  Backoff,      \* escalation_backoff_hours
  LastCall,     \* how long before a cart's window ends the last call goes out
  RuleCases,    \* the cases that may arrive: [kind, method, huge]
  Think,        \* bound: units an agent call takes
  MaxClock      \* bound: the horizon

Chasers == {"checkout_abandonment", "subscription_failure", "invoice_overdue",
            "mandate_failure"}
HardDeclines == {"fraud_block"}
PaymentClasses == {"network_error", "bank_downtime", "3ds_dropoff", "issuer_decline",
             "insufficient_funds", "upi_collect_timeout", "risk_check_failed",
             "unknown"} \cup HardDeclines
Rails == {"upi", "card", "netbanking"}
NoRail == "none"
Actions == {"retry_now", "retry_at", "switch_rail", "nudge_customer", "abandon"}

ASSUME RulesAssumption ==
  /\ Day \in Nat \ {0} /\ Start \in 0..Day /\ End \in 0..Day
  /\ Policies \in [Chasers -> [window: Nat, first: Nat, gap: Nat \ {0},
                               budget: Nat \ {0}, rail: Rails \cup {NoRail}]]
  /\ \A kind \in Chasers : Policies[kind].first <= Policies[kind].window
  /\ PayWindow \in Nat /\ PayLimit \in Nat \ {0} /\ NoticeValid \in Nat
  /\ Backoff \in Nat \ {0} /\ LastCall \in Nat /\ Think \in Nat /\ MaxClock \in Nat
  /\ RuleCases \subseteq [kind: Chasers \cup PaymentClasses, method: Rails \cup {"unknown"},
                      huge: BOOLEAN]

VARIABLES
  clock,
  case,      \* the RecoveryCase: what it is about, when it opened, its budget and rung
  notified,  \* executed_at of the newest nudge that went out, Never if none
  thinking,  \* the context of a decision under way, or None
  parked,    \* attempts with result "scheduled"
  last       \* the attempt the step just taken decided or fired, with what the
             \* gate said of it; NoAttempt after any other step
rulesVars == <<clock, case, notified, thinking, parked, last>>

Never == -1
NoTime == -1
None == [at |-> Never, tried |-> FALSE]
NoAttempt == [n |-> 0, action |-> "abandon", result |-> "none", reasons |-> {},
              by |-> "none", prompt |-> FALSE, stuck |-> FALSE]
CaseOpen == case.state = "open"
Chased == case.kind \in Chasers
Policy == Policies[case.kind]
Budget == IF Chased THEN Policy.budget ELSE PayLimit
WindowEnd == case.opened + (IF Chased THEN Policy.window ELSE PayWindow)

Unopened(c) == [kind |-> c.kind, method |-> c.method, huge |-> c.huge, state |-> "none",
                opened |-> 0, used |-> 0, level |-> 0, next |-> 0]
RulesInit ==
  /\ clock = 0 /\ case \in {Unopened(c) : c \in RuleCases}
  /\ notified = Never /\ thinking = None /\ parked = {} /\ last = NoAttempt

----------------------------------------------------------------------------
\* Clocks

InBlackout(time) == LET hour == time % Day
                    IN IF Start > End THEN hour >= Start \/ hour < End
                       ELSE Start <= hour /\ hour < End

\* clamp_retry_at_out_of_blackout: forward to the window's end.
\* Variant: the time as the agent gave it.
ClampNot(time) == time
Clamp(time) ==
  IF ~InBlackout(time) THEN time
  ELSE CHOOSE t \in time..(time + Day) :
         /\ t % Day = End % Day /\ \A u \in time..(t - 1) : u % Day # End % Day

NoticeStands(time) ==
  /\ notified # Never
  /\ time - notified >= Day /\ time - notified <= NoticeValid

----------------------------------------------------------------------------
\* The deciders. An action is [action, rail, at, sure]: sure when it carries no
\* confidence, or one that is worth the attempt.

Proposal(action, rail, at) == [action |-> action, rail |-> rail, at |-> at, sure |-> TRUE]
OffUpi(other) == IF case.method # "upi" THEN "upi" ELSE other

\* decide: whatever the schema of RetryAction lets through and a rule reads.
FarAway == WindowEnd + Backoff * (PayLimit + 2) + Day
AgentChoices ==
  {c \in [action: Actions, rail: {NoRail, "upi", "card"},
          at: {NoTime, clock, clock + 1, clock + Day, FarAway}, sure: BOOLEAN] :
     /\ c.rail # NoRail => c.action = "switch_rail"
     /\ c.at # NoTime => c.action = "retry_at"
     /\ ~c.sure => c.action \in {"retry_now", "retry_at", "switch_rail"}}

\* _predict_ml: any label, on the classes the model was trained with.
Untrained == {"risk_check_failed"}
Trained == case.kind \in PaymentClasses \ Untrained
ModelChoices ==
  {[action |-> a, rail |-> IF a = "switch_rail" THEN OffUpi("card") ELSE NoRail,
    at |-> IF a = "retry_at" THEN thinking.at + 1 ELSE NoTime, sure |-> s] :
     a \in Actions, s \in BOOLEAN}

\* _predict_heuristic, which also has the four chased risk types.
Heuristic ==
  LET Nudge == Proposal("nudge_customer", NoRail, NoTime)
      Now == Proposal("retry_now", NoRail, NoTime)
      In(time) == Proposal("retry_at", NoRail, thinking.at + time)
      Switch(other) == Proposal("switch_rail", OffUpi(other), NoTime)
      GiveUp == Proposal("abandon", NoRail, NoTime)
  IN CASE case.kind = "checkout_abandonment" -> IF thinking.tried THEN GiveUp ELSE Nudge
       [] case.kind = "mandate_failure" -> IF thinking.tried THEN Nudge ELSE In(Day)
       [] case.kind \in {"subscription_failure", "3ds_dropoff"} -> Switch("card")
       [] case.kind \in {"risk_check_failed", "issuer_decline"} -> Switch("netbanking")
       [] case.kind = "network_error" -> Now
       [] case.kind = "bank_downtime" -> In(1)
       [] case.kind \in {"insufficient_funds", "upi_collect_timeout", "invoice_overdue"} -> Nudge
       [] OTHER -> GiveUp

\* _decide_action: the agent's own answer, or else the baseline's.
Decisions == [llm |-> AgentChoices,
              baseline |-> {Heuristic} \cup (IF Trained THEN ModelChoices ELSE {})]

----------------------------------------------------------------------------
\* From the decision to the action that is validated

\* downtime.current: the rails the gateway reports down; none when the feed does not answer.
Outages == {{}, {"upi"}}

\* resolve_target_rail: the proposal, unless it is the rail that just failed; the
\* replacement avoids the rails reported down when there are others.
Preferred(rails) ==
  LET order == IF case.kind = "upi_collect_timeout" THEN <<"card", "upi", "netbanking">>
               ELSE <<"upi", "card", "netbanking">>
  IN order[CHOOSE k \in 1..3 : order[k] \in rails /\ \A j \in 1..(k - 1) : order[j] \notin rails]
ResolveRail(proposed, down) ==
  LET others == Rails \ {case.method}
  IN IF proposed \notin {NoRail, case.method} THEN proposed
     ELSE Preferred(IF others \ down = {} THEN others ELSE others \ down)

\* chase_case sends the pre-debit notice instead of collecting without it.
NeedsNotice(action) ==
  /\ case.kind = "mandate_failure" /\ action.action \in {"retry_now", "retry_at"}
  /\ ~NoticeStands(thinking.at)

Corrected(choice, down) ==
  LET switched == IF choice.action = "switch_rail"
                  THEN [choice EXCEPT !.rail = ResolveRail(@, down)] ELSE choice
      noticed == IF NeedsNotice(switched)
                 THEN [switched EXCEPT !.action = "nudge_customer", !.at = NoTime]
                 ELSE switched
      clamped == IF noticed.action = "retry_at" /\ noticed.at # NoTime
                 THEN [noticed EXCEPT !.at = Clamp(@)] ELSE noticed
  IN IF Chased /\ clamped.rail = NoRail THEN [clamped EXCEPT !.rail = Policy.rail]
     ELSE clamped

----------------------------------------------------------------------------
\* The gate (guardrail/gate.py, guardrail/rules.py): the rules an action breaks.
\* time is the context's, attempts the count it is given, full the limits of
\* the customer that are reached.

SchemaBreaks(action) ==
  \/ action.action = "switch_rail" /\ action.rail = NoRail
  \/ action.action = "retry_at" /\ (action.at = NoTime \/ action.at < clock)

\* Only a charge that names its own odds is weighed against its cost.
NotWorthIt(action) == action.action \in {"retry_now", "switch_rail"} /\ ~action.sure

Unnoticed(action, time) ==
  case.kind = "mandate_failure" /\ action.action = "retry_now" /\ ~NoticeStands(time)

WindowRule(at) == at # NoTime /\ at > WindowEnd
\* Variant: a deferred retry may land anywhere.
WindowRuleOff(at) == FALSE
BeyondWindow(at) == WindowRule(at)

Refusals(action, time, attempts, full) ==
  LET Broken == [
        schema |-> SchemaBreaks(action),
        hard_decline |-> case.kind \in HardDeclines,
        switch_only |-> /\ case.kind = "risk_check_failed"
                        /\ action.action \in {"retry_now", "retry_at"},
        attempts |-> attempts >= PayLimit,
        customer |-> "retries" \in full,
        ceiling |-> case.huge,
        window |-> time > WindowEnd,
        retry_at |-> BeyondWindow(action.at),
        blackout |-> InBlackout(time),
        value |-> NotWorthIt(action),
        notice |-> Unnoticed(action, time),
        nudges |-> action.action = "nudge_customer" /\ "nudges" \in full]
  IN IF action.action = "abandon" THEN {} ELSE {rule \in DOMAIN Broken : Broken[rule]}

Limits == {{}, {"retries", "nudges"}}

----------------------------------------------------------------------------
\* The case arrives

Closed(reason) == [case EXCEPT !.state = reason]

\* A hard decline closes without asking anybody; a chased case waits for its
\* first action.
CaseOpens ==
  /\ case.state = "none" /\ clock < Day
  /\ case' = [case EXCEPT !.opened = clock,
               !.state = IF case.kind \in HardDeclines THEN "abandoned" ELSE "open",
               !.next = clock + (IF Chased THEN Policy.first ELSE 0)]
  /\ UNCHANGED <<clock, notified, thinking, parked>> /\ last' = NoAttempt

DueNow == /\ CaseOpen /\ thinking = None /\ clock >= case.next /\ case.used < Budget

\* chase_case up to the agent call. A tick fires the parked attempts that are due
\* before it chases.
Sweep == DueNow /\ Chased /\ \A row \in parked : row.at > clock
ChaseExpires ==
  /\ Sweep /\ clock > WindowEnd /\ case' = Closed("expired")
  /\ UNCHANGED <<clock, notified, thinking, parked>> /\ last' = NoAttempt
ChaseDefers ==
  /\ Sweep /\ clock <= WindowEnd /\ InBlackout(clock)
  /\ case' = [case EXCEPT !.next = Clamp(clock)]
  /\ UNCHANGED <<clock, notified, thinking, parked>> /\ last' = NoAttempt
ChaseAsks ==
  /\ Sweep /\ clock <= WindowEnd /\ ~InBlackout(clock)
  /\ thinking' = [at |-> clock, tried |-> case.used > 0]
  /\ UNCHANGED <<clock, case, notified, parked>> /\ last' = NoAttempt

\* process_payment_failure up to the agent call: a failure event of the payment.
PaymentAsks ==
  /\ DueNow /\ ~Chased
  /\ thinking' = [at |-> clock, tried |-> case.used > 0]
  /\ UNCHANGED <<clock, case, notified, parked>> /\ last' = NoAttempt

\* _revalidate_under_lock: the case closed while the agent decided.
StoppedWhileDeciding ==
  /\ thinking # None /\ ~CaseOpen /\ thinking' = None
  /\ UNCHANGED <<clock, case, notified, parked>> /\ last' = NoAttempt

----------------------------------------------------------------------------
\* The attempt is attached, then refused, skipped, parked or executed

\* attach_attempt: a slot, and for a nudge a rung and the silence it buys; the
\* next to last contact of a cart puts the last one before the window's end.
Attached(action) ==
  LET rung == case.level + 1
      silence == clock + Backoff * rung
      lastCall == WindowEnd - LastCall
  IN IF action.action # "nudge_customer" THEN [case EXCEPT !.used = @ + 1]
     ELSE [case EXCEPT !.used = @ + 1, !.level = rung,
             !.next = IF /\ case.kind = "checkout_abandonment"
                         /\ case.used + 2 >= Budget /\ lastCall > silence
                      THEN lastCall ELSE silence]

\* The end of chase_case and _advance_ladder: a spent budget closes the case, and
\* a case that is due gets the policy's gap. The payment rail has neither.
OnLadder(c, now) ==
  IF ~Chased \/ c.state # "open" THEN c
  ELSE IF c.used >= Budget THEN [c EXCEPT !.state = "exhausted"]
  ELSE IF c.next <= now THEN [c EXCEPT !.next = now + Policy.gap] ELSE c

\* What an attempt that is executed does: a nudge that goes out is a notice.
Executed(action, ok) ==
  notified' = IF action = "nudge_customer" /\ ok THEN clock ELSE notified

Decide(by, choice, down, full, ok) ==
  LET action == Corrected(choice, down)
      reasons == Refusals(action, thinking.at, case.used, full)
      parks == reasons = {} /\ action.action = "retry_at"
      sends == reasons = {} /\ action.action \notin {"abandon", "retry_at"}
      n == case.used + 1
  IN /\ thinking # None /\ CaseOpen /\ thinking' = None
     /\ last' = [n |-> n, action |-> action.action,
                 result |-> IF reasons # {} THEN "rejected" ELSE IF parks THEN "scheduled"
                            ELSE IF sends THEN "sent" ELSE "skipped",
                 reasons |-> reasons, by |-> by, prompt |-> FALSE,
                 stuck |-> action.action = "switch_rail" /\ action.rail = case.method]
     /\ parked' = IF parks THEN parked \cup {[n |-> n, rail |-> action.rail,
                                              at |-> action.at, sure |-> action.sure]}
                  ELSE parked
     /\ case' = IF ~parks THEN OnLadder(Attached(action), thinking.at)
                ELSE IF Chased THEN [Attached(action) EXCEPT !.next = action.at]
                ELSE Attached(action)
     /\ IF sends THEN Executed(action.action, ok) ELSE UNCHANGED notified
     /\ UNCHANGED clock

\* fire_due_retries, _fire_one, _fire_case_attempt: a parked retry_at fires as a
\* retry_now. Variant: the action is inferred from the rail.
FiredByRail(row) == IF row.rail # NoRail THEN "switch_rail" ELSE "retry_now"
Fired(row) == "retry_now"

FireCancelled(row) ==
  /\ row.at <= clock /\ ~CaseOpen /\ parked' = parked \ {row}
  /\ UNCHANGED <<clock, case, notified, thinking>> /\ last' = NoAttempt

Fire(row, full) ==
  LET action == [action |-> Fired(row), rail |-> row.rail, at |-> NoTime, sure |-> row.sure]
      reasons == Refusals(action, clock, row.n - 1, full)
  IN /\ row.at <= clock /\ CaseOpen /\ thinking = None /\ parked' = parked \ {row}
     /\ last' = [n |-> row.n, action |-> "retry_at",
                 result |-> IF reasons # {} THEN "rejected" ELSE "sent",
                 reasons |-> reasons, by |-> "scheduler", prompt |-> row.at = clock,
                 stuck |-> FALSE]
     /\ case' = OnLadder(case, clock)
     /\ UNCHANGED <<clock, notified, thinking>>

----------------------------------------------------------------------------
\* A capture, an opt-out, an operator; time passes.
CaseCloses ==
  /\ CaseOpen /\ case' = Closed("recovered")
  /\ UNCHANGED <<clock, notified, thinking, parked>> /\ last' = NoAttempt
TimePasses ==
  /\ clock < MaxClock /\ clock' = clock + 1
  /\ thinking # None => clock < thinking.at + Think
  /\ UNCHANGED <<case, notified, thinking, parked>> /\ last' = NoAttempt

Deciding == \E by \in DOMAIN Decisions : \E choice \in Decisions[by] :
              \E down \in Outages, full \in Limits, ok \in BOOLEAN :
                Decide(by, choice, down, full, ok)
RulesNext ==
  \/ CaseOpens \/ ChaseExpires \/ ChaseDefers \/ ChaseAsks \/ PaymentAsks
  \/ StoppedWhileDeciding \/ Deciding
  \/ \E row \in parked : \/ FireCancelled(row)
                         \/ \E full \in Limits : Fire(row, full)
  \/ CaseCloses \/ TimePasses
RulesSpec == RulesInit /\ [][RulesNext]_rulesVars

----------------------------------------------------------------------------
\* Properties

RulesTypeOK ==
  /\ clock \in 0..MaxClock /\ notified \in -1..MaxClock
  /\ case.state \in {"none", "open", "abandoned", "exhausted", "expired", "recovered"}
  /\ case.used \in 0..Budget /\ case.level \in 0..case.used
  /\ \A row \in parked : row.n \in 1..case.used /\ row.rail \in Rails \cup {NoRail}

\* No failed mandate is collected, now or by a retry parked for later, unless
\* its pre-debit notice went out at least a day before and still stands, to
\* within the time an agent call takes (RBI rule, check_mandate_predebit_notification).
Collected == /\ last' # last /\ last'.result = "sent"
             /\ case.kind = "mandate_failure" /\ last'.action \in {"retry_now", "retry_at"}
NoticeBeforeDebit ==
  [][Collected => /\ notified # Never
                  /\ notified + Day <= clock /\ clock <= notified + NoticeValid + Think
    ]_rulesVars

\* A parked retry that is fired when it is due is never refused for the clock or
\* for what was known when it was parked: every slot it spent bought a contact
\* that could go out (clamp_retry_at_out_of_blackout, check_retry_at_within_window).
PromptRetryStands ==
  last.prompt => last.reasons \subseteq {"customer", "value", "notice"}

\* The engine's own deciders and corrections never spend a slot on a wall they
\* know: no decision is refused for a missing notice or switches to the rail that
\* just failed, and no decision of the baseline is malformed or retries a rail
\* that refused the instrument.
NoSlotOnAKnownWall ==
  /\ ~last.stuck
  /\ last.by \in {"llm", "baseline"} => "notice" \notin last.reasons
  /\ last.by = "baseline" => last.reasons \cap {"schema", "switch_only"} = {}

\* A slot of the budget is not spent where the engine could know that nothing can come of
\* it (PromptRetryStands and NoSlotOnAKnownWall).
NoSlotWasted == PromptRetryStands /\ NoSlotOnAKnownWall

\* An open chased case is never put off longer, from now or from the end of its window,
\* than the longest silence a rung or the policy can buy: no decision makes it leak out
\* of every sweep (check_retry_at_within_window: "a case leaks out of the ledger").
LongestSilence == IF Backoff * Budget > Policy.gap THEN Backoff * Budget ELSE Policy.gap
Horizon == IF clock > WindowEnd + Think THEN clock ELSE WindowEnd + Think
NoCaseLeaks == CaseOpen /\ Chased => case.next <= Horizon + LongestSilence + Day
=============================================================================
