---------------------------- MODULE AccountDesk ----------------------------
(***************************************************************************)
(* The B2B receivables sweep of one buyer account (src/src/receivables,    *)
(* scheduler.chase_due_accounts) and the per-case chase that follows it in *)
(* the same tick (scheduler.chase_due_cases): the ladder of dunning rungs, *)
(* the log of rungs fired, the carrier invoice, the deferral of the        *)
(* others, disputes, payments and invoices arriving in between.            *)
(*                                                                         *)
(* Time is relative: how many days an invoice is late, how long its case   *)
(* has been open and how many days are left until it is due for an action, *)
(* each capped where the code stops telling values apart, so days go by    *)
(* for ever in a finite state space.                                       *)
(***************************************************************************)
EXTENDS Integers, FiniteSets

CONSTANTS
  Invoices,     \* invoice cases of the buyer
  Unlinked,     \* those with neither account_ref nor customer key: no account
  Rungs,        \* Rungs[level]: days past due at which a rung begins
  Window,       \* consent window of an invoice case, in days
  Arrivals,     \* [dated, late] of an invoice when the merchant reports it
  ReChase,      \* re_chase_hours of an invoice, in days
  MaxAttempts,  \* contacts an invoice case may spend
  WorkingDays,  \* days of a week on which a B2B contact may be made ...
  Week          \* ... and the days of a week

Top == 4        \* the last rung of the frozen ladder
ASSUME DeskAssumption ==
  /\ Unlinked \subseteq Invoices
  /\ Rungs \in [0..Top -> Nat] /\ Rungs[0] = 0
  /\ \A l \in 1..Top : Rungs[l - 1] < Rungs[l]
  /\ Arrivals \subseteq [dated: BOOLEAN, late: 0..Rungs[Top]]
  /\ Window \in Nat \ {0} /\ ReChase \in Nat \ {0} /\ MaxAttempts \in Nat \ {0}
  /\ Week \in Nat /\ WorkingDays \in 1..Week

VARIABLES
  weekday,     \* 0..Week-1
  phase,       \* "morning": no tick yet today; "chase": between the account
               \* sweep's commit and the tick's end; "ticked": after one
  inv,         \* the invoice cases
  latest,      \* stage_level of the newest ar_contact_log row, -1 if none
  seen,        \* joiners of the account sweep of this tick
  chased,      \* cases the per-case sweep has taken in this tick
  contacted    \* cases whose customer was contacted in this tick
deskVars == <<weekday, phase, inv, latest, seen, chased, contacted>>

LongestGap == IF Window > ReChase THEN Window ELSE ReChase
Waits == 0..(LongestGap + Week + Rungs[Top])
InvoiceRow == [state: {"unseen", "open", "closed"}, dated: BOOLEAN,
               late: 0..Rungs[Top], life: 0..(Window + 1), wait: Waits,
               used: 0..MaxAttempts, disputed: BOOLEAN]
DeskTypeOK ==
  /\ weekday \in 0..(Week - 1) /\ phase \in {"morning", "chase", "ticked"}
  /\ inv \in [Invoices -> InvoiceRow] /\ latest \in -1..Top
  /\ seen \subseteq Invoices /\ chased \subseteq Invoices
  /\ contacted \subseteq chased

DeskInit ==
  /\ weekday = 0 /\ phase = "morning" /\ latest = -1
  /\ inv = [i \in Invoices |-> [state |-> "unseen", dated |-> TRUE, late |-> 0,
              life |-> 0, wait |-> 0, used |-> 0, disputed |-> FALSE]]
  /\ seen = {} /\ chased = {} /\ contacted = {}

----------------------------------------------------------------------------
\* The ladder and the B2B window (receivables/ladder.py)

\* Mon-Fri 09:30-18:30: a tick of a working day runs inside the window.
IsB2bContactTime == weekday < WorkingDays
NextB2bWindow == Week - weekday

\* stage_for_aging: the highest rung whose threshold has been reached.
StageForAging(days) ==
  CHOOSE l \in 0..Top : /\ Rungs[l] <= days
                        /\ \A m \in 0..Top : Rungs[m] <= days => m <= l

\* next_stage_gap_hours: the ladder's own distance; past the last rung the
\* consent window.
GapAfter(level) == IF level = Top THEN Window ELSE Rungs[level + 1] - Rungs[level]

----------------------------------------------------------------------------
\* The rows

Open == {i \in Invoices : inv[i].state = "open"}
Due == {i \in Open : inv[i].wait = 0}
Account == Invoices \ Unlinked

\* Cases that may join a statement: undisputed, with budget left, dated.
Joiners == {i \in Due \cap Account :
              ~inv[i].disputed /\ inv[i].used < MaxAttempts /\ inv[i].dated}

Oldest(cases) == CHOOSE d \in {inv[i].late : i \in cases} :
                   \A i \in cases : inv[i].late <= d

\* The carrier: the least contacted joiner, the oldest of those.
Carriers(cases) ==
  {i \in cases : \A j \in cases :
     \/ inv[i].used < inv[j].used
     \/ inv[i].used = inv[j].used /\ inv[i].late >= inv[j].late}

Waiting(cases, days) ==
  [i \in Invoices |-> IF i \in cases THEN [inv[i] EXCEPT !.wait = days] ELSE inv[i]]

Begin(cases) == /\ phase' = "chase" /\ seen' = cases
                /\ chased' = {} /\ contacted' = {}

----------------------------------------------------------------------------
\* chase_due_accounts, one commit per account

\* Outside the window every due invoice moves to its edge; nothing is sent.
DeferToWindow ==
  /\ phase # "chase" /\ ~IsB2bContactTime
  /\ inv' = Waiting(Due, NextB2bWindow)
  /\ Begin({}) /\ UNCHANGED <<weekday, latest>>

NothingToJoin ==
  /\ phase # "chase" /\ IsB2bContactTime /\ Joiners = {}
  /\ Begin({}) /\ UNCHANGED <<weekday, inv, latest>>

\* The latest logged rung is the one aging demands: defer every joiner.
RungAlreadyFired ==
  /\ phase # "chase" /\ IsB2bContactTime /\ Joiners # {}
  /\ latest = StageForAging(Oldest(Joiners))
  /\ inv' = Waiting(Joiners, GapAfter(latest))
  /\ Begin(Joiners) /\ UNCHANGED <<weekday, latest>>

\* Variant: the whole account stays due behind the carrier.
NoneDeferred(carrier) == {}
Deferred(carrier) == Joiners \ {carrier}

\* Another rung than the logged one: log it, leave the carrier due, defer the
\* others by the rung's gap.
FireRung(carrier) ==
  LET stage == StageForAging(Oldest(Joiners))
  IN /\ phase # "chase" /\ IsB2bContactTime /\ carrier \in Carriers(Joiners)
     /\ latest # stage /\ latest' = stage
     /\ inv' = Waiting(Deferred(carrier), GapAfter(stage))
     /\ Begin(Joiners) /\ UNCHANGED weekday

----------------------------------------------------------------------------
\* chase_due_cases: chase_case of every due case, up to the time budget

Close(i) == inv' = [inv EXCEPT ![i].state = "closed", ![i].disputed = FALSE]

Take(i) == /\ phase = "chase" /\ i \in Due \ chased
           /\ chased' = chased \cup {i}
           /\ UNCHANGED <<weekday, phase, latest, seen>>

\* stop_reason (the budget is spent), or past the consent window.
\* Variant: the dispute is looked at before the consent window.
EndedUnlessDisputed(i) ==
  inv[i].used = MaxAttempts \/ (inv[i].life > Window /\ ~inv[i].disputed)
Ended(i) == inv[i].used = MaxAttempts \/ inv[i].life > Window
ChaseCloses(i) ==
  /\ Ended(i) /\ Close(i)
  /\ Take(i) /\ UNCHANGED contacted

\* The dispute freezes a case only after the expiry above was ruled out.
Frozen(i) == inv[i].disputed /\ ~Ended(i)
ChaseFrozen(i) ==
  /\ Frozen(i) /\ inv' = Waiting({i}, ReChase)
  /\ Take(i) /\ UNCHANGED contacted

ChaseOutsideWindow(i) ==
  /\ ~Ended(i) /\ ~Frozen(i) /\ ~IsB2bContactTime
  /\ inv' = Waiting({i}, NextB2bWindow)
  /\ Take(i) /\ UNCHANGED contacted

\* attach_attempt counts the slot whether the guardrail passes the action
\* (the customer is contacted) or not; a spent budget closes the case.
Attempted(i) == IF inv[i].used + 1 = MaxAttempts
                THEN [inv[i] EXCEPT !.used = @ + 1, !.state = "closed"]
                ELSE [inv[i] EXCEPT !.used = @ + 1, !.wait = ReChase]
ChaseAttempts(i) ==
  /\ ~Ended(i) /\ ~Frozen(i) /\ IsB2bContactTime
  /\ inv' = [inv EXCEPT ![i] = Attempted(i)]
  /\ contacted' \in {contacted, contacted \cup {i}}
  /\ Take(i)

\* An earlier attempt is pending, or the chase raises: due again next tick.
ChaseFails(i) ==
  /\ ~Ended(i) /\ ~Frozen(i) /\ IsB2bContactTime
  /\ Take(i) /\ UNCHANGED <<inv, contacted>>

Chase(i) == \/ ChaseCloses(i) \/ ChaseFrozen(i) \/ ChaseOutsideWindow(i)
            \/ ChaseAttempts(i) \/ ChaseFails(i)

\* The list is done, the time budget is spent, or the process died.
EndTick ==
  /\ phase = "chase" /\ phase' = "ticked"
  /\ seen' = {} /\ chased' = {} /\ contacted' = {}
  /\ UNCHANGED <<weekday, inv, latest>>

----------------------------------------------------------------------------
\* The world

\* process_risk_event: an invoice already overdue, due for action at once; an
\* account-linked one is left to the sweep, an unlinked one is chased inline.
ReceiveInvoice(i, new) ==
  /\ inv[i].state = "unseen"
  /\ inv' = [inv EXCEPT ![i].state = "open", ![i].dated = new.dated, ![i].late = new.late,
                        ![i].used = IF i \in Unlinked /\ IsB2bContactTime THEN 1 ELSE 0,
                        ![i].wait = IF i \notin Unlinked THEN 0
                                    ELSE IF IsB2bContactTime THEN ReChase
                                    ELSE NextB2bWindow]
  /\ UNCHANGED <<weekday, phase, latest, seen, chased, contacted>>

\* A payment of the invoice that closes its case: a capture, or the console's case_paid.
PayInvoice(i) ==
  /\ i \in Open /\ Close(i)
  /\ UNCHANGED <<weekday, phase, latest, seen, chased, contacted>>

\* raise_a_dispute on the customer's page, of a case still open.
DisputeInvoice(i) ==
  /\ i \in Open /\ ~inv[i].disputed
  /\ inv' = [inv EXCEPT ![i].disputed = TRUE]
  /\ UNCHANGED <<weekday, phase, latest, seen, chased, contacted>>

\* console_resolve_dispute. upheld: the case closes abandoned. rejected: next_action_at is untouched.
AnswerDispute(i) ==
  /\ i \in Open /\ inv[i].disputed
  /\ \/ Close(i)
     \/ inv' = [inv EXCEPT ![i].disputed = FALSE]
  /\ UNCHANGED <<weekday, phase, latest, seen, chased, contacted>>

Capped(n, top) == IF n < top THEN n + 1 ELSE n
DayPasses ==
  /\ phase = "ticked" /\ phase' = "morning"
  /\ weekday' = (weekday + 1) % Week
  /\ inv' = [i \in Invoices |->
       IF inv[i].state # "open" THEN inv[i]
       ELSE [inv[i] EXCEPT !.late = Capped(@, Rungs[Top]), !.life = Capped(@, Window + 1),
                           !.wait = IF @ = 0 THEN 0 ELSE @ - 1]]
  /\ UNCHANGED <<latest, seen, chased, contacted>>

AccountSweep == \/ DeferToWindow \/ NothingToJoin \/ RungAlreadyFired
                \/ \E carrier \in Invoices : FireRung(carrier)
Customer == \E i \in Invoices :
  \/ \E new \in Arrivals : ReceiveInvoice(i, new)
  \/ PayInvoice(i) \/ DisputeInvoice(i) \/ AnswerDispute(i)
DeskNext == AccountSweep \/ EndTick \/ DayPasses \/ Customer
            \/ \E i \in Invoices : Chase(i)

DeskSpec == DeskInit /\ [][DeskNext]_deskVars

\* The tick loop never stops and ticks at least once a day, days go by, and the
\* longest-waiting case is served first (due_cases orders by next_action_at), so
\* a case that is due in tick after tick is taken in the end.
DeskFairness ==
  /\ WF_deskVars(AccountSweep) /\ WF_deskVars(EndTick) /\ SF_deskVars(DayPasses)
  /\ \A i \in Invoices : SF_deskVars(ChaseCloses(i))
FairDeskSpec == DeskSpec /\ DeskFairness

----------------------------------------------------------------------------
\* Properties

\* Of the invoices one account sweep looked at, the per-case sweep behind it
\* contacts the customer about at most one: "four overdue invoices is one
\* account", not four messages in one tick (chase_due_accounts).
OneVoicePerTick == Cardinality(contacted \cap seen) <= 1

\* A disputed case still ages out and closes on its own clock: the freeze may
\* not keep a case open for ever (chase_case, the comment on its dispute check).
DisputedAgeOut ==
  \A i \in Invoices : (inv[i].state = "open" /\ inv[i].disputed)
                        ~> (inv[i].state = "closed" \/ ~inv[i].disputed)
=============================================================================
