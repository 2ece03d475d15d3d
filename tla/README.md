# Payment recovery engine: TLA+ specifications

This directory keeps formal models of the recovery engine in `src/`: TLA+
modules for its components, TLC configurations that check them on small
instances, and theorems about them that the TLAPS proof system checks for every
value of the constants.

The engine is a FastAPI service over one PostgreSQL database. Webhooks bring
payment failures and other revenue at risk; for each there is a *recovery
case*, and an agent chooses how to chase it (retry now, retry later, nudge,
abandon) inside guardrails. A scheduler in each process with
`SCHEDULER_ENABLED` runs a *tick* of some twenty sweeps in one fixed order, and
captures that come back from the gateway are credited to the case that earned
them. Everything hard about it comes from one fact: web workers and schedulers
share rows, not memory. A session keeps copies of the rows it has read
(`expire_on_commit=False`, `src/src/database.py`) across commits, LLM calls and
gateway calls, while others commit.

Running the checks, from this directory:

    tlc -workers 2 -config AttemptPipeline_safety.cfg MCAttemptPipeline.tla
    tlc -workers 2 -config BackOffice_all.cfg MCBackOffice.tla
    tlapm AttemptPipelineProofs.tla

`PROJECT.json` lists the runs with their configurations, what each is about, the
source lines each definition stands for, and for every property a plausible bug
that breaks it (the definitions marked *Variant* in the modules).

## 1. Inventory

`PROJECT.json` names the source files of every component and the modules that
model it. For each: state, operations, what is hard, what makes it correct.

### 1.1 The contact side

| Component | State | Operations | Hard behaviour | Correct when |
|---|---|---|---|---|
| Chaser pipeline (`orchestrator.chase_case`, `_execute_case_and_record`, `process_risk_event`; `cases.stop_reason`, `attach_attempt`, `close_case`) | `recovery_cases`: state, attempts_used, next_action_at; `retry_attempts`: result, boundary marker | chase, park, arm, write ahead, call, record, close | copies of the case live across the agent call and the gateway call; the UNIQUE key decides races; a crash at any commit | budget and rows agree; one call per key; closed stays closed; no contact after an opt-out; the case ends |
| Fire and stale sweeps (`scheduler.fire_due_retries`, `reconcile_stale_attempts`) | the same rows | claim by conditional UPDATE, re-check at fire time, re-park or fail closed | a claim is not a lease: staleness is measured from `created_at` | each attempt settles; what may have reached the gateway is never fired again |
| Payment-failure pipeline (`process_payment_failure`, `_execute_and_record`, `_fire_one`) and the page's pay button (`_self_serve_mint`) | as above, links at the gateway | classify, count attempts, decide, write ahead, contact, mint | the key is recomputed from a count; page and engine count one budget from two copies | links within the budget; every row settles; links of a closed case die |
| Link sweeps (`cancel_links_for_closed_cases`, `cancel_superseded_links`) | `external_ref`, `link_cancelled_at` | page, cancel, stamp | a filter applied after the LIMIT; rows fire out of order | a closed case ends without payable links; an open one keeps one |
| Contact ledger (`_get_ledger`, `_effective_counts`, `_update_retry_ledger`) | `retry_ledger`: counts, window anchor, consent | lock, validate, bump, roll the window | the write-ahead commit gives the lock up; first rows race | no bump is lost; the limit is overrun by the sessions at work at most |
| Guardrail, classifier, deciders, rails (`guardrail/`, `classifier/`, `agent/`, `executor/rail_selector.py`, `downtime.py`) | a fallback counter | choose, correct, validate, clamp | the clock moves during the agent call; quiet hours and windows wrap; sessions share the counter | a slot is not spent on a known wall; no debit without notice; the audit names who decided |
| Batch recovery (`recovery_batch.py`) | the same cases and rows | preview, run | the gateway is called before there is a row; one commit for the cohort | a spent slot has its row; its links die with the case |

### 1.2 The event and money side

| Component | State | Operations | Hard behaviour | Correct when |
|---|---|---|---|---|
| Event intake (`ingestion/`; `scheduler.reconcile_events`, `prune_processed_events`) | `webhook_events`, `processed_events` | receive, dedup, process, claim, rearm, prune | redelivery, lost 200s, deaths of the task or the sweep, faults in the handler and in the re-arm | stored once; never lost; seen through or resting at the cap |
| Capture attribution (`cases.attribute_capture`) | case money columns, `case_events` | resolve, refuse replay, credit, log overpayment | read-add-write without a lock; several cases per order | books match the trail; a payment counts once |
| Promises and mandates | `promises_to_pay`, mandate rows, attempts | record, authorise, confirm, remind, debit, keep or break | two schedulers; a debit in flight when the promise expires; one key per promise | the bank is asked once, with consent, not early; what was paid is not called broken; no reminder and no later chase ends the silence |
| Plans, disputes, payments outside (`receivables/`) | `payment_plans`, `case_disputes` | create, default, complete; freeze, decide; close by hand | verdicts derived from promises other sweeps resolve | one fitting verdict, and it comes |

### 1.3 Accounts, alerts, voice, audit, edges

| Component | State | Operations | Hard behaviour | Correct when |
|---|---|---|---|---|
| B2B ladder (`receivables/ladder.py`, `chase_due_accounts`) | `ar_accounts`, `ar_contact_log` | join, pick a carrier, fire a rung, freeze | several invoices share one stage; the per-case sweep runs behind it | one message per account and tick; disputes age out |
| Merchant alerts (`receivables/alerts.py`, `tasks.py`) | `merchant_alerts`, `merchant_tasks` | raise, post, count tries | post and mark are two steps; batches; races | delivered or given up |
| Voice (`voice/`) | `voice_call_queue`, `_CALLS` in memory | queue, claim, dial, turn, report | restarts forget calls; reports get lost | dialled once; no trapped caller |
| Audit chain (`audit_chain.py`, `audit_checkpoint.py`) | hashes, checkpoints | stamp, anchor, verify | ids order, commits disorder; one epoch a tick is re-read | a rewrite surfaces and is not anchored over |
| Rate limiting, sign-in (`rate_limit.py`, `auth.py`, `dashboard/auth.py`) | counters in Redis or memory | hit, fall back, lock out | three commands, two stores, forged headers | the burst is bounded; lockouts end |
| Signed links and pages (`recovery_link.py`, `customer/routes.py`) | tokens; the tables above | open, list, pay, stop | the same case on several pages | pages agree; a stop holds on all |
| Console, demo gateway, dashboard, evaluation, scripts, texts | none of their own | read and render; the console's writes are those of the components | | see 6 |

### 1.4 How the components interact

* Shared rows are the only medium. A *webhook* makes an event row; the
  background task or the reconcile sweep runs a pipeline on it; the pipeline
  makes or moves a case and its attempts; the tick fires, reconciles and chases;
  a capture closes the case and supersedes its pending attempts.
* `tick` takes `now` once and runs its sweeps in one order: mandates are
  confirmed, retries fire, stale attempts resolve, links die, promises are
  charged, reminded of and broken, accounts and cases are chased, events are
  reconciled, plans judged, alerts sent, the audit stamped.
* Two mechanisms order sessions: UNIQUE columns (idempotency key, event id,
  ledger customer, case subject) and `SELECT ... FOR UPDATE` on the customer's
  ledger row. The case itself is neither locked nor versioned.

The hazards that follow from this, at their lines, are under `hazards` in
`PROJECT.json`, with the properties that watch each, or why none does.

## 2. Plan

| Module | Models | Status |
|---|---|---|
| `AttemptPipeline` | one chased case against schedulers, request workers, a capture, an opt-out | checked and proved (`AttemptPipelineProofs`) |
| `EventIntake` | webhook to rest | checked and proved (`EventIntakeProofs`) |
| `PaymentRail` | one failed payment: events, the page, parked retries, the link sweeps | checked and proved (`PaymentRailProofs`) |
| `PromiseLedger`, `DebitContract` | promises and mandate debits; what the bank may be asked | checked and proved (`PromiseLedgerProofs`): the first implements the second |
| `Commitments` | plans, disputes and outside payments over `PromiseLedger` | checked and proved (`PromiseLedgerProofs`) |
| `CaptureAttribution`, `ContactLedger` | money to cases; the per-customer tally | checked and proved (`BackOfficeProofs`, `CustomerProofs`) |
| `ContactRules`, `PolicyDesk`, `BatchRun` | what is decided, refused and when; who decided; batches | checked and proved (`CustomerProofs`, `BackOfficeProofs`) |
| `AccountDesk` | the B2B sweep and the per-case sweep behind it | checked and proved (`BackOfficeProofs`) |
| `CustomerPages` | signed links and pages | checked and proved (`CustomerProofs`) |
| `VoiceLine` | calls and the bridges' memory | checked and proved (`SurfacesProofs`) |
| `FrontDoor`, `SignIn` | throttles of the pages and of the password screens | checked and proved (`SurfacesProofs`) |
| `AlertOutbox`, `AuditTrail` | alerts, the audit chain | checked and proved (`SurfacesProofs`) |
| `Lists` | the filtering of a list, for `AlertOutbox`, `AuditTrail`, `SignIn` | proved about (`FiniteLemmas`) |
| `MCBackOffice`, `MCSurfaces`, `MCCommitments` | parts side by side | checked and proved: the joint types |

Every invariant a passing run checks is now a theorem as well, and so are the
action properties and the refinement, but for the half of a hazard named in
5.9. What the plan has left is liveness, which stays with TLC, and extensions of
the model: the risk rail's own dedup row, the failure row that a lost race for a
case rolls back (`cases.py:299`), what a voice caller was told against what was
recorded.

## 3. The modules

Conventions shared by all modules:

* One step is one stretch of a session between two points where others can
  commit: a COMMIT, a wait for a row lock, an LLM or a gateway call. Nothing
  finer can be seen from outside under PostgreSQL's READ COMMITTED isolation.
* A worker's variables (`snap`, `copy`, `cached`, `key`) are the objects its
  session keeps. Columns the code sets are written; columns it only read are not.
* Time is a set of nondeterministic facts (`due`, `ripe`, `old`, `aged`,
  `windowOver`, `rolled`), each set by an action of its own.
* The agent's and the guardrail's decisions are free choices, every answer they
  can give a disjunct; `ContactRules` alone computes them.
* A crash loses the session and its locks, keeps what was committed.

### 3.1 AttemptPipeline

One case of a chaser (non-payment) risk type. A sweeper goes round
`idle -> fire -> stale -> chase -> idle`, the tick's order; a request worker
runs `process_risk_event` on a pushed event. The chase proper:

| Place | Code | Actions |
|---|---|---|
| `loaded` | `chase_case` up to the commit before the agent call | `DeferToPending`, `ChaseStopped`, `ChaseExpires`, `ChaseDeferred`, `ChaseAsksAgent` |
| `deciding` | the agent decides; the deterministic key is looked up | `KeyTaken`, `Revalidate` |
| `refreshed` | the case was re-read, the ledger lock is being waited for | `RecheckStopped`, `StoreOutcome`, `OutcomeConflict`, `Park`, `Arm` |
| `armed` | attempt in the session, text being generated, lock held | `WriteAheadNew`, `WriteAheadConflict`, `WriteAheadFired` |
| `calling`, `answered` | gateway call; outcome, bump, close or floor | `CallGateway`, `Record` |
| `claimed` | a fired retry, re-checked at fire time | `FireCancelled`, `FireRejected`, `FirePassed` |

State: `cState`, `used`, `due` are the case; `result`, `phase` its attempt rows,
per key (`chase_{type}_{ref}_{n}` with n the attempts used when the chase
read the case); `optedOut`, `hasLedger`, `lock` the customer's ledger row;
`calls` counts what the gateway was asked, per key, up to two. `cached` holds
the workers whose session still has the ledger row of their first read: a
later locking SELECT locks the row but does not refresh the object.

### 3.2 EventIntake

One payment gateway, its events (`payment.failed`, `payment.captured`), the
background task of each event's first delivery, and sweepers that run
`_reconcile_sweep`. A task and a sweeper run the same handler (`Handle`); they
differ in when the event is marked processed: the task in the handler's last
commit, the sweeper in its claim, before it starts. `Rearm` and `RearmLost` are
`router.rearm`; `DropPage` is what a rollback does to a sweep: the rows of its
page are expired, and touching the next one ends the sweep. The risk rail
(`risk_router`) uses the same sweep and re-arm; its receipt is not a separate
action.

### 3.3 CaptureAttribution

`Resolve` is the order of the joins: an attempt of ours (link id, idempotency
key, mandate order), in any state of its case; the newest open case of the
order; the open case named in the merchant's notes. `Load` reads the case into
the session, and `Credit`, `LogOverpayment`, `RefuseReplay` judge and write that
copy. `RecordExternal` is the operator's bank payment, on its own case, with its
own replay rule (`recovered_ref` only). `CloseOtherwise` stands for the ends of a
case that bring no money.

### 3.4 ContactLedger

The customer's `retry_ledger` row, two rails. One `count` stands for the row's
two counters, which never read one another. `BeginContact` is the first stopping rule,
which ends in the commit before the agent call; `Arm` validates under the lock;
`WriteAhead` commits, so `Release`s; `Bump`, `AddRow` and `InsertRow` are
`_update_retry_ledger` with the race of two first contacts. `KeepsCopy` is the
difference of the rails: `chase_case` keeps the object of its first read in a
local, and `process_payment_failure` does not. `booked` is a history variable:
the contacts bumped in the row's window.

### 3.5 PaymentRail

One failed payment with its case and its links. `HandlerStep` is
`process_payment_failure`, started once per event by each of the `Webhooks`
(and again by the reconciler after `LostRace`); `PageStep` is a press of the pay
button; `Claim`, `FireStep` and `StaleResolves` are the scheduler's; `Execute`
is the gateway call and the record, shared by the three. A row keeps apart what
the gateway has (`link`), whether the database can name it (`known`:
`external_ref` is set) and what a sweep has seen to (`stamped`:
`link_cancelled_at`): a session that dies between the mint and the record leaves
a live link nobody knows. `LinkSweep(reached)` is one sweep; `reached` are the
rows of its page for which the gateway answered.

### 3.6 PromiseLedger, DebitContract and Commitments

`PromiseLedger` is one case with its promises, mandates and their attempts,
under the schedulers that are `up`. The clock counts half days; the even
instants are midnights, inside the blackout (`Night`), the odd ones noons. A tick's promise sweeps
are one session in the code's order: `ConfirmMandates`, the debits, the broken
ones, the reminders, each with a page read at its start and a commit per row.
`TakeDebit` to `BookDebit` are the stretches between the commits and the gateway
calls; a death in any of them leaves what was committed and what the bank did.
`AskToPromise` and `RecordPromise` are the three surfaces (page, voice,
merchant), which validate on what they read and insert later.

A chase of the case is here for what it does to the case's schedule (its attempts are
`AttemptPipeline`'s). It is split where the code awaits: the page or lookup
(`ChaseLoads`), the commit before the agent call (`ChaseAsks`), the re-read
(`ChaseRefreshes`, `orchestrator.py:1016`), the commit ahead of the gateway, with the
backoff computed from the re-read copy (`ChaseWritesAhead`, line 1233), and the
tail, which closes or floors from that copy (`ChaseEnds`, 1089-1102). Closing at the
consent window, every deferral (`ChaseDefers`), a refusal and a parked retry are
the single commits in between, and it may give up or die at each (`ChaseGivesUp`).
`chase` holds its copy, and what it writes goes over whatever the row says by then.
What a parked retry does when it fires is `AttemptPipeline`'s; here it puts the case
off like a deferral. A chase inside a scheduler's tick runs after that tick's own
promise sweeps and not between them; the model lets it run between them too, as a
risk event's background task does. `overtaken` is a history
variable: was a chase in hand at any time between the read and the insert of the
latest promise?

`DebitContract` is what the bank should see of it. The refinement mapping is
`Stage(p)`: from the orders put to the bank, the money it took and the mandate's
status; `today` is the clock and `date` the promised date. A mandate confirmed
twice, a second request or a request without consent has no step there.

`Commitments` extends the ledger with a plan (two instalments that are
promises), a dispute and a payment outside the gateway. `ReconcilePlans`
replaces the end of the tick: it judges a plan by what the sweeps before it made
of the instalments. `AskUndisputed` is a chase's decision to ask, which an open dispute
stops.

### 3.7 AccountDesk

One buyer's account with its invoices. `AccountSweep` is the account sweep,
`Chase(i)` one case of the per-case sweep behind it, `EndTick` the end of the
tick, `DayPasses` a day. Ages are relative (days late, days open, days until
due), capped where the code stops telling them apart, so the model has no last
day. `seen` and `contacted` say whom this tick's sweeps looked at and wrote to.

### 3.8 ContactRules, PolicyDesk, BatchRun

`ContactRules` is one case from the first decision to the close, and the one
module that computes decisions and verdicts: the deciders' answers, the
corrections made to them (rail, notice, blackout clamp, default rail), the
gate's refusals as a set of reasons (`Refusals`), and the retry as it was parked
and as it is fired. Decisions are made on the context of `Think` units ago.
`PolicyDesk` is the shared `fallback_count`: sessions read it, call the agent
(which may ask twice, or once more for a correction) and compare. `BatchRun` is
`execute`: `Plan`, `LoadCase`, `CallGateway`, `Book` per case, one `Commit`; a
failed run is rolled back, its links are not.

### 3.9 CustomerPages

`wallet` holds the links people have been sent, with their expiry; `View(c)` is
what a case's page offers, `OpenRows` and `StatementRows` what the lists show,
each computed from the same rows by its own code. `OptOutOn`, `HomeStop` and
`StatementStop` are the three stop buttons. `tie` fixes who owns which case and
account.

### 3.10 VoiceLine, AlertOutbox, AuditTrail, FrontDoor, SignIn

`VoiceLine`: a row of `voice_call_queue` per call, the bridges' claims, the
provider's callbacks, and the memory of the bridge (`BridgeRestarts` loses it);
the verdict on what the caller says is free. `AlertOutbox`: `Drain` posts a
batch row by row and commits once at its end; `DrainDies` keeps the posts and
loses the marks. `AuditTrail`: an event takes its id at the flush and becomes
visible at the commit; a keyed hash is the sequence it was computed over;
`TickTail` stamps, anchors and verifies in the order of the tick. An anchor goes
to its place among the committed ones (`Place`), beside another of the same
boundary if a second scheduler has left one there (`Doubled`). `FrontDoor`:
the three Redis commands of a check as separate steps of each worker, the
fallback to a worker's own buckets, `client_ip` as the choice of address.
`SignIn`: the failures and the locks of both password screens, with the sweep of
their maps. `Kept` (`Lists`) is the list comprehension that prunes a bucket, picks
a page of alerts or reads the rows of a stretch: `SelectSeq` written as a recursive
function, which a proof can unfold.

### 3.11 Instances that share a run

`MCBackOffice`, `MCSurfaces` and `MCCommitments` extend several modules whose
parts share no state in the code either; a behaviour picks one `part` and leaves
the others at rest, so the run is the union of the parts' runs. Where two
properties of one part ask one question together, their conjunction has a name
(`BooksInOrder`, `TallyHolds`, `NoSlotWasted`, `PagesAgree` in the part's own
module; `DoorsBounded`, `CommitmentsSettle`, `RailSettles` and the joint type
invariants in the MC modules), with what is in it.
`MCEventIntake` picks which events arrive and which schedulers are on.

## 4. What the runs check

### 4.1 Passing

| Run | Instance | Shows |
|---|---|---|
| `attempt_safety` | 1 scheduler, 1 request worker, 2 attempts, 1 event, 1 crash, with or without a ledger row | budget and rows agree; one gateway call per key; nothing settled, called or closed comes back; a parked retry honours an opt-out |
| `attempt_liveness` | the same workers, 1 attempt, a deferral, a partial capture, a crash | no attempt stays pending or parked; the case reaches a verdict unless a worker dies |
| `intake` | 1 event and 2 schedulers, 2 deliveries, every mishap once; or a payment and a capture, 1 scheduler, a fault | stored once; attempts within budget; nothing lost until a scheduler dies in a claim or a re-arm fails; acknowledged events end |
| `promise_debits` | 1 promise, 1 scheduler and a chase or 2 schedulers, 2 attempts, 1 crash, 6 instants | refines `DebitContract`; a paid promise is not called broken; neither a reminder nor a chase ends the silence, unless the chase was in hand while the promise was recorded |
| `agreements_and_links` | 2 promises, in a plan or apart, 1 dispute at a time, a chase or the voice agent, 1 attempt, 4 instants; 2 failure events and 1 press, budget 1, 1 death | a plan's verdict fits and comes; links within budget and page presses; attempts and links of a closed case end, the newest of an open one stays |
| `surfaces` | 2 bridges, 2 calls of 3 turns, a restart, a lost report; 2 couriers, 2 alerts, 2 tries; 3 events, an anchor each, a rewrite, a death; 2 workers, limit 1, an outage, a crash; 2 guessers, 2 failures | one dial per call, no trapped caller; the outbox rests; a rewrite surfaces and is not anchored over; doors are bounded and open again |
| `back_office` | 2 invoices of 1 buyer, a ladder of 3 days; 2 cases of one order, 5 payments each twice; 3 contact sessions, limit 2, a crash; a case of each kind, 13 units; 2 decisions; 2 batch runs on 1 case; 2 cases' pages | one message per account and tick, disputes age out; books; tally; no wasted slot, no debit without notice, no leaking case; the label names the decider; a spent slot has its row; pages agree, stops hold |

Why the bounds are enough.

* *Attempts.* Two are what a key collision and a spent-but-not-last unit need;
  one scheduler and one request worker are the two kinds of session; one crash
  can fall on each commit of each worker. For liveness one attempt does: the
  unit is at once the first and the last, so each way to spend it must itself
  lead to the end. `FirePageFull` lets a sweep leave ripe retries behind; the
  liveness run needs the sweep to reach the row.
* *Events.* Two schedulers contend for one claim; a fault with cap 2 reaches the
  cap. Two events matter only for a page with a rollback in it, so that cast is
  calm otherwise.
* *Promises.* One row suffices for the debit (sweeps treat rows apart and the key
  is per promise); of its two dates the earlier one's grace ends inside the
  instance, so each sweep meets the promise before, at and after its date; the later
  one lies beyond the reminder's own rung, which is what `Floored` is for. Two rows with
  dates apart make a plan. `LastDue` and the windows are scaled together. Two
  attempts let a chase and a reminder spend one each, or the chase close the case on
  the second; one chase in hand at a time is what a request, a reminder and a
  sweep need to meet it, before and after each of its awaits. The second scheduler
  and the chase come in different deployments, to keep the instance small; the
  theorems of 5.3 have any number of both at once.
* *Links.* Two handlers count at once, the page overlaps either, one process dies
  at each place; three rows are a handler's, another's and the page's. The
  page size is not reached here; `link_starvation` sets it to one.
* *Captures, tally.* Two cases make an order with siblings, two deliveries a
  replay, the payments are one of each join path; three sessions meet at the
  last free contact and a passing window.
* *Rules.* The day is cut so that quiet hours wrap midnight (start 3, end 1 of 4
  units) and an agent call may straddle any of their edges; the case kinds are
  one for each set of rules that applies together.
* *The rest.* Two actors each where they race (bridges, couriers, workers,
  guessers, runs, sessions), as many rows as a batch or page plus one.

### 4.2 Violations: where the code and its words part

Each of these runs checks one property a comment or a docstring states, and TLC
finds the behaviour that breaks it. `PROJECT.json` quotes the lines.

| Run | What happens |
|---|---|
| `crash_keeps_case_open` | A worker dies after the last write-ahead. The stale sweep fails the attempt, nobody closes the case: the stopping rule, which looks first at the budget, returns before the window is looked at. |
| `opt_out_mid_decision` | The case is re-read before the ledger lock is waited for, and the chase's ledger object is not repopulated: an opt-out in between is not seen. |
| `capture_overlap` | Two parts credited at once: the later commit overwrites amount and reference of the earlier. |
| `link_starvation` | The sweep takes the oldest rows, LIMIT first, and skips the stamped ones afterwards: once a page is all stamped, the links behind it stay payable. |
| `batch_links` | A batch attempt stores no `external_ref`, which the link sweep selects by: its link outlives the case. |

Further behaviours of the code that the modules contain and no run states a
property against. They are boundaries of what is claimed above:

* With two schedulers the attempt properties are not claimed whole: staleness is
  measured from `created_at`, so a parked attempt is stale as soon as it is
  claimed, the other scheduler may re-park it during the text generation, and one
  key may be sent twice. `chase_case` holds back for a *pending* newest attempt
  only, not for one the stale sweep of the same tick has re-parked.
* A worker that spent the last unit closes the case from its copy: `exhausted` may
  be written over a `recovered` or `opted_out` that committed meanwhile, although
  `close_case` says the first close wins. The case stays closed either way.
* A scheduler that dies between its claim (`processed = True`, committed) and the
  handler loses the event, as does a re-arm that fails: the two hypotheses of
  `EventsKept`.
* The second processing of a failed payment counts the first's row and builds the
  next key: it is bounded by the budget, not by the key. A press of the pay button
  that overlaps another session may overrun the budget by one link.
* An order with two failed payments has two cases. The customer's own payment
  closes the newest; a replay of it, once that has closed, is credited to the
  other. An overpayment's id joins no list: a second delivery is logged again.
* The write-ahead commit gives the ledger lock up before the contact, so the
  per-customer limit holds up to the number of concurrent sessions less one. Two
  chases bump from their first copies: one contact is not counted.
* A promise's silence is not safe from a chase that is in hand while the promise is
  recorded. `record_promise` (`cases.py:1026`) moves `next_action_at` without locking
  the case, and says the chase is silent until the date; a chase read the case before
  (`orchestrator.py:1016`), awaits the message (1202) and then commits the backoff it
  computed from that copy (1233), so that the case falls due before the date and the
  customer is chased. The deferrals (785, 852, 874, 897) and the floor (1102) write
  over the date in the same way, and so does a retry parked before. `SilenceKept`
  therefore has the hypothesis `~overtaken`. Without it TLC finds, in five states:
  `AskToPromise`, `ChaseLoads`, `RecordPromise`, `ChaseDefers`; and, with the deferrals
  taken out, the same with `ChaseWritesAhead`. Apart from that, a retry that was
  parked before the promise fires in spite of it: `_fire_one` asks for consent and
  the case's state, not for its date.
* Promises: two surfaces may record at once and exceed the cap by one; any nudge
  of the case counts as the debit's notice; a debit rejected for the hour has used
  its only key; with two schedulers one may charge while the other breaks. Plan
  dates are checked against one another, not against today.
* Two schedulers that read the same newest boundary anchor the same epoch twice:
  `audit_checkpoints.last_event_id` is not unique (`models.py:762`), and the
  sweep claims nothing, although `docs/DEPLOY.md:270` calls a second scheduler
  safe because "every sweep claims rows with a conditional UPDATE". From then on
  every verification reports boundaries that do not ascend, with nothing
  rewritten, and each tick that could anchor again raises in `_prev_boundary`.
  The runs have one scheduler, as `render.yaml` pins.
* Alerts may be posted twice. A voice caller may be told of a promise that a
  closed case did not record. A link's deadline may lie behind the consent window.
  A statement's stop withdraws the consent of that invoice's customer only. The
  console's lockout ends up to a second early (`int()`).

### 4.3 Fairness

Weak fairness stands for loops that go on and calls that have timeouts; strong
fairness for what recurs with gaps. Deliveries, faults, deaths, outages,
restarts, payments and opt-outs have none.

* `AttemptPipeline`: each worker's step (`run_forever` loops, handlers end, the
  gateway and the LLM have timeouts) and the clock's facts. A crashed worker goes
  on at `idle`: the process is restarted.
* `EventIntake`: each handler, each sweeper, ageing.
* `Commitments`: each scheduler's sweep steps, and that the clock reaches the end of
  the instance. Time passes whatever the processes do, and a request, a mandate's
  authorisation or a chase takes seconds against the half day, so each has ended when
  it moves (`HalfDay`); from every state the clock can still reach the end.
* `PaymentRail`: sessions go on, rows are claimed and resolved, and the link sweep
  reaches every unstamped link of its page. In the run, only that *some* session
  and *some* row go on, which is weaker.
* `AccountDesk`: the account sweep and the end of the tick; days, and the chase
  that closes an expired case, are strongly fair: `due_cases` orders by
  `next_action_at`, so the longest-waiting case is served first.
* `VoiceLine`: dialling what was claimed, the provider's turn callbacks (an input
  timeout ends each turn), the hang-up after a call that is over; not a caller
  who hangs up. `AlertOutbox`: each courier's drain. `AuditTrail`: ticks, and
  the end of a transaction that wrote an event. `FrontDoor`: the commands, a
  customer who asks again, the clock.
* `BatchRun`, for `batch_links` only: the link sweep.

A sweep chooses among its rows without fairness between them; the liveness
instances have pages that fit their rows. Deadlock is not checked where the
system may stop: a bounded number of captures, contacts or deliveries runs out.
`AttemptPipeline` has a scheduler that never stops, and deadlock is checked.

## 5. What is proved

Each theorem holds for every value of the constants its module's named
assumption admits; that assumption gives types, disjointness of the sets of
workers and finiteness where something is counted, and TLC evaluates it on every
run. Five hypotheses go further, because the code's promise does: they are
written in the theorem (`ASSUME ... PROVE`) and named below. An invariant that
was not inductive was strengthened until it was, with TLC as the first judge.

### 5.1 AttemptPipelineProofs: attempts of a chased case

* `TypeCorrect`: `[]TypeOK`. `used <= MaxAttempts` is not inductive by
  itself: a worker adds one to a copy. `WorkerInv(w)` says what every place knows
  of its copy: from the decision on the key is the number of attempts the copy
  had and is below the budget, and an armed fresh attempt has its unit counted.
* `BudgetExact`: `[]RowsMatchBudget`. `BudgetInv` adds `RowsMatchBudget`
  to the above: the insertion of key n needs n unused, so n = `used` follows from
  "the rows are exactly 0 .. used - 1" and from a copy's key being at most
  `used`; the write of n + 1 is then right, however old the copy.
* `ParkedConsent`: `ParkedRetryHonoursOptOut`. `ConsentInv`: a fired
  attempt that is armed holds the ledger lock (a parked attempt implies a ledger
  row), and nobody has opted out; the opt-out waits for the lock.
* `OutcomesStay`: outcomes are final and a closed case stays closed, for any
  number of schedulers.
* `OneCallPerKey`: `[]AtMostOneCallPerKey`, and `OverIsOver`:
  `NothingComesBack`, both for one scheduler (`LoneSweeper`; with two the first is
  false, see 4.2). `CallInv`: a row that was called for cannot be claimed or
  parked again; a session on its way to the gateway owns a row nobody called for
  and nobody else is engaged with. A lone sweeper cannot re-park what it has
  claimed, for it is the one that is engaged.

### 5.2 EventIntakeProofs: events

* `TypeCorrect`: `[]TypeOK`, with `OnTheirEvent` (a task works on its
  own event, a sweeper in a handler on some event) and `OnAFailedPayment` (only
  failed payments are counted, and a counted key is below the budget).
* `StoredOnce`: `[]StoredExactlyOnce`. `OneCopy`: an event with a row has
  a dedup entry until the gateway has given up, so pruning cannot let a
  redelivery in.
* `NothingLost`: `[]EventsKept`, no event is lost until a scheduler dies
  inside a claim or a re-arm fails. `Accounted` is stronger: only a *sweeper* in
  hand counts, for a task may die. Both hypotheses are needed: `SweepDies` and
  `RearmLost` have behaviours that lose an event.
* `WithinBudget`: `[]ContactsWithinBudget`. `RowPerCall`: the contacts made and
  the handlers about to make one are together no more than the rows, and those
  are within the budget; `contacts <= rows` alone does not survive two handlers
  that have both written ahead.

### 5.3 PromiseLedgerProofs: promises, debits, plans

* `TypeCorrect`: `[]PromiseTypeOK`, with what copies hold: a chase that has
  re-read the case has a slot left in its copy (`SlotLeft`), a scheduler's promise is
  on its page, a request dates its promise ahead.
* `HonoursContract`: `PromiseSpec => DebitsHonourContract`, the refinement.
  `DebitInv`: the debit's row comes after consent and before the bank; a promise
  on a page of due debits was consented to and is due, whatever another scheduler
  has done since; the session that wrote the row ahead is the only one to go
  to the bank (`OneHolder`). Under it every step maps, through `Stage`, to one of
  the contract's or to a stutter.
* `NotBrokenWhilePaid`: `[]BrokenWasUnpaid`. `PageInv` and, where one scheduler is
  up, `LoneInv`: nobody breaks a promise it is about to charge and nobody charges
  one it is about to break. The property has the hypothesis (one scheduler) in it.
* `SilenceIsKept`: `[]SilenceKept`, for any number of schedulers, chases and
  surfaces, backoff and deferrals. The property itself is not inductive: a chase that read
  the case earlier may write any date into it, and a reminder moves the case before it
  restores it. `SilenceInv` says of a case with its one promise that nothing
  overtook (`Calm`) that no chase has it in hand and that it is not due *now*
  (`Hushed`); so none can take it up, for a chase loads due cases only. Between
  reminders the case waits for the promised date; while one is being sent, at
  least for the reminder's own rung, and `Floored` restores the date just
  when that rung is the earlier. `NoticeHeld`: a session that sends holds the reminder's
  key, so there is one. `RequestsHushed`: a request that will leave `next_action_at`
  alone, because its copy was already later than the date, is still right about it when
  it commits.
* `PlanVerdictStands`: `CommitSpec => []PlanVerdictFits`. `VerdictsStand`: no step
  of the ledger takes back a broken promise, asks again for an answered one,
  re-opens a case or touches the books of a closed one, so a verdict that fits goes
  on fitting. A completed plan's case is known to be closed, not to be `recovered`: a chase
  that spent the last slot may write `exhausted` over it (4.2).
* `AgreementsTypeCorrect`, `AgreementsKeepPromises`: the types, `BrokenWasUnpaid`
  and `SilenceKept` under `Commitments`, whose steps are the ledger's or touch its
  variables only as `Agreement` says. The refinement is not stated for it: a plan
  dates two promises at once, and may date one in the past, which the contract
  has no step for.

### 5.4 PaymentRailProofs: the links of a payment

`RailInv` was checked by TLC on an instance of 897,052 states before the proof.
Its parts: keys are unique (`KeysUnique`); the page's rows are no more than the
presses that have had their turn (`SelfCounted`); a row that can still reach the
gateway, or bears a link, is a press's or is numbered below the budget
(`RowsCharged`); a busy session's row is its own and is not recorded yet
(`RowInHand`); while the case is open the newest link on record is payable or
paid (`NewestPayable`).

* `RailTypeCorrect`: `[]PayTypeOK`.
* `LinksStayWithinBudget`: `[]LinksWithinBudget`: the engine's links have distinct
  numbers below `RetryLimit`, the page's are counted by the presses.
* `NewestIsSpared`: `OnePayableLeft`, an action property: the newest on record is
  never among those the sweep kills, and a recorded link never leaves the record.
* `BothAreThemselves`: the composition with the agreements implements `CommitSpec`
  and `PaySpec`, for each of its steps is a step of one that leaves the other's
  variables alone; `BothTypeCorrect`: `[]BothTypeOK`, from the two types.

### 5.5 CustomerProofs: what is decided and when, pages, the tally

The rules of contact. `RulesInv`: a context is no older than an agent call, and
the case it was read for still has a slot; what was checked when an attempt was parked holds still
when it is due (inside the window, outside the blackout, within the count); and
`NoCaseLeaks`. Lemmas on modular time (`HourComes`, `ClampLeavesBlackout`) cover
every blackout, also one over midnight.

* `RulesTypeCorrect`: `[]RulesTypeOK`.
* `CasesDoNotLeak`: `[]NoCaseLeaks`. The bound is `Horizon` (now, or the end of the
  window) plus `LongestSilence` plus a day. An earlier form bounded it by the end
  of the window alone; the attempt to prove that showed that it held only because
  the instance's clock ended early: a rung fired late in the window buys its
  silence from then on.
* `NoDebitUnannounced`: `NoticeBeforeDebit`.
* `SlotsAreNotWasted`: `[]NoSlotWasted` where `Think <= 1`: an agent's answer comes
  before the shortest deferral a decider asks for. The LLM's timeout is seconds,
  that deferral a quarter of an hour; with slower answers a deferral may lie in
  the past when it is validated, and the schema rule refuses it.

Pages and tally.

* `PagesTypeCorrect`, `PagesTellOneStory`: `[]PagesAgree`. `StoppedAreClosed`: what
  a stop was about is closed and stays closed, for no page pays for a closed case.
  `GreatestExists` gives the newest case a list shows for an owner.
* `TallyTypeCorrect`, for both rails; `TallyKept`: `[]TallyHolds` where no chaser
  works on the customer (`ChaseWorkers = {}`): `KeepsNoCopy`, the payment rail
  reads the row under the lock it bumps it under. With chasers it is false: they
  bump the copy of their first read (4.2).

### 5.6 BackOfficeProofs: accounts, deciders, batches, books

* `DeskTypeCorrect`, `OneVoice`: `[]OneVoicePerTick`. `OneSpeaks`: of the invoices
  the sweep looked at, one at most was contacted or is free to be chased: the
  others were deferred by at least a day (`GapIsPositive`, `WindowIsAhead`).
* `PolicyTypeCorrect`, `TrailNamesDecider`: `[]AuditNamesDecider`.
  `CounterOnlyGrows`: no session has noted more than the counter shows, so a
  fallback of its own always shows as a difference. `FallbacksToCome` bounds the
  counter for the type.
* `BatchTypeCorrect`, `SlotsHaveRows`: `[]NoSlotWithoutRow`. `BatchInv`: what a run
  has read, and what it is about to write, is no more than the rows the case
  has, and the key it holds is nobody else's.
* `CaptureTypeCorrect`, `ClaimsAreEarned`: `[]ClaimIsEarned`, for any number of
  workers. `BooksKept`: `[]BooksInOrder` for one at a time (`LoneWorker`; with two
  the run `capture_overlap` breaks the books). `Booked(c)`: the amount is the sum
  over the trail (`TotalAdds`), bank payments end the case, an overpayment is not
  on the trail; `CopyIsRow(w)`: the worker's copy is the row but for an end of the
  case it did not see.
* `EachOfficeIsItself`, `OfficeTypeCorrect`: the joint specification implements that
  of each of its seven parts, and `[]OfficeTypeOK` follows from their types.

### 5.7 SurfacesProofs: voice, doors, outbox, audit

* `VoiceTypeCorrect`, `OneDialPerCall`: `[]DialledOnce`. `InOneHand`: a row not yet
  claimed was never dialled and is in no bridge's hand, and one in a hand is in
  one only and not dialled yet. A restart empties the hand and not the claim.
* `CustomerBurstIsBounded`: `[]BurstBounded` and the door's types, for any workers,
  limit, span and proxies and whatever Redis goes through. The property is about
  a sliding window, the code's counter about fixed ones, and what joins them is
  the counter's age. `DoorInv` splits what was let in by who let it in
  (`Through(k)`: in the last k units, not by a worker's own bucket) and bounds it
  twice: over the whole span by two windows less one request (`TwoWindows`), and
  over the part of it younger than the counter's expiry, when it comes, by one
  (`OneWindow`), each with the answers still on their way (`Late`). When the
  counter expires the second bound becomes the first. `CountedAsTheCustomer`:
  whatever the header is padded with, the entry `Hops` from its end is the
  customer's. The sums rest on `SumChange`, `SumShifts` and their kin: time moves
  every age up by one.
* `GuessingIsBounded`: `[]GuessesBounded` and the sign-in's types. `SignInv` says of
  each address what its lists have in common *from the end*: a guess still inside
  the window stands at the same place from the end of the bucket, or the address
  is locked (`Counts`); a full window has locked it (`Locks`). A sweep on behalf of
  others drops a bucket only when its newest failure is older than the window, so
  it drops nothing `Counts` needs. `KeptIsTail` carries it: filtering a list
  in time order by its recent times leaves its tail.
* `OutboxTypeCorrect`: `[]OutboxTypeOK`, with what a drain holds (`DrainShape`): as
  many copies of tries as rows, no more outcomes than rows.
* `NoAnchorOverRewrites`: `AuditSpec => AnchorsAreProven`, for any number of
  schedulers that stamp, anchor, verify and die at once. `RowSound`: a row is
  hashed only when committed, over the content it was logged with, and rewritten
  only when hashed; `StampsSound`: so is a stamp a session holds, however old. A rewritten row
  then differs from what its hash was computed over, and a stretch that holds
  contains none (`HoldingIsUnrewritten`).
* `AuditTypeCorrect`: `[]AuditTypeOK` with one scheduler (`LoneScheduler`).
  `BoundariesInOrder`: the anchors stand at the multiples of the interval and the
  one in hand is for the next. With two schedulers it is false (4.2); the attempt
  to prove it without the hypothesis is what showed that.
* `EachPartIsItself`, `SurfacesTypeCorrect`, `DoorsHold`: the joint specification
  implements that of each of its five parts; `[]SurfacesTypeOK` (one scheduler)
  and `[]DoorsBounded` follow from theirs.

### 5.8 FiniteLemmas

Facts about sums over finite sets, greatest and least members, and `Kept`, stated
once. The library's induction takes an operator as a parameter, which the provers
cannot instantiate; where a proof needs an induction over a finite set or a list
(the sum of a trail, what a filter leaves) it is by descent: `LeastSet` picks a
smallest subset that fails, from the well-foundedness of strict inclusion, and
`FirstNatural` a smallest length.

### 5.9 Only model-checked

* *Liveness*: `AttemptsSettle`, `CaseSettlesUnlessCrash`, `AckedEventsResolve`,
  `CommitmentsSettle`, `RailSettles`, `NoTrappedCaller`, `AlertsSettle`,
  `LockoutEnds`, `DisputedAgeOut`, and `RewritesSurface`, half of
  `TamperingSurfaces`. Fairness and ENABLED are out of the prover's reach.
* *The violations* of 4.2, and every property for more than one scheduler,
  chaser or worker where a theorem above is for one.

## 6. What is not modelled, and why

* *Pure reading and rendering*: the merchant console's views
  (`console_data.py`, the reading routes), the dashboard, the customer pages'
  wording, explanations and translations, the error-string tables. They change
  no state; what a page may offer is in `CustomerPages`.
* *Content*: LLM prompts, features and scores, message texts and channels
  (messaging is fire-and-forget inside a contact), speech and retrieval.
* *Offline*: evaluation, training, scripts, the demo gateway (a fake).
* *Stateless*: request signatures and console sessions (a token that verifies or
  not); application wiring and settings.
* *Small state of its own*: the roles of an account's contacts, the heartbeat
  row, the expiry of the downtime cache.
* Inside the modules: cases of other customers (they share no row with this one);
  deferral times as facts, except in the modules with a clock. `AgeRow` assumes
  that one execution of a freshly inserted attempt is shorter than
  `attempt_stale_after_seconds`: the gateway and LLM timeouts are. `CallCap`
  stops counting calls at two. The bounds `Max...`, `LastDue`, `PageClock` and
  `SignClock` end an instance, not the code.
