----------------------------- MODULE AuditTrail -----------------------------
(***************************************************************************)
(* The hash chain over case_events (src/src/audit_chain.py,                *)
(* audit_checkpoint.py) and the tail of a scheduler tick that keeps it:    *)
(* stamp the rows without a hash, anchor an epoch, verify, commit.         *)
(*                                                                         *)
(* An event takes its id when its transaction flushes it and is visible    *)
(* when that transaction commits, so ids may become visible out of order.  *)
(* A keyed hash is the sequence of <<id, content>> pairs it was computed   *)
(* over: collision-free, and nobody without the key can make one.          *)
(***************************************************************************)
EXTENDS Integers, Sequences, FiniteSets, SequencesExt, Lists

CONSTANTS
  Schedulers,   \* sessions that run the tick
  MaxEvents,    \* bound: events logged in a behaviour
  Interval,     \* audit_checkpoint_interval_events
  MaxRewrites,  \* bound: rows whose content is rewritten in the database
  MaxTickDeaths     \* bound: ticks that die before their commit

ASSUME AuditAssumption ==
  /\ MaxEvents \in Nat /\ Interval \in Nat \ {0}
  /\ MaxRewrites \in Nat /\ MaxTickDeaths \in Nat

Ids == 1..MaxEvents
Genesis == <<>>
NoHash == << <<0, 0>> >>    \* event_hash IS NULL
NoAnchor == [last |-> 0, head |-> Genesis]

VARIABLES
  events,     \* case_events as committed
  cps,        \* audit_checkpoints, by last_event_id
  turns,      \* boundaries in order of content_verified_at, those never verified left out
  session,    \* per scheduler: its place in the tick and what it has flushed
  verdict,    \* chain_verified of the last tick: "none", "ok" or "failed" (-1)
  rewritten,  \* rows whose content was changed behind the chain's back
  auditDeaths
auditVars == <<events, cps, turns, session, verdict, rewritten, auditDeaths>>

AtRest == [pc |-> "rest", running |-> Genesis, stamps |-> <<>>,
           anchor |-> NoAnchor, spot |-> 0]   \* spot: the boundary to mark as verified
EventStates == {"none", "flushed", "rolledback", "committed"}

AuditInit ==
  /\ events = [i \in Ids |-> [state |-> "none", content |-> 0, hash |-> NoHash,
                              prev |-> NoHash]]
  /\ cps = <<>> /\ turns = <<>> /\ verdict = "none"
  /\ session = [s \in Schedulers |-> AtRest]
  /\ rewritten = {} /\ auditDeaths = 0

----------------------------------------------------------------------------
\* The rows as a session reads them: the committed ones, with its own stamps.
StampOf(stamps, i) == CHOOSE k \in DOMAIN stamps : stamps[k].id = i
Stamped(stamps) == {stamps[k].id : k \in DOMAIN stamps}
Flushed(s) == session[s].pc \in {"anchor", "verify", "commit"}
Overlaid(stamps) ==
  [i \in Ids |-> IF i \in Stamped(stamps)
                 THEN [events[i] EXCEPT !.hash = stamps[StampOf(stamps, i)].hash,
                                        !.prev = stamps[StampOf(stamps, i)].prev]
                 ELSE events[i]]
View(s) == IF Flushed(s) THEN Overlaid(session[s].stamps) ELSE events
Committed == {i \in Ids : events[i].state = "committed"}
ById == [i \in Ids |-> i]
Rows(wanted) == Kept(ById, Committed \cap wanted)
MaxId(ids) == CHOOSE i \in ids : \A j \in ids : j <= i

\* The running hash after the first k rows of a stretch, recomputed from content.
Recomputed(start, ids, k) == start \o [j \in 1..k |-> <<ids[j], events[ids[j]].content>>]

----------------------------------------------------------------------------
\* log_event: the id at the flush, visible at the commit.
LogEvent(i) ==
  /\ events[i].state = "none" /\ \A j \in Ids : j < i => events[j].state # "none"
  /\ events' = [events EXCEPT ![i].state = "flushed"]
  /\ UNCHANGED <<cps, turns, session, verdict, rewritten, auditDeaths>>

EndEvent(i, ending) ==
  /\ events[i].state = "flushed" /\ ending \in {"committed", "rolledback"}
  /\ events' = [events EXCEPT ![i].state = ending]
  /\ UNCHANGED <<cps, turns, session, verdict, rewritten, auditDeaths>>

\* A stamped row is rewritten in place, its hashes left alone.
Rewrite(i) ==
  /\ events[i].hash # NoHash /\ Cardinality(rewritten) < MaxRewrites
  /\ i \notin rewritten /\ rewritten' = rewritten \cup {i}
  /\ events' = [events EXCEPT ![i].content = 1]
  /\ UNCHANGED <<cps, turns, session, verdict, auditDeaths>>

----------------------------------------------------------------------------
\* stamp_unhashed_events: the newest hash first, the unhashed rows in a second
\* statement, written under their row locks.
ReadHead(s) ==
  LET hashed == {i \in Committed : events[i].hash # NoHash}
  IN /\ session[s].pc = "rest"
     /\ session' = [session EXCEPT ![s] = [AtRest EXCEPT !.pc = "rows",
          !.running = IF hashed = {} THEN Genesis ELSE events[MaxId(hashed)].hash]]
     /\ UNCHANGED <<events, cps, turns, verdict, rewritten, auditDeaths>>

ReadRows(s) ==
  LET ids == Rows({i \in Ids : events[i].hash = NoHash})
  IN /\ session[s].pc = "rows"
     /\ session' = [session EXCEPT ![s].pc = "flush", ![s].stamps =
          [k \in 1..Len(ids) |-> [id |-> ids[k],
             prev |-> Recomputed(session[s].running, ids, k - 1),
             hash |-> Recomputed(session[s].running, ids, k)]]]
     /\ UNCHANGED <<events, cps, turns, verdict, rewritten, auditDeaths>>

FlushStamps(s) ==
  /\ session[s].pc = "flush"
  /\ \A t \in Schedulers \ {s} :
       Flushed(t) => Stamped(session[t].stamps) \cap Stamped(session[s].stamps) = {}
  /\ session' = [session EXCEPT ![s].pc = "anchor"]
  /\ UNCHANGED <<events, cps, turns, verdict, rewritten, auditDeaths>>

\* _verify_stretch: the rows of (from, to], recomputed from content.
StretchRows(from, to) == Rows((from + 1)..to)
StretchHolds(s, from, to, start) ==
  LET ids == StretchRows(from, to)
  IN \A k \in 1..Len(ids) : View(s)[ids[k]].hash = Recomputed(start, ids, k)
HeadOf(from, to, start) ==
  LET ids == StretchRows(from, to) IN Recomputed(start, ids, Len(ids))

\* checkpoint_chain: the next epoch of Interval ids, once the newest stamped id
\* has reached its end; refused when its content does not prove its hashes.
\* Two anchors on the boundary it starts from, which two schedulers can leave, make
\* _prev_boundary raise.
Newest(chain) == IF chain = <<>> THEN NoAnchor ELSE chain[Len(chain)]
Provable(s, from, to, start) == StretchHolds(s, from, to, start)
Doubled(chain, last) == Cardinality({k \in DOMAIN chain : chain[k].last = last}) > 1

Anchor(s) ==
  LET last == Newest(cps).last
      hashed == {i \in Committed : View(s)[i].hash # NoHash}
      boundary == last + Interval
      grown == hashed # {} /\ MaxId(hashed) >= boundary
  IN /\ session[s].pc = "anchor"
     /\ session' = [session EXCEPT ![s] =
          IF grown /\ Doubled(cps, last) THEN AtRest
          ELSE [@ EXCEPT !.pc = "verify", !.anchor =
            IF grown /\ Provable(s, last, boundary, Newest(cps).head)
            THEN [last |-> boundary, head |-> HeadOf(last, boundary, Newest(cps).head)]
            ELSE NoAnchor]]
     /\ UNCHANGED <<events, cps, turns, verdict, rewritten, auditDeaths>>

\* verify_chain_epoch, over the anchors by boundary with the session's own. The rotation:
\* the oldest epoch never verified from content, else the one verified longest ago.
Place(last) == Cardinality({k \in DOMAIN cps : cps[k].last <= last}) + 1
Epochs(s) ==
  LET new == session[s].anchor
  IN IF new = NoAnchor THEN cps ELSE InsertAt(cps, Place(new.last), new)
Ascending(chain) == \A k \in 2..Len(chain) : chain[k - 1].last < chain[k].last
Never(chain) == {k \in DOMAIN chain : \A t \in DOMAIN turns : turns[t] # chain[k].last}
\* Variant: an epoch is read from content once.
SpotOnce(chain) ==
  IF Never(chain) # {} THEN CHOOSE k \in Never(chain) : \A l \in Never(chain) : k <= l ELSE 0
Spot(chain) ==
  IF chain = <<>> THEN 0
  ELSE IF Never(chain) # {}
       THEN CHOOSE k \in Never(chain) : \A l \in Never(chain) : k <= l
       ELSE CHOOSE k \in DOMAIN chain : chain[k].last = turns[1]

SpotHolds(s, chain, k) ==
  LET before == IF k = 1 THEN NoAnchor ELSE chain[k - 1]
  IN /\ StretchHolds(s, before.last, chain[k].last, before.head)
     /\ HeadOf(before.last, chain[k].last, before.head) = chain[k].head

\* The tail checks the stored prev_event_hash as well; an unstamped row fails.
TailHolds(s, chain) ==
  LET newest == Newest(chain)
      ids == StretchRows(newest.last, MaxEvents)
  IN \A k \in 1..Len(ids) :
       /\ View(s)[ids[k]].hash = Recomputed(newest.head, ids, k)
       /\ View(s)[ids[k]].prev = Recomputed(newest.head, ids, k - 1)

\* The spot is marked even when the tail behind it then fails.
Turned(boundary) ==
  IF boundary = 0 THEN turns
  ELSE Append(SelectSeq(turns, LAMBDA b : b # boundary), boundary)
Verify(s) ==
  /\ session[s].pc = "verify"
  /\ \E chain \in {Epochs(s)} : \E spot \in {Spot(chain)} :
       LET spotOk == Ascending(chain) /\ (spot = 0 \/ SpotHolds(s, chain, spot))
       IN /\ session' = [session EXCEPT ![s].pc = "commit",
               ![s].spot = IF spotOk /\ spot # 0 THEN chain[spot].last ELSE 0]
          /\ verdict' = IF spotOk /\ TailHolds(s, chain) THEN "ok" ELSE "failed"
  /\ UNCHANGED <<events, cps, turns, rewritten, auditDeaths>>

\* One commit for the stamps, the anchor and the rotation mark.
CommitTick(s) ==
  /\ session[s].pc = "commit"
  /\ events' = View(s) /\ cps' = Epochs(s) /\ turns' = Turned(session[s].spot)
  /\ session' = [session EXCEPT ![s] = AtRest]
  /\ UNCHANGED <<verdict, rewritten, auditDeaths>>

\* The tick dies or raises: its transaction is rolled back.
TickDies(s) ==
  /\ session[s].pc # "rest"
  /\ auditDeaths < MaxTickDeaths /\ auditDeaths' = auditDeaths + 1
  /\ session' = [session EXCEPT ![s] = AtRest]
  /\ UNCHANGED <<events, cps, turns, verdict, rewritten>>

----------------------------------------------------------------------------
TickTail(s) == \/ ReadHead(s) \/ ReadRows(s) \/ FlushStamps(s)
               \/ Anchor(s) \/ Verify(s) \/ CommitTick(s)
AuditNext ==
  \/ \E i \in Ids : \/ LogEvent(i) \/ Rewrite(i)
                    \/ \E ending \in EventStates : EndEvent(i, ending)
  \/ \E s \in Schedulers : TickTail(s) \/ TickDies(s)
AuditSpec == AuditInit /\ [][AuditNext]_auditVars

\* A tick goes on to its end and the next follows; a transaction that wrote an
\* event ends.
AuditFairness ==
  /\ \A s \in Schedulers : WF_auditVars(TickTail(s))
  /\ \A i \in Ids : WF_auditVars(\E ending \in EventStates : EndEvent(i, ending))
FairAuditSpec == AuditSpec /\ AuditFairness

----------------------------------------------------------------------------
\* Properties

AuditTypeOK ==
  /\ \A i \in Ids : /\ events[i].state \in EventStates
                    /\ events[i].hash # NoHash => events[i].state = "committed"
  /\ \A s \in Schedulers : session[s].pc \in {"rest", "rows", "flush", "anchor", "verify", "commit"}
  /\ \A k \in DOMAIN cps : cps[k].last = k * Interval
  /\ verdict \in {"none", "ok", "failed"} /\ rewritten \subseteq Ids

\* No epoch is anchored over a row whose content was rewritten before the anchor
\* read it: "an anchor over stored-but-tampered hashes would certify an attack"
\* (audit_checkpoint.py).
AnchorsAreProven ==
  [][\A s \in Schedulers : session'[s].anchor \notin {NoAnchor, session[s].anchor} =>
       \A i \in rewritten : i <= Newest(cps).last \/ i > session'[s].anchor.last]_auditVars

\* A rewritten row makes verification fail from some tick on for good, although
\* a tick re-reads one old epoch only: "tampering anywhere is caught within one
\* rotation" (audit_checkpoint.py).
RewritesSurface == (rewritten # {}) ~> [](verdict = "failed")

\* Both halves of what an anchor is for.
TamperingSurfaces == AnchorsAreProven /\ RewritesSurface
=============================================================================
