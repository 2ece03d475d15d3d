--------------------------- MODULE MCEventIntake ---------------------------
(****************************************************************************)
(* A small instance of EventIntake: a failed payment under two schedulers,  *)
(* or a failed payment and a capture under one.  cast is the choice: the    *)
(* events that arrive at all and the schedulers that are on.                *)
(****************************************************************************)
EXTENDS EventIntake

CONSTANTS f1, c1, s1, s2
VARIABLE cast
castVars == <<vars, cast>>

Casts == {[events |-> {f1}, sweepers |-> {s1, s2}],
          [events |-> {c1}, sweepers |-> {s1, s2}],
          [events |-> {f1, c1}, sweepers |-> {s1}]}

\* Two events on one page: delivered once each, and no process dies.
Calm == /\ \A e \in Events : delivered[e] <= 1
        /\ sweepDeaths = 0 /\ outages = 0 /\ taskDeaths = 0

CastInit == Init /\ cast \in Casts
CastNext ==
  /\ \/ \E e \in cast.events : Gateway(e) \/ Prune(e) \/ Age(e)
     \/ \E h \in cast.events \cup cast.sweepers : Handle(h)
     \/ \E s \in cast.sweepers : Sweep(s)
     \/ Mishap
  /\ cast.events = Events => Calm'
  /\ UNCHANGED cast

CastFairness ==
  /\ \A h \in Handlers : WF_vars(Handle(h))
  /\ \A s \in Sweepers : WF_vars(s \in cast.sweepers /\ Sweep(s))
  /\ \A e \in Events : WF_vars(Age(e))
CastSpec == CastInit /\ [][CastNext]_castVars /\ CastFairness
=============================================================================
