------------------------------- MODULE SignIn -------------------------------
(****************************************************************************)
(* The password of the merchant console (merchant/routes.py) and of the     *)
(* dashboard (dashboard/auth.py): one shared password, wrong guesses        *)
(* counted per address in a sliding window, then a lockout.  Each process   *)
(* keeps two maps in memory, the failures and the locks, and sweeps dead    *)
(* entries out of them once they are large.  The clock counts whole seconds *)
(* (the console's int() opens its door up to a second before the lock ends).*)
(****************************************************************************)
EXTENDS Integers, Sequences, FiniteSets, SequencesExt, Lists

CONSTANTS
  Screens,      \* the doors this instance may be, "console" or "dashboard"
  Guessers,     \* addresses a guess comes from
  GuessWindow,  \* _LOGIN_WINDOW_SECONDS
  MaxFailures,  \* _LOGIN_MAX_FAILURES
  Lockout,      \* _LOGIN_LOCKOUT_SECONDS
  GcAt,         \* _LOGIN_GC_AT: entries of both maps from which the sweep runs
  SignClock     \* bound on the clock

ASSUME SignInAssumption ==
  /\ Screens \subseteq {"console", "dashboard"} /\ IsFiniteSet(Guessers)
  /\ {GuessWindow, SignClock, GcAt} \subseteq Nat /\ MaxFailures \in Nat \ {0}
  /\ Lockout \in Nat /\ GuessWindow < Lockout

VARIABLES
  screen,   \* the door that is modelled, one of Screens
  now,      \* time.monotonic()
  bucket,   \* _LOGIN_FAILURES: the failures of the addresses it has an entry for
  until,    \* _LOGIN_LOCKED_UNTIL, of the addresses it has an entry for
  guesses   \* the latest wrong guesses compared since the address last signed in
signVars == <<screen, now, bucket, until, guesses>>

NoEntry == [k \in {} |-> 0]
SignInit ==
  /\ screen \in Screens /\ now = 0 /\ bucket = NoEntry /\ until = NoEntry
  /\ guesses = [k \in Guessers |-> <<>>]

Only(map, keys) == [k \in keys |-> map[k]]
LockedOut(k) == k \in DOMAIN until /\ until[k] > now

\* _gc_login_state: buckets whose newest failure has left the window, expired locks.
Dead(failures) == failures = <<>> \/ now - Last(failures) > GuessWindow
Sweeping == Cardinality(DOMAIN bucket) + Cardinality(DOMAIN until) >= GcAt
LiveBuckets == IF ~Sweeping THEN bucket
               ELSE Only(bucket, {k \in DOMAIN bucket : ~Dead(bucket[k])})
LiveLocks == IF ~Sweeping THEN until
             ELSE Only(until, {k \in DOMAIN until : until[k] > now})

\* _record_login_failure: the failures still in the window, and this one.
CountedFailures(k) ==
  LET kept == IF k \in DOMAIN LiveBuckets THEN LiveBuckets[k] ELSE <<>>
  IN Append(Kept(kept, (now - GuessWindow)..now), now)
With(map, k, value) == [j \in DOMAIN map \cup {k} |-> IF j = k THEN value ELSE map[j]]

Recent(times) == Kept(times, (now - GuessWindow - Lockout)..now)

\* login_submit: a locked address is not even compared.
WrongGuess(k) ==
  /\ ~LockedOut(k)
  /\ LET failures == CountedFailures(k)
         full == Len(failures) >= MaxFailures
     IN /\ bucket' = With(LiveBuckets, k, IF full THEN <<>> ELSE failures)
        /\ until' = IF full THEN With(LiveLocks, k, now + Lockout) ELSE LiveLocks
  /\ guesses' = [guesses EXCEPT ![k] = Recent(Append(@, now))]
  /\ UNCHANGED <<screen, now>>

\* The console forgets the failures of the address, the dashboard its lock too.
RightGuess(k) ==
  /\ ~LockedOut(k)
  /\ bucket' = Only(bucket, DOMAIN bucket \ {k})
  /\ until' = IF screen = "console" THEN until ELSE Only(until, DOMAIN until \ {k})
  /\ guesses' = [guesses EXCEPT ![k] = <<>>]
  /\ UNCHANGED <<screen, now>>

\* The process starts again with empty maps; what went before is nobody's count.
DoorRestarts ==
  /\ bucket # NoEntry /\ bucket' = NoEntry /\ until' = NoEntry
  /\ guesses' = [k \in Guessers |-> <<>>]
  /\ UNCHANGED <<screen, now>>

SecondPasses == now < SignClock /\ now' = now + 1 /\ UNCHANGED <<screen, bucket, until, guesses>>

SignNext == \/ \E k \in Guessers : WrongGuess(k) \/ RightGuess(k)
            \/ DoorRestarts \/ SecondPasses
SignSpec == SignInit /\ [][SignNext]_signVars

----------------------------------------------------------------------------
\* Properties

SignTypeOK ==
  /\ screen \in Screens /\ now \in 0..SignClock
  /\ DOMAIN bucket \subseteq Guessers /\ DOMAIN until \subseteq Guessers
  /\ \A k \in DOMAIN bucket : Len(bucket[k]) < MaxFailures

\* "Six a minute, then the door closes for five" (merchant/routes.py): wherever six guesses
\* of an address fall within a minute, its next one is compared five minutes later at the
\* soonest, whatever is swept out of the maps on behalf of others.
GuessesBounded ==
  \A k \in Guessers : \A i \in 1..(Len(guesses[k]) - MaxFailures) :
    LET last == i + MaxFailures - 1
    IN guesses[k][last] - guesses[k][i] <= GuessWindow
         => guesses[k][last + 1] - guesses[k][last] >= Lockout
=============================================================================
