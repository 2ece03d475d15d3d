---------------------------- MODULE CustomerPages ----------------------------
(****************************************************************************)
(* The signed links and the pages they open (recovery_link.py,              *)
(* customer/routes.py): one page per case, the home page that lists a       *)
(* person's cases, the statement that lists a buyer account's invoices.     *)
(* A page grants nothing itself: it hands out the link of each case.  The   *)
(* stop button of any of them withdraws the person's consent.               *)
(****************************************************************************)
EXTENDS Integers, FiniteSets

CONSTANTS
  PageCases,     \* recovery cases
  Buyers, Books, \* people the engine can tell apart; buyer accounts
  Ties,          \* [owner, book]: whose the cases are (Anyone if the event named
                 \* nobody), and the account of each invoice (else NoBook)
  Newer,         \* Newer[c]: opened_at, as a rank
  Anyone, NoBook,
  LinkHours,     \* how long a link lives: 24 hours, or the consent window if shorter
  ConsoleHours,  \* how long the console's link lives: an hour
  Consent,       \* hours after its opening in which a case may be paid
  PageClock      \* bound on the clock

ASSUME PagesAssumption ==
  /\ IsFiniteSet(PageCases) /\ Anyone \notin Buyers /\ NoBook \notin Books
  /\ Ties \subseteq [owner: [PageCases -> Buyers \cup {Anyone}],
                     book: [PageCases -> Books \cup {NoBook}]]
  /\ Newer \in [PageCases -> Nat]
  /\ {LinkHours, ConsoleHours, Consent, PageClock} \subseteq Nat

VARIABLES
  tie,       \* customer_id and account_id of the cases, one of Ties
  hour,      \* the clock
  standing,  \* recovery_cases.state
  paid,      \* amount_recovered: none, a part, or all of amount_at_risk
  flight,    \* when the attempt still "pending" was made, NotFlying if there is none
  wallet,    \* per link: the hour until which the best copy handed out is valid
  stopped    \* the cases a stop request was about
pagesVars == <<tie, hour, standing, paid, flight, wallet, stopped>>

NotFlying == -1
Confirming == 1       \* CONFIRMING_WINDOW, in hours
Closings == {"exhausted", "abandoned", "expired"}

\* The link of a case, of the home page of a case's owner, of a statement.
Links == ({"recover", "mine"} \X PageCases) \cup ({"statement"} \X Books)
PagesInit ==
  /\ tie \in Ties /\ hour = 0 /\ standing = [c \in PageCases |-> "open"]
  /\ paid = [c \in PageCases |-> "none"] /\ flight = [c \in PageCases |-> NotFlying]
  /\ wallet = [link \in Links |-> 0] /\ stopped = {}

----------------------------------------------------------------------------
\* recovery_link: one signed payload names a scope, a subject and an expiry, and
\* each page accepts its own scope only.

LaterHour(a, b) == IF a < b THEN b ELSE a
Mint(links, hours) ==
  wallet' = [link \in Links |-> IF link \in links THEN LaterHour(wallet[link], hour + hours)
                                ELSE wallet[link]]
Opens(page, subject) == wallet[<<page, subject>>] > hour

----------------------------------------------------------------------------
\* _view_state

PastConsent == hour > Consent
View(c) ==
  CASE standing[c] = "recovered" \/ paid[c] = "all" -> "recovered"
    [] standing[c] = "opted_out" -> "opted_out"
    [] flight[c] # NotFlying ->
         IF hour - flight[c] < Confirming THEN "confirming" ELSE "unknown"
    [] standing[c] \in Closings \/ PastConsent -> "stopped"
    [] OTHER -> "payable"

OpenCases(cases) == {c \in cases : standing[c] = "open"}
\* ledger_keys: nobody owns an anonymous case, so it is nobody's "mine".
Belongings(c) == IF tie.owner[c] = Anyone THEN {}
                 ELSE {d \in PageCases : tie.owner[d] = tie.owner[c]}

----------------------------------------------------------------------------
\* The pages

\* recovery_page: offers the home page when it leads anywhere else.
OpenPage(c) ==
  /\ Opens("recover", c)
  /\ OpenCases(Belongings(c)) \ {c} # {}
  /\ Mint({<<"mine", c>>}, LinkHours)
  /\ UNCHANGED <<tie, hour, standing, paid, flight, stopped>>

\* customer_home: every case of the owner, with its link, split in two.
Settled(c) ==
  standing[c] \in {"recovered", "opted_out", "abandoned", "expired"} \/ paid[c] = "all"
OpenRows(c) == {d \in Belongings(c) : ~Settled(d)}
OpenHome(c) ==
  /\ Opens("mine", c) /\ Belongings(c) # {}
  /\ Mint({"recover"} \X Belongings(c), LinkHours)
  /\ UNCHANGED <<tie, hour, standing, paid, flight, stopped>>

\* statement_page: the account's open invoices, each with its link.
StatementRows(b) == OpenCases({c \in PageCases : tie.book[c] = b})
OpenStatement(b) ==
  /\ Opens("statement", b)
  /\ Mint({"recover"} \X StatementRows(b), LinkHours)
  /\ UNCHANGED <<tie, hour, standing, paid, flight, stopped>>

----------------------------------------------------------------------------
\* The stop button

\* record_opt_out closes what is open of the same person; a case of nobody's closes
\* alone.
\* Variant: the stop ends the case on the screen.
StopsOnScreen(c) == {c}
Stops(c) == OpenCases(IF tie.owner[c] = Anyone THEN {c} ELSE Belongings(c))
StopFrom(c) ==
  /\ standing' = [d \in PageCases |-> IF d \in Stops(c) THEN "opted_out" ELSE standing[d]]
  /\ stopped' = stopped \cup OpenCases({c} \cup Belongings(c))
  /\ UNCHANGED <<tie, hour, paid, flight, wallet>>
OptOutOn(c) == Opens("recover", c) /\ StopFrom(c)

\* The button of the home page is its newest case's; that of the statement is the
\* oldest open invoice's.
Newest(cases) == CHOOSE c \in cases : \A d \in cases : Newer[d] <= Newer[c]
First(cases) == CHOOSE c \in cases : \A d \in cases : Newer[c] <= Newer[d]
HomeStop(c) == Opens("mine", c) /\ Belongings(c) # {} /\ StopFrom(Newest(Belongings(c)))
StatementStop(b) ==
  /\ Opens("statement", b) /\ StatementRows(b) # {}
  /\ StopFrom(First(StatementRows(b)))

----------------------------------------------------------------------------
\* start_payment: the page's own state decides, read again before the row is written.
PressPay(c) ==
  /\ Opens("recover", c) /\ View(c) = "payable"
  /\ flight' = [flight EXCEPT ![c] = hour]
  /\ UNCHANGED <<tie, hour, standing, paid, wallet, stopped>>

\* The link was minted, or could not be: the attempt is no longer pending.
PayResolves(c) ==
  /\ flight[c] # NotFlying /\ flight' = [flight EXCEPT ![c] = NotFlying]
  /\ UNCHANGED <<tie, hour, standing, paid, wallet, stopped>>

----------------------------------------------------------------------------
\* Around the pages

\* A nudge carries its case's link, a ladder message its account's.
SendCaseLink(c) ==
  /\ standing[c] = "open" /\ Mint({<<"recover", c>>}, LinkHours)
  /\ UNCHANGED <<tie, hour, standing, paid, flight, stopped>>
SendStatement(b) ==
  /\ StatementRows(b) # {} /\ Mint({<<"statement", b>>}, LinkHours)
  /\ UNCHANGED <<tie, hour, standing, paid, flight, stopped>>

\* console_customer_open: any case, for as long as the operator looks.
ConsoleOpens(c) ==
  /\ Mint({<<"recover", c>>}, ConsoleHours)
  /\ UNCHANGED <<tie, hour, standing, paid, flight, stopped>>

\* The engine's own attempt is in flight, or is the last one.
EngineTries(c) ==
  /\ standing[c] = "open" /\ flight[c] = NotFlying
  /\ flight' = [flight EXCEPT ![c] = hour]
  /\ standing' \in {standing, [standing EXCEPT ![c] = "exhausted"]}
  /\ UNCHANGED <<tie, hour, paid, wallet, stopped>>
CloseAs(c) ==
  /\ standing[c] = "open"
  /\ standing' \in {[standing EXCEPT ![c] = closing] : closing \in {"abandoned", "expired"}}
  /\ UNCHANGED <<tie, hour, paid, flight, wallet, stopped>>

\* attribute_capture: part of the sum leaves the case open.
Captured(c) ==
  /\ paid[c] # "all"
  /\ \/ paid' = [paid EXCEPT ![c] = "part"] /\ UNCHANGED standing
     \/ /\ paid' = [paid EXCEPT ![c] = "all"]
        /\ standing' = [standing EXCEPT ![c] = "recovered"]
  /\ UNCHANGED <<tie, hour, flight, wallet, stopped>>

HourPasses ==
  /\ hour < PageClock /\ hour' = hour + 1
  \* A link that has run out is as good as none.
  /\ wallet' = [link \in Links |-> IF wallet[link] <= hour + 1 THEN 0 ELSE wallet[link]]
  /\ UNCHANGED <<tie, standing, paid, flight, stopped>>

PagesNext ==
  \/ \E c \in PageCases :
       \/ OpenPage(c) \/ OpenHome(c) \/ OptOutOn(c) \/ HomeStop(c) \/ PressPay(c)
       \/ PayResolves(c) \/ SendCaseLink(c) \/ ConsoleOpens(c) \/ EngineTries(c)
       \/ CloseAs(c) \/ Captured(c)
  \/ \E b \in Books : OpenStatement(b) \/ StatementStop(b) \/ SendStatement(b)
  \/ HourPasses
PagesSpec == PagesInit /\ [][PagesNext]_pagesVars

----------------------------------------------------------------------------
\* Properties

PagesTypeOK ==
  /\ tie \in Ties /\ hour \in 0..PageClock
  /\ standing \in [PageCases -> {"open", "recovered", "opted_out"} \cup Closings]
  /\ paid \in [PageCases -> {"none", "part", "all"}]
  /\ flight \in [PageCases -> {NotFlying} \cup (0..PageClock)]
  /\ wallet \in [Links -> 0..(PageClock + LinkHours + ConsoleHours)]
  /\ stopped \subseteq PageCases

\* The lists and the pages agree: what a person can pay is among the open rows of
\* their home page and, for an invoice, on the account's statement, whatever was
\* captured in part, tried or closed since ("where to find it").
NothingPayableIsHidden ==
  \A c \in PageCases : View(c) = "payable" =>
    /\ tie.owner[c] # Anyone => c \in OpenRows(c)
    /\ tie.book[c] # NoBook => c \in StatementRows(tie.book[c])

\* Once a person has pressed stop on any page, no page offers payment again for any
\* case of theirs that was open, with whatever link it is reached ("a customer
\* pressing stop and getting offered payment again is the exact complaint an
\* opt-out exists to prevent").
StopHolds == \A c \in stopped : View(c) # "payable"

\* What a person is shown on one page another does not belie: what they can pay is where
\* the lists say, and a stop holds on all of them.
PagesAgree == NothingPayableIsHidden /\ StopHolds
=============================================================================
