----------------------------- MODULE HostClaims -----------------------------
(***************************************************************************)
(* How the Host turns the tokens it observes into the ledger of the        *)
(* authority (BackendLiangService over UsageProjection).  A claim is an    *)
(* absolute figure, the ledger last read plus the local tokens it does not *)
(* hold yet, and the authority keeps the largest figure of the day.        *)
(*                                                                         *)
(* The calls are made over a network that loses, delays and reorders them; *)
(* handlers run to their next await, and what an answer wakes runs before  *)
(* the next event.  The ledger covers what is spent, so the floor that     *)
(* claimableEffectiveTokens puts under a figure never shows and spending   *)
(* is left out.                                                            *)
(***************************************************************************)
EXTENDS Integers, FiniteSetsExt, TLC

CONSTANTS
  Starter,        \* tokens of the welcome gift, 0 when there is none
  Ceiling,        \* absurdClaimTokens: the most one claim adds, 0 for no limit
  Skew,           \* dates an unanchored clock may show, as yesterday (0), today (1), tomorrow (2)
  Calls,          \* calls made besides claims and bootstraps, among "daily", "vote"
  Task, NoTask,   \* bound: claims submitted at a time, and none of them
  LastDay,        \* bound: business days
  MaxTokens,      \* bound: tokens ever observed
  MaxCalls,       \* bound: votes and reads of the daily state
  MaxFaults,      \* bound: calls that fail
  MaxReconciles,  \* bound: repairs asked for by the user
  MaxRestarts     \* bound: restarts of the Host

ASSUME ClaimsAssumption ==
  /\ Skew \subseteq 0 .. 2 /\ Skew # {}
  /\ Calls \subseteq {"daily", "vote"} /\ NoTask \notin Task
  /\ LastDay \in Nat \ {0}
  /\ \A n \in 
       {Starter, Ceiling, MaxTokens, MaxCalls, MaxFaults, MaxReconciles, MaxRestarts} : n \in Nat

VARIABLES
  day,        \* the authority's business date
  row,        \* per date: the installation's incense row, or Unmet
  late,       \* claims the Host gave up on that may still arrive
  local,      \* per date: observed tokens (UsageProjection.daily)
  label,      \* the date the Host's clock shows
  ready,      \* a bootstrap was adopted (bootstrap # null)
  date,       \* businessDate, 0 when unknown
  personal,   \* the ledger last read, or Unknown
  baseline,   \* displayBaseline
  lastSent,   \* lastClaimSent
  up,         \* authorityAvailable
  backoff,    \* no bootstrap is tried for now
  timer,      \* claimTimer is armed
  task,       \* per submitClaim under way: its state
  flying,     \* claimInFlight, or NoTask
  call,       \* the bootstrap, and the other calls, in flight
  observed,   \* history: per date of the authority, tokens observed
  lag,        \* history: "behind" while the baseline misses tokens the ledger read
              \* holds, "claimed" once a claim was made from such books, and
              \* "moved" once one day's bucket was taken for another's
  used        \* bounded acts of the user and of the environment so far

authority == <<day, row, late>>
usage     == <<local, label>>
books     == <<personal, baseline, lastSent>>
seen      == <<ready, date>>
link      == <<up, backoff>>
claims    == <<timer, task, flying>>
history   == <<observed, lag>>
vars      == <<authority, usage, books, seen, link, claims, call, history, used>>
-----------------------------------------------------------------------------
Date    == 0 .. LastDay + 1
Unmet   == [claimed |-> -1, starter |-> 0]
Unknown == Unmet
NoRow   == [claimed |-> 0, starter |-> 0]
Answer(d, ledger, applied) == [date |-> d, ledger |-> ledger, applied |-> applied]
NoAnswer == Answer(0, NoRow, FALSE)
Idle     == [pc |-> "idle", answer |-> NoAnswer]
Asked    == [pc |-> "asked", answer |-> NoAnswer]
Free     == [pc |-> "free", on |-> NoTask, target |-> 0, date |-> 0, vote |-> FALSE, answer |-> NoAnswer]

Least(a, b)   == IF a <= b THEN a ELSE b
Greatest(a, b) == IF a >= b THEN a ELSE b

\* What a row's first contact of the day gives (ensureRow, tryGrantStarter).
Granted(r) == IF r = Unmet THEN [claimed |-> Starter, starter |-> Starter] ELSE r

DoubleCounted(ledger, observedNow) == Least(ledger.claimed, observedNow) \* fault, for Represented
\* syncDisplayBaselineFromLedger: the gift is no proof of a claim.
Represented(ledger, observedNow) ==
  Least(Greatest(0, ledger.claimed - ledger.starter), observedNow)

\* claimableEffectiveTokens
Claimable == IF personal = Unknown THEN local[IF date = 0 THEN label ELSE date]
             ELSE personal.claimed + Greatest(0, local[date] - baseline)

\* refreshBootstrap: one at a time, and none while it backs off.
Refreshed == IF call["bootstrap"].pc = "idle" /\ ~ backoff
             THEN [call EXCEPT !["bootstrap"] = Asked] ELSE call

\* An answer that is no bootstrap replaces the ledger and leaves the baseline:
\* the books are behind when it holds more, or is the ledger of another date.
Overtaken(a, d) ==
  IF lag = "none" /\ (a.date # d \/ baseline < Represented(a.ledger, local[d]))
  THEN "behind" ELSE lag
InStep == IF lag = "behind" THEN "none" ELSE lag
Exempt == lag \in {"claimed", "moved"}

Init ==
  /\ day = 1 /\ row = [d \in 1 .. LastDay |-> Unmet] /\ late = {}
  /\ local = [d \in Date |-> 0] /\ label \in Skew
  /\ ready = FALSE /\ date = 0
  /\ personal = Unknown /\ baseline = 0 /\ lastSent = -1
  /\ up = FALSE /\ backoff = FALSE
  /\ timer = FALSE /\ task = [t \in Task |-> Free] /\ flying = NoTask
  /\ call = [c \in {"bootstrap"} \cup Calls |-> IF c = "bootstrap" THEN Asked ELSE Idle]
  /\ observed = [d \in 1 .. LastDay |-> 0] /\ lag = "none"
  /\ used = [calls |-> 0, faults |-> 0, reconciles |-> 0, restarts |-> 0]
-----------------------------------------------------------------------------
(* The authority.  A call that is lost on its way to it changes nothing     *)
(* but the moment of the day's gift, so only claims arrive late.            *)

Midnight ==
  /\ day < LastDay
  /\ day' = day + 1
  /\ UNCHANGED <<row, late, usage, books, seen, link, claims, call, history, used>>

\* The Host's clock, behind by the delay of the bootstrap that anchored it.
LabelTurns ==
  /\ label < day
  /\ label' = label + 1
  /\ UNCHANGED <<authority, local, books, seen, link, claims, call, history, used>>

\* applyTokenClaim
Applied(target, d) ==
  /\ d = day
  /\ target > Granted(row[day]).claimed

Raised(target, d) ==
  IF d # day THEN row
  ELSE LET r == Granted(row[day]) IN
       [row EXCEPT ![day] = IF ~ Applied(target, d) THEN r
          ELSE [r EXCEPT !.claimed = IF Ceiling > 0 THEN Least(target, @ + Ceiling) ELSE target]]

ClaimArrives(t) ==
  /\ task[t].pc = "asked"
  /\ row' = Raised(task[t].target, task[t].date)
  /\ LET ledger == IF row'[day] = Unmet THEN NoRow ELSE row'[day] IN
     task' = [task EXCEPT ![t].pc = "back",
                          ![t].answer = Answer(day, ledger, Applied(task[t].target, task[t].date))]
  /\ UNCHANGED <<day, late, usage, books, seen, link, timer, flying, call, history, used>>

LateClaim(c) ==
  /\ late' = late \ {c}
  /\ row' = Raised(c.target, c.date)
  /\ UNCHANGED <<day, usage, books, seen, link, claims, call, history, used>>

\* bootstrap, dailyState, and a vote on the case the Host shows: a vote for a
\* day that is over is rejected before the row is made.
CallArrives(c) ==
  /\ call[c].pc = "asked"
  /\ row' = IF c = "vote" /\ date # day THEN row ELSE [row EXCEPT ![day] = Granted(@)]
  /\ LET ledger == IF row'[day] = Unmet THEN NoRow ELSE row'[day] IN
     call' = [call EXCEPT ![c] = [pc |-> "back", answer |-> Answer(day, ledger, FALSE)]]
  /\ UNCHANGED <<day, late, usage, books, seen, link, claims, history, used>>
-----------------------------------------------------------------------------
(* Submitting claims (submitClaim, claimOnce). *)

\* What a submission leads to, once nothing holds it up: a request, or nothing
\* when the ledger holds the figure or the figure was sent before.
Submit(t, forVote) ==
  LET d      == IF date = 0 THEN label ELSE date
      held   == personal # Unknown /\ Claimable <= personal.claimed
      sends  == ~ held /\ Claimable > lastSent
  IN
  /\ lastSent' = IF held THEN Greatest(lastSent, Claimable) ELSE lastSent
  /\ task' = [task EXCEPT ![t] =
                IF sends THEN [Free EXCEPT !.pc = "asked", !.target = Claimable,
                                           !.date = d, !.vote = forVote]
                ELSE Free]
  /\ flying' = IF sends THEN t ELSE flying
  /\ call' = IF forVote /\ ~ sends THEN [call EXCEPT !["vote"] = Asked] ELSE call
  /\ lag' = IF sends /\ lag = "behind" THEN "claimed" ELSE lag

Await(t, forVote) ==
  /\ task' = [task EXCEPT ![t] = [Free EXCEPT !.pc = "waiting", !.on = flying, !.vote = forVote]]
  /\ UNCHANGED <<lastSent, flying, call, lag>>

Begin(t, forVote) == IF flying # NoTask THEN Await(t, forVote) ELSE Submit(t, forVote)

TimerFires(t) ==
  /\ timer /\ task[t] = Free
  /\ timer' = FALSE
  /\ Begin(t, FALSE)
  /\ UNCHANGED <<authority, usage, personal, baseline, seen, link, observed, used>>

\* vote: the claim is flushed first, and the vote is sent whatever becomes of it.
Vote(t) ==
  /\ "vote" \in Calls /\ up /\ used.calls < MaxCalls
  /\ used' = [used EXCEPT !.calls = @ + 1]
  /\ call["vote"].pc = "idle" /\ task[t] = Free /\ \A s \in Task : ~ task[s].vote
  /\ timer' = FALSE
  /\ Begin(t, TRUE)
  /\ UNCHANGED <<authority, usage, personal, baseline, seen, link, observed>>

\* A submission that waited for a claim goes on, whatever is in flight by now.
Resume(t) ==
  /\ task[t].pc = "resumed"
  /\ Submit(t, task[t].vote)
  /\ UNCHANGED <<authority, usage, personal, baseline, seen, link, timer, observed, used>>

NotCleared == flying  \* fault, for Landed
Landed     == NoTask

\* The end of claimOnce: claimInFlight is cleared, whichever claim it holds by
\* now, and what waited for this one resumes.
Settle(t) ==
  /\ flying' = Landed
  /\ task' = [s \in Task |->
                IF s = t THEN Free
                ELSE IF task[s].on = t
                     THEN [task[s] EXCEPT !.pc = "resumed", !.on = NoTask] ELSE task[s]]
  /\ call' = IF task[t].vote THEN [call EXCEPT !["vote"] = Asked] ELSE call

FreshDay == -1
OldBaseline(observedNow, ledger) == baseline  \* fault, for InLedger
InLedger(observedNow, ledger)    == Least(observedNow, ledger.claimed)

ClaimAnswered(t) ==
  /\ task[t].pc = "back"
  /\ LET a == task[t].answer IN
     /\ up' = TRUE /\ personal' = a.ledger /\ date' = a.date
     /\ \/ /\ a.date # task[t].date
           /\ lastSent' = FreshDay
           /\ baseline' = Represented(a.ledger, local[a.date])
           /\ timer' = TRUE /\ lag' = InStep
        \/ /\ a.date = task[t].date /\ ~ a.applied
           /\ lastSent' = Greatest(lastSent, Least(task[t].target, a.ledger.claimed))
           /\ lag' = Overtaken(a, a.date)
           /\ UNCHANGED <<baseline, timer>>
        \/ /\ a.date = task[t].date /\ a.applied
           /\ lastSent' = task[t].target
           /\ baseline' = InLedger(local[a.date], a.ledger)
           /\ lag' = InStep
           /\ UNCHANGED timer
  /\ Settle(t)
  /\ UNCHANGED <<authority, usage, ready, backoff, observed, used>>

ClaimFails(t) ==
  /\ task[t].pc \in {"asked", "back"} /\ used.faults < MaxFaults
  /\ used' = [used EXCEPT !.faults = @ + 1]
  /\ late' = IF task[t].pc = "asked"
             THEN late \cup {[target |-> task[t].target, date |-> task[t].date]} ELSE late
  /\ up' = FALSE
  /\ Settle(t)
  /\ UNCHANGED <<day, row, usage, books, seen, backoff, timer, history>>
-----------------------------------------------------------------------------
(* Reading the authority. *)

\* alignDailyBucket, under the date the clock showed before this bootstrap.
Aligned(d) ==
  IF label = d THEN local
  ELSE [local EXCEPT ![d] = @ + local[label], ![label] = 0]

Adopt ==
  /\ call["bootstrap"].pc = "back"
  /\ LET a == call["bootstrap"].answer IN
     /\ ready' = TRUE /\ date' = a.date /\ personal' = a.ledger
     /\ local' = Aligned(a.date)
     /\ label' = a.date
     /\ baseline' = Represented(a.ledger, local'[a.date])
     /\ lag' = IF label # a.date /\ local[label] > 0 THEN "moved" ELSE InStep
  /\ lastSent' = FreshDay
  /\ up' = TRUE /\ backoff' = FALSE /\ timer' = TRUE
  /\ call' = [call EXCEPT !["bootstrap"] = Idle]
  /\ UNCHANGED <<authority, task, flying, observed, used>>

\* daily-state, and the personal state in the answer to a vote.
PersonalRead(c) ==
  /\ c \in Calls /\ call[c].pc = "back"
  /\ LET a == call[c].answer IN
     /\ IF c = "daily" /\ a.date # date THEN UNCHANGED <<personal, up, lag>>
        ELSE /\ personal' = a.ledger /\ up' = TRUE
             /\ lag' = Overtaken(a, date)
     /\ call' = [IF a.date # date THEN Refreshed ELSE call EXCEPT ![c] = Idle]
  /\ UNCHANGED <<authority, usage, baseline, lastSent, seen, backoff, claims, observed, used>>

CallFails(c) ==
  /\ call[c].pc \in {"asked", "back"} /\ used.faults < MaxFaults
  /\ used' = [used EXCEPT !.faults = @ + 1]
  /\ call' = [call EXCEPT ![c] = Idle]
  /\ up' = FALSE /\ backoff' = (backoff \/ c = "bootstrap")
  /\ UNCHANGED <<authority, usage, books, seen, claims, history>>

BackoffEnds ==
  /\ backoff /\ backoff' = FALSE
  /\ UNCHANGED <<authority, usage, books, seen, up, claims, call, history, used>>

Down == ~ up \/ ~ ready                \* fault, for Due: the date is not compared
Due  == ~ up \/ ~ ready \/ date # day

\* tick: an authority that failed is tried again, and a public snapshot of
\* another date asks for a bootstrap.
Tick ==
  /\ Due
  /\ Refreshed # call
  /\ call' = Refreshed
  /\ UNCHANGED <<authority, usage, books, seen, link, claims, history, used>>

\* refreshNow: the user opens the panel.
Open ==
  /\ Refreshed # call
  /\ call' = Refreshed
  /\ UNCHANGED <<authority, usage, books, seen, link, claims, history, used>>

\* The snapshot of a tick fails.
SnapshotFails ==
  /\ up /\ used.faults < MaxFaults
  /\ used' = [used EXCEPT !.faults = @ + 1]
  /\ up' = FALSE
  /\ UNCHANGED <<authority, usage, books, seen, backoff, claims, call, history>>

RefreshPersonal ==
  /\ "daily" \in Calls /\ up /\ ready /\ call["daily"].pc = "idle"
  /\ used.calls < MaxCalls
  /\ used' = [used EXCEPT !.calls = @ + 1]
  /\ call' = [call EXCEPT !["daily"] = Asked]
  /\ UNCHANGED <<authority, usage, books, seen, link, claims, history>>
-----------------------------------------------------------------------------
(* The user's work, repairs and restarts. *)

Observe ==
  /\ FoldFunctionOnSet(+, 0, observed, DOMAIN observed) < MaxTokens
  /\ observed' = [observed EXCEPT ![day] = @ + 1]
  /\ local' = [local EXCEPT ![label] = @ + 1]
  /\ IF ready /\ label # date
     THEN call' = Refreshed /\ UNCHANGED timer
     ELSE timer' = TRUE /\ UNCHANGED call
  /\ UNCHANGED <<authority, label, books, seen, link, task, flying, lag, used>>

\* reconcileNow
Reconcile ==
  /\ used.reconciles < MaxReconciles
  /\ used' = [used EXCEPT !.reconciles = @ + 1]
  /\ local' = [d \in Date |-> 0]
  /\ lastSent' = -1 /\ baseline' = 0
  /\ call' = Refreshed
  /\ UNCHANGED <<authority, label, personal, seen, link, claims, history>>

\* A new process has the persisted totals and no anchor for its clock.
Restart ==
  /\ used.restarts < MaxRestarts
  /\ used' = [used EXCEPT !.restarts = @ + 1]
  /\ label' \in {day + s - 1 : s \in Skew}
  /\ ready' = FALSE /\ date' = 0
  /\ personal' = Unknown /\ baseline' = 0 /\ lastSent' = -1
  /\ up' = FALSE /\ backoff' = FALSE
  /\ timer' = FALSE /\ task' = [t \in Task |-> Free] /\ flying' = NoTask
  /\ late' = late \cup {[target |-> task[t].target, date |-> task[t].date] :
                          t \in {s \in Task : task[s].pc = "asked"}}
  /\ call' = [c \in DOMAIN call |-> IF c = "bootstrap" THEN Asked ELSE Idle]
  /\ lag' = InStep
  /\ UNCHANGED <<day, row, local, observed>>
-----------------------------------------------------------------------------
\* What an answer woke runs before the process takes another event.
Woken == \E t \in Task : task[t].pc = "resumed"

Host ==
  \/ Adopt \/ BackoffEnds \/ Tick \/ SnapshotFails \/ RefreshPersonal
  \/ \E t \in Task : TimerFires(t) \/ ClaimAnswered(t) \/ ClaimFails(t)
  \/ \E c \in DOMAIN call : PersonalRead(c) \/ CallFails(c)

User == Open \/ Observe \/ Reconcile \/ \E t \in Task : Vote(t)

Network ==
  \/ \E t \in Task : ClaimArrives(t)
  \/ \E c \in DOMAIN call : CallArrives(c)
  \/ \E c \in late : LateClaim(c)

Next ==
  \/ Midnight \/ LabelTurns \/ Network \/ Restart
  \/ \E t \in Task : Resume(t)
  \/ ~ Woken /\ (Host \/ User)

Spec == Init /\ [][Next]_vars

Symmetry == Permutations(Task)
-----------------------------------------------------------------------------
Row     == [claimed : Nat, starter : {0, Starter}]
Answers == [date : 0 .. LastDay, ledger : Row, applied : BOOLEAN]

TypeOK ==
  /\ day \in 1 .. LastDay /\ row \in [1 .. LastDay -> Row \cup {Unmet}]
  /\ late \subseteq [target : Nat, date : Date]
  /\ local \in [Date -> Nat] /\ label \in Date
  /\ ready \in BOOLEAN /\ date \in 0 .. LastDay
  /\ personal \in Row \cup {Unknown}
  /\ baseline \in Nat /\ lastSent \in Nat \cup {-1}
  /\ up \in BOOLEAN /\ backoff \in BOOLEAN /\ timer \in BOOLEAN
  /\ flying \in Task \cup {NoTask}
  /\ task \in [Task -> [pc : {"free", "waiting", "resumed", "asked", "back"},
                        on : Task \cup {NoTask}, target : Nat, date : Date, vote : BOOLEAN, answer : Answers]]
  /\ call \in [{"bootstrap"} \cup Calls -> [pc : {"idle", "asked", "back"}, answer : Answers]]
  /\ flying # NoTask => task[flying].pc \in {"asked", "back"}
  /\ \A t \in Task : task[t].pc = "waiting" <=> task[t].on # NoTask
  /\ observed \in [1 .. LastDay -> Nat] /\ lag \in {"none", "behind", "claimed", "moved"}

\* The ledger of a day holds no token of another day, and none twice, as long
\* as no claim was made from books that were behind and no bucket was moved
\* (submitClaim 626-652, claimOnce 654-694, syncDisplayBaselineFromLedger 702-708).
OwnDay ==
  \A d \in 1 .. LastDay :
    row[d] # Unmet /\ ~ Exempt => row[d].claimed - row[d].starter <= observed[d]

\* An exemption never ends: an instance need not look further once it has begun.
Accounted == ~ Exempt

\* What network and scheduler are trusted with: a call is answered or fails,
\* timers fire, and the answers of an authority that is back are taken.
Fairness ==
  /\ WF_vars(Tick) /\ WF_vars(BackoffEnds) /\ SF_vars(Adopt)
  /\ WF_vars(\E t \in Task : TimerFires(t)) /\ WF_vars(\E t \in Task : Resume(t))
  /\ \A t \in Task : WF_vars(ClaimArrives(t)) /\ SF_vars(ClaimAnswered(t))
  /\ \A c \in {"bootstrap"} \cup Calls : WF_vars(CallArrives(c)) /\ SF_vars(PersonalRead(c))

FairSpec == Spec /\ Fairness

\* Tokens the Host observed for this day that the ledger does not hold.
Short == date = day /\ row[day].claimed - row[day].starter < local[day]

\* While the panel is opened now and then, the tokens observed for the day
\* reach the ledger, on top of the gift, whatever was lost, refused or overtaken.
AllClaimed == []<>(call["bootstrap"].pc = "back") => []<>~ Short

\* The Host's date reaches the authority's, also after an old answer set it back.
Follows == []<>(date = day)
=============================================================================
