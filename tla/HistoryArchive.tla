-------------------------- MODULE HistoryArchive --------------------------
(***************************************************************************)
(* The hall of past cases.  On the backend: the day roll-over that freezes *)
(* ended days, weeks and months under one archive version and takes the    *)
(* next title from the schedule; the operator commands that touch either;  *)
(* and the answer to a history request, which is read in several           *)
(* statements outside any transaction.  On the way out: the last good      *)
(* copy the Host keeps and the one the browser keeps, both brought up to   *)
(* date by version cursors over requests that may fail.                    *)
(*                                                                         *)
(* Votes are one stick each, and directions are left out: archives add     *)
(* votes and count voters.  Weeks and months are blocks of Span dates      *)
(* that do not line up, as ISO weeks and calendar months do not.           *)
(***************************************************************************)
EXTENDS Integers, Sequences, FiniteSets, FiniteSetsExt

CONSTANTS
  Voter,
  LastDay,      \* bound: business dates are 1 .. LastDay
  Span,         \* dates of a week and of a month
  BankSize,     \* titles of the built-in bank
  MaxQueued,    \* bound: rows ever put on the schedule
  ScheduleDay,  \* bound: dates titles are scheduled for (0 for no date)
  Event,        \* bound: the operator commands, and Host restarts, that happen,
  EventDay,     \*        on these dates,
  MaxEvents     \*        so many in all

ASSUME HistoryAssumption ==
  /\ LastDay \in Nat \ {0} /\ Span \in Nat \ {0} /\ BankSize \in Nat
  /\ MaxQueued \in Nat /\ MaxEvents \in Nat
  /\ EventDay \subseteq Nat /\ ScheduleDay \subseteq Nat
  /\ Event \subseteq {"restart", "status", "publish", "clear", "add", "seed", "replace"}

VARIABLES
  clock,       \* today, on the backend's clock
  caseStatus,  \* daily_liang_case
  title,       \* daily_liang_case.title
  ballots,     \* liang_vote
  version,     \* liang_archive_meta
  dayRow,      \* liang_day_archive
  periodRow,   \* liang_week_archive, liang_month_archive
  queue,       \* case_queue, in order of insertion
  proc,        \* the server's handler and the operator's command in progress
  adopted,     \* what the Host last adopted: date, case, archive version
  poll,        \* its snapshot or bootstrap request
  cache,       \* its last good archive
  fetch,       \* its history request
  framed,      \* the last frame of the browser
  front,       \* the browser's last good archive
  load,        \* the browser's history request
  shown,       \* ghost: schedule rows whose title was put on a case
  mishap,      \* ghost: what happened that the archives do not survive
  events

database == <<caseStatus, title, ballots, version, dayRow, periodRow, queue, shown>>
outside  == <<adopted, poll, cache, fetch, framed, front, load>>
historyVars == <<clock, database, proc, outside, mishap, events>>
-----------------------------------------------------------------------------
Server == "server"
Cli    == "cli"
Day    == 1 .. LastDay
CaseId == Day \X {"daily", "published"}
NoCase == <<0, "daily">>
OnDate(c) == c[1]

(* isoWeekFor and monthFor: which period a date is in, and its bounds.      *)
Kind == {"week", "month"}
WeekOf(d)  == (d - 1) \div Span
MonthOf(d) == d \div Span
PeriodOf(k, d) == IF k = "week" THEN WeekOf(d) ELSE MonthOf(d)
PeriodId == 0 .. LastDay
Dates(k, id) == {d \in Day : PeriodOf(k, d) = id}
EndOf(k, id) == IF k = "week" THEN (id + 1) * Span ELSE (id + 1) * Span - 1

\* Titles: the bank's are 1 .. BankSize, the n-th scheduled one is BankSize + n,
\* and 0 is any title given by hand (or the configured first one).
ByHand == 0
Title  == 0 .. BankSize + MaxQueued

Row   == [v : Nat, total : Nat, voters : Nat, n : Nat]
NoRow == [v |-> 0, total |-> 0, voters |-> 0, n |-> 0]

CasesOn(d)  == {c \in CaseId : OnDate(c) = d /\ caseStatus[c] # "none"}
ActiveOn(d) == {c \in CaseId : OnDate(c) = d /\ caseStatus[c] = "active"}
BallotsIn(ds)      == {b \in ballots : OnDate(b[2]) \in ds}
UniqueVoters(ds)   == {b[1] : b \in BallotsIn(ds)}
CountVoters(ds)    == Cardinality(UniqueVoters(ds))

\* An archive as Host and browser hold it: rows by key, the distinct voters of
\* the running week and month, and whether the last refresh failed.
NoArchive == [v |-> -1]
Dated(rows)      == {d \in Day : rows[d] # NoRow}
EmptyArchive     == [v |-> 0, days |-> [d \in Day |-> NoRow],
                     periods |-> [k \in Kind |-> [i \in PeriodId |-> NoRow]],
                     voters |-> [k \in Kind |-> 0], stale |-> FALSE]
Archive == [v : Nat, days : [Day -> Row], periods : [Kind -> [PeriodId -> Row]],
            voters : [Kind -> Nat], stale : BOOLEAN]

Idle  == [pc |-> "idle", kind |-> "none", day |-> 0, checked |-> 0, held |-> NoCase,
          cursor |-> -1, found |-> NoArchive, plan |-> <<>>]
NoReq == [st |-> "idle"]
NoHost == [date |-> 0, case |-> NoCase, v |-> 0]
-----------------------------------------------------------------------------
HistoryInit ==
  /\ clock = 1
  /\ caseStatus = [c \in CaseId |-> "none"] /\ title = [c \in CaseId |-> ByHand]
  /\ ballots = {} /\ version = 0
  /\ dayRow = EmptyArchive.days /\ periodRow = EmptyArchive.periods
  /\ queue = <<>> /\ shown = {}
  /\ proc = [p \in {Server, Cli} |-> Idle]
  /\ adopted = NoHost /\ poll = NoReq /\ cache = NoArchive /\ fetch = NoReq
  /\ framed = [date |-> 0, v |-> 0] /\ front = NoArchive /\ load = NoReq
  /\ mishap = {}
  /\ events = 0

\* A call outlives one midnight at most: it waits for the write lock a few
\* seconds, never a day.
Midnight ==
  /\ clock < LastDay
  /\ \A p \in DOMAIN proc : proc[p].pc = "idle" \/ proc[p].day = clock
  /\ clock' = clock + 1
  /\ UNCHANGED <<database, proc, outside, mishap, events>>

Begins(p, kind) ==
  /\ proc[p].pc = "idle"
  /\ proc' = [proc EXCEPT ![p] = [@ EXCEPT !.pc = "ensure", !.kind = kind, !.day = clock]]

Done(p) == [Idle EXCEPT !.checked = IF p = Server THEN proc[p].checked ELSE 0]
Finish(p) == proc' = [proc EXCEPT ![p] = Done(p)]
-----------------------------------------------------------------------------
(* The roll-over: ensureActiveCase and finalizeArchivesInTransaction.       *)

UnarchivedBefore(d) == {x \in Day : x < d /\ CasesOn(x) # {} /\ dayRow[x] = NoRow}

\* fault: a period that ends today counts as ended
DueEarly(k, d) ==
  {i \in PeriodId : /\ EndOf(k, i) <= d /\ periodRow[k][i] = NoRow
                    /\ Dates(k, i) \cap (Dated(dayRow) \cup UnarchivedBefore(d)) # {}}

\* Periods that ended before d, hold an archived date, and are not sealed yet.
Due(k, d) ==
  {i \in PeriodId : /\ EndOf(k, i) < d /\ periodRow[k][i] = NoRow
                    /\ Dates(k, i) \cap (Dated(dayRow) \cup UnarchivedBefore(d)) # {}}

NothingDue(d) == UnarchivedBefore(d) = {} /\ \A k \in Kind : Due(k, d) = {}

\* One version for all rows of a roll-over.
NextVersion(d) == IF NothingDue(d) THEN version ELSE version + 1

DaySource(d, v) == [v |-> v, total |-> Cardinality(BallotsIn({d})),
                    voters |-> CountVoters({d}), n |-> Cardinality(CasesOn(d))]

DaysAfter(d) ==
  [x \in Day |-> IF x \in UnarchivedBefore(d) THEN DaySource(x, NextVersion(d)) ELSE dayRow[x]]

\* What the archived days of a period add up to.
TotalOf(days, covered) == SumFunctionOnSet([x \in covered |-> days[x].total], covered)

PeriodSource(k, i, days, v) ==
  LET covered == Dates(k, i) \cap Dated(days)
  IN [v |-> v, total |-> TotalOf(days, covered),
      voters |-> CountVoters(Dates(k, i)), n |-> Cardinality(covered)]

PeriodsAfter(d) ==
  [k \in Kind |-> [i \in PeriodId |->
    IF i \in Due(k, d) THEN PeriodSource(k, i, DaysAfter(d), NextVersion(d))
    ELSE periodRow[k][i]]]

(* The schedule: the earliest dated title that is due, else the first       *)
(* undated one, else the next of the bank.                                  *)
Pending == {n \in DOMAIN queue : queue[n].state = "pending"}

DueTitles(d) ==
  {n \in Pending : queue[n].on # 0 /\ queue[n].on <= d
                   /\ \A m \in Pending : queue[m].on # 0 => queue[n].on <= queue[m].on}

Undated == {n \in Pending : queue[n].on = 0}

QueuedTitle(d) ==
  IF DueTitles(d) # {} THEN {Min(DueTitles(d))}
  ELSE IF Undated # {} THEN {Min(Undated)} ELSE {}

\* The title of the newest earlier case; a day's published case opened last.
TitleBefore(d) ==
  LET dates == {x \in Day : x < d /\ CasesOn(x) # {}}
      last  == Max(dates)
  IN IF dates = {} THEN {}
     ELSE {title[IF caseStatus[<<last, "published">>] # "none"
                 THEN <<last, "published">> ELSE <<last, "daily">>]}

NextInBank(t) == IF t \in 1 .. BankSize THEN (t % BankSize) + 1 ELSE 1

OpeningTitle(d) ==
  IF QueuedTitle(d) # {} THEN BankSize + Max(QueuedTitle(d))
  ELSE IF TitleBefore(d) = {} \/ BankSize = 0 THEN ByHand
  ELSE NextInBank(Max(TitleBefore(d)))

\* fault: every due row is used up, not the one whose title was taken
ConsumedAllDue(d) ==
  [n \in DOMAIN queue |->
    IF n \in Pending /\ queue[n].on <= d
    THEN [queue[n] EXCEPT !.state = "consumed"] ELSE queue[n]]

Consumed(d) ==
  [n \in DOMAIN queue |->
    IF n \in QueuedTitle(d) THEN [queue[n] EXCEPT !.state = "consumed"] ELSE queue[n]]

Statuses(closing, opened) ==
  [c \in CaseId |-> IF c \in opened THEN "active"
                    ELSE IF c \in closing THEN "closed" ELSE caseStatus[c]]

EarlierActive(d) == {c \in CaseId : OnDate(c) < d /\ caseStatus[c] = "active"}
NoneActive(d) == ActiveOn(d) = {}

\* ghost: a command moves the version under a history answer in progress, or
\* a call that captured its date before midnight opens that date's first case
\* after another process has gone on to the next.
Tears(p) == p = Cli /\ proc[Server].pc = "version" /\ version' # version
Late(d)  == NoneActive(d) /\ \E x \in Day : x > d /\ CasesOn(x) # {}
Mishaps(p, d) ==
  mishap \cup (IF Tears(p) THEN {"torn"} ELSE {}) \cup (IF Late(d) THEN {"late"} ELSE {})

After(p, c) ==
  IF proc[p].kind = "status" THEN Idle
  ELSE [proc[p] EXCEPT !.pc = IF proc[p].kind = "history" THEN "rows" ELSE "act",
                       !.held = c, !.checked = proc[p].day]

EnsureFinds(p) ==
  /\ proc[p].pc = "ensure" /\ proc[p].checked = proc[p].day
  /\ \E c \in ActiveOn(proc[p].day) : proc' = [proc EXCEPT ![p] = After(p, c)]
  /\ UNCHANGED <<clock, database, outside, mishap, events>>

NeedsRollOver(p) ==
  /\ proc[p].pc = "ensure"
  /\ ~ (proc[p].checked = proc[p].day /\ ActiveOn(proc[p].day) # {})

RollOver(p) ==
  LET d == proc[p].day
  IN /\ NeedsRollOver(p)
     /\ NoneActive(d) => caseStatus[<<d, "daily">>] = "none"
     /\ \E c \in IF NoneActive(d) THEN {<<d, "daily">>} ELSE ActiveOn(d) :
          /\ caseStatus' = Statuses(EarlierActive(d), {c})
          /\ title' = IF NoneActive(d) THEN [title EXCEPT ![c] = OpeningTitle(d)] ELSE title
          /\ proc' = [proc EXCEPT ![p] = After(p, c)]
     /\ queue' = IF NoneActive(d) THEN Consumed(d) ELSE queue
     /\ shown' = IF NoneActive(d) THEN shown \cup QueuedTitle(d) ELSE shown
     /\ version' = NextVersion(d) /\ dayRow' = DaysAfter(d) /\ periodRow' = PeriodsAfter(d)
     /\ mishap' = Mishaps(p, d)
     /\ UNCHANGED <<clock, ballots, outside, events>>

\* The id `case-<date>` is taken by a closed case: everything rolls back.
RollOverFails(p) ==
  LET d == proc[p].day
  IN /\ NeedsRollOver(p) /\ NoneActive(d) /\ caseStatus[<<d, "daily">>] # "none"
     /\ Finish(p)
     /\ UNCHANGED <<clock, database, outside, mishap, events>>
-----------------------------------------------------------------------------
(* What the server does with the case it ensured.                           *)

\* Votes of the last date would never be archived.
BeginVote ==
  /\ clock < LastDay
  /\ Begins(Server, "vote")
  /\ UNCHANGED <<clock, database, outside, mishap, events>>

Vote ==
  /\ proc[Server].pc = "act" /\ proc[Server].kind = "vote"
  /\ \E v \in Voter :
       ballots' = IF caseStatus[proc[Server].held] = "active"
                  THEN ballots \cup {<<v, proc[Server].held>>} ELSE ballots
  /\ Finish(Server)
  /\ UNCHANGED <<clock, caseStatus, title, version, dayRow, periodRow, queue, shown,
                 outside, mishap, events>>

\* snapshotResponse and bootstrap: the case, its date, and the version read after.
\* Nobody waits for an answer whose request was given up.
AnswerPoll ==
  /\ proc[Server].pc = "act" /\ proc[Server].kind \in {"snapshot", "bootstrap"}
  /\ poll' = IF poll.st = "asked" /\ poll.kind = proc[Server].kind
             THEN [st |-> "answered", kind |-> poll.kind, date |-> proc[Server].day,
                   case |-> proc[Server].held, v |-> version]
             ELSE poll
  /\ Finish(Server)
  /\ UNCHANGED <<clock, database, adopted, cache, fetch, framed, front, load,
                 mishap, events>>

BeginHistory ==
  /\ fetch.st = "asked" /\ proc[Server].pc = "idle"
  /\ proc' = [proc EXCEPT ![Server] =
       [@ EXCEPT !.pc = "ensure", !.kind = "history", !.day = clock, !.cursor = fetch.cursor]]
  /\ UNCHANGED <<clock, database, outside, mishap, events>>

Newer(rows, cursor) == [x \in DOMAIN rows |-> IF rows[x].v > cursor THEN rows[x] ELSE NoRow]

NewerPeriods(rows, cursor) == [k \in Kind |-> Newer(rows[k], cursor)]

\* historyResponse, first half: the rows newer than the cursor.
ReadRows ==
  /\ proc[Server].pc = "rows"
  /\ proc' = [proc EXCEPT ![Server] = [@ EXCEPT !.pc = "version",
       !.found = [EmptyArchive EXCEPT !.days = Newer(dayRow, proc[Server].cursor),
                                      !.periods = NewerPeriods(periodRow, proc[Server].cursor)]]]
  /\ UNCHANGED <<clock, database, outside, mishap, events>>

\* openPeriodUniqueVoters: the running period without today.
OpenVoters(k, d) == CountVoters({x \in Dates(k, PeriodOf(k, d)) : x < d})

Envelope(d, rows) ==
  [rows EXCEPT !.v = version, !.voters = [k \in Kind |-> OpenVoters(k, d)]]

\* Second half: the version, and the running periods' voters.
AnswerHistory ==
  /\ proc[Server].pc = "version"
  /\ fetch' = IF fetch.st = "asked"
              THEN [st |-> "answered", cursor |-> proc[Server].cursor,
                    rows |-> Envelope(proc[Server].day, proc[Server].found)]
              ELSE fetch
  /\ Finish(Server)
  /\ UNCHANGED <<clock, database, adopted, poll, cache, framed, front, load,
                 mishap, events>>
-----------------------------------------------------------------------------
(* Operator commands.  Each is a process of its own, so that its steps and  *)
(* the server's may alternate.                                              *)

Takes(k) ==
  /\ k \in Event /\ clock \in EventDay
  /\ events < MaxEvents /\ events' = events + 1

\* status, like case retitle, begins with ensureActiveCase: the roll-over may be
\* a command's.
BeginStatus ==
  /\ Takes("status") /\ Begins(Cli, "status")
  /\ UNCHANGED <<clock, database, outside, mishap>>

\* publishCase, one per date here: today's case and earlier ones close, none is frozen.
Publish ==
  LET c == <<clock, "published">>
  IN /\ Takes("publish")
     /\ caseStatus[c] = "none"
     /\ caseStatus' = Statuses(EarlierActive(clock) \cup ActiveOn(clock), {c})
     /\ title' = [title EXCEPT ![c] = ByHand]
     /\ UNCHANGED <<clock, ballots, version, dayRow, periodRow, queue, shown, proc,
                    outside, mishap>>

\* clearHistoryArchives: every archive row, and all that is older than today.
ClearHistory ==
  /\ Takes("clear")
  /\ caseStatus' = [c \in CaseId |-> IF OnDate(c) < clock THEN "none" ELSE caseStatus[c]]
  /\ title' = [c \in CaseId |-> IF OnDate(c) < clock THEN ByHand ELSE title[c]]
  /\ ballots' = {b \in ballots : OnDate(b[2]) >= clock}
  /\ version' = 0 /\ dayRow' = EmptyArchive.days /\ periodRow' = EmptyArchive.periods
  /\ mishap' = mishap \cup {"cleared"}
  /\ UNCHANGED <<clock, queue, shown, proc, outside>>

Scheduled == {queue[n].on : n \in Pending} \ {0}
Enqueued(on) == queue \o [i \in 1 .. Len(on) |-> [on |-> on[i], state |-> "pending"]]

\* enqueueCase: for a date nobody has taken, or for the next free midnight.
QueueAdd ==
  /\ Takes("add") /\ Len(queue) < MaxQueued
  /\ \E on \in ScheduleDay \ Scheduled : queue' = Enqueued(<<on>>)
  /\ UNCHANGED <<clock, caseStatus, title, ballots, version, dayRow, periodRow, shown,
                 proc, outside, mishap>>

\* The first n free dates from start on.
FreeDates(start, n) ==
  {s \in [1 .. n -> start .. LastDay + MaxQueued] :
     \A i \in 1 .. n : s[i] \notin Scheduled
       /\ \A d \in start .. s[i] : d \in Scheduled \/ \E j \in 1 .. i : s[j] = d}

\* queue seed: the plan is made from one reading of the schedule ...
PlanSeed ==
  /\ Takes("seed") /\ proc[Cli].pc = "idle"
  /\ \E start \in clock + 1 .. LastDay, n \in 1 .. MaxQueued - Len(queue) :
       \E plan \in FreeDates(start, n) :
         proc' = [proc EXCEPT ![Cli] = [Idle EXCEPT !.pc = "seed", !.kind = "seed",
                                                    !.day = clock, !.plan = plan]]
  /\ UNCHANGED <<clock, database, outside, mishap>>

\* ... and enqueued row by row.
SeedNext ==
  LET plan == proc[Cli].plan
  IN /\ proc[Cli].pc = "seed" /\ Len(queue) < MaxQueued
     /\ Head(plan) \notin Scheduled
     /\ queue' = Enqueued(<<Head(plan)>>)
     /\ proc' = [proc EXCEPT ![Cli] =
                  IF Tail(plan) = <<>> THEN Done(Cli) ELSE [@ EXCEPT !.plan = Tail(plan)]]
     /\ UNCHANGED <<clock, caseStatus, title, ballots, version, dayRow, periodRow, shown,
                    outside, mishap, events>>

\* replaceQueue: all pending rows go, consecutive dates come, in one transaction.
ReplaceQueue ==
  /\ Takes("replace")
  /\ \E start \in ScheduleDay \ {0}, n \in 1 .. MaxQueued - Len(queue) :
       queue' = [i \in 1 .. Len(queue) + n |->
                  IF i > Len(queue) THEN [on |-> start + i - Len(queue) - 1, state |-> "pending"]
                  ELSE IF i \in Pending THEN [queue[i] EXCEPT !.state = "deleted"] ELSE queue[i]]
  /\ UNCHANGED <<clock, caseStatus, title, ballots, version, dayRow, periodRow, shown,
                 proc, outside, mishap>>
-----------------------------------------------------------------------------
(* The Host: polls, and a cache that is refreshed by version.               *)

\* refreshHistory starts a request unless one is out or the cache is current.
NeedsRefresh(date, v) ==
  /\ date # 0 /\ fetch.st = "idle"
  /\ ~ (cache # NoArchive /\ cache.v >= v /\ ~ cache.stale)

Refreshing == [st |-> "asked", cursor |-> cache.v]

\* A request reaches the server when the server turns to it.
AsksFor(kind) ==
  /\ poll' = [st |-> "asked", kind |-> kind]
  /\ Begins(Server, kind)

AskPoll ==
  /\ poll.st = "idle"
  /\ AsksFor(IF adopted.date = 0 THEN "bootstrap" ELSE "snapshot")
  /\ UNCHANGED <<clock, database, adopted, cache, fetch, framed, front, load,
                 mishap, events>>

\* refreshSnapshotOnce: another date or case is adopted through a bootstrap only.
PollTurnsOver ==
  /\ poll.st = "answered" /\ poll.kind = "snapshot"
  /\ poll.date # adopted.date \/ poll.case # adopted.case
  /\ AsksFor("bootstrap")
  /\ UNCHANGED <<clock, database, adopted, cache, fetch, framed, front, load,
                 mishap, events>>

\* The advertised version is taken as it is, a lower one too; a rise refreshes.
Adopt(refreshes) ==
  /\ adopted' = [date |-> poll.date, case |-> poll.case, v |-> poll.v]
  /\ fetch' = IF poll.v > adopted.v /\ refreshes /\ NeedsRefresh(poll.date, poll.v)
              THEN Refreshing ELSE fetch
  /\ poll' = NoReq
  /\ UNCHANGED <<clock, database, proc, cache, framed, front, load, mishap, events>>

AdoptSnapshot ==
  /\ poll.st = "answered" /\ poll.kind = "snapshot"
  /\ poll.date = adopted.date /\ poll.case = adopted.case
  /\ Adopt(TRUE)

\* adoptBootstrap refreshes a cache that exists only.
AdoptBootstrap ==
  /\ poll.st = "answered" /\ poll.kind = "bootstrap"
  /\ Adopt(cache # NoArchive)

PollFails ==
  /\ poll.st \in {"asked", "answered"}
  /\ poll' = NoReq
  /\ UNCHANGED <<clock, database, proc, adopted, cache, fetch, framed, front, load,
                 mishap, events>>

ReplaceByKey(current, incoming) ==
  [x \in DOMAIN current |-> IF incoming[x] # NoRow THEN incoming[x] ELSE current[x]]

\* fault: only the days of a delta are merged
MergeDays(current, incoming, full) ==
  IF current = NoArchive \/ full THEN incoming
  ELSE [incoming EXCEPT !.days = ReplaceByKey(current.days, incoming.days),
                        !.periods = current.periods]

\* mergeHistoryArchive: a full answer replaces, a delta adds, an older one is ignored.
Merge(current, incoming, full) ==
  IF current = NoArchive \/ full THEN incoming
  ELSE IF incoming.v < current.v THEN current
  ELSE [incoming EXCEPT !.days = ReplaceByKey(current.days, incoming.days),
                        !.periods = [k \in Kind |->
                          ReplaceByKey(current.periods[k], incoming.periods[k])]]

\* No row may be newer than its envelope, nor count more voters than votes.
ParsesRow(row, v) == row.v <= v /\ row.voters <= row.total

ParsesDays(rows)    == \A d \in Day : ParsesRow(rows.days[d], rows.v)
ParsesPeriods(rows) == \A k \in Kind, i \in PeriodId : ParsesRow(rows.periods[k][i], rows.v)

Parses(rows) == ParsesDays(rows) /\ ParsesPeriods(rows)

Larger(a, b) == IF a >= b THEN a ELSE b

FetchLands ==
  /\ fetch.st = "answered" /\ Parses(fetch.rows)
  /\ cache' = Merge(cache, fetch.rows, fetch.cursor = -1)
  /\ adopted' = [adopted EXCEPT !.v = Larger(@, fetch.rows.v)]
  /\ fetch' = NoReq
  /\ UNCHANGED <<clock, database, proc, poll, framed, front, load, mishap, events>>

GoneStale(archive) == [(IF archive = NoArchive THEN EmptyArchive ELSE archive) EXCEPT !.stale = TRUE]

FetchFails ==
  /\ fetch.st \in {"asked", "answered"}
  /\ cache' = GoneStale(cache)
  /\ fetch' = NoReq
  /\ UNCHANGED <<clock, database, proc, adopted, poll, framed, front, load,
                 mishap, events>>

\* A new Host process knows nothing; what its predecessor asked is not awaited,
\* and a load of the browser that was under way ends in an error.
RestartHost ==
  /\ Takes("restart")
  /\ adopted' = NoHost /\ poll' = NoReq /\ cache' = NoArchive /\ fetch' = NoReq
  /\ front' = IF load.st = "asked" /\ front # NoArchive THEN GoneStale(front) ELSE front
  /\ load' = NoReq
  /\ UNCHANGED <<clock, database, proc, framed, mishap>>
-----------------------------------------------------------------------------
(* The browser: frames of the Host's state, and loads of its archive.       *)

\* loadHistory: one load at a time.  The Host's handler refreshes first.
StartLoad(date, v) ==
  /\ load' = [st |-> "asked", cursor |-> front.v]
  /\ fetch' = IF NeedsRefresh(date, v) THEN Refreshing ELSE fetch

\* publishWire: a frame with a newer version than the browser's archive loads.
FrameArrives ==
  /\ adopted.date # 0 /\ (framed.date # adopted.date \/ framed.v # adopted.v)
  /\ framed' = [date |-> adopted.date, v |-> adopted.v]
  /\ IF front # NoArchive /\ adopted.v > front.v /\ load.st = "idle"
     THEN StartLoad(adopted.date, adopted.v) ELSE UNCHANGED <<load, fetch>>
  /\ UNCHANGED <<clock, database, proc, adopted, poll, cache, front,
                 mishap, events>>

\* A new connection, the calendar being opened, or a press on retry.
AskLoad ==
  /\ adopted.date # 0 /\ framed.date # 0 /\ load.st = "idle"
  /\ StartLoad(adopted.date, adopted.v)
  /\ UNCHANGED <<clock, database, proc, adopted, poll, cache, framed, front,
                 mishap, events>>

\* What the Host serves: its cache, without the rows the browser has.
Served(cursor) ==
  LET archive == IF cache = NoArchive THEN EmptyArchive ELSE cache
  IN [archive EXCEPT !.days = Newer(@, cursor), !.periods = NewerPeriods(@, cursor)]

LoadLands ==
  /\ load.st = "asked" /\ fetch.st = "idle"
  /\ Parses(Served(load.cursor))
  /\ front' = Merge(front, Served(load.cursor), load.cursor = -1)
  /\ load' = NoReq
  /\ UNCHANGED <<clock, database, proc, adopted, poll, cache, fetch, framed,
                 mishap, events>>

LoadFails ==
  /\ load.st = "asked"
  /\ front' = IF front = NoArchive THEN front ELSE GoneStale(front)
  /\ load' = NoReq
  /\ UNCHANGED <<clock, database, proc, adopted, poll, cache, fetch, framed,
                 mishap, events>>
-----------------------------------------------------------------------------
Ensure(p) == EnsureFinds(p) \/ RollOver(p) \/ RollOverFails(p)

Serve == BeginVote \/ Vote \/ AnswerPoll \/ BeginHistory \/ ReadRows \/ AnswerHistory

Operate ==
  \/ BeginStatus \/ Publish \/ ClearHistory
  \/ QueueAdd \/ PlanSeed \/ SeedNext \/ ReplaceQueue

Relay ==
  \/ AskPoll \/ PollTurnsOver \/ AdoptSnapshot \/ AdoptBootstrap \/ PollFails
  \/ FetchLands \/ FetchFails \/ RestartHost

Browse == FrameArrives \/ AskLoad \/ LoadLands \/ LoadFails

HistoryNext == Midnight \/ (\E p \in {Server, Cli} : Ensure(p)) \/ Serve \/ Operate \/ Relay \/ Browse

HistorySpec == HistoryInit /\ [][HistoryNext]_historyVars
-----------------------------------------------------------------------------
Request == {NoReq} \cup
  [st : {"asked"}, kind : {"snapshot", "bootstrap"}] \cup
  [st : {"answered"}, kind : {"snapshot", "bootstrap"}, date : Day, case : CaseId, v : Nat]

\* The state's shape.
HistoryTypeOK ==
  /\ clock \in Day /\ version \in Nat
  /\ caseStatus \in [CaseId -> {"none", "active", "closed"}]
  /\ title \in [CaseId -> Title]
  /\ ballots \subseteq Voter \X CaseId
  /\ dayRow \in [Day -> Row] /\ periodRow \in [Kind -> [PeriodId -> Row]]
  /\ queue \in Seq([on : Nat, state : {"pending", "consumed", "deleted"}])
  /\ Len(queue) <= MaxQueued /\ shown \subseteq DOMAIN queue
  /\ \A p \in {Server, Cli} :
       /\ proc[p].pc \in {"idle", "ensure", "act", "rows", "version", "seed"}
       /\ proc[p].day \in 0 .. clock /\ proc[p].checked \in 0 .. clock
       /\ proc[p].held \in CaseId \cup {NoCase}
  /\ adopted.date \in 0 .. clock /\ adopted.v \in Nat /\ poll \in Request
  /\ cache \in {NoArchive} \cup Archive /\ front \in {NoArchive} \cup Archive
  /\ framed.date \in 0 .. clock /\ mishap \subseteq {"torn", "cleared", "late"}
  /\ fetch.st \in {"idle", "asked", "answered"} /\ load.st \in {"idle", "asked"}

\* A sealed week or month says what its days say: the sum of the votes of its
\* archived dates and how many they are, each voter counted once, in whatever
\* order calls, commands and a clearing of the archives cross midnight.  One
\* thing voids it: a call of yesterday that opens yesterday's first case late.
PeriodsAddUp ==
  "late" \notin mishap => \A k \in Kind, i \in PeriodId :
    LET row == periodRow[k][i]
        covered == Dates(k, i) \cap Dated(dayRow)
    IN row # NoRow =>
         /\ row.total = TotalOf(dayRow, covered)
         /\ row.n = Cardinality(covered)
         /\ row.voters = CountVoters(Dates(k, i))

\* A title leaves the schedule by being put on a case, or by the operator's
\* replacing the schedule: a roll-over that fails does not swallow one.
TitlesAccounted ==
  \A n \in DOMAIN queue : queue[n].state = "consumed" <=> n \in shown

Holds(archive, v) ==
  /\ \A d \in Day : dayRow[d].v \in 1 .. v => archive.days[d] = dayRow[d]
  /\ \A k \in Kind, i \in PeriodId :
       periodRow[k][i].v \in 1 .. v => archive.periods[k][i] = periodRow[k][i]

\* The copies of Host and browser hold every row their cursor covers, whatever
\* requests failed and whenever they were asked: no row is skipped for good.
\* Two things void it: the archive was cleared, which the command says needs a
\* restart, or a command rolled the day over between the two readings of one
\* answer, which nothing in the code prevents.
CopiesComplete ==
  mishap \cap {"torn", "cleared"} = {} =>
    /\ cache # NoArchive => Holds(cache, cache.v)
    /\ front # NoArchive => Holds(front, front.v)
=============================================================================
