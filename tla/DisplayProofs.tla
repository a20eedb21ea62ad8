---------------------------- MODULE DisplayProofs ----------------------------
(***************************************************************************)
(* Theorems about what the user is shown.                                  *)
(*                                                                         *)
(* First the hall of past cases (HistoryArchive), for every number of      *)
(* voters, dates, titles, commands and requests, and every length of a     *)
(* period.  Three invariants.  Titles: what the schedule lost is what was  *)
(* shown.  Periods: a sealed one is over, so nothing it was made of        *)
(* changes.  Copies: rows are written once, under a version of their own,  *)
(* so that a copy which holds all rows up to a version holds them for      *)
(* good.  The shape of the whole state comes last: what is counted is a    *)
(* number because there are finitely many ballots at any time.             *)
(*                                                                         *)
(* Then the browser tab (LiveView), for any number of presses, errors and  *)
(* faults.  What a wire says of the past of its authority, wherever the    *)
(* wire is, is the invariant behind InStep; who owns a press is the one    *)
(* behind PressSpendsOnce.                                                 *)
(***************************************************************************)
EXTENDS HistoryArchive, LiveView, SumTheorems, SequenceTheorems

(* Shapes of the archives. *)

States == {"none", "active", "closed"}
QueueRow == [on : Nat, state : {"pending", "consumed", "deleted"}]

\* A table of rows by key, and an archive of them.
Table(rows, K) == rows = [x \in K |-> rows[x]]
Tables(rows)   == rows = [k \in Kind |-> rows[k]] /\ \A k \in Kind : Table(rows[k], PeriodId)

IsArchive(a) ==
  /\ a = [v |-> a.v, days |-> a.days, periods |-> a.periods, voters |-> a.voters,
          stale |-> a.stale]
  /\ a.v \in Nat /\ Table(a.days, Day) /\ Tables(a.periods)

IsCopy(a) == a = NoArchive \/ IsArchive(a)

ArchiveCursors == Nat \cup {-1}

\* What a handler or a command holds between two steps.
IsProc(r, today) ==
  /\ r = [pc |-> r.pc, kind |-> r.kind, day |-> r.day, checked |-> r.checked,
          held |-> r.held, cursor |-> r.cursor, found |-> r.found, plan |-> r.plan]
  /\ r.pc \in {"idle", "ensure", "act", "rows", "version", "seed"}
  /\ r.pc # "idle" => r.day \in 1 .. today
  /\ r.pc = "act" => r.held \in CaseId
  /\ r.pc \in {"rows", "version"} => r.kind = "history"
  /\ r.pc = "version" => IsArchive(r.found)
  /\ r.pc = "seed" => r.plan \in Seq(Nat) /\ r.plan # <<>>
  /\ r.cursor \in ArchiveCursors

IsFetch(f) ==
  \/ f = NoReq
  \/ f = [st |-> "asked", cursor |-> f.cursor] /\ f.cursor \in ArchiveCursors
  \/ /\ f = [st |-> "answered", cursor |-> f.cursor, rows |-> f.rows]
     /\ f.cursor \in ArchiveCursors /\ IsArchive(f.rows)

Shapes ==
  /\ clock \in Day /\ version \in Nat
  /\ caseStatus \in [CaseId -> States]
  /\ ballots \subseteq Voter \X CaseId
  /\ Table(dayRow, Day) /\ Tables(periodRow)
  /\ queue \in Seq(QueueRow)
  /\ proc = [p \in {Server, Cli} |-> proc[p]]
  /\ \A p \in {Server, Cli} : IsProc(proc[p], clock)
  /\ adopted = [date |-> adopted.date, case |-> adopted.case, v |-> adopted.v] /\ adopted.v \in Nat
  /\ poll.st = "answered" => poll.v \in Nat
  /\ IsCopy(cache) /\ IsCopy(front) /\ IsFetch(fetch)
  /\ load = NoReq \/ (load = [st |-> "asked", cursor |-> load.cursor] /\ load.cursor \in ArchiveCursors)

(* The schedule. *)
Accounted ==
  /\ shown \subseteq DOMAIN queue
  /\ \A n \in DOMAIN queue : queue[n].state = "consumed" <=> n \in shown

(* Sealed periods. *)
InTime == \A c \in CaseId : caseStatus[c] # "none" => OnDate(c) <= clock

\* A sealed period is over: a later case is open or was, and none of its own is active or
\* waits for its row.
IsSealed(k, i) == periodRow[k][i] # NoRow

Over(k, i) ==
  /\ \E c \in CaseId : caseStatus[c] # "none" /\ \A d \in Dates(k, i) : d < OnDate(c)
  /\ \A c \in CaseId : OnDate(c) \in Dates(k, i) =>
       /\ caseStatus[c] # "active"
       /\ caseStatus[c] # "none" => dayRow[OnDate(c)] # NoRow

SealedRight(k, i) ==
  LET covered == Dates(k, i) \cap Dated(dayRow)
  IN /\ periodRow[k][i].total = TotalOf(dayRow, covered)
     /\ periodRow[k][i].n = Cardinality(covered)
     /\ periodRow[k][i].voters = CountVoters(Dates(k, i))

SealedInv ==
  "late" \notin mishap => \A k \in Kind, i \in PeriodId :
     IsSealed(k, i) => Over(k, i) /\ SealedRight(k, i)

(* Copies. *)
Clean == mishap \cap {"torn", "cleared"} = {}

\* Every row held is the authority's, and those stamped after lo and up to hi are held.
Agrees(rows, own, lo, hi) ==
  \A x \in DOMAIN own :
    /\ rows[x] = NoRow \/ rows[x] = own[x]
    /\ own[x].v \in lo + 1 .. hi => rows[x] = own[x]

Complete(a, lo, days, periods) ==
  /\ Agrees(a.days, days, lo, a.v)
  /\ \A k \in Kind : Agrees(a.periods[k], periods[k], lo, a.v)

StampedTable(own, v) == \A x \in DOMAIN own : own[x] = NoRow \/ own[x].v \in 1 .. v

Stamped(days, periods, v) ==
  StampedTable(days, v) /\ \A k \in Kind : StampedTable(periods[k], v)

IsWhole(a, days, periods, v) ==
  a # NoArchive => a.v <= v /\ Complete(a, 0, days, periods)

InHand(r, days, periods) ==
  /\ r.found.days = Newer(days, r.cursor)
  /\ r.found.periods = NewerPeriods(periods, r.cursor)

\* An answer that a call or a request is after adds to what the Host has.
CursorsHold ==
  /\ proc[Server].kind = "history" =>
       \/ proc[Server].cursor <= cache.v
       \/ adopted.date = 0 /\ poll.st = "idle" /\ fetch.st = "idle"
  /\ fetch.st # "idle" => fetch.cursor <= cache.v
  /\ load.st = "asked" => load.cursor = front.v

AnswerFits ==
  fetch.st = "answered" =>
    /\ cache.v <= fetch.rows.v /\ fetch.rows.v <= version
    /\ Complete(fetch.rows, fetch.cursor, dayRow, periodRow)

CopyInv ==
  Clean =>
    /\ Stamped(dayRow, periodRow, version)
    /\ proc[Server].pc = "version" => InHand(proc[Server], dayRow, periodRow)
    /\ IsWhole(cache, dayRow, periodRow, version)
    /\ IsWhole(front, dayRow, periodRow, version)
    /\ CursorsHold /\ AnswerFits
-----------------------------------------------------------------------------
(* The parts of the state. *)

LEMMA Parts ==
  /\ Server # Cli /\ Server \in {Server, Cli} /\ Cli \in {Server, Cli}
  /\ \A t : IsProc(Idle, t)
  /\ IsArchive(EmptyArchive) /\ NoArchive.v = -1 /\ NoReq.st = "idle"
  /\ \A a : IsArchive(a) => a # NoArchive /\ a.v \in Nat
  /\ \A a : IsCopy(a) => a.v \in ArchiveCursors /\ (a.v = -1 <=> a = NoArchive)
<1>1. Server # Cli /\ NoArchive.v = -1 /\ NoReq.st = "idle"
  BY DEF Server, Cli, NoArchive, NoReq
<1>2. \A t : IsProc(Idle, t)
  BY DEF IsProc, Idle, ArchiveCursors
<1>3. IsArchive(EmptyArchive)
  BY DEF IsArchive, EmptyArchive, Table, Tables
<1>4. \A a : IsArchive(a) => a # NoArchive /\ a.v \in Nat
  BY <1>1 DEF IsArchive
<1>5. \A a : IsCopy(a) => a.v \in ArchiveCursors /\ (a.v = -1 <=> a = NoArchive)
  BY <1>1, <1>4 DEF IsCopy, ArchiveCursors
<1> QED BY <1>1, <1>2, <1>3, <1>4, <1>5

LEMMA Dates1 ==
  /\ LastDay \in Nat /\ 1 \in Day
  /\ \A c \in CaseId : OnDate(c) \in Day
  /\ \A d \in Day : <<d, "daily">> \in CaseId /\ <<d, "published">> \in CaseId
                    /\ OnDate(<<d, "daily">>) = d /\ OnDate(<<d, "published">>) = d
BY HistoryAssumption DEF Day, CaseId, OnDate

\* Which steps change the tables, and which set a mark.
TableStep ==
  \/ \E p \in {Server, Cli} : RollOver(p)
  \/ Vote \/ Publish \/ ClearHistory \/ QueueAdd \/ SeedNext \/ ReplaceQueue

LEMMA StepsOfTables ==
  ASSUME [HistoryNext]_historyVars
  PROVE  \/ TableStep
         \/ UNCHANGED database /\ UNCHANGED mishap
<1> USE DEF TableStep
<1>1. CASE Midnight
  BY <1>1 DEF Midnight
<1>2. ASSUME NEW p \in {Server, Cli}, Ensure(p)
      PROVE  \/ TableStep
             \/ UNCHANGED database /\ UNCHANGED mishap
  BY <1>2 DEF Ensure, EnsureFinds, RollOverFails
<1>3. CASE Serve
  BY <1>3 DEF Serve, BeginVote, AnswerPoll, BeginHistory, ReadRows, AnswerHistory
<1>4. CASE Operate
  BY <1>4 DEF Operate, BeginStatus, PlanSeed
<1>5. CASE Relay
  BY <1>5 DEF Relay, AskPoll, PollTurnsOver, AdoptSnapshot, AdoptBootstrap, Adopt, PollFails,
              FetchLands, FetchFails, RestartHost
<1>6. CASE Browse
  BY <1>6 DEF Browse, FrameArrives, AskLoad, LoadLands, LoadFails
<1>7. CASE UNCHANGED historyVars
  BY <1>7 DEF historyVars
<1> QED BY <1>1, <1>2, <1>3, <1>4, <1>5, <1>6, <1>7 DEF HistoryNext

\* The clock goes on, a date at a time.
LEMMA ClockStep ==
  ASSUME clock \in Day, [HistoryNext]_historyVars
  PROVE  clock' \in Day /\ clock <= clock'
<1>1. CASE clock' = clock
  BY <1>1 DEF Day
<1>2. CASE Midnight
  BY <1>2, Dates1 DEF Midnight, Day
<1>3. \A p : Ensure(p) => clock' = clock
  BY DEF Ensure, EnsureFinds, RollOver, RollOverFails
<1>4. Serve => clock' = clock
  BY DEF Serve, BeginVote, Vote, AnswerPoll, BeginHistory, ReadRows, AnswerHistory
<1>5. Operate => clock' = clock
  BY DEF Operate, BeginStatus, Publish, ClearHistory, QueueAdd, PlanSeed, SeedNext, ReplaceQueue
<1>6. Relay => clock' = clock
  BY DEF Relay, AskPoll, PollTurnsOver, AdoptSnapshot, AdoptBootstrap, Adopt, PollFails,
         FetchLands, FetchFails, RestartHost
<1>7. Browse => clock' = clock
  BY DEF Browse, FrameArrives, AskLoad, LoadLands, LoadFails
<1> QED BY <1>1, <1>2, <1>3, <1>4, <1>5, <1>6, <1>7 DEF HistoryNext, historyVars

LEMMA MarksStay ==
  ASSUME [HistoryNext]_historyVars
  PROVE  mishap \subseteq mishap'
<1>1. \A p : RollOver(p) => mishap \subseteq mishap'
  BY DEF RollOver, Mishaps
<1>2. ClearHistory => mishap \subseteq mishap'
  BY DEF ClearHistory
<1> QED BY <1>1, <1>2, StepsOfTables DEF TableStep, Vote, Publish, QueueAdd, SeedNext, ReplaceQueue
-----------------------------------------------------------------------------
(* The schedule. *)

LEMMA Counting == queue \in Seq(QueueRow) => DOMAIN queue = 1 .. Len(queue) /\ Len(queue) \in Nat
OBVIOUS

LEMMA LeastIn ==
  ASSUME NEW S \in SUBSET Nat, S # {}
  PROVE  Min(S) \in S
<1>1. PICK b : b \in S
  OBVIOUS
<1>2. \E m \in S : \A k \in S : m <= k
  BY <1>1, LeastNumber
<1> QED BY <1>2 DEF Min

\* The title that is taken is one that waits.
LEMMA TakenWaits ==
  ASSUME queue \in Seq(QueueRow), NEW d
  PROVE  QueuedTitle(d) \subseteq Pending
<1>1. Pending \subseteq Nat
  BY Counting DEF Pending
<1>2. DueTitles(d) \subseteq Pending /\ Undated \subseteq Pending
  BY DEF DueTitles, Undated
<1>3. DueTitles(d) # {} => Min(DueTitles(d)) \in Pending
  BY <1>1, <1>2, LeastIn
<1>4. Undated # {} => Min(Undated) \in Pending
  BY <1>1, <1>2, LeastIn
<1> QED BY <1>3, <1>4 DEF QueuedTitle

LEMMA Appended ==
  ASSUME queue \in Seq(QueueRow), NEW on \in Nat
  PROVE  /\ Enqueued(<<on>>) \in Seq(QueueRow)
         /\ Len(Enqueued(<<on>>)) = Len(queue) + 1
         /\ \A n \in 1 .. Len(queue) : Enqueued(<<on>>)[n] = queue[n]
         /\ Enqueued(<<on>>)[Len(queue) + 1].state = "pending"
<1> DEFINE t == [i \in 1 .. Len(<<on>>) |-> [on |-> <<on>>[i], state |-> "pending"]]
<1>1. t = <<[on |-> on, state |-> "pending"]>>
  <2>1. Len(<<on>>) = 1 /\ <<on>>[1] = on
    OBVIOUS
  <2>2. t \in Seq(QueueRow)
    BY <2>1 DEF QueueRow
  <2>3. Len(t) = 1 /\ t[1] = [on |-> on, state |-> "pending"]
    BY <2>1
  <2> HIDE DEF t
  <2> QED BY <2>2, <2>3
<1>2. Enqueued(<<on>>) = queue \o <<[on |-> on, state |-> "pending"]>>
  BY <1>1 DEF Enqueued
<1>3. [on |-> on, state |-> "pending"] \in QueueRow
  BY DEF QueueRow
<1> DEFINE r == [on |-> on, state |-> "pending"]
<1>4. r.state = "pending"
  OBVIOUS
<1> HIDE DEF t, r
<1>5. Enqueued(<<on>>) = Append(queue, r)
  BY <1>2, <1>3, AppendIsConcat DEF r
<1>6. r \in QueueRow
  BY <1>3 DEF r
<1>7. /\ Append(queue, r) \in Seq(QueueRow) /\ Len(Append(queue, r)) = Len(queue) + 1
      /\ \A n \in 1 .. Len(queue) : Append(queue, r)[n] = queue[n]
      /\ Append(queue, r)[Len(queue) + 1] = r
  BY <1>6, AppendProperties
<1> QED BY <1>4, <1>5, <1>7

LEMMA RowsOfSeq ==
  ASSUME NEW n \in Nat, NEW q, q = [i \in 1 .. n |-> q[i]], \A i \in 1 .. n : q[i] \in QueueRow
  PROVE  q \in Seq(QueueRow) /\ Len(q) = n /\ DOMAIN q = 1 .. n
OBVIOUS

LEMMA ConsumedRight ==
  ASSUME queue \in Seq(QueueRow), NEW d
  PROVE  /\ Consumed(d) \in Seq(QueueRow) /\ DOMAIN Consumed(d) = DOMAIN queue
         /\ \A n \in DOMAIN queue :
              Consumed(d)[n].state = IF n \in QueuedTitle(d) THEN "consumed" ELSE queue[n].state
<1> DEFINE q == Consumed(d)
<1>1. DOMAIN queue = 1 .. Len(queue) /\ Len(queue) \in Nat
  BY Counting
<1>2. \A n \in DOMAIN queue : queue[n] \in QueueRow
  BY <1>1
<1>3. /\ q = [n \in 1 .. Len(queue) |-> q[n]]
      /\ \A n \in 1 .. Len(queue) :
           q[n] = IF n \in QueuedTitle(d) THEN [queue[n] EXCEPT !.state = "consumed"] ELSE queue[n]
  BY <1>1 DEF Consumed
<1>4. \A n \in 1 .. Len(queue) :
        /\ q[n] \in QueueRow
        /\ q[n].state = IF n \in QueuedTitle(d) THEN "consumed" ELSE queue[n].state
  BY <1>1, <1>2, <1>3 DEF QueueRow
<1> HIDE DEF q
<1>5. q \in Seq(QueueRow) /\ DOMAIN q = 1 .. Len(queue)
  BY <1>1, <1>3, <1>4, RowsOfSeq
<1> QED BY <1>1, <1>4, <1>5 DEF q

LEMMA ScheduleStep ==
  ASSUME Shapes, Accounted, [HistoryNext]_historyVars
  PROVE  queue' \in Seq(QueueRow) /\ Accounted'
<1>1. queue \in Seq(QueueRow) /\ DOMAIN queue = 1 .. Len(queue) /\ Len(queue) \in Nat
  BY Counting DEF Shapes
<1>2. CASE UNCHANGED <<queue, shown>>
  BY <1>1, <1>2 DEF Accounted
<1>3. ASSUME NEW on \in Nat, queue' = Enqueued(<<on>>), shown' = shown
      PROVE  queue' \in Seq(QueueRow) /\ Accounted'
  <2>1. /\ queue' \in Seq(QueueRow) /\ Len(queue') = Len(queue) + 1
        /\ \A n \in 1 .. Len(queue) : queue'[n] = queue[n]
        /\ queue'[Len(queue) + 1].state = "pending"
    BY <1>1, <1>3, Appended
  <2>2. DOMAIN queue' = 1 .. Len(queue) + 1
    BY <2>1
  <2>3. Len(queue) + 1 \notin shown
    BY <1>1 DEF Accounted
  <2> QED BY <1>1, <1>3, <2>1, <2>2, <2>3 DEF Accounted
<1>4. ASSUME NEW p \in {Server, Cli}, RollOver(p)
      PROVE  queue' \in Seq(QueueRow) /\ Accounted'
  <2> DEFINE d == proc[p].day
  <2>1. \/ queue' = queue /\ shown' = shown
        \/ queue' = Consumed(d) /\ shown' = shown \cup QueuedTitle(d)
    BY <1>4 DEF RollOver
  <2>2. CASE queue' = Consumed(d) /\ shown' = shown \cup QueuedTitle(d)
    <3> HIDE DEF d
    <3>1. QueuedTitle(d) \subseteq DOMAIN queue
      BY <1>1, TakenWaits DEF Pending
    <3>2. /\ queue' \in Seq(QueueRow) /\ DOMAIN queue' = DOMAIN queue
          /\ \A n \in DOMAIN queue :
               queue'[n].state = IF n \in QueuedTitle(d) THEN "consumed" ELSE queue[n].state
      BY <1>1, <2>2, ConsumedRight
    <3> QED BY <2>2, <3>1, <3>2 DEF Accounted
  <2> QED BY <1>2, <2>1, <2>2
<1>5. CASE QueueAdd
  BY <1>3, <1>5, HistoryAssumption DEF QueueAdd
<1>6. CASE SeedNext
  <2>1. IsProc(proc[Cli], clock) /\ proc[Cli].pc = "seed"
    BY <1>6, Parts DEF SeedNext, Shapes
  <2>2. Head(proc[Cli].plan) \in Nat
    BY <2>1 DEF IsProc
  <2> QED BY <1>3, <1>6, <2>2 DEF SeedNext
<1>7. CASE ReplaceQueue
  <2>1. PICK start \in ScheduleDay \ {0}, n \in 1 .. MaxQueued - Len(queue) :
         queue' = [i \in 1 .. Len(queue) + n |->
                  IF i > Len(queue) THEN [on |-> start + i - Len(queue) - 1, state |-> "pending"]
                  ELSE IF i \in Pending THEN [queue[i] EXCEPT !.state = "deleted"] ELSE queue[i]]
    BY <1>7 DEF ReplaceQueue
  <2>2. start \in Nat /\ n \in Nat /\ Len(queue) + n \in Nat
    BY <1>1, HistoryAssumption
  <2>3. \A i \in 1 .. Len(queue) : queue[i] \in QueueRow
    BY <1>1
  <2>4. \A i \in 1 .. Len(queue) + n :
          /\ queue'[i] \in QueueRow
          /\ queue'[i].state = "consumed" <=> i \in 1 .. Len(queue) /\ queue[i].state = "consumed"
    <3> SUFFICES ASSUME NEW i \in 1 .. Len(queue) + n
                 PROVE  /\ queue'[i] \in QueueRow
                        /\ queue'[i].state = "consumed"
                             <=> i \in 1 .. Len(queue) /\ queue[i].state = "consumed"
      OBVIOUS
    <3>1. CASE i > Len(queue)
      <4>1. queue'[i] = [on |-> start + i - Len(queue) - 1, state |-> "pending"]
        BY <2>1, <3>1
      <4>2. start + i - Len(queue) - 1 \in Nat
        BY <1>1, <2>2, <3>1
      <4> QED BY <1>1, <3>1, <4>1, <4>2 DEF QueueRow
    <3>2. CASE i <= Len(queue)
      <4>1. queue[i] \in QueueRow /\ i \in 1 .. Len(queue)
        BY <1>1, <2>3, <3>2
      <4>2. queue'[i] = IF i \in Pending THEN [queue[i] EXCEPT !.state = "deleted"] ELSE queue[i]
        BY <1>1, <2>1, <3>2
      <4>3. i \in Pending => queue[i].state = "pending"
        BY DEF Pending
      <4> QED BY <4>1, <4>2, <4>3 DEF QueueRow
    <3> QED BY <1>1, <2>2, <3>1, <3>2
  <2>5. queue' = [i \in 1 .. Len(queue) + n |-> queue'[i]]
    BY <2>1
  <2>6. queue' \in Seq(QueueRow) /\ DOMAIN queue' = 1 .. Len(queue) + n
    BY <2>2, <2>4, <2>5, RowsOfSeq
  <2>7. shown' = shown
    BY <1>7 DEF ReplaceQueue
  <2> QED BY <1>1, <2>2, <2>4, <2>6, <2>7 DEF Accounted
<1>8. CASE Vote \/ Publish \/ ClearHistory
  BY <1>2, <1>8 DEF Vote, Publish, ClearHistory
<1> QED BY <1>2, <1>4, <1>5, <1>6, <1>7, <1>8, StepsOfTables DEF TableStep, database
-----------------------------------------------------------------------------
(* What the server and a command hold. *)

LEMMA Later ==
  ASSUME NEW r, NEW t \in Day, NEW u \in Day, t <= u, IsProc(r, t)
  PROVE  IsProc(r, u)
BY DEF IsProc, Day

\* The records that steps build from one.
Fields == {"pc", "kind", "day", "checked", "held", "cursor", "found", "plan"}

LEMMA BegunRecord ==
  ASSUME NEW r, NEW t, IsProc(r, t), NEW a, NEW b, NEW c
  PROVE  [r EXCEPT !.pc = a, !.kind = b, !.day = c]
           = [pc |-> a, kind |-> b, day |-> c, checked |-> r.checked, held |-> r.held,
              cursor |-> r.cursor, found |-> r.found, plan |-> r.plan]
<1> DEFINE s == [r EXCEPT !.pc = a, !.kind = b, !.day = c]
<1>0. r = [pc |-> r.pc, kind |-> r.kind, day |-> r.day, checked |-> r.checked, held |-> r.held,
           cursor |-> r.cursor, found |-> r.found, plan |-> r.plan]
  BY DEF IsProc
<1>1. s = [f \in Fields |-> s[f]]
  BY <1>0 DEF Fields
<1>2. /\ s.pc = a
      /\ s.kind = b
      /\ s.day = c
      /\ s.checked = r.checked
      /\ s.held = r.held
      /\ s.cursor = r.cursor
      /\ s.found = r.found
      /\ s.plan = r.plan
  BY <1>0
<1> HIDE DEF s
<1>3. s = [pc |-> a, kind |-> b, day |-> c, checked |-> r.checked, held |-> r.held,
           cursor |-> r.cursor, found |-> r.found, plan |-> r.plan]
  BY <1>1, <1>2 DEF Fields
<1> QED BY <1>3 DEF s

LEMMA AskedRecord ==
  ASSUME NEW r, NEW t, IsProc(r, t), NEW a, NEW b, NEW c, NEW e
  PROVE  [r EXCEPT !.pc = a, !.kind = b, !.day = c, !.cursor = e]
           = [pc |-> a, kind |-> b, day |-> c, checked |-> r.checked, held |-> r.held,
              cursor |-> e, found |-> r.found, plan |-> r.plan]
<1> DEFINE s == [r EXCEPT !.pc = a, !.kind = b, !.day = c, !.cursor = e]
<1>0. r = [pc |-> r.pc, kind |-> r.kind, day |-> r.day, checked |-> r.checked, held |-> r.held,
           cursor |-> r.cursor, found |-> r.found, plan |-> r.plan]
  BY DEF IsProc
<1>1. s = [f \in Fields |-> s[f]]
  BY <1>0 DEF Fields
<1>2. /\ s.pc = a
      /\ s.kind = b
      /\ s.day = c
      /\ s.checked = r.checked
      /\ s.held = r.held
      /\ s.cursor = e
      /\ s.found = r.found
      /\ s.plan = r.plan
  BY <1>0
<1> HIDE DEF s
<1>3. s = [pc |-> a, kind |-> b, day |-> c, checked |-> r.checked, held |-> r.held,
           cursor |-> e, found |-> r.found, plan |-> r.plan]
  BY <1>1, <1>2 DEF Fields
<1> QED BY <1>3 DEF s

LEMMA PlannedRecord ==
  ASSUME NEW r, NEW t, IsProc(r, t), NEW a, NEW b, NEW c, NEW e
  PROVE  [r EXCEPT !.pc = a, !.kind = b, !.day = c, !.plan = e]
           = [pc |-> a, kind |-> b, day |-> c, checked |-> r.checked, held |-> r.held,
              cursor |-> r.cursor, found |-> r.found, plan |-> e]
<1> DEFINE s == [r EXCEPT !.pc = a, !.kind = b, !.day = c, !.plan = e]
<1>0. r = [pc |-> r.pc, kind |-> r.kind, day |-> r.day, checked |-> r.checked, held |-> r.held,
           cursor |-> r.cursor, found |-> r.found, plan |-> r.plan]
  BY DEF IsProc
<1>1. s = [f \in Fields |-> s[f]]
  BY <1>0 DEF Fields
<1>2. /\ s.pc = a
      /\ s.kind = b
      /\ s.day = c
      /\ s.checked = r.checked
      /\ s.held = r.held
      /\ s.cursor = r.cursor
      /\ s.found = r.found
      /\ s.plan = e
  BY <1>0
<1> HIDE DEF s
<1>3. s = [pc |-> a, kind |-> b, day |-> c, checked |-> r.checked, held |-> r.held,
           cursor |-> r.cursor, found |-> r.found, plan |-> e]
  BY <1>1, <1>2 DEF Fields
<1> QED BY <1>3 DEF s

LEMMA EnsuredRecord ==
  ASSUME NEW r, NEW t, IsProc(r, t), NEW a, NEW b, NEW c
  PROVE  [r EXCEPT !.pc = a, !.held = b, !.checked = c]
           = [pc |-> a, kind |-> r.kind, day |-> r.day, checked |-> c, held |-> b,
              cursor |-> r.cursor, found |-> r.found, plan |-> r.plan]
<1> DEFINE s == [r EXCEPT !.pc = a, !.held = b, !.checked = c]
<1>0. r = [pc |-> r.pc, kind |-> r.kind, day |-> r.day, checked |-> r.checked, held |-> r.held,
           cursor |-> r.cursor, found |-> r.found, plan |-> r.plan]
  BY DEF IsProc
<1>1. s = [f \in Fields |-> s[f]]
  BY <1>0 DEF Fields
<1>2. /\ s.pc = a
      /\ s.kind = r.kind
      /\ s.day = r.day
      /\ s.checked = c
      /\ s.held = b
      /\ s.cursor = r.cursor
      /\ s.found = r.found
      /\ s.plan = r.plan
  BY <1>0
<1> HIDE DEF s
<1>3. s = [pc |-> a, kind |-> r.kind, day |-> r.day, checked |-> c, held |-> b,
           cursor |-> r.cursor, found |-> r.found, plan |-> r.plan]
  BY <1>1, <1>2 DEF Fields
<1> QED BY <1>3 DEF s

LEMMA ReadRecord ==
  ASSUME NEW r, NEW t, IsProc(r, t), NEW a, NEW b
  PROVE  [r EXCEPT !.pc = a, !.found = b]
           = [pc |-> a, kind |-> r.kind, day |-> r.day, checked |-> r.checked, held |-> r.held,
              cursor |-> r.cursor, found |-> b, plan |-> r.plan]
<1> DEFINE s == [r EXCEPT !.pc = a, !.found = b]
<1>0. r = [pc |-> r.pc, kind |-> r.kind, day |-> r.day, checked |-> r.checked, held |-> r.held,
           cursor |-> r.cursor, found |-> r.found, plan |-> r.plan]
  BY DEF IsProc
<1>1. s = [f \in Fields |-> s[f]]
  BY <1>0 DEF Fields
<1>2. /\ s.pc = a
      /\ s.kind = r.kind
      /\ s.day = r.day
      /\ s.checked = r.checked
      /\ s.held = r.held
      /\ s.cursor = r.cursor
      /\ s.found = b
      /\ s.plan = r.plan
  BY <1>0
<1> HIDE DEF s
<1>3. s = [pc |-> a, kind |-> r.kind, day |-> r.day, checked |-> r.checked, held |-> r.held,
           cursor |-> r.cursor, found |-> b, plan |-> r.plan]
  BY <1>1, <1>2 DEF Fields
<1> QED BY <1>3 DEF s

LEMMA SeededRecord ==
  ASSUME NEW r, NEW t, IsProc(r, t), NEW a
  PROVE  [r EXCEPT !.plan = a]
           = [pc |-> r.pc, kind |-> r.kind, day |-> r.day, checked |-> r.checked, held |-> r.held,
              cursor |-> r.cursor, found |-> r.found, plan |-> a]
<1> DEFINE s == [r EXCEPT !.plan = a]
<1>0. r = [pc |-> r.pc, kind |-> r.kind, day |-> r.day, checked |-> r.checked, held |-> r.held,
           cursor |-> r.cursor, found |-> r.found, plan |-> r.plan]
  BY DEF IsProc
<1>1. s = [f \in Fields |-> s[f]]
  BY <1>0 DEF Fields
<1>2. /\ s.pc = r.pc
      /\ s.kind = r.kind
      /\ s.day = r.day
      /\ s.checked = r.checked
      /\ s.held = r.held
      /\ s.cursor = r.cursor
      /\ s.found = r.found
      /\ s.plan = a
  BY <1>0
<1> HIDE DEF s
<1>3. s = [pc |-> r.pc, kind |-> r.kind, day |-> r.day, checked |-> r.checked, held |-> r.held,
           cursor |-> r.cursor, found |-> r.found, plan |-> a]
  BY <1>1, <1>2 DEF Fields
<1> QED BY <1>3 DEF s

\* What one step makes of process p.
Becomes(p, r) == proc' = [proc EXCEPT ![p] = r]

LEMMA Became ==
  ASSUME Shapes, NEW p \in {Server, Cli}, NEW r, Becomes(p, r), IsProc(r, clock), clock' = clock
  PROVE  /\ proc' = [q \in {Server, Cli} |-> proc'[q]]
         /\ \A q \in {Server, Cli} : IsProc(proc'[q], clock')
<1>1. proc' = [q \in {Server, Cli} |-> IF q = p THEN r ELSE proc[q]]
  BY DEF Shapes, Becomes
<1> QED BY <1>1 DEF Shapes

LEMMA DoneIsProc ==
  ASSUME NEW p, NEW t
  PROVE  IsProc(Done(p), t) /\ Done(p).pc = "idle" /\ Done(p).kind = "none"
<1>1. Done(p) = [pc |-> "idle", kind |-> "none", day |-> 0,
                 checked |-> IF p = Server THEN proc[p].checked ELSE 0, held |-> NoCase,
                 cursor |-> -1, found |-> NoArchive, plan |-> <<>>]
  BY DEF Done, Idle
<1> QED BY <1>1 DEF IsProc, ArchiveCursors

LEMMA BegunIsProc ==
  ASSUME Shapes, NEW p \in {Server, Cli}, NEW kind
  PROVE  LET r == [proc[p] EXCEPT !.pc = "ensure", !.kind = kind, !.day = clock]
         IN  /\ IsProc(r, clock) /\ r.pc = "ensure" /\ r.kind = kind
             /\ Begins(p, kind) => Becomes(p, r)
<1> DEFINE r == [proc[p] EXCEPT !.pc = "ensure", !.kind = kind, !.day = clock]
<1>1. IsProc(proc[p], clock) /\ clock \in 1 .. clock
  BY Dates1 DEF Shapes, Day
<1>2. r = [pc |-> "ensure", kind |-> kind, day |-> clock, checked |-> proc[p].checked,
           held |-> proc[p].held, cursor |-> proc[p].cursor, found |-> proc[p].found,
           plan |-> proc[p].plan]
  BY <1>1, BegunRecord
<1>3. Begins(p, kind) => Becomes(p, r)
  BY DEF Begins, Becomes
<1> HIDE DEF r
<1>4. IsProc(r, clock) /\ r.pc = "ensure" /\ r.kind = kind
  BY <1>1, <1>2 DEF IsProc
<1> QED BY <1>3, <1>4 DEF r

LEMMA AfterIsProc ==
  ASSUME Shapes, NEW p \in {Server, Cli}, NEW c \in CaseId, proc[p].pc = "ensure"
  PROVE  /\ IsProc(After(p, c), clock) /\ After(p, c).pc # "version"
         /\ After(p, c).kind = "history"
              => proc[p].kind = "history" /\ After(p, c).cursor = proc[p].cursor
<1>1. IsProc(proc[p], clock)
  BY DEF Shapes
<1>2. CASE proc[p].kind = "status"
  BY <1>2, Parts DEF After, Idle
<1>3. CASE proc[p].kind # "status"
  <2> DEFINE a == IF proc[p].kind = "history" THEN "rows" ELSE "act"
  <2>1. After(p, c) = [proc[p] EXCEPT !.pc = a, !.held = c, !.checked = proc[p].day]
    BY <1>3 DEF After
  <2>0. /\ a \in {"rows", "act"} /\ (a = "rows" => proc[p].kind = "history")
    OBVIOUS
  <2> HIDE DEF a
  <2>3. [proc[p] EXCEPT !.pc = a, !.held = c, !.checked = proc[p].day]
          = [pc |-> a, kind |-> proc[p].kind, day |-> proc[p].day,
             checked |-> proc[p].day, held |-> c, cursor |-> proc[p].cursor,
             found |-> proc[p].found, plan |-> proc[p].plan]
    BY <1>1, EnsuredRecord
  <2>2. After(p, c) = [pc |-> a, kind |-> proc[p].kind, day |-> proc[p].day,
                       checked |-> proc[p].day, held |-> c, cursor |-> proc[p].cursor,
                       found |-> proc[p].found, plan |-> proc[p].plan]
    BY <2>1, <2>3
  <2> QED BY <1>1, <2>0, <2>2 DEF IsProc
<1> QED BY <1>2, <1>3

\* Every table of rows with those of a version on, and the archive made of them.
LEMMA NewerTable ==
  ASSUME NEW K, NEW rows, Table(rows, K), NEW c
  PROVE  /\ Table(Newer(rows, c), K)
         /\ \A x \in K : Newer(rows, c)[x] = IF rows[x].v > c THEN rows[x] ELSE NoRow
BY DEF Table, Newer

LEMMA NewerTables ==
  ASSUME NEW rows, Tables(rows), NEW c
  PROVE  /\ Tables(NewerPeriods(rows, c))
         /\ \A k \in Kind : NewerPeriods(rows, c)[k] = Newer(rows[k], c)
<1>1. \A k \in Kind : NewerPeriods(rows, c)[k] = Newer(rows[k], c)
  BY DEF NewerPeriods
<1>2. \A k \in Kind : Table(Newer(rows[k], c), PeriodId)
  BY NewerTable DEF Tables
<1> QED BY <1>1, <1>2 DEF Tables, NewerPeriods

FoundRows == [EmptyArchive EXCEPT !.days = Newer(dayRow, proc[Server].cursor),
                                  !.periods = NewerPeriods(periodRow, proc[Server].cursor)]

LEMMA FoundIsArchive ==
  ASSUME Shapes
  PROVE  IsArchive(FoundRows) /\ InHand([found |-> FoundRows, cursor |-> proc[Server].cursor],
                                        dayRow, periodRow)
<1> DEFINE days == Newer(dayRow, proc[Server].cursor)
           periods == NewerPeriods(periodRow, proc[Server].cursor)
<1>1. FoundRows = [v |-> 0, days |-> days, periods |-> periods,
                   voters |-> [k \in Kind |-> 0], stale |-> FALSE]
  <2>1. /\ FoundRows = [f \in {"v", "days", "periods", "voters", "stale"} |-> FoundRows[f]]
        /\ FoundRows.v = 0 /\ FoundRows.days = days /\ FoundRows.periods = periods
        /\ FoundRows.voters = [k \in Kind |-> 0] /\ FoundRows.stale = FALSE
    BY DEF FoundRows, EmptyArchive
  <2> HIDE DEF days, periods
  <2> QED BY <2>1
<1>2. Table(days, Day) /\ Tables(periods)
  BY NewerTable, NewerTables DEF Shapes
<1>3. InHand([found |-> FoundRows, cursor |-> proc[Server].cursor], dayRow, periodRow)
  BY <1>1 DEF InHand
<1> HIDE DEF days, periods
<1> QED BY <1>1, <1>2, <1>3 DEF IsArchive

(* Archives that are built from others. *)

ArchiveFields == {"v", "days", "periods", "voters", "stale"}

LEMMA ArchiveRecord ==
  ASSUME NEW s, s = [f \in ArchiveFields |-> s[f]]
  PROVE  s = [v |-> s.v, days |-> s.days, periods |-> s.periods, voters |-> s.voters,
              stale |-> s.stale]
BY DEF ArchiveFields

LEMMA ReplacedTable ==
  ASSUME NEW K, NEW cur, NEW inc, Table(cur, K)
  PROVE  /\ Table(ReplaceByKey(cur, inc), K)
         /\ \A x \in K : ReplaceByKey(cur, inc)[x] = IF inc[x] # NoRow THEN inc[x] ELSE cur[x]
BY DEF Table, ReplaceByKey

LEMMA MergedIsArchive ==
  ASSUME NEW cur, NEW inc, IsCopy(cur), IsArchive(inc), NEW full \in BOOLEAN
  PROVE  LET m == Merge(cur, inc, full)
         IN  /\ IsArchive(m)
             /\ cur = NoArchive \/ full => m = inc
             /\ cur # NoArchive /\ ~full /\ inc.v < cur.v => m = cur
             /\ cur # NoArchive /\ ~full /\ ~ (inc.v < cur.v) =>
                  /\ m.v = inc.v /\ m.days = ReplaceByKey(cur.days, inc.days)
                  /\ \A k \in Kind : m.periods[k] = ReplaceByKey(cur.periods[k], inc.periods[k])
<1> DEFINE m == Merge(cur, inc, full)
<1>1. CASE cur = NoArchive \/ full
  BY <1>1 DEF Merge
<1>2. CASE cur # NoArchive /\ ~full /\ inc.v < cur.v
  BY <1>2 DEF Merge, IsCopy
<1>3. CASE cur # NoArchive /\ ~full /\ ~ (inc.v < cur.v)
  <2> DEFINE days == ReplaceByKey(cur.days, inc.days)
             periods == [k \in Kind |-> ReplaceByKey(cur.periods[k], inc.periods[k])]
  <2>1. m = [inc EXCEPT !.days = days, !.periods = periods]
    BY <1>3 DEF Merge
  <2>2. Table(days, Day)
    BY <1>3, ReplacedTable DEF IsCopy, IsArchive
  <2>3. Tables(periods)
    BY <1>3, ReplacedTable DEF IsCopy, IsArchive, Tables
  <2>4. \A k \in Kind : periods[k] = ReplaceByKey(cur.periods[k], inc.periods[k])
    OBVIOUS
  <2> HIDE DEF days, periods, m
  <2>5. m = [f \in ArchiveFields |-> m[f]]
    BY <2>1 DEF IsArchive, ArchiveFields
  <2>6. m.v = inc.v /\ m.days = days /\ m.periods = periods
    BY <2>1 DEF IsArchive
  <2>7. IsArchive(m)
    BY <2>2, <2>3, <2>5, <2>6, ArchiveRecord DEF IsArchive
  <2> QED BY <1>3, <2>4, <2>6, <2>7 DEF days, m
<1> QED BY <1>1, <1>2, <1>3

LEMMA StaleIsArchive ==
  ASSUME NEW a, IsCopy(a)
  PROVE  LET s == GoneStale(a)
         IN  /\ IsArchive(s)
             /\ a = NoArchive => s.v = 0 /\ s.days = EmptyArchive.days
                                 /\ s.periods = EmptyArchive.periods
             /\ a # NoArchive => s.v = a.v /\ s.days = a.days /\ s.periods = a.periods
<1> DEFINE b == IF a = NoArchive THEN EmptyArchive ELSE a
           s == GoneStale(a)
<1>1. IsArchive(b)
  BY Parts DEF IsCopy
<1>2. s = [b EXCEPT !.stale = TRUE]
  BY DEF GoneStale
<1>3. /\ a = NoArchive => b = EmptyArchive
      /\ a # NoArchive => b = a
  OBVIOUS
<1> HIDE DEF b, s
<1>4. s = [f \in ArchiveFields |-> s[f]]
  BY <1>1, <1>2 DEF IsArchive, ArchiveFields
<1>5. s.v = b.v /\ s.days = b.days /\ s.periods = b.periods
  BY <1>1, <1>2 DEF IsArchive
<1>6. IsArchive(s)
  BY <1>1, <1>4, <1>5, ArchiveRecord DEF IsArchive
<1>7. EmptyArchive.v = 0
  BY DEF EmptyArchive
<1> QED BY <1>3, <1>5, <1>6, <1>7 DEF s

LEMMA ServedIsArchive ==
  ASSUME IsCopy(cache), NEW c
  PROVE  LET s == Served(c)
             b == IF cache = NoArchive THEN EmptyArchive ELSE cache
         IN  /\ IsArchive(s) /\ s.v = b.v
             /\ s.days = Newer(b.days, c)
             /\ \A k \in Kind : s.periods[k] = Newer(b.periods[k], c)
<1> DEFINE b == IF cache = NoArchive THEN EmptyArchive ELSE cache
           s == Served(c)
           days == Newer(b.days, c)
           periods == NewerPeriods(b.periods, c)
<1>1. IsArchive(b)
  BY Parts DEF IsCopy
<1>2. s = [b EXCEPT !.days = days, !.periods = periods]
  BY DEF Served
<1> HIDE DEF b
<1>3. Table(days, Day)
  BY <1>1, NewerTable DEF IsArchive
<1>4. Tables(periods) /\ \A k \in Kind : periods[k] = Newer(b.periods[k], c)
  BY <1>1, NewerTables DEF IsArchive
<1> HIDE DEF s, days, periods
<1>5. s = [f \in ArchiveFields |-> s[f]]
  BY <1>1, <1>2 DEF IsArchive, ArchiveFields
<1>6. s.v = b.v /\ s.days = days /\ s.periods = periods
  BY <1>1, <1>2 DEF IsArchive
<1>7. IsArchive(s)
  BY <1>1, <1>3, <1>4, <1>5, <1>6, ArchiveRecord DEF IsArchive
<1> QED BY <1>4, <1>6, <1>7 DEF s, b, days

LEMMA EnvelopeIsArchive ==
  ASSUME version \in Nat, NEW rows, IsArchive(rows), NEW d
  PROVE  LET e == Envelope(d, rows)
         IN  IsArchive(e) /\ e.v = version /\ e.days = rows.days /\ e.periods = rows.periods
<1> DEFINE e == Envelope(d, rows)
           voters == [k \in Kind |-> OpenVoters(k, d)]
<1>1. e = [rows EXCEPT !.v = version, !.voters = voters]
  BY DEF Envelope
<1> HIDE DEF e, voters
<1>2. e = [f \in ArchiveFields |-> e[f]]
  BY <1>1 DEF IsArchive, ArchiveFields
<1>3. e.v = version /\ e.days = rows.days /\ e.periods = rows.periods
  BY <1>1 DEF IsArchive
<1>4. IsArchive(e)
  BY <1>2, <1>3, ArchiveRecord DEF IsArchive
<1> QED BY <1>3, <1>4 DEF e
-----------------------------------------------------------------------------
(* The shapes stay. *)

LEMMA Who == Server \in {Server, Cli} /\ Cli \in {Server, Cli}
OBVIOUS

LEMMA ProcStep ==
  ASSUME Shapes, [HistoryNext]_historyVars
  PROVE  /\ proc' = [q \in {Server, Cli} |-> proc'[q]]
         /\ \A q \in {Server, Cli} : IsProc(proc'[q], clock')
<1> DEFINE Good == /\ proc' = [q \in {Server, Cli} |-> proc'[q]]
                   /\ \A q \in {Server, Cli} : IsProc(proc'[q], clock')
<1> SUFFICES Good
  OBVIOUS
<1>a. CASE UNCHANGED proc
  BY <1>a, ClockStep, Later DEF Shapes
<1>b. ASSUME NEW p \in {Server, Cli}, NEW r, Becomes(p, r), IsProc(r, clock), clock' = clock
      PROVE  Good
  BY <1>b, Became
<1>c. ASSUME NEW p \in {Server, Cli}, Finish(p), clock' = clock PROVE Good
  BY <1>b, <1>c, DoneIsProc DEF Finish, Becomes
<1>d. ASSUME NEW p \in {Server, Cli}, NEW kind, Begins(p, kind), clock' = clock PROVE Good
  <2> DEFINE r == [proc[p] EXCEPT !.pc = "ensure", !.kind = kind, !.day = clock]
  <2>1. IsProc(r, clock) /\ Becomes(p, r)
    BY <1>d, BegunIsProc
  <2> HIDE DEF r, Good
  <2> QED BY <1>b, <1>d, <2>1
<1>e. ASSUME NEW p \in {Server, Cli}, NEW c \in CaseId, proc[p].pc = "ensure",
             Becomes(p, After(p, c)), clock' = clock
      PROVE  Good
  BY <1>b, <1>e, AfterIsProc
<1> HIDE DEF Good
<1>1. CASE Midnight
  BY <1>a, <1>1 DEF Midnight, Good
<1>2. ASSUME NEW p \in {Server, Cli}, Ensure(p) PROVE Good
  <2>1. CASE EnsureFinds(p)
    BY <1>e, <2>1 DEF EnsureFinds, ActiveOn, Becomes
  <2>2. CASE RollOver(p)
    <3>0. proc[p].pc = "ensure" /\ IsProc(proc[p], clock) /\ clock \in Day
      BY <2>2 DEF RollOver, NeedsRollOver, Shapes
    <3>1. proc[p].pc = "ensure" /\ proc[p].day \in Day
      BY <3>0, Dates1 DEF IsProc, Day
    <3>2. PICK c \in IF NoneActive(proc[p].day) THEN {<<proc[p].day, "daily">>} ELSE ActiveOn(proc[p].day) :
            Becomes(p, After(p, c))
      BY <2>2 DEF RollOver, Becomes
    <3>3. c \in CaseId
      BY <3>1, <3>2, Dates1 DEF ActiveOn
    <3> QED BY <1>e, <2>2, <3>1, <3>2, <3>3 DEF RollOver
  <2>3. CASE RollOverFails(p)
    BY <1>c, <2>3 DEF RollOverFails
  <2> QED BY <1>2, <2>1, <2>2, <2>3 DEF Ensure
<1>3. CASE Serve
  <2>1. CASE BeginVote
    BY <1>d, <2>1, Who DEF BeginVote
  <2>2. CASE Vote
    BY <1>c, <2>2, Who DEF Vote
  <2>3. CASE AnswerPoll
    BY <1>c, <2>3, Who DEF AnswerPoll
  <2>4. CASE AnswerHistory
    BY <1>c, <2>4, Who DEF AnswerHistory
  <2>5. CASE BeginHistory
    <3> DEFINE r == [proc[Server] EXCEPT !.pc = "ensure", !.kind = "history", !.day = clock,
                                         !.cursor = fetch.cursor]
    <3>1. Becomes(Server, r) /\ clock' = clock /\ fetch.st = "asked"
      BY <2>5 DEF BeginHistory, Becomes
    <3>2. IsProc(proc[Server], clock) /\ clock \in 1 .. clock /\ fetch.cursor \in ArchiveCursors
      BY <3>1, Dates1, Parts DEF Shapes, Day, IsFetch
    <3>3. r = [pc |-> "ensure", kind |-> "history", day |-> clock, checked |-> proc[Server].checked,
               held |-> proc[Server].held, cursor |-> fetch.cursor, found |-> proc[Server].found,
               plan |-> proc[Server].plan]
      BY <3>2, AskedRecord
    <3> HIDE DEF r
    <3>4. IsProc(r, clock)
      BY <3>2, <3>3 DEF IsProc
    <3> QED BY <1>b, <3>1, <3>4, Who
  <2>6. CASE ReadRows
    <3> DEFINE r == [proc[Server] EXCEPT !.pc = "version", !.found = FoundRows]
    <3>1. Becomes(Server, r) /\ clock' = clock /\ proc[Server].pc = "rows"
      BY <2>6 DEF ReadRows, Becomes, FoundRows
    <3>2. IsProc(proc[Server], clock) /\ IsArchive(FoundRows)
      BY FoundIsArchive DEF Shapes
    <3>3. r = [pc |-> "version", kind |-> proc[Server].kind, day |-> proc[Server].day,
               checked |-> proc[Server].checked, held |-> proc[Server].held,
               cursor |-> proc[Server].cursor, found |-> FoundRows, plan |-> proc[Server].plan]
      BY <3>2, ReadRecord
    <3> HIDE DEF r
    <3>4. IsProc(r, clock)
      BY <3>1, <3>2, <3>3 DEF IsProc
    <3> QED BY <1>b, <3>1, <3>4, Who
  <2> QED BY <1>3, <2>1, <2>2, <2>3, <2>4, <2>5, <2>6 DEF Serve
<1>4. CASE Operate
  <2>1. CASE BeginStatus
    BY <1>d, <2>1, Who DEF BeginStatus
  <2>2. CASE Publish \/ ClearHistory \/ QueueAdd \/ ReplaceQueue
    BY <1>a, <2>2 DEF Publish, ClearHistory, QueueAdd, ReplaceQueue, Good
  <2>3. CASE PlanSeed
    <3>0. PICK start \in clock + 1 .. LastDay, n \in 1 .. MaxQueued - Len(queue) :
            \E plan \in FreeDates(start, n) : proc' = [proc EXCEPT ![Cli] =
              [Idle EXCEPT !.pc = "seed", !.kind = "seed", !.day = clock, !.plan = plan]]
      BY <2>3 DEF PlanSeed
    <3>1. PICK plan \in FreeDates(start, n) :
            Becomes(Cli, [Idle EXCEPT !.pc = "seed", !.kind = "seed", !.day = clock, !.plan = plan])
      BY <3>0 DEF Becomes
    <3>2. plan \in Seq(Nat) /\ plan # <<>>
      <4>1. plan \in [1 .. n -> start .. LastDay + MaxQueued]
        BY DEF FreeDates
      <4>2. n \in Nat \ {0} /\ start \in Nat /\ LastDay + MaxQueued \in Nat /\ clock \in Day
        BY Counting, HistoryAssumption DEF Shapes, Day
      <4>3. plan = [i \in 1 .. n |-> plan[i]] /\ \A i \in 1 .. n : plan[i] \in Nat
        BY <4>1, <4>2
      <4>4. plan \in Seq(Nat) /\ Len(plan) = n
        BY <4>2, <4>3
      <4> QED BY <4>2, <4>4
    <3> DEFINE r == [Idle EXCEPT !.pc = "seed", !.kind = "seed", !.day = clock, !.plan = plan]
    <3>3. IsProc(Idle, clock) /\ clock \in 1 .. clock
      BY Parts, Dates1 DEF Shapes, Day
    <3>4. r = [pc |-> "seed", kind |-> "seed", day |-> clock, checked |-> Idle.checked,
               held |-> Idle.held, cursor |-> Idle.cursor, found |-> Idle.found, plan |-> plan]
      BY <3>3, PlannedRecord
    <3>5. Becomes(Cli, r)
      BY <3>1
    <3> HIDE DEF r
    <3>6. IsProc(r, clock)
      BY <3>2, <3>3, <3>4 DEF IsProc
    <3>7. clock' = clock
      BY <2>3 DEF PlanSeed
    <3> QED BY <1>b, <3>5, <3>6, <3>7, Who
  <2>4. CASE SeedNext
    <3> DEFINE plan == proc[Cli].plan
               r == IF Tail(plan) = <<>> THEN Done(Cli) ELSE [proc[Cli] EXCEPT !.plan = Tail(plan)]
    <3>1. Becomes(Cli, r) /\ clock' = clock /\ proc[Cli].pc = "seed"
      BY <2>4 DEF SeedNext, Becomes
    <3>2. IsProc(proc[Cli], clock) /\ plan \in Seq(Nat) /\ plan # <<>>
      BY <3>1, Who DEF Shapes, IsProc
    <3>3. Tail(plan) \in Seq(Nat)
      BY <3>2
    <3>4. CASE Tail(plan) = <<>>
      BY <1>b, <3>1, <3>4, DoneIsProc, Who
    <3>5. CASE Tail(plan) # <<>>
      <4> DEFINE s == [proc[Cli] EXCEPT !.plan = Tail(plan)]
      <4>1. s = [pc |-> proc[Cli].pc, kind |-> proc[Cli].kind, day |-> proc[Cli].day,
                 checked |-> proc[Cli].checked, held |-> proc[Cli].held,
                 cursor |-> proc[Cli].cursor, found |-> proc[Cli].found, plan |-> Tail(plan)]
        BY <3>2, SeededRecord
      <4>2. Becomes(Cli, s)
        BY <3>1, <3>5
      <4> HIDE DEF s, r, plan
      <4>3. IsProc(s, clock)
        BY <3>2, <3>3, <3>5, <4>1 DEF IsProc
      <4> QED BY <1>b, <3>1, <4>2, <4>3, Who
    <3> QED BY <3>4, <3>5
  <2> QED BY <1>4, <2>1, <2>2, <2>3, <2>4 DEF Operate
<1>5. CASE Relay
  <2>1. CASE AskPoll \/ PollTurnsOver
    BY <1>d, <2>1, Who DEF AskPoll, PollTurnsOver, AsksFor
  <2>2. CASE ~ (AskPoll \/ PollTurnsOver)
    BY <1>a, <1>5, <2>2 DEF Relay, AdoptSnapshot, AdoptBootstrap, Adopt, PollFails,
       FetchLands, FetchFails, RestartHost, Good
  <2> QED BY <2>1, <2>2
<1>6. CASE Browse
  BY <1>a, <1>6 DEF Browse, FrameArrives, AskLoad, LoadLands, LoadFails, Good
<1>7. CASE UNCHANGED historyVars
  BY <1>a, <1>7 DEF historyVars, Good
<1> QED BY <1>1, <1>2, <1>3, <1>4, <1>5, <1>6, <1>7 DEF HistoryNext

LEMMA TablesStep ==
  ASSUME Shapes, [HistoryNext]_historyVars
  PROVE  /\ version' \in Nat /\ caseStatus' \in [CaseId -> States]
         /\ ballots' \subseteq Voter \X CaseId
         /\ Table(dayRow', Day) /\ Tables(periodRow')
<1> DEFINE Good == /\ version' \in Nat /\ caseStatus' \in [CaseId -> States]
                   /\ ballots' \subseteq Voter \X CaseId
                   /\ Table(dayRow', Day) /\ Tables(periodRow')
<1> SUFFICES Good
  OBVIOUS
<1>0. /\ version \in Nat /\ caseStatus \in [CaseId -> States]
      /\ ballots \subseteq Voter \X CaseId
      /\ Table(dayRow, Day) /\ Tables(periodRow)
      /\ \A p \in {Server, Cli} : IsProc(proc[p], clock)
  BY DEF Shapes
<1>a. CASE UNCHANGED <<version, caseStatus, ballots, dayRow, periodRow>>
  BY <1>0, <1>a
<1>b. \A s : s \in [CaseId -> States] <=> s = [c \in CaseId |-> s[c]] /\ \A c \in CaseId : s[c] \in States
  OBVIOUS
<1>c. \A S, T : Statuses(S, T) \in [CaseId -> States]
  BY <1>0 DEF Statuses, States
<1>1. ASSUME NEW p \in {Server, Cli}, RollOver(p) PROVE Good
  <2> DEFINE d == proc[p].day
  <2>1. /\ version' = NextVersion(d) /\ dayRow' = DaysAfter(d) /\ periodRow' = PeriodsAfter(d)
        /\ ballots' = ballots
        /\ \E c \in CaseId \cup {<<d, "daily">>} : caseStatus' = Statuses(EarlierActive(d), {c})
    BY <1>1 DEF RollOver, ActiveOn
  <2> HIDE DEF d
  <2>2. version' \in Nat
    BY <1>0, <2>1 DEF NextVersion
  <2>3. Table(dayRow', Day)
    BY <2>1 DEF DaysAfter, Table
  <2>4. Tables(periodRow')
    BY <2>1 DEF PeriodsAfter, Tables, Table
  <2> QED BY <1>0, <1>c, <2>1, <2>2, <2>3, <2>4
<1>2. CASE Vote
  <2>1. IsProc(proc[Server], clock) /\ proc[Server].pc = "act"
    BY <1>0, <1>2, Who DEF Vote
  <2>2. proc[Server].held \in CaseId
    BY <2>1 DEF IsProc
  <2> QED BY <1>0, <1>2, <2>2 DEF Vote
<1>3. CASE Publish
  BY <1>0, <1>3, <1>c DEF Publish
<1>4. CASE ClearHistory
  <2>1. Table(dayRow', Day) /\ Tables(periodRow')
    BY <1>4 DEF ClearHistory, EmptyArchive, Table, Tables
  <2>2. caseStatus' \in [CaseId -> States]
    BY <1>0, <1>4 DEF ClearHistory, States
  <2> QED BY <1>0, <1>4, <2>1, <2>2 DEF ClearHistory
<1>5. CASE QueueAdd \/ SeedNext \/ ReplaceQueue
  BY <1>a, <1>5 DEF QueueAdd, SeedNext, ReplaceQueue
<1>6. CASE UNCHANGED database
  BY <1>a, <1>6 DEF database
<1> QED BY <1>1, <1>2, <1>3, <1>4, <1>5, <1>6, StepsOfTables DEF TableStep

IsHost(h) == h = [date |-> h.date, case |-> h.case, v |-> h.v] /\ h.v \in Nat
IsLoad(l) == l = NoReq \/ (l = [st |-> "asked", cursor |-> l.cursor] /\ l.cursor \in ArchiveCursors)

LEMMA Asking ==
  ASSUME IsCopy(cache), IsCopy(front), IsFetch(fetch)
  PROVE  /\ IsFetch(Refreshing) /\ Refreshing.st = "asked" /\ Refreshing.cursor = cache.v
         /\ \A d, v : StartLoad(d, v) =>
              /\ IsLoad(load') /\ load'.st = "asked" /\ load'.cursor = front.v
              /\ IsFetch(fetch')
              /\ fetch' = fetch \/ (fetch' = Refreshing /\ fetch.st = "idle" /\ d # 0)
<1>1. cache.v \in ArchiveCursors /\ front.v \in ArchiveCursors
  BY Parts
<1>2. IsFetch(Refreshing) /\ Refreshing.st = "asked" /\ Refreshing.cursor = cache.v
  BY <1>1 DEF IsFetch, Refreshing
<1>3. ASSUME NEW d, NEW v, StartLoad(d, v)
      PROVE  /\ IsLoad(load') /\ load'.st = "asked" /\ load'.cursor = front.v
             /\ IsFetch(fetch')
             /\ fetch' = fetch \/ (fetch' = Refreshing /\ fetch.st = "idle" /\ d # 0)
  BY <1>1, <1>2, <1>3 DEF StartLoad, IsLoad, NeedsRefresh
<1> QED BY <1>2, <1>3

LEMMA OutsideStep ==
  ASSUME Shapes, [HistoryNext]_historyVars
  PROVE  /\ IsHost(adopted') /\ (poll'.st = "answered" => poll'.v \in Nat)
         /\ IsCopy(cache') /\ IsCopy(front') /\ IsFetch(fetch') /\ IsLoad(load')
<1> DEFINE Good == /\ IsHost(adopted') /\ (poll'.st = "answered" => poll'.v \in Nat)
                   /\ IsCopy(cache') /\ IsCopy(front') /\ IsFetch(fetch') /\ IsLoad(load')
<1> SUFFICES Good
  OBVIOUS
<1>0. /\ IsHost(adopted) /\ (poll.st = "answered" => poll.v \in Nat) /\ version \in Nat
      /\ IsCopy(cache) /\ IsCopy(front) /\ IsFetch(fetch) /\ IsLoad(load)
      /\ IsFetch(NoReq) /\ IsLoad(NoReq) /\ NoReq.st # "answered"
      /\ IsHost(NoHost) /\ IsCopy(NoArchive)
  BY DEF Shapes, IsHost, IsLoad, IsFetch, IsCopy, NoReq, NoHost
<1>a. CASE UNCHANGED <<adopted, poll, cache, front, fetch, load>>
  BY <1>0, <1>a
<1>1. CASE Midnight
  BY <1>a, <1>1 DEF Midnight, outside
<1>2. ASSUME NEW p \in {Server, Cli}, Ensure(p) PROVE Good
  BY <1>a, <1>2 DEF Ensure, EnsureFinds, RollOver, RollOverFails, outside
<1>3. CASE Serve
  <2>1. CASE BeginVote \/ Vote \/ BeginHistory \/ ReadRows
    BY <1>a, <2>1 DEF BeginVote, Vote, BeginHistory, ReadRows, outside
  <2>2. CASE AnswerPoll
    BY <1>0, <2>2 DEF AnswerPoll
  <2>3. CASE AnswerHistory
    <3>1. IsProc(proc[Server], clock) /\ proc[Server].pc = "version"
      BY <2>3, Who DEF AnswerHistory, Shapes
    <3>2. IsArchive(proc[Server].found) /\ proc[Server].cursor \in ArchiveCursors
      BY <3>1 DEF IsProc
    <3>3. IsArchive(Envelope(proc[Server].day, proc[Server].found))
      BY <1>0, <3>2, EnvelopeIsArchive
    <3>4. IsFetch(fetch')
      BY <1>0, <2>3, <3>2, <3>3 DEF AnswerHistory, IsFetch
    <3> QED BY <1>0, <2>3, <3>4 DEF AnswerHistory
  <2> QED BY <1>3, <2>1, <2>2, <2>3 DEF Serve
<1>4. CASE Operate
  BY <1>a, <1>4 DEF Operate, BeginStatus, Publish, ClearHistory, QueueAdd, PlanSeed, SeedNext,
                    ReplaceQueue, outside
<1>5. CASE Relay
  <2>1. CASE AskPoll \/ PollTurnsOver
    <3>1. poll'.st = "asked"
      BY <2>1 DEF AskPoll, PollTurnsOver, AsksFor
    <3> QED BY <1>0, <2>1, <3>1 DEF AskPoll, PollTurnsOver
  <2>2. ASSUME NEW b \in BOOLEAN, Adopt(b), poll.st = "answered" PROVE Good
    <3>1. IsFetch(fetch')
      BY <1>0, <2>2, Asking DEF Adopt
    <3>2. IsHost(adopted')
      BY <1>0, <2>2 DEF Adopt, IsHost
    <3> QED BY <1>0, <2>2, <3>1, <3>2 DEF Adopt
  <2>3. CASE AdoptSnapshot \/ AdoptBootstrap
    BY <2>2, <2>3 DEF AdoptSnapshot, AdoptBootstrap
  <2>4. CASE PollFails
    BY <1>0, <2>4 DEF PollFails
  <2>5. CASE FetchLands
    <3>1. IsArchive(fetch.rows)
      BY <1>0, <2>5 DEF FetchLands, IsFetch, NoReq
    <3>2. (fetch.cursor = -1) \in BOOLEAN
      OBVIOUS
    <3>3. IsArchive(Merge(cache, fetch.rows, fetch.cursor = -1))
      BY <1>0, <3>1, <3>2, MergedIsArchive
    <3>4. IsHost(adopted')
      <4>1. Larger(adopted.v, fetch.rows.v) \in Nat
        BY <1>0, <3>1 DEF Larger, IsHost, IsArchive
      <4>2. adopted' = [adopted EXCEPT !.v = Larger(adopted.v, fetch.rows.v)]
        BY <2>5 DEF FetchLands
      <4> QED BY <1>0, <4>1, <4>2 DEF IsHost
    <3> QED BY <1>0, <2>5, <3>3, <3>4 DEF FetchLands, IsCopy
  <2>6. CASE FetchFails
    BY <1>0, <2>6, StaleIsArchive DEF FetchFails, IsCopy
  <2>7. CASE RestartHost
    BY <1>0, <2>7, StaleIsArchive DEF RestartHost, IsCopy
  <2> QED BY <1>5, <2>1, <2>3, <2>4, <2>5, <2>6, <2>7 DEF Relay
<1>6. CASE Browse
  <2>1. CASE FrameArrives
    <3>1. IsFetch(fetch') /\ IsLoad(load')
      BY <1>0, <2>1, Asking DEF FrameArrives
    <3> QED BY <1>0, <2>1, <3>1 DEF FrameArrives
  <2>2. CASE AskLoad
    <3>1. IsFetch(fetch') /\ IsLoad(load')
      BY <1>0, <2>2, Asking DEF AskLoad
    <3> QED BY <1>0, <2>2, <3>1 DEF AskLoad
  <2>3. CASE LoadLands
    <3>1. (load.cursor = -1) \in BOOLEAN /\ IsArchive(Served(load.cursor))
      BY <1>0, ServedIsArchive
    <3>2. IsArchive(Merge(front, Served(load.cursor), load.cursor = -1))
      BY <1>0, <3>1, MergedIsArchive
    <3> QED BY <1>0, <2>3, <3>2 DEF LoadLands, IsCopy
  <2>4. CASE LoadFails
    BY <1>0, <2>4, StaleIsArchive DEF LoadFails, IsCopy
  <2> QED BY <1>6, <2>1, <2>2, <2>3, <2>4 DEF Browse
<1>7. CASE UNCHANGED historyVars
  BY <1>a, <1>7 DEF historyVars, outside
<1> QED BY <1>1, <1>2, <1>3, <1>4, <1>5, <1>6, <1>7 DEF HistoryNext

LEMMA ShapesStep ==
  ASSUME Shapes, Accounted, [HistoryNext]_historyVars
  PROVE  Shapes' /\ Accounted'
<1>1. clock' \in Day
  BY ClockStep DEF Shapes
<1>2. queue' \in Seq(QueueRow) /\ Accounted'
  BY ScheduleStep
<1> QED BY <1>1, <1>2, TablesStep, ProcStep, OutsideStep DEF Shapes, IsHost, IsLoad

LEMMA HistoryStarted ==
  ASSUME HistoryInit
  PROVE  Shapes /\ Accounted /\ InTime /\ SealedInv /\ CopyInv
<1>1. Shapes
  <2>1. clock \in Day /\ version \in Nat /\ caseStatus \in [CaseId -> States]
        /\ ballots \subseteq Voter \X CaseId /\ queue \in Seq(QueueRow)
    BY Dates1 DEF HistoryInit, States
  <2>2. Table(dayRow, Day) /\ Tables(periodRow)
    BY DEF HistoryInit, EmptyArchive, Table, Tables
  <2>3. proc = [p \in {Server, Cli} |-> proc[p]] /\ \A p \in {Server, Cli} : IsProc(proc[p], clock)
    BY Parts DEF HistoryInit
  <2>4. adopted = [date |-> adopted.date, case |-> adopted.case, v |-> adopted.v] /\ adopted.v \in Nat
        /\ poll.st # "answered" /\ IsFetch(fetch) /\ load = NoReq
    BY DEF HistoryInit, NoHost, NoReq, IsFetch
  <2> QED BY <2>1, <2>2, <2>3, <2>4 DEF HistoryInit, Shapes, IsCopy
<1>2. Accounted /\ InTime
  BY DEF HistoryInit, Accounted, InTime
<1>3. \A d \in Day : dayRow[d] = NoRow
  BY DEF HistoryInit, EmptyArchive
<1>4. \A k \in Kind, i \in PeriodId : periodRow[k][i] = NoRow
  BY DEF HistoryInit, EmptyArchive
<1>5. SealedInv
  BY <1>4 DEF SealedInv, IsSealed
<1>6. CopyInv
  <2>1. proc[Server].pc = "idle" /\ proc[Server].kind = "none"
    BY Who DEF HistoryInit, Idle
  <2>2. Stamped(dayRow, periodRow, version)
    BY <1>1, <1>3, <1>4 DEF Stamped, StampedTable, Shapes, Table, Tables
  <2>3. cache = NoArchive /\ front = NoArchive /\ fetch.st = "idle" /\ load.st = "idle"
    BY Parts DEF HistoryInit
  <2> QED BY <2>1, <2>2, <2>3 DEF CopyInv, IsWhole, CursorsHold, AnswerFits
<1> QED BY <1>1, <1>2, <1>5, <1>6

\* A title leaves the schedule by being put on a case, or by the operator's hand.
THEOREM TitlesStayAccounted == HistorySpec => []TitlesAccounted
<1>1. HistoryInit => Shapes /\ Accounted
  BY HistoryStarted
<1>2. Shapes /\ Accounted /\ [HistoryNext]_historyVars => (Shapes /\ Accounted)'
  BY ShapesStep
<1>3. Accounted => TitlesAccounted
  BY DEF Accounted, TitlesAccounted
<1> QED BY <1>1, <1>2, <1>3, PTL DEF HistorySpec
-----------------------------------------------------------------------------
(* Sealed periods. *)

\* What is over before d has all its dates before d.
LEMMA EndsBefore ==
  ASSUME NEW k \in Kind, NEW i \in PeriodId, NEW d \in Nat, EndOf(k, i) < d
  PROVE  \A x \in Dates(k, i) : x < d
<1> SUFFICES ASSUME NEW x \in Dates(k, i) PROVE x < d
  OBVIOUS
<1>1. x \in Nat \ {0} /\ PeriodOf(k, x) = i /\ Span \in Nat \ {0} /\ i \in Nat
  BY HistoryAssumption DEF Dates, Day, PeriodId
<1>2. \A a \in Nat : a < (a \div Span + 1) * Span /\ a \div Span \in Int
  BY <1>1
<1>3. CASE k = "week"
  <2>1. (x - 1) \div Span = i /\ EndOf(k, i) = (i + 1) * Span
    BY <1>1, <1>3 DEF PeriodOf, WeekOf, EndOf
  <2>2. x - 1 < (i + 1) * Span
    BY <1>1, <1>2, <2>1
  <2> QED BY <1>1, <2>1, <2>2
<1>4. CASE k = "month"
  <2>1. x \div Span = i /\ EndOf(k, i) = (i + 1) * Span - 1
    BY <1>1, <1>4 DEF PeriodOf, MonthOf, EndOf
  <2>2. x < (i + 1) * Span
    BY <1>1, <1>2, <2>1
  <2> QED BY <1>1, <2>1, <2>2
<1> QED BY <1>3, <1>4 DEF Kind

LEMMA InTimeStep ==
  ASSUME Shapes, InTime, [HistoryNext]_historyVars
  PROVE  InTime'
<1>1. clock' \in Day /\ clock \in Day /\ clock <= clock'
  BY ClockStep DEF Shapes
<1>2. \A c \in CaseId : OnDate(c) \in Day
  BY Dates1
<1>a. ASSUME \A c \in CaseId : caseStatus'[c] # "none" => caseStatus[c] # "none" \/ OnDate(c) <= clock
      PROVE  InTime'
  BY <1>1, <1>2, <1>a DEF InTime, Day
<1>3. ASSUME NEW p \in {Server, Cli}, RollOver(p) PROVE InTime'
  <2>1. IsProc(proc[p], clock) /\ proc[p].pc = "ensure"
    BY <1>3 DEF Shapes, RollOver, NeedsRollOver
  <2>2. proc[p].day \in Day /\ proc[p].day <= clock
    BY <1>1, <2>1, Dates1 DEF IsProc, Day
  <2>3. PICK c \in CaseId : OnDate(c) = proc[p].day
                            /\ caseStatus' = Statuses(EarlierActive(proc[p].day), {c})
    BY <1>3, <2>2, Dates1 DEF RollOver, ActiveOn
  <2> QED BY <1>a, <2>2, <2>3 DEF Statuses, EarlierActive
<1>4. CASE Publish
  <2>1. <<clock, "published">> \in CaseId /\ OnDate(<<clock, "published">>) = clock
    BY <1>1, Dates1
  <2>2. caseStatus' = Statuses(EarlierActive(clock) \cup ActiveOn(clock), {<<clock, "published">>})
    BY <1>4 DEF Publish
  <2> QED BY <1>1, <1>a, <2>1, <2>2 DEF Statuses, EarlierActive, ActiveOn, Day
<1>5. CASE ClearHistory
  BY <1>a, <1>5 DEF ClearHistory
<1>6. CASE UNCHANGED caseStatus
  BY <1>a, <1>6
<1> QED BY <1>3, <1>4, <1>5, <1>6, StepsOfTables
        DEF TableStep, Vote, QueueAdd, SeedNext, ReplaceQueue, database

\* The rows of a period are the same, and its ballots: what was right stays right.
LEMMA RightKept ==
  ASSUME NEW k \in Kind, NEW i \in PeriodId, SealedRight(k, i),
         periodRow'[k][i] = periodRow[k][i],
         \A x \in Dates(k, i) : dayRow'[x] = dayRow[x],
         BallotsIn(Dates(k, i))' = BallotsIn(Dates(k, i))
  PROVE  SealedRight(k, i)'
<1> DEFINE covered == Dates(k, i) \cap Dated(dayRow)
           f == [x \in covered |-> dayRow[x].total]
           g == [x \in covered |-> dayRow'[x].total]
<1>1. Dates(k, i) \cap Dated(dayRow') = covered
  BY DEF Dated
<1>2. f = g
  OBVIOUS
<1>3. TotalOf(dayRow', covered) = TotalOf(dayRow, covered)
  BY <1>2 DEF TotalOf
<1>4. CountVoters(Dates(k, i))' = CountVoters(Dates(k, i))
  BY DEF CountVoters, UniqueVoters
<1>5. /\ periodRow[k][i].total = TotalOf(dayRow, covered)
      /\ periodRow[k][i].n = Cardinality(covered)
      /\ periodRow[k][i].voters = CountVoters(Dates(k, i))
  BY DEF SealedRight
<1> HIDE DEF covered, f, g
<1>6. /\ periodRow'[k][i].total = TotalOf(dayRow', covered)
      /\ periodRow'[k][i].n = Cardinality(covered)
      /\ periodRow'[k][i].voters = CountVoters(Dates(k, i))'
  BY <1>3, <1>4, <1>5
<1> QED BY <1>1, <1>6 DEF SealedRight, covered

LEMMA SealedStep ==
  ASSUME Shapes, InTime, SealedInv, [HistoryNext]_historyVars
  PROVE  SealedInv'
<1> SUFFICES ASSUME "late" \notin mishap', NEW k \in Kind, NEW i \in PeriodId, IsSealed(k, i)'
             PROVE  Over(k, i)' /\ SealedRight(k, i)'
  BY DEF SealedInv
<1>0. IsSealed(k, i) => Over(k, i) /\ SealedRight(k, i)
  BY MarksStay DEF SealedInv
<1>d. /\ \A c \in CaseId : OnDate(c) \in Day
      /\ \A x \in Dates(k, i) : x \in Day /\ x \in Nat
      /\ clock \in Day /\ clock \in Nat
  BY Dates1 DEF Dates, Day, Shapes
<1>a. ASSUME UNCHANGED <<caseStatus, dayRow, periodRow, ballots>>
      PROVE  Over(k, i)' /\ SealedRight(k, i)'
  <2>1. BallotsIn(Dates(k, i))' = BallotsIn(Dates(k, i)) /\ IsSealed(k, i)
    BY <1>a DEF BallotsIn, IsSealed
  <2>2. SealedRight(k, i)'
    BY <1>0, <1>a, <2>1, RightKept
  <2>3. Over(k, i)'
    BY <1>0, <1>a, <2>1 DEF Over
  <2> QED BY <2>2, <2>3
<1>1. CASE Vote
  <2>1. UNCHANGED <<caseStatus, dayRow, periodRow>>
    BY <1>1 DEF Vote
  <2>2. IsSealed(k, i)
    BY <2>1 DEF IsSealed
  <2>3. proc[Server].held \in CaseId
    BY <1>1, Who DEF Vote, Shapes, IsProc
  <2>4. BallotsIn(Dates(k, i))' = BallotsIn(Dates(k, i))
    <3>1. caseStatus[proc[Server].held] = "active" => OnDate(proc[Server].held) \notin Dates(k, i)
      BY <1>0, <2>2, <2>3 DEF Over
    <3>2. \/ ballots' = ballots
          \/ /\ caseStatus[proc[Server].held] = "active"
             /\ \E v \in Voter : ballots' = ballots \cup {<<v, proc[Server].held>>}
      BY <1>1 DEF Vote
    <3> QED BY <3>1, <3>2 DEF BallotsIn
  <2>5. SealedRight(k, i)'
    BY <1>0, <2>1, <2>2, <2>4, RightKept
  <2>6. Over(k, i)'
    BY <1>0, <2>1, <2>2 DEF Over
  <2> QED BY <2>5, <2>6
<1>2. CASE Publish
  <2>1. UNCHANGED <<dayRow, periodRow, ballots>>
    BY <1>2 DEF Publish
  <2>2. IsSealed(k, i) /\ BallotsIn(Dates(k, i))' = BallotsIn(Dates(k, i))
    BY <2>1 DEF IsSealed, BallotsIn
  <2>3. SealedRight(k, i)'
    BY <1>0, <2>1, <2>2, RightKept
  <2> DEFINE c == <<clock, "published">>
  <2>4. c \in CaseId /\ OnDate(c) = clock
    BY <1>d, Dates1
  <2>5. caseStatus' = Statuses(EarlierActive(clock) \cup ActiveOn(clock), {c})
    BY <1>2 DEF Publish
  <2> HIDE DEF c
  <2>6. PICK e \in CaseId : caseStatus[e] # "none" /\ \A x \in Dates(k, i) : x < OnDate(e)
    BY <1>0, <2>2 DEF Over
  <2>7. clock \notin Dates(k, i)
    BY <1>d, <2>6 DEF InTime, Day
  <2>8. caseStatus'[e] # "none"
    BY <2>5, <2>6 DEF Statuses
  <2>9. \A b \in CaseId : OnDate(b) \in Dates(k, i) =>
           /\ caseStatus'[b] # "active"
           /\ caseStatus'[b] # "none" => dayRow'[OnDate(b)] # NoRow
    BY <1>0, <2>1, <2>2, <2>4, <2>5, <2>7 DEF Over, Statuses, EarlierActive, ActiveOn
  <2>10. Over(k, i)'
    BY <2>6, <2>8, <2>9 DEF Over
  <2> QED BY <2>3, <2>10
<1>3. CASE ClearHistory
  BY <1>3 DEF ClearHistory, IsSealed, EmptyArchive
<1>4. ASSUME NEW p \in {Server, Cli}, RollOver(p) PROVE Over(k, i)' /\ SealedRight(k, i)'
  <2> DEFINE d == proc[p].day
  <2>1. IsProc(proc[p], clock) /\ proc[p].pc = "ensure"
    BY <1>4 DEF Shapes, RollOver, NeedsRollOver
  <2>2. d \in Day /\ d <= clock /\ d \in Nat
    BY <1>d, <2>1, Dates1 DEF IsProc, Day
  <2>3. PICK c \in IF NoneActive(d) THEN {<<d, "daily">>} ELSE ActiveOn(d) :
          caseStatus' = Statuses(EarlierActive(d), {c})
    BY <1>4 DEF RollOver
  <2>4. /\ dayRow' = DaysAfter(d) /\ periodRow' = PeriodsAfter(d) /\ ballots' = ballots
        /\ "late" \notin Mishaps(p, d)
    BY <1>4 DEF RollOver
  <2> HIDE DEF d
  <2>5. ~ Late(d)
    BY <2>4 DEF Mishaps
  <2>6. c \in CaseId /\ OnDate(c) = d /\ (~NoneActive(d) => caseStatus[c] = "active")
    BY <2>2, <2>3, Dates1 DEF ActiveOn
  <2>7. /\ \A b \in CaseId : caseStatus[b] # "none" => caseStatus'[b] # "none"
        /\ \A b \in CaseId : b # c => /\ caseStatus'[b] # "none" => caseStatus[b] # "none"
                                      /\ caseStatus'[b] = "active" => caseStatus[b] = "active"
                                                                      /\ b \notin EarlierActive(d)
        /\ caseStatus'[c] = "active"
    BY <2>3, <2>6 DEF Statuses, EarlierActive
  <2>8. BallotsIn(Dates(k, i))' = BallotsIn(Dates(k, i))
    BY <2>4 DEF BallotsIn
  <2>9. \A x \in Day : dayRow'[x] = IF x \in UnarchivedBefore(d) THEN DaySource(x, NextVersion(d))
                                    ELSE dayRow[x]
    BY <2>4 DEF DaysAfter
  <2>10. CASE IsSealed(k, i)
    <3>1. periodRow'[k][i] = periodRow[k][i]
      BY <2>4, <2>10 DEF PeriodsAfter, Due, IsSealed
    <3>2. PICK e \in CaseId : caseStatus[e] # "none" /\ \A x \in Dates(k, i) : x < OnDate(e)
      BY <1>0, <2>10 DEF Over
    <3>3. d \notin Dates(k, i)
      <4>1. SUFFICES ASSUME d \in Dates(k, i) PROVE FALSE
        OBVIOUS
      <4>2. CASE NoneActive(d)
        <5>1. OnDate(e) \in Day /\ OnDate(e) > d /\ e \in CasesOn(OnDate(e))
          BY <1>d, <2>2, <3>2, <4>1 DEF CasesOn, Day
        <5> QED BY <2>5, <4>2, <5>1 DEF Late
      <4>3. CASE ~ NoneActive(d)
        BY <1>0, <2>6, <2>10, <4>1, <4>3 DEF Over
      <4> QED BY <4>2, <4>3
    <3>4. \A x \in Dates(k, i) : x \notin UnarchivedBefore(d)
      BY <1>0, <2>10 DEF Over, UnarchivedBefore, CasesOn
    <3>5. \A x \in Dates(k, i) : dayRow'[x] = dayRow[x]
      BY <1>d, <2>9, <3>4
    <3>6. SealedRight(k, i)'
      BY <1>0, <2>8, <2>10, <3>1, <3>5, RightKept
    <3>7. \A b \in CaseId : OnDate(b) \in Dates(k, i) =>
            /\ caseStatus'[b] # "active"
            /\ caseStatus'[b] # "none" => dayRow'[OnDate(b)] # NoRow
      BY <1>0, <2>6, <2>7, <2>10, <3>3, <3>5 DEF Over
    <3>8. Over(k, i)'
      BY <2>7, <3>2, <3>7 DEF Over
    <3> QED BY <3>6, <3>8
  <2>11. CASE ~ IsSealed(k, i)
    <3>1. i \in Due(k, d)
      BY <2>4, <2>11 DEF PeriodsAfter, IsSealed
    <3>2. \A x \in Dates(k, i) : x < d
      BY <2>2, <3>1, EndsBefore DEF Due
    <3>3. NextVersion(d) = version + 1 /\ version \in Nat
      BY <3>1 DEF NextVersion, NothingDue, Shapes
    <3>4. \A x \in Day : x \in UnarchivedBefore(d) => dayRow'[x] # NoRow
      <4>1. \A x \in Day : DaySource(x, NextVersion(d)).v = version + 1
        BY <3>3 DEF DaySource
      <4>2. NoRow.v = 0
        BY DEF NoRow
      <4> QED BY <2>9, <3>3, <4>1, <4>2
    <3>5. ASSUME NEW b \in CaseId, OnDate(b) \in Dates(k, i)
          PROVE  /\ caseStatus'[b] # "active"
                 /\ caseStatus'[b] # "none" => dayRow'[OnDate(b)] # NoRow
      <4>1. OnDate(b) < d /\ OnDate(b) \in Day /\ b # c
        BY <1>d, <2>2, <2>6, <3>2, <3>5
      <4>2. caseStatus'[b] # "active"
        BY <2>7, <4>1 DEF EarlierActive
      <4>3. ASSUME caseStatus'[b] # "none" PROVE dayRow'[OnDate(b)] # NoRow
        <5>1. b \in CasesOn(OnDate(b))
          BY <2>7, <4>1, <4>3 DEF CasesOn
        <5> QED BY <2>9, <3>4, <4>1, <5>1 DEF UnarchivedBefore
      <4> QED BY <4>2, <4>3
    <3>6. Over(k, i)'
      <4>1. caseStatus'[c] # "none" /\ \A x \in Dates(k, i) : x < OnDate(c)
        BY <2>6, <2>7, <3>2
      <4> QED BY <2>6, <3>5, <4>1 DEF Over
    <3>7. SealedRight(k, i)'
      <4> DEFINE covered == Dates(k, i) \cap Dated(dayRow')
      <4>1. periodRow'[k][i] = PeriodSource(k, i, dayRow', NextVersion(d))
        BY <2>4, <3>1 DEF PeriodsAfter
      <4>2. /\ periodRow'[k][i].total = TotalOf(dayRow', covered)
            /\ periodRow'[k][i].n = Cardinality(covered)
            /\ periodRow'[k][i].voters = CountVoters(Dates(k, i))
        BY <4>1 DEF PeriodSource
      <4>3. CountVoters(Dates(k, i))' = CountVoters(Dates(k, i))
        BY <2>8 DEF CountVoters, UniqueVoters
      <4> QED BY <4>2, <4>3 DEF SealedRight
    <3> QED BY <3>6, <3>7
  <2> QED BY <2>10, <2>11
<1>5. CASE QueueAdd \/ SeedNext \/ ReplaceQueue
  BY <1>a, <1>5 DEF QueueAdd, SeedNext, ReplaceQueue
<1>6. CASE UNCHANGED database
  BY <1>a, <1>6 DEF database
<1> QED BY <1>1, <1>2, <1>3, <1>4, <1>5, <1>6, StepsOfTables DEF TableStep

\* A sealed week or month says what its days say, and counts each voter once.
THEOREM PeriodsStayRight == HistorySpec => []PeriodsAddUp
<1> DEFINE Inv == Shapes /\ Accounted /\ InTime /\ SealedInv
<1>1. HistoryInit => Inv
  BY HistoryStarted
<1>2. Inv /\ [HistoryNext]_historyVars => Inv'
  BY ShapesStep, InTimeStep, SealedStep
<1>3. Inv => PeriodsAddUp
  BY DEF PeriodsAddUp, SealedInv, IsSealed, SealedRight
<1> QED BY <1>1, <1>2, <1>3, PTL DEF HistorySpec
-----------------------------------------------------------------------------
(* Copies.  What a table of rows holds of the authority's, and how that     *)
(* survives what the copies go through.                                    *)

LEMMA NewerAgrees ==
  ASSUME NEW K, NEW own, Table(own, K), NEW c \in ArchiveCursors, NEW hi \in Nat
  PROVE  Agrees(Newer(own, c), own, c, hi)
<1>1. DOMAIN own = K
  BY DEF Table
<1>2. \A x \in K : Newer(own, c)[x] = IF own[x].v > c THEN own[x] ELSE NoRow
  BY NewerTable
<1> QED BY <1>1, <1>2 DEF Agrees, ArchiveCursors

LEMMA ServedAgrees ==
  ASSUME NEW K, NEW own, Table(own, K), NEW rows, Table(rows, K), NEW v \in Nat,
         StampedTable(own, v), NEW c \in ArchiveCursors, NEW hi \in Nat, Agrees(rows, own, 0, hi)
  PROVE  Agrees(Newer(rows, c), own, c, hi)
<1>1. DOMAIN own = K
  BY DEF Table
<1>2. \A x \in K : Newer(rows, c)[x] = IF rows[x].v > c THEN rows[x] ELSE NoRow
  BY NewerTable
<1>3. \A x \in K : /\ rows[x] = NoRow \/ rows[x] = own[x]
                   /\ own[x].v \in 1 .. hi => rows[x] = own[x]
                   /\ own[x] = NoRow \/ own[x].v \in 1 .. v
  BY <1>1 DEF Agrees, StampedTable
<1>4. ASSUME NEW x \in K, own[x].v \in c + 1 .. hi PROVE Newer(rows, c)[x] = own[x]
  <2>1. CASE own[x] = NoRow
    BY <1>2, <1>3, <2>1
  <2>2. CASE own[x] # NoRow
    <3>1. own[x].v \in 1 .. hi /\ own[x].v > c
      BY <1>3, <1>4, <2>2 DEF ArchiveCursors
    <3> QED BY <1>2, <1>3, <3>1
  <2> QED BY <2>1, <2>2
<1> QED BY <1>1, <1>2, <1>3, <1>4 DEF Agrees

LEMMA MergeAgrees ==
  ASSUME NEW K, NEW own, Table(own, K), NEW cur, Table(cur, K), NEW inc,
         NEW lo \in ArchiveCursors, NEW c \in Nat, NEW hi \in Nat, lo <= c,
         Agrees(cur, own, 0, c), Agrees(inc, own, lo, hi)
  PROVE  Agrees(ReplaceByKey(cur, inc), own, 0, hi)
<1>1. DOMAIN own = K
  BY DEF Table
<1>2. \A x \in K : ReplaceByKey(cur, inc)[x] = IF inc[x] # NoRow THEN inc[x] ELSE cur[x]
  BY DEF Table, ReplaceByKey
<1>3. \A x \in K : /\ cur[x] = NoRow \/ cur[x] = own[x]
                   /\ own[x].v \in 1 .. c => cur[x] = own[x]
                   /\ inc[x] = NoRow \/ inc[x] = own[x]
                   /\ own[x].v \in lo + 1 .. hi => inc[x] = own[x]
  BY <1>1 DEF Agrees
<1>4. ASSUME NEW x \in K, own[x].v \in 1 .. hi PROVE ReplaceByKey(cur, inc)[x] = own[x]
  <2>1. own[x].v \in 1 .. c \/ own[x].v \in lo + 1 .. hi
    BY <1>4 DEF ArchiveCursors
  <2> QED BY <1>2, <1>3, <2>1
<1> QED BY <1>1, <1>2, <1>3, <1>4 DEF Agrees

\* Rows are written once, under the next version.
Grows(own, new, v, w) ==
  /\ DOMAIN new = DOMAIN own
  /\ \A x \in DOMAIN own : new[x] = own[x] \/ (own[x] = NoRow /\ w = v + 1 /\ new[x].v = w)

LEMMA GrownAgrees ==
  ASSUME NEW own, NEW new, NEW v \in Nat, NEW w \in Nat, Grows(own, new, v, w),
         NEW rows, NEW lo \in ArchiveCursors, NEW hi \in Nat, hi <= v, Agrees(rows, own, lo, hi)
  PROVE  Agrees(rows, new, lo, hi)
BY DEF Grows, Agrees, ArchiveCursors

LEMMA GrownStamped ==
  ASSUME NEW own, NEW new, NEW v \in Nat, NEW w \in Nat, v <= w, Grows(own, new, v, w),
         StampedTable(own, v)
  PROVE  StampedTable(new, w)
BY DEF Grows, StampedTable

\* The same of a whole archive.
GrowsAll(days, periods, newDays, newPeriods, v, w) ==
  /\ v <= w /\ Grows(days, newDays, v, w)
  /\ \A k \in Kind : Grows(periods[k], newPeriods[k], v, w)

LEMMA GrownComplete ==
  ASSUME NEW days, NEW periods, NEW newDays, NEW newPeriods, NEW v \in Nat, NEW w \in Nat,
         GrowsAll(days, periods, newDays, newPeriods, v, w),
         NEW a, IsArchive(a), NEW lo \in ArchiveCursors, a.v <= v, Complete(a, lo, days, periods)
  PROVE  Complete(a, lo, newDays, newPeriods) /\ a.v <= w
<1>1. a.v \in Nat
  BY DEF IsArchive
<1>2. Agrees(a.days, newDays, lo, a.v)
  BY <1>1, GrownAgrees DEF Complete, GrowsAll
<1>3. \A k \in Kind : Agrees(a.periods[k], newPeriods[k], lo, a.v)
  BY <1>1, GrownAgrees DEF Complete, GrowsAll
<1> QED BY <1>1, <1>2, <1>3 DEF Complete, GrowsAll

LEMMA MergeComplete ==
  ASSUME NEW days, NEW periods, Table(days, Day), Tables(periods),
         NEW cur, IsCopy(cur), NEW inc, IsArchive(inc), NEW lo \in ArchiveCursors, lo <= cur.v,
         NEW v \in Nat, IsWhole(cur, days, periods, v), inc.v <= v,
         Complete(inc, lo, days, periods)
  PROVE  LET m == Merge(cur, inc, lo = -1)
         IN  /\ IsWhole(m, days, periods, v) /\ m # NoArchive
             /\ m.v = inc.v \/ (m.v = cur.v /\ cur # NoArchive)
             /\ cur.v <= inc.v => m.v = inc.v
<1> DEFINE full == lo = -1
           m == Merge(cur, inc, full)
           Good == /\ IsWhole(m, days, periods, v) /\ m # NoArchive
                   /\ m.v = inc.v \/ (m.v = cur.v /\ cur # NoArchive)
                   /\ cur.v <= inc.v => m.v = inc.v
<1> SUFFICES Good
  OBVIOUS
<1>0. full \in BOOLEAN /\ (full <=> lo = -1) /\ inc.v \in Nat /\ cur.v \in ArchiveCursors /\ (cur.v = -1 <=> cur = NoArchive)
      /\ \A a : IsArchive(a) => a # NoArchive
  BY Parts
<1> HIDE DEF full
<1>1. /\ IsArchive(m)
      /\ cur = NoArchive \/ full => m = inc
      /\ cur # NoArchive /\ ~full /\ inc.v < cur.v => m = cur
      /\ cur # NoArchive /\ ~full /\ ~ (inc.v < cur.v) =>
           /\ m.v = inc.v /\ m.days = ReplaceByKey(cur.days, inc.days)
           /\ \A k \in Kind : m.periods[k] = ReplaceByKey(cur.periods[k], inc.periods[k])
  BY <1>0, MergedIsArchive
<1> HIDE DEF m
<1>2. CASE cur = NoArchive \/ full
  <2>1. lo = -1 /\ m = inc
    BY <1>0, <1>1, <1>2 DEF ArchiveCursors
  <2>2. \A rows, own : Agrees(rows, own, -1, inc.v) => Agrees(rows, own, 0, inc.v)
    BY <1>0 DEF Agrees
  <2>3. Complete(inc, 0, days, periods)
    BY <2>1, <2>2 DEF Complete
  <2> QED BY <1>0, <1>1, <2>1, <2>3 DEF IsWhole
<1>3. CASE cur # NoArchive /\ ~full /\ inc.v < cur.v
  BY <1>0, <1>1, <1>3 DEF ArchiveCursors
<1>4. CASE cur # NoArchive /\ ~full /\ ~ (inc.v < cur.v)
  <2>1. /\ m.v = inc.v /\ m.days = ReplaceByKey(cur.days, inc.days)
        /\ \A k \in Kind : m.periods[k] = ReplaceByKey(cur.periods[k], inc.periods[k])
    BY <1>1, <1>4
  <2>2. /\ Complete(cur, 0, days, periods) /\ cur.v \in Nat
        /\ Table(cur.days, Day) /\ Tables(cur.periods)
    BY <1>4 DEF IsWhole, IsCopy, IsArchive
  <2>3. Agrees(m.days, days, 0, inc.v)
    BY <1>0, <2>1, <2>2, MergeAgrees DEF Complete
  <2>4. ASSUME NEW k \in Kind PROVE Agrees(m.periods[k], periods[k], 0, inc.v)
    <3>1. Table(periods[k], PeriodId) /\ Table(cur.periods[k], PeriodId)
      BY <2>2 DEF Tables
    <3>2. Agrees(cur.periods[k], periods[k], 0, cur.v) /\ Agrees(inc.periods[k], periods[k], lo, inc.v)
      BY <2>2 DEF Complete
    <3> QED BY <1>0, <2>1, <2>2, <3>1, <3>2, MergeAgrees
  <2>5. Complete(m, 0, days, periods)
    BY <2>1, <2>3, <2>4 DEF Complete
  <2> QED BY <1>0, <1>1, <2>1, <2>5 DEF IsWhole
<1> QED BY <1>2, <1>3, <1>4

LEMMA EmptyComplete ==
  ASSUME NEW days, NEW periods, Table(days, Day), Tables(periods), NEW a,
         a.days = EmptyArchive.days, a.periods = EmptyArchive.periods, a.v = 0
  PROVE  Complete(a, 0, days, periods)
<1>1. /\ \A x \in Day : a.days[x] = NoRow
      /\ \A k \in Kind, x \in PeriodId : a.periods[k][x] = NoRow
  BY DEF EmptyArchive
<1> QED BY <1>1 DEF Complete, Agrees, Table, Tables

LEMMA StaleComplete ==
  ASSUME NEW days, NEW periods, Table(days, Day), Tables(periods), NEW a, IsCopy(a),
         NEW v \in Nat, IsWhole(a, days, periods, v)
  PROVE  IsWhole(GoneStale(a), days, periods, v) /\ a.v <= GoneStale(a).v
<1> DEFINE s == GoneStale(a)
<1>1. /\ IsArchive(s)
      /\ a = NoArchive => s.v = 0 /\ s.days = EmptyArchive.days /\ s.periods = EmptyArchive.periods
      /\ a # NoArchive => s.v = a.v /\ s.days = a.days /\ s.periods = a.periods
  BY StaleIsArchive
<1> HIDE DEF s
<1>2. CASE a = NoArchive
  <2>1. Complete(s, 0, days, periods) /\ s.v = 0 /\ a.v = -1
    BY <1>1, <1>2, EmptyComplete, Parts
  <2> QED BY <2>1 DEF IsWhole, s
<1>3. CASE a # NoArchive
  <2>1. Complete(s, 0, days, periods) /\ s.v = a.v /\ a.v \in Nat
    BY <1>1, <1>3 DEF IsWhole, Complete, IsCopy, IsArchive
  <2> QED BY <1>3, <2>1 DEF IsWhole, s
<1> QED BY <1>2, <1>3

LEMMA WholeKept ==
  ASSUME NEW days, NEW periods, NEW newDays, NEW newPeriods, NEW v \in Nat, NEW w \in Nat,
         GrowsAll(days, periods, newDays, newPeriods, v, w),
         NEW a, IsCopy(a), IsWhole(a, days, periods, v)
  PROVE  IsWhole(a, newDays, newPeriods, w)
<1>1. CASE a = NoArchive
  BY <1>1 DEF IsWhole
<1>2. CASE a # NoArchive
  <2>1. IsArchive(a) /\ a.v <= v /\ Complete(a, 0, days, periods) /\ 0 \in ArchiveCursors
    BY <1>2 DEF IsWhole, IsCopy, ArchiveCursors
  <2>2. Complete(a, 0, newDays, newPeriods) /\ a.v <= w
    BY <2>1, GrownComplete
  <2> QED BY <2>2 DEF IsWhole
<1> QED BY <1>1, <1>2

LEMMA MarksOff ==
  ASSUME Clean', [HistoryNext]_historyVars
  PROVE  Clean /\ ~ ClearHistory
<1>1. mishap \subseteq mishap'
  BY MarksStay
<1>2. ClearHistory => "cleared" \in mishap'
  BY DEF ClearHistory
<1> QED BY <1>1, <1>2 DEF Clean

\* Nothing due is nothing changed.
LEMMA NothingDueKeeps ==
  ASSUME Shapes, NEW d, NothingDue(d)
  PROVE  DaysAfter(d) = dayRow /\ PeriodsAfter(d) = periodRow
<1>1. Table(dayRow, Day) /\ Tables(periodRow)
  BY DEF Shapes
<1>2. UnarchivedBefore(d) = {} /\ \A k \in Kind : Due(k, d) = {}
  BY DEF NothingDue
<1>3. DaysAfter(d) = dayRow
  BY <1>1, <1>2 DEF DaysAfter, Table
<1>4. \A k \in Kind : periodRow[k] = [i \in PeriodId |-> periodRow[k][i]]
  BY <1>1 DEF Tables, Table
<1>5. PeriodsAfter(d) = [k \in Kind |-> [i \in PeriodId |-> periodRow[k][i]]]
  BY <1>2 DEF PeriodsAfter
<1>6. periodRow = [k \in Kind |-> periodRow[k]]
  BY <1>1 DEF Tables
<1>7. [k \in Kind |-> [i \in PeriodId |-> periodRow[k][i]]] = [k \in Kind |-> periodRow[k]]
  BY <1>4
<1> QED BY <1>3, <1>5, <1>6, <1>7

LEMMA RowsStep ==
  ASSUME Shapes, Clean', [HistoryNext]_historyVars
  PROVE  GrowsAll(dayRow, periodRow, dayRow', periodRow', version, version')
<1>0. Table(dayRow, Day) /\ Tables(periodRow) /\ version \in Nat
  BY DEF Shapes
<1>a. CASE UNCHANGED <<dayRow, periodRow, version>>
  BY <1>0, <1>a DEF GrowsAll, Grows
<1>1. ASSUME NEW p \in {Server, Cli}, RollOver(p)
      PROVE  GrowsAll(dayRow, periodRow, dayRow', periodRow', version, version')
  <2> DEFINE d == proc[p].day
  <2>1. version' = NextVersion(d) /\ dayRow' = DaysAfter(d) /\ periodRow' = PeriodsAfter(d)
    BY <1>1 DEF RollOver
  <2> HIDE DEF d
  <2>2. CASE NothingDue(d)
    BY <1>a, <2>1, <2>2, NothingDueKeeps DEF NextVersion
  <2>3. CASE ~ NothingDue(d)
    <3>1. version' = version + 1 /\ NextVersion(d) = version + 1
      BY <2>1, <2>3 DEF NextVersion
    <3>2. Grows(dayRow, dayRow', version, version')
      <4>1. DOMAIN dayRow' = Day /\ DOMAIN dayRow = Day
        BY <1>0, <2>1 DEF DaysAfter, Table
      <4>2. \A x \in Day : dayRow'[x] = IF x \in UnarchivedBefore(d) THEN DaySource(x, version + 1)
                                        ELSE dayRow[x]
        BY <2>1, <3>1 DEF DaysAfter
      <4>3. \A x : DaySource(x, version + 1).v = version + 1
        BY DEF DaySource
      <4>4. \A x \in UnarchivedBefore(d) : dayRow[x] = NoRow
        BY DEF UnarchivedBefore
      <4> QED BY <3>1, <4>1, <4>2, <4>3, <4>4 DEF Grows
    <3>3. ASSUME NEW k \in Kind PROVE Grows(periodRow[k], periodRow'[k], version, version')
      <4>1. DOMAIN periodRow'[k] = PeriodId /\ DOMAIN periodRow[k] = PeriodId
        BY <1>0, <2>1 DEF PeriodsAfter, Tables, Table
      <4>2. \A i \in PeriodId : periodRow'[k][i] =
              IF i \in Due(k, d) THEN PeriodSource(k, i, DaysAfter(d), version + 1)
              ELSE periodRow[k][i]
        BY <2>1, <3>1 DEF PeriodsAfter
      <4>3. \A i, days : PeriodSource(k, i, days, version + 1).v = version + 1
        BY DEF PeriodSource
      <4>4. \A i \in Due(k, d) : periodRow[k][i] = NoRow
        BY DEF Due
      <4> QED BY <3>1, <4>1, <4>2, <4>3, <4>4 DEF Grows
    <3> QED BY <1>0, <3>1, <3>2, <3>3 DEF GrowsAll
  <2> QED BY <2>2, <2>3
<1> QED BY <1>a, <1>1, MarksOff, StepsOfTables
        DEF TableStep, Vote, Publish, QueueAdd, SeedNext, ReplaceQueue, database

LEMMA StampedStep ==
  ASSUME Shapes, Shapes', Clean', [HistoryNext]_historyVars, Stamped(dayRow, periodRow, version)
  PROVE  Stamped(dayRow, periodRow, version)'
<1>1. GrowsAll(dayRow, periodRow, dayRow', periodRow', version, version')
  BY RowsStep
<1>2. version \in Nat /\ version' \in Nat
  BY DEF Shapes
<1>3. StampedTable(dayRow', version')
  BY <1>1, <1>2, GrownStamped DEF GrowsAll, Stamped
<1>4. \A k \in Kind : StampedTable(periodRow'[k], version')
  BY <1>1, <1>2, GrownStamped DEF GrowsAll, Stamped
<1> QED BY <1>3, <1>4 DEF Stamped

\* What a step makes of the call in the server's hands.
GoesOn == /\ proc'[Server].pc # "version"
          /\ proc'[Server].kind = "history" =>
               proc[Server].kind = "history" /\ proc'[Server].cursor = proc[Server].cursor

LEMMA ServerStep ==
  ASSUME Shapes, [HistoryNext]_historyVars
  PROVE  \/ proc'[Server] = proc[Server]
         \/ ReadRows \/ BeginHistory \/ GoesOn
<1> DEFINE Good == proc'[Server] = proc[Server] \/ ReadRows \/ BeginHistory \/ GoesOn
<1> SUFFICES Good
  OBVIOUS
<1>0. proc = [q \in {Server, Cli} |-> proc[q]] /\ Server # Cli
  BY Parts DEF Shapes
<1>a. CASE UNCHANGED proc
  BY <1>a
<1>b. ASSUME NEW r, Becomes(Server, r) PROVE proc'[Server] = r
  BY <1>0, <1>b DEF Becomes
<1>c. ASSUME NEW r, Becomes(Cli, r) PROVE proc'[Server] = proc[Server]
  BY <1>0, <1>c DEF Becomes
<1>d. ASSUME NEW p \in {Server, Cli}, Finish(p) PROVE Good
  <2>1. Done(Server).pc = "idle" /\ Done(Server).kind = "none"
    BY DoneIsProc
  <2> QED BY <1>b, <1>c, <1>d, <2>1 DEF Finish, Becomes, GoesOn
<1>e. ASSUME NEW p \in {Server, Cli}, NEW kind, kind # "history", Begins(p, kind) PROVE Good
  <2> DEFINE r == [proc[p] EXCEPT !.pc = "ensure", !.kind = kind, !.day = clock]
  <2>1. r.pc = "ensure" /\ r.kind = kind /\ Becomes(p, r)
    BY <1>e, BegunIsProc
  <2> HIDE DEF r
  <2> QED BY <1>b, <1>c, <1>e, <2>1 DEF GoesOn
<1>f. ASSUME NEW p \in {Server, Cli}, NEW c \in CaseId, proc[p].pc = "ensure",
             Becomes(p, After(p, c))
      PROVE  Good
  <2>1. CASE p = Server
    BY <1>b, <1>f, <2>1, AfterIsProc DEF GoesOn
  <2>2. CASE p = Cli
    BY <1>c, <1>f, <2>2
  <2> QED BY <2>1, <2>2
<1> HIDE DEF Good
<1>1. CASE Midnight
  BY <1>a, <1>1 DEF Midnight, Good
<1>2. ASSUME NEW p \in {Server, Cli}, Ensure(p) PROVE Good
  <2>1. CASE EnsureFinds(p)
    BY <1>f, <2>1 DEF EnsureFinds, ActiveOn, Becomes
  <2>2. CASE RollOver(p)
    <3>0. proc[p].pc = "ensure" /\ IsProc(proc[p], clock) /\ clock \in Day
      BY <2>2 DEF RollOver, NeedsRollOver, Shapes
    <3>1. proc[p].day \in Day
      BY <3>0, Dates1 DEF IsProc, Day
    <3>2. PICK c \in IF NoneActive(proc[p].day) THEN {<<proc[p].day, "daily">>} ELSE ActiveOn(proc[p].day) :
            Becomes(p, After(p, c))
      BY <2>2 DEF RollOver, Becomes
    <3>3. c \in CaseId
      BY <3>1, <3>2, Dates1 DEF ActiveOn
    <3> QED BY <1>f, <3>0, <3>2, <3>3
  <2>3. CASE RollOverFails(p)
    BY <1>d, <2>3 DEF RollOverFails
  <2> QED BY <1>2, <2>1, <2>2, <2>3 DEF Ensure
<1>3. CASE Serve
  BY <1>d, <1>e, <1>3, Who DEF Serve, BeginVote, Vote, AnswerPoll, AnswerHistory, Good
<1>4. CASE Operate
  <2>1. CASE BeginStatus
    BY <1>e, <2>1, Who DEF BeginStatus
  <2>2. CASE Publish \/ ClearHistory \/ QueueAdd \/ ReplaceQueue
    BY <1>a, <2>2 DEF Publish, ClearHistory, QueueAdd, ReplaceQueue, Good
  <2>3. CASE PlanSeed \/ SeedNext
    BY <1>c, <2>3 DEF PlanSeed, SeedNext, Becomes, Good
  <2> QED BY <1>4, <2>1, <2>2, <2>3 DEF Operate
<1>5. CASE Relay
  <2>1. CASE AskPoll \/ PollTurnsOver
    BY <1>e, <2>1, Who DEF AskPoll, PollTurnsOver, AsksFor
  <2>2. CASE ~ (AskPoll \/ PollTurnsOver)
    BY <1>a, <1>5, <2>2 DEF Relay, AdoptSnapshot, AdoptBootstrap, Adopt, PollFails,
       FetchLands, FetchFails, RestartHost, Good
  <2> QED BY <2>1, <2>2
<1>6. CASE Browse
  BY <1>a, <1>6 DEF Browse, FrameArrives, AskLoad, LoadLands, LoadFails, Good
<1>7. CASE UNCHANGED historyVars
  BY <1>a, <1>7 DEF historyVars, Good
<1> QED BY <1>1, <1>2, <1>3, <1>4, <1>5, <1>6, <1>7 DEF HistoryNext

LEMMA InHandStep ==
  ASSUME Shapes, Clean', [HistoryNext]_historyVars, proc'[Server].pc = "version",
         proc[Server].pc = "version" => InHand(proc[Server], dayRow, periodRow)
  PROVE  InHand(proc'[Server], dayRow', periodRow')
<1>0. /\ proc = [q \in {Server, Cli} |-> proc[q]] /\ IsProc(proc[Server], clock)
      /\ Server # Cli /\ version \in Nat
  BY Parts, Who DEF Shapes
<1>1. CASE ReadRows
  <2>1. Becomes(Server, [proc[Server] EXCEPT !.pc = "version", !.found = FoundRows])
    BY <1>1 DEF ReadRows, Becomes, FoundRows
  <2>2. proc'[Server] = [proc[Server] EXCEPT !.pc = "version", !.found = FoundRows]
    BY <1>0, <2>1 DEF Becomes
  <2>3. proc'[Server].found = FoundRows /\ proc'[Server].cursor = proc[Server].cursor
    BY <1>0, <2>2 DEF IsProc
  <2>4. dayRow' = dayRow /\ periodRow' = periodRow
    BY <1>1 DEF ReadRows, database
  <2>5. InHand([found |-> FoundRows, cursor |-> proc[Server].cursor], dayRow, periodRow)
    BY FoundIsArchive
  <2> QED BY <2>3, <2>4, <2>5 DEF InHand
<1>2. CASE BeginHistory
  <2>1. proc'[Server] = [proc[Server] EXCEPT !.pc = "ensure", !.kind = "history", !.day = clock,
                                             !.cursor = fetch.cursor]
    BY <1>0, <1>2 DEF BeginHistory
  <2> QED BY <1>0, <2>1 DEF IsProc
<1>3. CASE proc'[Server] = proc[Server]
  <2>0. InHand(proc[Server], dayRow, periodRow) /\ proc[Server].pc = "version"
    BY <1>3
  <2>a. CASE UNCHANGED <<dayRow, periodRow>>
    BY <1>3, <2>0, <2>a
  <2>1. ASSUME NEW p \in {Server, Cli}, RollOver(p) PROVE UNCHANGED <<dayRow, periodRow>>
    <3> DEFINE d == proc[p].day
    <3>1. /\ version' = NextVersion(d) /\ dayRow' = DaysAfter(d) /\ periodRow' = PeriodsAfter(d)
          /\ mishap' = Mishaps(p, d) /\ proc[p].pc = "ensure"
      BY <2>1 DEF RollOver, NeedsRollOver
    <3> HIDE DEF d
    <3>2. p = Cli
      BY <2>0, <3>1
    <3>3. version' = version
      BY <2>0, <3>1, <3>2 DEF Mishaps, Tears, Clean
    <3>4. NothingDue(d)
      BY <1>0, <3>1, <3>3 DEF NextVersion
    <3> QED BY <3>1, <3>4, NothingDueKeeps
  <2>2. ~ ClearHistory
    BY MarksOff
  <2> QED BY <2>a, <2>1, <2>2, StepsOfTables
          DEF TableStep, Vote, Publish, QueueAdd, SeedNext, ReplaceQueue, database
<1> QED BY <1>1, <1>2, <1>3, ServerStep DEF GoesOn

\* Steps that leave the copies alone, and steps that leave the tables alone.
LEMMA InsideOrOutside ==
  ASSUME [HistoryNext]_historyVars
  PROVE  \/ UNCHANGED outside
         \/ UNCHANGED database /\ (AnswerPoll \/ AnswerHistory \/ Relay \/ Browse)
<1>1. CASE Midnight
  BY <1>1 DEF Midnight
<1>2. ASSUME NEW p \in {Server, Cli}, Ensure(p) PROVE UNCHANGED outside
  BY <1>2 DEF Ensure, EnsureFinds, RollOver, RollOverFails
<1>3. CASE Serve
  BY <1>3 DEF Serve, BeginVote, Vote, AnswerPoll, BeginHistory, ReadRows, AnswerHistory
<1>4. CASE Operate
  BY <1>4 DEF Operate, BeginStatus, Publish, ClearHistory, QueueAdd, PlanSeed, SeedNext, ReplaceQueue
<1>5. CASE Relay
  BY <1>5 DEF Relay, AskPoll, PollTurnsOver, AdoptSnapshot, AdoptBootstrap, Adopt, PollFails,
              FetchLands, FetchFails, RestartHost
<1>6. CASE Browse
  BY <1>6 DEF Browse, FrameArrives, AskLoad, LoadLands, LoadFails
<1>7. CASE UNCHANGED historyVars
  BY <1>7 DEF historyVars
<1> QED BY <1>1, <1>2, <1>3, <1>4, <1>5, <1>6, <1>7 DEF HistoryNext

\* What the copies and the requests between them keep to.
CopyParts(days, periods, v) ==
  /\ IsWhole(cache, days, periods, v) /\ IsWhole(front, days, periods, v)
  /\ CursorsHold
  /\ fetch.st = "answered" =>
       /\ cache.v <= fetch.rows.v /\ fetch.rows.v <= v
       /\ Complete(fetch.rows, fetch.cursor, days, periods)

LEMMA InsideStep ==
  ASSUME Shapes, Shapes', Clean', [HistoryNext]_historyVars, UNCHANGED outside,
         CopyParts(dayRow, periodRow, version)
  PROVE  CopyParts(dayRow, periodRow, version)'
<1>0. GrowsAll(dayRow, periodRow, dayRow', periodRow', version, version')
      /\ version \in Nat /\ version' \in Nat
  BY RowsStep DEF Shapes
<1>1. /\ cache' = cache /\ front' = front /\ fetch' = fetch /\ load' = load
      /\ adopted' = adopted /\ poll' = poll
  BY DEF outside
<1>2. IsWhole(cache', dayRow', periodRow', version') /\ IsWhole(front', dayRow', periodRow', version')
  BY <1>0, <1>1, WholeKept DEF Shapes, CopyParts
<1>3. fetch'.st = "answered" =>
        /\ cache'.v <= fetch'.rows.v /\ fetch'.rows.v <= version'
        /\ Complete(fetch'.rows, fetch'.cursor, dayRow', periodRow')
  <2> SUFFICES ASSUME fetch.st = "answered"
               PROVE  /\ cache.v <= fetch.rows.v /\ fetch.rows.v <= version'
                      /\ Complete(fetch.rows, fetch.cursor, dayRow', periodRow')
    BY <1>1
  <2>1. IsArchive(fetch.rows) /\ fetch.cursor \in ArchiveCursors
    BY DEF Shapes, IsFetch, NoReq
  <2>2. /\ cache.v <= fetch.rows.v /\ fetch.rows.v <= version
        /\ Complete(fetch.rows, fetch.cursor, dayRow, periodRow)
    BY DEF CopyParts
  <2> QED BY <1>0, <2>1, <2>2, GrownComplete
<1>4. CursorsHold'
  <2>1. proc'[Server].kind = "history" =>
          \/ proc[Server].kind = "history" /\ proc'[Server].cursor = proc[Server].cursor
          \/ fetch.st = "asked" /\ proc'[Server].cursor = fetch.cursor
    <3>1. CASE ReadRows
      <4>1. proc'[Server] = [proc[Server] EXCEPT !.pc = "version", !.found = FoundRows]
        BY <3>1, Who DEF ReadRows, FoundRows, Shapes
      <4>2. IsProc(proc[Server], clock)
        BY Who DEF Shapes
      <4> QED BY <4>1, <4>2 DEF IsProc
    <3>2. CASE BeginHistory
      <4>1. proc'[Server] = [proc[Server] EXCEPT !.pc = "ensure", !.kind = "history", !.day = clock,
                                                 !.cursor = fetch.cursor]
        BY <3>2, Who DEF BeginHistory, Shapes
      <4>2. IsProc(proc[Server], clock) /\ fetch.st = "asked"
        BY <3>2, Who DEF Shapes, BeginHistory
      <4> QED BY <4>1, <4>2 DEF IsProc
    <3> QED BY <3>1, <3>2, ServerStep DEF GoesOn
  <2>2. CursorsHold /\ NoReq.st = "idle"
    BY Parts DEF CopyParts
  <2> QED BY <1>1, <2>1, <2>2 DEF CursorsHold
<1> QED BY <1>2, <1>3, <1>4 DEF CopyParts

LEMMA AnswerHistoryFits ==
  ASSUME Shapes, CopyParts(dayRow, periodRow, version), AnswerHistory, fetch.st = "asked",
         InHand(proc[Server], dayRow, periodRow)
  PROVE  /\ fetch'.cursor <= cache.v
         /\ cache.v <= fetch'.rows.v /\ fetch'.rows.v <= version
         /\ Complete(fetch'.rows, fetch'.cursor, dayRow, periodRow)
<1> DEFINE r == proc[Server]
           e == Envelope(r.day, r.found)
<1>1. /\ fetch' = [st |-> "answered", cursor |-> r.cursor, rows |-> e]
      /\ r.pc = "version" /\ IsProc(r, clock) /\ version \in Nat
  BY Who DEF AnswerHistory, Shapes
<1>2. r.kind = "history" /\ IsArchive(r.found) /\ r.cursor \in ArchiveCursors
  BY <1>1 DEF IsProc
<1>3. /\ e.v = version /\ e.days = Newer(dayRow, r.cursor)
      /\ e.periods = NewerPeriods(periodRow, r.cursor)
  BY <1>1, <1>2, EnvelopeIsArchive DEF InHand
<1>4. r.cursor <= cache.v
  BY <1>2 DEF CopyParts, CursorsHold
<1>5. cache.v <= version
  <2>1. cache # NoArchive => cache.v <= version
    BY DEF CopyParts, IsWhole
  <2>2. NoArchive.v <= version
    BY <1>1, Parts
  <2> QED BY <2>1, <2>2
<1> HIDE DEF e, r
<1>6. Agrees(e.days, dayRow, r.cursor, e.v)
  BY <1>1, <1>2, <1>3, NewerAgrees DEF Shapes
<1>7. ASSUME NEW k \in Kind PROVE Agrees(e.periods[k], periodRow[k], r.cursor, e.v)
  <2>1. e.periods[k] = Newer(periodRow[k], r.cursor) /\ Table(periodRow[k], PeriodId)
    BY <1>3, NewerTables DEF Shapes, Tables
  <2> QED BY <1>1, <1>2, <1>3, <2>1, NewerAgrees
<1>8. Complete(e, r.cursor, dayRow, periodRow)
  BY <1>6, <1>7 DEF Complete
<1>9. fetch'.cursor = r.cursor /\ fetch'.rows = e
  BY <1>1
<1> QED BY <1>1, <1>3, <1>4, <1>5, <1>8, <1>9

LEMMA ServedFits ==
  ASSUME Shapes, CopyParts(dayRow, periodRow, version), Stamped(dayRow, periodRow, version),
         NEW c \in ArchiveCursors
  PROVE  /\ IsArchive(Served(c)) /\ Served(c).v <= version
         /\ Complete(Served(c), c, dayRow, periodRow)
<1> DEFINE s == Served(c)
           b == IF cache = NoArchive THEN EmptyArchive ELSE cache
<1>1. /\ IsArchive(s) /\ s.v = b.v
      /\ s.days = Newer(b.days, c)
      /\ \A k \in Kind : s.periods[k] = Newer(b.periods[k], c)
  BY ServedIsArchive DEF Shapes
<1>2. version \in Nat /\ Table(dayRow, Day) /\ Tables(periodRow)
  BY DEF Shapes
<1>3. IsArchive(b) /\ b.v <= version /\ Complete(b, 0, dayRow, periodRow)
  <2>1. CASE cache = NoArchive
    <3>1. EmptyArchive.v = 0 /\ IsArchive(EmptyArchive)
      BY Parts DEF EmptyArchive
    <3>2. Complete(EmptyArchive, 0, dayRow, periodRow)
      BY <1>2, <3>1, EmptyComplete
    <3> QED BY <1>2, <2>1, <3>1, <3>2
  <2>2. CASE cache # NoArchive
    BY <2>2 DEF CopyParts, IsWhole, Shapes, IsCopy
  <2> QED BY <2>1, <2>2
<1> HIDE DEF s, b
<1>4. b.v \in Nat /\ Table(b.days, Day) /\ Tables(b.periods)
  BY <1>3 DEF IsArchive
<1>5. Agrees(s.days, dayRow, c, s.v)
  BY <1>1, <1>2, <1>3, <1>4, ServedAgrees DEF Complete, Stamped
<1>6. ASSUME NEW k \in Kind PROVE Agrees(s.periods[k], periodRow[k], c, s.v)
  <2>1. /\ Table(periodRow[k], PeriodId) /\ Table(b.periods[k], PeriodId)
        /\ StampedTable(periodRow[k], version) /\ Agrees(b.periods[k], periodRow[k], 0, b.v)
    BY <1>2, <1>3, <1>4 DEF Tables, Stamped, Complete
  <2> QED BY <1>1, <1>2, <1>4, <2>1, ServedAgrees
<1>7. Complete(s, c, dayRow, periodRow)
  BY <1>5, <1>6 DEF Complete
<1> QED BY <1>1, <1>3, <1>7 DEF s

\* A call that is over is after nothing.
LEMMA CallOver ==
  ASSUME Shapes, NEW r, Becomes(Server, r), r.kind # "history"
  PROVE  proc'[Server].kind # "history"
<1>1. proc' = [q \in {Server, Cli} |-> IF q = Server THEN r ELSE proc[q]]
  BY DEF Shapes, Becomes
<1> QED BY <1>1, Who

\* An answer reaches the Host, or nobody.
LEMMA AnswersCopies ==
  ASSUME Shapes, Shapes', UNCHANGED database, AnswerPoll \/ AnswerHistory,
         CopyParts(dayRow, periodRow, version),
         proc[Server].pc = "version" => InHand(proc[Server], dayRow, periodRow)
  PROVE  CopyParts(dayRow, periodRow, version)'
<1>0. CopyParts(dayRow, periodRow, version)
  OBVIOUS
<1>1. /\ cache' = cache /\ front' = front /\ load' = load /\ adopted' = adopted
      /\ dayRow' = dayRow /\ periodRow' = periodRow /\ version' = version
  BY DEF AnswerPoll, AnswerHistory, database
<1>2. proc'[Server].kind # "history"
  <2>1. Becomes(Server, Done(Server))
    BY DEF AnswerPoll, AnswerHistory, Finish, Becomes
  <2> QED BY <2>1, CallOver, DoneIsProc
<1>3. CASE fetch' = fetch
  BY <1>0, <1>1, <1>2, <1>3 DEF CopyParts, CursorsHold
<1>4. CASE fetch' # fetch
  <2>1. AnswerHistory /\ fetch.st = "asked" /\ proc[Server].pc = "version"
    BY <1>4 DEF AnswerPoll, AnswerHistory
  <2>2. /\ fetch'.cursor <= cache.v
        /\ cache.v <= fetch'.rows.v /\ fetch'.rows.v <= version
        /\ Complete(fetch'.rows, fetch'.cursor, dayRow, periodRow)
    BY <1>0, <2>1, AnswerHistoryFits
  <2> QED BY <1>0, <1>1, <1>2, <2>2 DEF CopyParts, CursorsHold
<1> QED BY <1>3, <1>4

LEMMA RelayCopies ==
  ASSUME Shapes, Shapes', UNCHANGED database, Relay,
         CopyParts(dayRow, periodRow, version), Stamped(dayRow, periodRow, version)
  PROVE  CopyParts(dayRow, periodRow, version)'
<1> DEFINE Good == CopyParts(dayRow, periodRow, version)'
<1> SUFFICES Good
  OBVIOUS
<1>0. CopyParts(dayRow, periodRow, version) /\ Stamped(dayRow, periodRow, version)
  OBVIOUS
<1>1. dayRow' = dayRow /\ periodRow' = periodRow /\ version' = version
  BY DEF database
<1>2. /\ version \in Nat /\ Table(dayRow, Day) /\ Tables(periodRow)
      /\ IsCopy(cache) /\ IsCopy(front) /\ IsFetch(fetch)
  BY DEF Shapes
<1>3. NoReq.st = "idle" /\ NoHost.date = 0 /\ NoArchive.v = -1
  BY Parts DEF NoHost
<1>4. cache.v \in ArchiveCursors /\ front.v \in ArchiveCursors
  BY <1>2, Parts
<1>5. CASE AskPoll \/ PollTurnsOver
  <2>1. /\ cache' = cache /\ front' = front /\ load' = load /\ adopted' = adopted /\ fetch' = fetch
    BY <1>5 DEF AskPoll, PollTurnsOver
  <2>2. \E kind \in {"bootstrap", "snapshot"} : Begins(Server, kind)
    BY <1>5 DEF AskPoll, PollTurnsOver, AsksFor
  <2>3. proc'[Server].kind # "history"
    BY <2>2, CallOver, BegunIsProc, Who
  <2> QED BY <1>0, <1>1, <2>1, <2>3 DEF CopyParts, CursorsHold
<1>6. CASE AdoptSnapshot \/ AdoptBootstrap
  <2>1. /\ cache' = cache /\ front' = front /\ load' = load /\ proc' = proc
        /\ poll.st = "answered"
        /\ fetch' = fetch \/ (fetch' = Refreshing /\ fetch.st = "idle")
    BY <1>6 DEF AdoptSnapshot, AdoptBootstrap, Adopt, NeedsRefresh
  <2>2. Refreshing.st = "asked" /\ Refreshing.cursor = cache.v
    BY <1>2, Asking
  <2>3. proc[Server].kind = "history" => proc[Server].cursor <= cache.v
    BY <1>0, <2>1 DEF CopyParts, CursorsHold
  <2>4. cache.v <= cache.v
    BY <1>4 DEF ArchiveCursors
  <2> QED BY <1>0, <1>1, <2>1, <2>2, <2>3, <2>4 DEF CopyParts, CursorsHold
<1>7. CASE PollFails
  <2>1. /\ cache' = cache /\ front' = front /\ load' = load /\ proc' = proc /\ fetch' = fetch
        /\ poll.st \in {"asked", "answered"}
    BY <1>7 DEF PollFails
  <2> QED BY <1>0, <1>1, <2>1 DEF CopyParts, CursorsHold
<1>8. CASE FetchLands \/ FetchFails
  <2>1. /\ front' = front /\ load' = load /\ proc' = proc /\ fetch' = NoReq
        /\ fetch.st # "idle"
    BY <1>8 DEF FetchLands, FetchFails
  <2>2. fetch.cursor <= cache.v /\ fetch.cursor \in ArchiveCursors
    BY <1>0, <1>2, <1>3, <2>1 DEF CopyParts, CursorsHold, IsFetch
  <2>3. IsWhole(cache', dayRow, periodRow, version) /\ cache.v <= cache'.v /\ cache'.v \in ArchiveCursors
    <3>1. CASE FetchLands
      <4>1. /\ fetch.st = "answered" /\ IsArchive(fetch.rows)
            /\ cache' = Merge(cache, fetch.rows, fetch.cursor = -1)
        BY <1>2, <3>1, Parts DEF FetchLands, IsFetch
      <4>2. /\ cache.v <= fetch.rows.v /\ fetch.rows.v <= version
            /\ Complete(fetch.rows, fetch.cursor, dayRow, periodRow)
            /\ IsWhole(cache, dayRow, periodRow, version)
        BY <1>0, <4>1 DEF CopyParts
      <4>3. IsWhole(cache', dayRow, periodRow, version) /\ cache'.v = fetch.rows.v
        BY <1>2, <2>2, <4>1, <4>2, MergeComplete
      <4> QED BY <4>1, <4>2, <4>3 DEF IsArchive, ArchiveCursors
    <3>2. CASE FetchFails
      <4>1. cache' = GoneStale(cache) /\ IsWhole(cache, dayRow, periodRow, version)
        BY <1>0, <3>2 DEF FetchFails, CopyParts
      <4>2. IsArchive(cache')
        BY <1>2, <4>1, StaleIsArchive
      <4> QED BY <1>2, <4>1, <4>2, StaleComplete DEF IsArchive, ArchiveCursors
    <3> QED BY <1>8, <3>1, <3>2
  <2>4. proc[Server].kind = "history" => proc[Server].cursor <= cache.v
    BY <1>0, <2>1 DEF CopyParts, CursorsHold
  <2>5. proc[Server].cursor \in ArchiveCursors
    BY Who DEF Shapes, IsProc
  <2>6. proc[Server].kind = "history" => proc[Server].cursor <= cache'.v
    BY <1>4, <2>3, <2>4, <2>5 DEF ArchiveCursors
  <2> QED BY <1>0, <1>1, <1>3, <2>1, <2>3, <2>6 DEF CopyParts, CursorsHold
<1>9. CASE RestartHost
  <2>1. /\ cache' = NoArchive /\ proc' = proc /\ fetch' = NoReq /\ poll' = NoReq
        /\ load' = NoReq /\ adopted' = NoHost
        /\ front' = front \/ front' = GoneStale(front)
    BY <1>9 DEF RestartHost
  <2>2. IsWhole(front, dayRow, periodRow, version)
    BY <1>0 DEF CopyParts
  <2>3. IsWhole(front', dayRow, periodRow, version)
    BY <1>2, <2>1, <2>2, StaleComplete
  <2>4. IsWhole(NoArchive, dayRow, periodRow, version)
    BY DEF IsWhole
  <2> QED BY <1>1, <1>3, <2>1, <2>3, <2>4 DEF CopyParts, CursorsHold
<1> QED BY <1>5, <1>6, <1>7, <1>8, <1>9 DEF Relay

LEMMA BrowseCopies ==
  ASSUME Shapes, Shapes', UNCHANGED database, Browse,
         CopyParts(dayRow, periodRow, version), Stamped(dayRow, periodRow, version)
  PROVE  CopyParts(dayRow, periodRow, version)'
<1>0. CopyParts(dayRow, periodRow, version) /\ Stamped(dayRow, periodRow, version)
  OBVIOUS
<1>1. /\ dayRow' = dayRow /\ periodRow' = periodRow /\ version' = version
      /\ proc' = proc /\ adopted' = adopted /\ poll' = poll /\ cache' = cache
  BY DEF database, Browse, FrameArrives, AskLoad, LoadLands, LoadFails
<1>2. /\ version \in Nat /\ Table(dayRow, Day) /\ Tables(periodRow)
      /\ IsCopy(cache) /\ IsCopy(front) /\ IsFetch(fetch)
  BY DEF Shapes
<1>3. NoReq.st = "idle" /\ cache.v \in ArchiveCursors /\ front.v \in ArchiveCursors
  BY <1>2, Parts
<1>4. CASE FrameArrives \/ AskLoad
  <2>1. /\ front' = front /\ adopted.date # 0
        /\ UNCHANGED <<load, fetch>> \/ StartLoad(adopted.date, adopted.v)
    BY <1>4 DEF FrameArrives, AskLoad
  <2>2. proc[Server].kind = "history" => proc[Server].cursor <= cache.v
    BY <1>0, <2>1 DEF CopyParts, CursorsHold
  <2>3. CASE UNCHANGED <<load, fetch>>
    BY <1>0, <1>1, <2>1, <2>3 DEF CopyParts, CursorsHold
  <2>4. CASE StartLoad(adopted.date, adopted.v)
    <3>1. /\ load'.cursor = front.v /\ Refreshing.st = "asked" /\ Refreshing.cursor = cache.v
          /\ fetch' = fetch \/ fetch' = Refreshing
      BY <1>2, <2>4, Asking
    <3>2. cache.v <= cache.v
      BY <1>3 DEF ArchiveCursors
    <3> QED BY <1>0, <1>1, <2>1, <2>2, <3>1, <3>2 DEF CopyParts, CursorsHold
  <2> QED BY <2>1, <2>3, <2>4
<1>5. CASE LoadLands \/ LoadFails
  <2>1. fetch' = fetch /\ load' = NoReq /\ load.st = "asked"
    BY <1>5 DEF LoadLands, LoadFails
  <2>2. load.cursor = front.v /\ IsWhole(front, dayRow, periodRow, version)
    BY <1>0, <2>1 DEF CopyParts, CursorsHold
  <2>3. IsWhole(front', dayRow, periodRow, version)
    <3>1. CASE LoadLands
      <4>1. front' = Merge(front, Served(load.cursor), load.cursor = -1)
        BY <3>1 DEF LoadLands
      <4>2. load.cursor \in ArchiveCursors /\ load.cursor <= front.v
        BY <1>3, <2>2 DEF ArchiveCursors
      <4>3. /\ IsArchive(Served(load.cursor)) /\ Served(load.cursor).v <= version
            /\ Complete(Served(load.cursor), load.cursor, dayRow, periodRow)
        BY <1>0, <4>2, ServedFits
      <4> QED BY <1>2, <2>2, <4>1, <4>2, <4>3, MergeComplete
    <3>2. CASE LoadFails
      <4>1. front' = front \/ front' = GoneStale(front)
        BY <3>2 DEF LoadFails
      <4> QED BY <1>2, <2>2, <4>1, StaleComplete
    <3> QED BY <1>5, <3>1, <3>2
  <2> QED BY <1>0, <1>1, <1>3, <2>1, <2>3 DEF CopyParts, CursorsHold
<1> QED BY <1>4, <1>5 DEF Browse

LEMMA CopyStep ==
  ASSUME Shapes, Shapes', CopyInv, [HistoryNext]_historyVars
  PROVE  CopyInv'
<1> SUFFICES ASSUME Clean'
             PROVE  /\ Stamped(dayRow, periodRow, version)'
                    /\ proc'[Server].pc = "version" => InHand(proc'[Server], dayRow', periodRow')
                    /\ CopyParts(dayRow, periodRow, version)'
  BY DEF CopyInv, CopyParts, AnswerFits
<1>1. /\ Stamped(dayRow, periodRow, version)
      /\ proc[Server].pc = "version" => InHand(proc[Server], dayRow, periodRow)
      /\ CopyParts(dayRow, periodRow, version)
  BY MarksOff DEF CopyInv, CopyParts, AnswerFits
<1>2. Stamped(dayRow, periodRow, version)'
  BY <1>1, StampedStep
<1>3. proc'[Server].pc = "version" => InHand(proc'[Server], dayRow', periodRow')
  BY <1>1, InHandStep
<1>4. CopyParts(dayRow, periodRow, version)'
  BY <1>1, InsideOrOutside, InsideStep, AnswersCopies, RelayCopies, BrowseCopies
<1> QED BY <1>2, <1>3, <1>4

\* CopiesComplete: unless the archives were cleared, or a command rolled the day
\* over between the two readings of one history answer, the Host's copy and the
\* browser's hold every row that their cursors cover, whatever requests failed,
\* whatever was asked in between, and however often the Host restarted.
THEOREM CopiesStayComplete == HistorySpec => []CopiesComplete
<1> DEFINE Inv == Shapes /\ Accounted /\ CopyInv
<1>1. HistoryInit => Inv
  BY HistoryStarted
<1>2. Inv /\ [HistoryNext]_historyVars => Inv'
  BY ShapesStep, CopyStep
<1>3. Inv => CopiesComplete
  <2> SUFFICES ASSUME Shapes, CopyInv, Clean,
                      NEW a, a # NoArchive, IsWhole(a, dayRow, periodRow, version)
               PROVE  Holds(a, a.v)
    BY DEF CopiesComplete, CopyInv, Clean
  <2>1. Complete(a, 0, dayRow, periodRow)
    BY DEF IsWhole
  <2>2. DOMAIN dayRow = Day /\ \A k \in Kind : DOMAIN periodRow[k] = PeriodId
    BY DEF Shapes, Table, Tables
  <2> QED BY <2>1, <2>2 DEF Holds, Complete, Agrees
<1> QED BY <1>1, <1>2, <1>3, PTL DEF HistorySpec
-----------------------------------------------------------------------------
(* The shape of the whole state. *)

RowTables == dayRow \in [Day -> Row] /\ periodRow \in [Kind -> [PeriodId -> Row]] /\ IsFiniteSet(ballots)

Titles == title \in [CaseId -> Title] /\ Len(queue) <= MaxQueued

\* What a handler or a command holds, on the date t.
Holding(r, t) ==
  /\ r.pc \in {"idle", "ensure", "act", "rows", "version", "seed"}
  /\ r.day \in 0 .. t /\ r.checked \in 0 .. t /\ r.held \in CaseId \cup {NoCase}
  /\ r.pc = "version" => r.found \in Archive

Holdings == \A p \in {Server, Cli} : Holding(proc[p], clock)

ArchiveCopy == {NoArchive} \cup Archive

Seen ==
  /\ adopted.date \in 0 .. clock /\ framed.date \in 0 .. clock
  /\ poll \in Request /\ (poll.st = "answered" => poll.date \in 0 .. clock)
  /\ cache \in ArchiveCopy /\ front \in ArchiveCopy
  /\ fetch.st \in {"idle", "asked", "answered"} /\ (fetch.st = "answered" => fetch.rows \in Archive)
  /\ load.st \in {"idle", "asked"}

HistoryTypes ==
  Shapes /\ Accounted /\ RowTables /\ Titles /\ Holdings /\ Seen /\ mishap \subseteq {"torn", "cleared", "late"}

(* Rows are counts. *)

LEMMA RowKinds ==
  /\ NoRow \in Row /\ EmptyArchive \in Archive
  /\ EmptyArchive.days \in [Day -> Row] /\ EmptyArchive.periods \in [Kind -> [PeriodId -> Row]]
  /\ \A v \in Nat, total \in Nat, voters \in Nat, n \in Nat : [v |-> v, total |-> total, voters |-> voters, n |-> n] \in Row
<1>1. NoRow \in Row
  BY DEF NoRow, Row
<1>2. /\ EmptyArchive.days = [d \in Day |-> NoRow]
      /\ EmptyArchive.periods = [k \in Kind |-> [i \in PeriodId |-> NoRow]]
      /\ EmptyArchive \in Archive
  BY <1>1 DEF EmptyArchive, Archive
<1>3. \A v \in Nat, total \in Nat, voters \in Nat, n \in Nat : [v |-> v, total |-> total, voters |-> voters, n |-> n] \in Row
  BY DEF Row
<1> QED BY <1>1, <1>2, <1>3

LEMMA DatesFinite == IsFiniteSet(Day) /\ \A S \in SUBSET Day : IsFiniteSet(S) /\ Cardinality(S) \in Nat
<1>1. 1 \in Int /\ LastDay \in Int
  BY HistoryAssumption
<1>2. IsFiniteSet(Day)
  BY <1>1, FS_Interval DEF Day
<1> QED BY <1>2, FS_Subset, FS_CardinalityType

LEMMA PairFinite == \A a, b : IsFiniteSet({a, b})
<1> TAKE a, b
<1>1. IsFiniteSet({a})
  BY FS_Singleton
<1>2. IsFiniteSet({a} \cup {b})
  BY <1>1, FS_AddElement
<1>3. {a} \cup {b} = {a, b}
  OBVIOUS
<1> QED BY <1>2, <1>3

LEMMA OneMore == IsFiniteSet(ballots) => \A e : IsFiniteSet(ballots \cup {e})
BY FS_AddElement

LEMMA CasesCounted == \A d : Cardinality(CasesOn(d)) \in Nat
<1> TAKE d
<1>1. CasesOn(d) \subseteq {<<d, "daily">>, <<d, "published">>}
  BY DEF CasesOn, CaseId, OnDate
<1>2. IsFiniteSet({<<d, "daily">>, <<d, "published">>})
  BY PairFinite
<1> QED BY <1>1, <1>2, FS_Subset, FS_CardinalityType

LEMMA BallotsCounted ==
  ASSUME IsFiniteSet(ballots)
  PROVE  \A ds : Cardinality(BallotsIn(ds)) \in Nat /\ CountVoters(ds) \in Nat
<1> TAKE ds
<1>1. IsFiniteSet(BallotsIn(ds))
  BY FS_Subset DEF BallotsIn
<1> DEFINE first == [b \in BallotsIn(ds) |-> b[1]]
           B == BallotsIn(ds)
<1>2. UniqueVoters(ds) = {first[b] : b \in B}
  BY DEF UniqueVoters
<1> HIDE DEF first, B
<1>3. IsFiniteSet({first[b] : b \in B})
  BY <1>1, FiniteImage DEF B
<1> QED BY <1>1, <1>2, <1>3, FS_CardinalityType DEF CountVoters

LEMMA TotalCounted ==
  ASSUME NEW days \in [Day -> Row], NEW covered \in SUBSET Day
  PROVE  TotalOf(days, covered) \in Nat
<1> DEFINE f == [x \in covered |-> days[x].total]
<1>1. \A x \in covered : f[x] \in Nat
  BY DEF Row
<1>2. IsFiniteSet(covered)
  BY DatesFinite
<1> HIDE DEF f
<1>3. SumFunctionOnSet(f, covered) \in Nat
  BY <1>1, <1>2, SumType
<1> QED BY <1>3 DEF TotalOf, f

LEMMA RowTablesStep ==
  ASSUME Shapes, RowTables, [HistoryNext]_historyVars
  PROVE  RowTables'
<1>1. /\ dayRow \in [Day -> Row] /\ periodRow \in [Kind -> [PeriodId -> Row]] /\ IsFiniteSet(ballots)
      /\ version \in Nat
  BY DEF RowTables, Shapes
<1>2. ASSUME NEW p \in {Server, Cli}, RollOver(p) PROVE RowTables'
  <2> DEFINE d == proc[p].day
             v == NextVersion(d)
             days == DaysAfter(d)
             periods == PeriodsAfter(d)
  <2>1. ballots' = ballots /\ dayRow' = days /\ periodRow' = periods
    BY <1>2 DEF RollOver
  <2> HIDE DEF d
  <2>2. v \in Nat
    BY <1>1 DEF NextVersion
  <2> HIDE DEF v
  <2>3. \A x : DaySource(x, v) \in Row
    BY <1>1, <2>2, RowKinds, CasesCounted, BallotsCounted DEF DaySource
  <2>4. days \in [Day -> Row]
    BY <1>1, <2>3 DEF DaysAfter, v
  <2> HIDE DEF days
  <2>5. \A k \in Kind, i \in PeriodId : PeriodSource(k, i, days, v) \in Row
    <3> SUFFICES ASSUME NEW k \in Kind, NEW i \in PeriodId PROVE PeriodSource(k, i, days, v) \in Row
      OBVIOUS
    <3> DEFINE covered == Dates(k, i) \cap Dated(days)
    <3>1. covered \in SUBSET Day
      BY DEF Dates
    <3>2. TotalOf(days, covered) \in Nat /\ Cardinality(covered) \in Nat /\ CountVoters(Dates(k, i)) \in Nat
      BY <1>1, <2>4, <3>1, TotalCounted, DatesFinite, BallotsCounted
    <3>3. PeriodSource(k, i, days, v) = [v |-> v, total |-> TotalOf(days, covered),
                                         voters |-> CountVoters(Dates(k, i)), n |-> Cardinality(covered)]
      BY DEF PeriodSource
    <3> HIDE DEF covered
    <3> QED BY <2>2, <3>2, <3>3, RowKinds
  <2>6. periods = [k \in Kind |-> [i \in PeriodId |-> IF i \in Due(k, d) THEN PeriodSource(k, i, days, v)
                                                      ELSE periodRow[k][i]]]
    BY DEF PeriodsAfter, days, v
  <2> HIDE DEF periods
  <2>7. periods \in [Kind -> [PeriodId -> Row]]
    BY <1>1, <2>5, <2>6
  <2> QED BY <1>1, <2>1, <2>4, <2>7 DEF RowTables
<1>3. CASE Vote
  <2>1. PICK v \in Voter :
          ballots' = IF caseStatus[proc[Server].held] = "active"
                     THEN ballots \cup {<<v, proc[Server].held>>} ELSE ballots
    BY <1>3 DEF Vote
  <2>2. IsFiniteSet(ballots \cup {<<v, proc[Server].held>>})
    BY <1>1, OneMore
  <2>3. IsFiniteSet(ballots') /\ dayRow' = dayRow /\ periodRow' = periodRow
    BY <1>1, <1>3, <2>1, <2>2 DEF Vote
  <2> QED BY <1>1, <2>3 DEF RowTables
<1>4. CASE ClearHistory
  <2>1. ballots' \subseteq ballots
    BY <1>4 DEF ClearHistory
  <2> QED BY <1>1, <1>4, <2>1, FS_Subset, RowKinds DEF ClearHistory, RowTables
<1>5. CASE UNCHANGED <<dayRow, periodRow, ballots>>
  BY <1>1, <1>5 DEF RowTables
<1> QED BY <1>2, <1>3, <1>4, <1>5, StepsOfTables
        DEF TableStep, Publish, QueueAdd, SeedNext, ReplaceQueue, database

(* Titles. *)

LEMMA OnlyMember ==
  ASSUME NEW n \in Nat
  PROVE  Max({n}) = n
BY DEF Max

LEMMA OpensWithTitle ==
  ASSUME Shapes, Titles, NEW d
  PROVE  OpeningTitle(d) \in Title
<1>1. queue \in Seq(QueueRow) /\ DOMAIN queue = 1 .. Len(queue) /\ Len(queue) \in 0 .. MaxQueued
  BY Counting DEF Shapes, Titles
<1>2. BankSize \in Nat /\ MaxQueued \in Nat /\ ByHand \in Title
  BY HistoryAssumption DEF ByHand, Title
<1>3. CASE QueuedTitle(d) # {}
  <2>1. PICK n : QueuedTitle(d) = {n}
    BY <1>3 DEF QueuedTitle
  <2>2. n \in 1 .. Len(queue)
    BY <1>1, <2>1, TakenWaits DEF Pending
  <2>3. OpeningTitle(d) = BankSize + n
    BY <1>1, <1>3, <2>1, <2>2, OnlyMember DEF OpeningTitle
  <2> QED BY <1>1, <1>2, <2>2, <2>3 DEF Title
<1>4. CASE QueuedTitle(d) = {} /\ (TitleBefore(d) = {} \/ BankSize = 0)
  BY <1>2, <1>4 DEF OpeningTitle
<1>5. CASE QueuedTitle(d) = {} /\ TitleBefore(d) # {} /\ BankSize # 0
  <2>1. \A t : NextInBank(t) \in Title
    <3> TAKE t
    <3>1. CASE t \in 1 .. BankSize
      <4>1. t % BankSize \in 0 .. BankSize - 1
        BY <1>2, <1>5, <3>1
      <4> QED BY <1>2, <1>5, <3>1, <4>1 DEF NextInBank, Title
    <3>2. CASE t \notin 1 .. BankSize
      BY <1>2, <1>5, <3>2 DEF NextInBank, Title
    <3> QED BY <3>1, <3>2
  <2> QED BY <1>5, <2>1 DEF OpeningTitle
<1> QED BY <1>3, <1>4, <1>5

LEMMA TitlesStep ==
  ASSUME Shapes, Accounted, Titles, [HistoryNext]_historyVars
  PROVE  Titles'
<1>1. /\ title \in [CaseId -> Title] /\ Len(queue) <= MaxQueued
      /\ queue \in Seq(QueueRow) /\ Len(queue) \in Nat /\ MaxQueued \in Nat
  BY Counting, HistoryAssumption DEF Titles, Shapes
<1>2. ByHand \in Title
  BY HistoryAssumption DEF ByHand, Title
<1>a. CASE UNCHANGED <<title, queue>>
  BY <1>1, <1>a DEF Titles
<1>b. ASSUME NEW on \in Nat, queue' = Enqueued(<<on>>), Len(queue) < MaxQueued, title' = title
      PROVE  Titles'
  <2>1. Len(Enqueued(<<on>>)) = Len(queue) + 1
    BY <1>1, Appended
  <2> QED BY <1>1, <1>b, <2>1 DEF Titles
<1>3. ASSUME NEW p \in {Server, Cli}, RollOver(p) PROVE Titles'
  <2> DEFINE d == proc[p].day
  <2>1. \E c : title' = IF NoneActive(d) THEN [title EXCEPT ![c] = OpeningTitle(d)] ELSE title
    BY <1>3 DEF RollOver
  <2>2. queue' = queue \/ queue' = Consumed(d)
    BY <1>3 DEF RollOver
  <2> HIDE DEF d
  <2>3. title' \in [CaseId -> Title]
    BY <1>1, <2>1, OpensWithTitle
  <2>4. Consumed(d) \in Seq(QueueRow) /\ DOMAIN Consumed(d) = DOMAIN queue
    BY <1>1, ConsumedRight
  <2>5. Len(Consumed(d)) = Len(queue)
    BY <1>1, <2>4
  <2> QED BY <1>1, <2>2, <2>3, <2>5 DEF Titles
<1>4. CASE Publish
  <2>1. title' = [title EXCEPT ![<<clock, "published">>] = ByHand] /\ queue' = queue
    BY <1>4 DEF Publish
  <2> QED BY <1>1, <1>2, <2>1 DEF Titles
<1>5. CASE ClearHistory
  <2>1. title' = [c \in CaseId |-> IF OnDate(c) < clock THEN ByHand ELSE title[c]] /\ queue' = queue
    BY <1>5 DEF ClearHistory
  <2> QED BY <1>1, <1>2, <2>1 DEF Titles
<1>6. CASE QueueAdd
  BY <1>b, <1>6, HistoryAssumption DEF QueueAdd
<1>7. CASE SeedNext
  <2>1. IsProc(proc[Cli], clock) /\ proc[Cli].pc = "seed"
    BY <1>7, Parts DEF SeedNext, Shapes
  <2>2. Head(proc[Cli].plan) \in Nat
    BY <2>1 DEF IsProc
  <2> QED BY <1>b, <1>7, <2>2 DEF SeedNext
<1>8. CASE ReplaceQueue
  <2>1. PICK start \in ScheduleDay \ {0}, n \in 1 .. MaxQueued - Len(queue) :
         queue' = [i \in 1 .. Len(queue) + n |->
                  IF i > Len(queue) THEN [on |-> start + i - Len(queue) - 1, state |-> "pending"]
                  ELSE IF i \in Pending THEN [queue[i] EXCEPT !.state = "deleted"] ELSE queue[i]]
    BY <1>8 DEF ReplaceQueue
  <2>2. Len(queue) + n \in Nat /\ Len(queue) + n <= MaxQueued
    BY <1>1
  <2>3. DOMAIN queue' = 1 .. Len(queue) + n
    BY <2>1
  <2>4. queue' \in Seq(QueueRow)
    BY ScheduleStep
  <2>5. Len(queue') = Len(queue) + n
    BY <2>2, <2>3, <2>4
  <2> QED BY <1>1, <1>8, <2>2, <2>5 DEF Titles, ReplaceQueue
<1>9. CASE Vote
  BY <1>a, <1>9 DEF Vote
<1> QED BY <1>a, <1>3, <1>4, <1>5, <1>6, <1>7, <1>8, <1>9, StepsOfTables DEF TableStep, database

(* Archives hold rows. *)

RowTable(rows)  == rows \in [Day -> Row]
RowPeriods(rows) == rows \in [Kind -> [PeriodId -> Row]]

LEMMA ArchiveParts ==
  ASSUME NEW a \in Archive
  PROVE  /\ IsArchive(a) /\ IsCopy(a) /\ RowTable(a.days) /\ RowPeriods(a.periods)
         /\ a.v \in Nat /\ a.voters \in [Kind -> Nat] /\ a.stale \in BOOLEAN
BY DEF Archive, IsArchive, IsCopy, RowTable, RowPeriods, Table, Tables

LEMMA ArchiveMade ==
  ASSUME NEW a, NEW v \in Nat, NEW days, RowTable(days), NEW periods, RowPeriods(periods),
         NEW voters \in [Kind -> Nat], NEW stale \in BOOLEAN,
         a = [v |-> v, days |-> days, periods |-> periods, voters |-> voters, stale |-> stale]
  PROVE  a \in Archive
BY DEF Archive, RowTable, RowPeriods

LEMMA NewerRows ==
  ASSUME NEW rows, NEW c
  PROVE  /\ RowTable(rows) => RowTable(Newer(rows, c))
         /\ RowPeriods(rows) => RowPeriods(NewerPeriods(rows, c))
<1>1. RowTable(rows) => RowTable(Newer(rows, c))
  BY RowKinds DEF RowTable, Newer
<1>2. ASSUME RowPeriods(rows) PROVE RowPeriods(NewerPeriods(rows, c))
  <2>1. \A k \in Kind : Newer(rows[k], c) \in [PeriodId -> Row]
    BY <1>2, RowKinds DEF RowPeriods, Newer
  <2> QED BY <2>1 DEF RowPeriods, NewerPeriods
<1> QED BY <1>1, <1>2

LEMMA ReplacedRows ==
  ASSUME NEW cur, NEW inc
  PROVE  /\ RowTable(cur) /\ RowTable(inc) => RowTable(ReplaceByKey(cur, inc))
         /\ RowPeriods(cur) /\ RowPeriods(inc) =>
              RowPeriods([k \in Kind |-> ReplaceByKey(cur[k], inc[k])])
<1>1. RowTable(cur) /\ RowTable(inc) => RowTable(ReplaceByKey(cur, inc))
  BY DEF RowTable, ReplaceByKey
<1>2. ASSUME RowPeriods(cur), RowPeriods(inc)
      PROVE  RowPeriods([k \in Kind |-> ReplaceByKey(cur[k], inc[k])])
  <2>1. \A k \in Kind : ReplaceByKey(cur[k], inc[k]) \in [PeriodId -> Row]
    BY <1>2 DEF RowPeriods, ReplaceByKey
  <2> QED BY <2>1 DEF RowPeriods
<1> QED BY <1>1, <1>2

\* What an archive becomes when its tables, its envelope or its mark are replaced.
LEMMA Retabled ==
  ASSUME NEW a \in Archive, NEW days, RowTable(days), NEW periods, RowPeriods(periods)
  PROVE  [a EXCEPT !.days = days, !.periods = periods] \in Archive
<1> DEFINE s == [a EXCEPT !.days = days, !.periods = periods]
<1>1. /\ a = [v |-> a.v, days |-> a.days, periods |-> a.periods, voters |-> a.voters, stale |-> a.stale]
      /\ a.v \in Nat /\ a.voters \in [Kind -> Nat] /\ a.stale \in BOOLEAN
  BY ArchiveParts DEF IsArchive
<1>2. s = [f \in ArchiveFields |-> s[f]]
  BY <1>1 DEF ArchiveFields
<1>3. s.v = a.v /\ s.days = days /\ s.periods = periods /\ s.voters = a.voters /\ s.stale = a.stale
  BY <1>1
<1> HIDE DEF s
<1>4. s = [v |-> s.v, days |-> s.days, periods |-> s.periods, voters |-> s.voters, stale |-> s.stale]
  BY <1>2, ArchiveRecord
<1>5. s = [v |-> a.v, days |-> days, periods |-> periods, voters |-> a.voters, stale |-> a.stale]
  BY <1>3, <1>4
<1>6. s \in Archive
  BY <1>1, <1>5, ArchiveMade
<1> QED BY <1>6 DEF s

LEMMA Restamped ==
  ASSUME NEW a \in Archive, NEW v \in Nat, NEW voters \in [Kind -> Nat]
  PROVE  [a EXCEPT !.v = v, !.voters = voters] \in Archive
<1> DEFINE s == [a EXCEPT !.v = v, !.voters = voters]
<1>1. /\ a = [v |-> a.v, days |-> a.days, periods |-> a.periods, voters |-> a.voters, stale |-> a.stale]
      /\ RowTable(a.days) /\ RowPeriods(a.periods) /\ a.stale \in BOOLEAN
  BY ArchiveParts DEF IsArchive
<1>2. s = [f \in ArchiveFields |-> s[f]]
  BY <1>1 DEF ArchiveFields
<1>3. s.v = v /\ s.days = a.days /\ s.periods = a.periods /\ s.voters = voters /\ s.stale = a.stale
  BY <1>1
<1> HIDE DEF s
<1>4. s = [v |-> s.v, days |-> s.days, periods |-> s.periods, voters |-> s.voters, stale |-> s.stale]
  BY <1>2, ArchiveRecord
<1>5. s = [v |-> v, days |-> a.days, periods |-> a.periods, voters |-> voters, stale |-> a.stale]
  BY <1>3, <1>4
<1>6. s \in Archive
  BY <1>1, <1>5, ArchiveMade
<1> QED BY <1>6 DEF s

LEMMA MarkedStale ==
  ASSUME NEW a \in ArchiveCopy
  PROVE  GoneStale(a) \in Archive
<1> DEFINE b == IF a = NoArchive THEN EmptyArchive ELSE a
           s == GoneStale(a)
<1>0. b \in Archive /\ s = [b EXCEPT !.stale = TRUE]
  BY RowKinds DEF ArchiveCopy, GoneStale
<1> HIDE DEF b
<1>1. /\ b = [v |-> b.v, days |-> b.days, periods |-> b.periods, voters |-> b.voters, stale |-> b.stale]
      /\ b.v \in Nat /\ RowTable(b.days) /\ RowPeriods(b.periods) /\ b.voters \in [Kind -> Nat]
  BY <1>0, ArchiveParts DEF IsArchive
<1> HIDE DEF s
<1>2. s = [f \in ArchiveFields |-> s[f]]
  BY <1>0, <1>1 DEF ArchiveFields
<1>3. s.v = b.v /\ s.days = b.days /\ s.periods = b.periods /\ s.voters = b.voters /\ s.stale = TRUE
  BY <1>0, <1>1
<1>4. s = [v |-> s.v, days |-> s.days, periods |-> s.periods, voters |-> s.voters, stale |-> s.stale]
  BY <1>2, ArchiveRecord
<1>5. s = [v |-> b.v, days |-> b.days, periods |-> b.periods, voters |-> b.voters, stale |-> TRUE]
  BY <1>3, <1>4
<1>6. s \in Archive
  BY <1>1, <1>5, ArchiveMade
<1> QED BY <1>6 DEF s

LEMMA ServedRows ==
  ASSUME cache \in ArchiveCopy, NEW c
  PROVE  Served(c) \in Archive
<1> DEFINE b == IF cache = NoArchive THEN EmptyArchive ELSE cache
           days == Newer(b.days, c)
           periods == NewerPeriods(b.periods, c)
<1>1. b \in Archive /\ Served(c) = [b EXCEPT !.days = days, !.periods = periods]
  BY RowKinds DEF ArchiveCopy, Served
<1> HIDE DEF b
<1>2. RowTable(days) /\ RowPeriods(periods)
  BY <1>1, ArchiveParts, NewerRows
<1> HIDE DEF days, periods
<1>3. [b EXCEPT !.days = days, !.periods = periods] \in Archive
  BY <1>1, <1>2, Retabled
<1> QED BY <1>1, <1>3

LEMMA MergedRows ==
  ASSUME NEW cur \in ArchiveCopy, NEW inc \in Archive, NEW full
  PROVE  Merge(cur, inc, full) \in Archive
<1>1. CASE cur = NoArchive \/ full
  BY <1>1 DEF Merge
<1>2. CASE cur # NoArchive /\ ~full
  <2> DEFINE days == ReplaceByKey(cur.days, inc.days)
             periods == [k \in Kind |-> ReplaceByKey(cur.periods[k], inc.periods[k])]
  <2>1. cur \in Archive
    BY <1>2 DEF ArchiveCopy
  <2>2. RowTable(days) /\ RowPeriods(periods)
    BY <2>1, ArchiveParts, ReplacedRows
  <2>3. Merge(cur, inc, full) \in {cur, [inc EXCEPT !.days = days, !.periods = periods]}
    BY <1>2 DEF Merge
  <2> HIDE DEF days, periods
  <2>4. [inc EXCEPT !.days = days, !.periods = periods] \in Archive
    BY <2>2, Retabled
  <2> QED BY <2>1, <2>3, <2>4
<1> QED BY <1>1, <1>2

LEMMA FoundHasRows ==
  ASSUME RowTables
  PROVE  FoundRows \in Archive
<1>1. RowTable(Newer(dayRow, proc[Server].cursor)) /\ RowPeriods(NewerPeriods(periodRow, proc[Server].cursor))
  BY NewerRows DEF RowTables, RowTable, RowPeriods
<1> QED BY <1>1, RowKinds, Retabled DEF FoundRows

LEMMA EnvelopeHasRows ==
  ASSUME version \in Nat, IsFiniteSet(ballots), NEW rows \in Archive, NEW d
  PROVE  Envelope(d, rows) \in Archive
<1> DEFINE voters == [k \in Kind |-> OpenVoters(k, d)]
<1>1. voters \in [Kind -> Nat]
  BY BallotsCounted DEF OpenVoters
<1>2. Envelope(d, rows) = [rows EXCEPT !.v = version, !.voters = voters]
  BY DEF Envelope
<1> HIDE DEF voters
<1>3. [rows EXCEPT !.v = version, !.voters = voters] \in Archive
  BY <1>1, Restamped
<1> QED BY <1>2, <1>3

(* What handlers and commands hold. *)

LEMMA HeldLater ==
  ASSUME NEW r, NEW t \in Day, NEW u \in Day, t <= u, Holding(r, t)
  PROVE  Holding(r, u)
BY DEF Holding, Day

LEMMA IdleHolding ==
  ASSUME NEW t \in Day
  PROVE  Holding(Idle, t)
BY DEF Holding, Idle, Day

LEMMA Handed ==
  ASSUME Shapes, Holdings, NEW p \in {Server, Cli}, NEW r, Becomes(p, r), Holding(r, clock), clock' = clock
  PROVE  Holdings'
<1>1. proc' = [q \in {Server, Cli} |-> IF q = p THEN r ELSE proc[q]]
  BY DEF Shapes, Becomes
<1> QED BY <1>1 DEF Holdings

LEMMA HoldingsStep ==
  ASSUME Shapes, RowTables, Holdings, [HistoryNext]_historyVars
  PROVE  Holdings'
<1>0. clock \in Day /\ clock \in 1 .. clock /\ \A p \in {Server, Cli} : IsProc(proc[p], clock) /\ Holding(proc[p], clock)
  BY Dates1 DEF Shapes, Holdings, Day
<1>a. CASE UNCHANGED proc
  BY <1>0, <1>a, ClockStep, HeldLater DEF Holdings
<1>b. ASSUME NEW p \in {Server, Cli}, NEW r, Becomes(p, r), Holding(r, clock), clock' = clock
      PROVE  Holdings'
  BY <1>b, Handed
<1>c. ASSUME NEW p \in {Server, Cli}, Finish(p), clock' = clock PROVE Holdings'
  <2>1. Done(p) = [pc |-> "idle", kind |-> "none", day |-> 0,
                   checked |-> IF p = Server THEN proc[p].checked ELSE 0, held |-> NoCase,
                   cursor |-> -1, found |-> NoArchive, plan |-> <<>>]
    BY DEF Done, Idle
  <2>2. Holding(Done(p), clock)
    BY <1>0, <2>1 DEF Holding, Day
  <2> QED BY <1>b, <1>c, <2>2 DEF Finish, Becomes
<1>d. ASSUME NEW p \in {Server, Cli}, NEW kind, Begins(p, kind), clock' = clock PROVE Holdings'
  <2> DEFINE r == [proc[p] EXCEPT !.pc = "ensure", !.kind = kind, !.day = clock]
  <2>1. Becomes(p, r)
    BY <1>d DEF Begins, Becomes
  <2>2. r = [pc |-> "ensure", kind |-> kind, day |-> clock, checked |-> proc[p].checked,
             held |-> proc[p].held, cursor |-> proc[p].cursor, found |-> proc[p].found,
             plan |-> proc[p].plan]
    BY <1>0, BegunRecord
  <2> HIDE DEF r
  <2>3. Holding(r, clock)
    BY <1>0, <2>2 DEF Holding, Day
  <2> QED BY <1>b, <1>d, <2>1, <2>3
<1>e. ASSUME NEW p \in {Server, Cli}, NEW c \in CaseId, proc[p].pc = "ensure",
             Becomes(p, After(p, c)), clock' = clock
      PROVE  Holdings'
  <2>1. CASE proc[p].kind = "status"
    BY <1>0, <1>b, <1>e, <2>1, IdleHolding DEF After
  <2>2. CASE proc[p].kind # "status"
    <3> DEFINE a == IF proc[p].kind = "history" THEN "rows" ELSE "act"
    <3>1. After(p, c) = [proc[p] EXCEPT !.pc = a, !.held = c, !.checked = proc[p].day]
      BY <2>2 DEF After
    <3>2. a \in {"rows", "act"}
      OBVIOUS
    <3> HIDE DEF a
    <3>3. [proc[p] EXCEPT !.pc = a, !.held = c, !.checked = proc[p].day]
            = [pc |-> a, kind |-> proc[p].kind, day |-> proc[p].day,
               checked |-> proc[p].day, held |-> c, cursor |-> proc[p].cursor,
               found |-> proc[p].found, plan |-> proc[p].plan]
      BY <1>0, EnsuredRecord
    <3>4. After(p, c) = [pc |-> a, kind |-> proc[p].kind, day |-> proc[p].day,
                         checked |-> proc[p].day, held |-> c, cursor |-> proc[p].cursor,
                         found |-> proc[p].found, plan |-> proc[p].plan]
      BY <3>1, <3>3
    <3>5. Holding(After(p, c), clock)
      BY <1>0, <3>2, <3>4 DEF Holding
    <3> QED BY <1>b, <1>e, <3>5
  <2> QED BY <2>1, <2>2
<1>1. CASE Midnight
  BY <1>a, <1>1 DEF Midnight
<1>2. ASSUME NEW p \in {Server, Cli}, Ensure(p) PROVE Holdings'
  <2>1. CASE EnsureFinds(p)
    BY <1>e, <2>1 DEF EnsureFinds, ActiveOn, Becomes
  <2>2. CASE RollOver(p)
    <3>1. proc[p].pc = "ensure"
      BY <2>2 DEF RollOver, NeedsRollOver
    <3>2. proc[p].day \in Day
      BY <1>0, <3>1, Dates1 DEF IsProc, Day
    <3>3. PICK c \in IF NoneActive(proc[p].day) THEN {<<proc[p].day, "daily">>} ELSE ActiveOn(proc[p].day) :
            Becomes(p, After(p, c))
      BY <2>2 DEF RollOver, Becomes
    <3>4. c \in CaseId
      BY <3>2, <3>3, Dates1 DEF ActiveOn
    <3> QED BY <1>e, <2>2, <3>1, <3>3, <3>4 DEF RollOver
  <2>3. CASE RollOverFails(p)
    BY <1>c, <2>3 DEF RollOverFails
  <2> QED BY <1>2, <2>1, <2>2, <2>3 DEF Ensure
<1>3. CASE Serve
  <2>1. CASE BeginVote
    BY <1>d, <2>1, Who DEF BeginVote
  <2>2. CASE Vote \/ AnswerPoll \/ AnswerHistory
    BY <1>c, <2>2, Who DEF Vote, AnswerPoll, AnswerHistory
  <2>3. CASE BeginHistory
    <3> DEFINE r == [proc[Server] EXCEPT !.pc = "ensure", !.kind = "history", !.day = clock,
                                         !.cursor = fetch.cursor]
    <3>1. Becomes(Server, r) /\ clock' = clock
      BY <2>3 DEF BeginHistory, Becomes
    <3>2. r = [pc |-> "ensure", kind |-> "history", day |-> clock, checked |-> proc[Server].checked,
               held |-> proc[Server].held, cursor |-> fetch.cursor, found |-> proc[Server].found,
               plan |-> proc[Server].plan]
      BY <1>0, Who, AskedRecord
    <3> HIDE DEF r
    <3>3. Holding(r, clock)
      BY <1>0, <3>2, Who DEF Holding, Day
    <3> QED BY <1>b, <3>1, <3>3, Who
  <2>4. CASE ReadRows
    <3> DEFINE r == [proc[Server] EXCEPT !.pc = "version", !.found = FoundRows]
    <3>1. Becomes(Server, r) /\ clock' = clock
      BY <2>4 DEF ReadRows, Becomes, FoundRows
    <3>2. FoundRows \in Archive
      BY FoundHasRows
    <3>3. r = [pc |-> "version", kind |-> proc[Server].kind, day |-> proc[Server].day,
               checked |-> proc[Server].checked, held |-> proc[Server].held,
               cursor |-> proc[Server].cursor, found |-> FoundRows, plan |-> proc[Server].plan]
      BY <1>0, Who, ReadRecord
    <3> HIDE DEF r
    <3>4. Holding(r, clock)
      BY <1>0, <3>2, <3>3, Who DEF Holding
    <3> QED BY <1>b, <3>1, <3>4, Who
  <2> QED BY <1>3, <2>1, <2>2, <2>3, <2>4 DEF Serve
<1>4. CASE Operate
  <2>1. CASE BeginStatus
    BY <1>d, <2>1, Who DEF BeginStatus
  <2>2. CASE Publish \/ ClearHistory \/ QueueAdd \/ ReplaceQueue
    BY <1>a, <2>2 DEF Publish, ClearHistory, QueueAdd, ReplaceQueue
  <2>3. CASE PlanSeed
    <3>1. PICK plan : Becomes(Cli, [Idle EXCEPT !.pc = "seed", !.kind = "seed", !.day = clock, !.plan = plan])
      BY <2>3 DEF PlanSeed, Becomes
    <3> DEFINE r == [Idle EXCEPT !.pc = "seed", !.kind = "seed", !.day = clock, !.plan = plan]
    <3>2. r = [pc |-> "seed", kind |-> "seed", day |-> clock, checked |-> Idle.checked,
               held |-> Idle.held, cursor |-> Idle.cursor, found |-> Idle.found, plan |-> plan]
      BY Parts, PlannedRecord
    <3>3. Becomes(Cli, r)
      BY <3>1
    <3> HIDE DEF r
    <3>4. Holding(r, clock)
      BY <1>0, <3>2, IdleHolding DEF Holding, Day
    <3>5. clock' = clock
      BY <2>3 DEF PlanSeed
    <3> QED BY <1>b, <3>3, <3>4, <3>5, Who
  <2>4. CASE SeedNext
    <3> DEFINE rest == Tail(proc[Cli].plan)
               s == [proc[Cli] EXCEPT !.plan = rest]
    <3>1. clock' = clock /\ (Finish(Cli) \/ Becomes(Cli, s))
      BY <2>4 DEF SeedNext, Finish, Becomes
    <3>2. s = [pc |-> proc[Cli].pc, kind |-> proc[Cli].kind, day |-> proc[Cli].day,
               checked |-> proc[Cli].checked, held |-> proc[Cli].held,
               cursor |-> proc[Cli].cursor, found |-> proc[Cli].found, plan |-> rest]
      BY <1>0, Who, SeededRecord
    <3> HIDE DEF s, rest
    <3>3. Holding(s, clock)
      BY <1>0, <3>2, Who DEF Holding
    <3> QED BY <1>b, <1>c, <3>1, <3>3, Who
  <2> QED BY <1>4, <2>1, <2>2, <2>3, <2>4 DEF Operate
<1>5. CASE Relay
  <2>1. CASE AskPoll \/ PollTurnsOver
    BY <1>d, <2>1, Who DEF AskPoll, PollTurnsOver, AsksFor
  <2>2. CASE ~ (AskPoll \/ PollTurnsOver)
    BY <1>a, <1>5, <2>2 DEF Relay, AdoptSnapshot, AdoptBootstrap, Adopt, PollFails,
       FetchLands, FetchFails, RestartHost
  <2> QED BY <2>1, <2>2
<1>6. CASE Browse
  BY <1>a, <1>6 DEF Browse, FrameArrives, AskLoad, LoadLands, LoadFails
<1>7. CASE UNCHANGED historyVars
  BY <1>a, <1>7 DEF historyVars
<1> QED BY <1>1, <1>2, <1>3, <1>4, <1>5, <1>6, <1>7 DEF HistoryNext

(* What Host and browser have seen. *)

LEMMA SeenLater ==
  ASSUME clock \in Day, Seen, [HistoryNext]_historyVars, UNCHANGED outside
  PROVE  Seen'
<1>1. clock \in Nat /\ clock' \in Nat /\ clock <= clock'
  BY ClockStep DEF Day
<1> QED BY <1>1 DEF Seen, outside

LEMMA AsksLoad ==
  ASSUME Seen, NEW d, NEW v, StartLoad(d, v)
  PROVE  /\ load'.st = "asked" /\ fetch'.st \in {"idle", "asked", "answered"}
         /\ fetch'.st = "answered" => fetch'.rows \in Archive
BY DEF Seen, StartLoad, Refreshing

LEMMA SeenStep ==
  ASSUME Shapes, RowTables, Holdings, Seen, [HistoryNext]_historyVars
  PROVE  Seen'
<1>0. /\ clock \in Day /\ version \in Nat /\ NoReq.st = "idle" /\ NoReq \in Request
      /\ NoArchive \in ArchiveCopy /\ Archive \subseteq ArchiveCopy
      /\ NoHost.date = 0 /\ 0 \in 0 .. clock
      /\ Holding(proc[Server], clock) /\ IsProc(proc[Server], clock)
      /\ IsHost(adopted)
  BY Who DEF Shapes, NoReq, Request, ArchiveCopy, NoHost, Holdings, Day, IsHost
<1>a. CASE UNCHANGED outside
  BY <1>0, <1>a, SeenLater
<1>1. CASE Midnight
  BY <1>a, <1>1 DEF Midnight
<1>2. ASSUME NEW p \in {Server, Cli}, Ensure(p) PROVE Seen'
  BY <1>a, <1>2 DEF Ensure, EnsureFinds, RollOver, RollOverFails
<1>3. CASE Serve
  <2>1. CASE BeginVote \/ Vote \/ BeginHistory \/ ReadRows
    BY <1>a, <2>1 DEF BeginVote, Vote, BeginHistory, ReadRows
  <2>2. CASE AnswerPoll
    <3>1. /\ proc[Server].day \in Day /\ proc[Server].day \in 0 .. clock /\ proc[Server].held \in CaseId
          /\ proc[Server].kind \in {"snapshot", "bootstrap"}
      BY <1>0, <2>2, Dates1 DEF AnswerPoll, IsProc, Day
    <3> DEFINE q == [st |-> "answered", kind |-> poll.kind, date |-> proc[Server].day,
                     case |-> proc[Server].held, v |-> version]
    <3>2. (poll' = q /\ poll.kind \in {"snapshot", "bootstrap"}) \/ poll' = poll
      BY <2>2, <3>1 DEF AnswerPoll
    <3>3. poll.kind \in {"snapshot", "bootstrap"} => q \in Request /\ q.date \in 0 .. clock
      BY <1>0, <3>1 DEF Request
    <3> HIDE DEF q
    <3>4. poll' \in Request /\ (poll'.st = "answered" => poll'.date \in 0 .. clock)
      BY <3>2, <3>3 DEF Seen
    <3> QED BY <2>2, <3>4 DEF AnswerPoll, Seen
  <2>3. CASE AnswerHistory
    <3>1. proc[Server].found \in Archive
      BY <1>0, <2>3 DEF AnswerHistory, Holding
    <3>2. Envelope(proc[Server].day, proc[Server].found) \in Archive
      BY <1>0, <3>1, EnvelopeHasRows DEF RowTables
    <3>3. fetch'.st \in {"idle", "asked", "answered"} /\ (fetch'.st = "answered" => fetch'.rows \in Archive)
      BY <2>3, <3>2 DEF AnswerHistory, Seen
    <3> QED BY <2>3, <3>3 DEF AnswerHistory, Seen
  <2> QED BY <1>3, <2>1, <2>2, <2>3 DEF Serve
<1>4. CASE Operate
  BY <1>a, <1>4 DEF Operate, BeginStatus, Publish, ClearHistory, QueueAdd, PlanSeed, SeedNext,
                    ReplaceQueue
<1>5. CASE Relay
  <2>1. CASE AskPoll \/ PollTurnsOver
    <3>1. \E k \in {"snapshot", "bootstrap"} : poll' = [st |-> "asked", kind |-> k]
      BY <2>1 DEF AskPoll, PollTurnsOver, AsksFor
    <3>2. poll' \in Request /\ poll'.st # "answered"
      BY <3>1 DEF Request
    <3> QED BY <2>1, <3>2 DEF AskPoll, PollTurnsOver, Seen
  <2>2. ASSUME NEW b \in BOOLEAN, Adopt(b), poll.st = "answered" PROVE Seen'
    <3>1. fetch'.st \in {"idle", "asked", "answered"} /\ (fetch'.st = "answered" => fetch'.rows \in Archive)
      BY <2>2 DEF Adopt, Seen, Refreshing
    <3>2. adopted'.date \in 0 .. clock
      BY <2>2 DEF Adopt, Seen
    <3> QED BY <1>0, <2>2, <3>1, <3>2 DEF Adopt, Seen
  <2>3. CASE AdoptSnapshot \/ AdoptBootstrap
    BY <2>2, <2>3 DEF AdoptSnapshot, AdoptBootstrap
  <2>4. CASE PollFails
    BY <1>0, <2>4 DEF PollFails, Seen
  <2>5. CASE FetchLands
    <3>1. fetch.rows \in Archive /\ cache \in ArchiveCopy
      BY <2>5 DEF FetchLands, Seen
    <3>2. Merge(cache, fetch.rows, fetch.cursor = -1) \in Archive
      BY <3>1, MergedRows
    <3>3. adopted'.date = adopted.date
      BY <1>0, <2>5 DEF FetchLands, IsHost
    <3> QED BY <1>0, <2>5, <3>2, <3>3 DEF FetchLands, Seen
  <2>6. CASE FetchFails
    BY <1>0, <2>6, MarkedStale DEF FetchFails, Seen
  <2>7. CASE RestartHost
    BY <1>0, <2>7, MarkedStale DEF RestartHost, Seen
  <2> QED BY <1>5, <2>1, <2>3, <2>4, <2>5, <2>6, <2>7 DEF Relay
<1>6. CASE Browse
  <2>1. CASE FrameArrives
    <3>1. /\ load'.st \in {"idle", "asked"} /\ fetch'.st \in {"idle", "asked", "answered"}
          /\ fetch'.st = "answered" => fetch'.rows \in Archive
      BY <2>1, AsksLoad DEF FrameArrives, Seen
    <3>2. framed'.date = adopted.date
      BY <2>1 DEF FrameArrives
    <3> QED BY <2>1, <3>1, <3>2 DEF FrameArrives, Seen
  <2>2. CASE AskLoad
    BY <2>2, AsksLoad DEF AskLoad, Seen
  <2>3. CASE LoadLands
    <3>1. front \in ArchiveCopy /\ Served(load.cursor) \in Archive
      BY ServedRows DEF Seen
    <3>2. Merge(front, Served(load.cursor), load.cursor = -1) \in Archive
      BY <3>1, MergedRows
    <3> QED BY <1>0, <2>3, <3>2 DEF LoadLands, Seen
  <2>4. CASE LoadFails
    BY <1>0, <2>4, MarkedStale DEF LoadFails, Seen
  <2> QED BY <1>6, <2>1, <2>2, <2>3, <2>4 DEF Browse
<1>7. CASE UNCHANGED historyVars
  BY <1>a, <1>7 DEF historyVars, outside
<1> QED BY <1>1, <1>2, <1>3, <1>4, <1>5, <1>6, <1>7 DEF HistoryNext

LEMMA MarksKnown ==
  ASSUME mishap \subseteq {"torn", "cleared", "late"}, [HistoryNext]_historyVars
  PROVE  mishap' \subseteq {"torn", "cleared", "late"}
<1>1. \A p : RollOver(p) => mishap' \subseteq {"torn", "cleared", "late"}
  BY DEF RollOver, Mishaps
<1>2. ClearHistory => mishap' \subseteq {"torn", "cleared", "late"}
  BY DEF ClearHistory
<1> QED BY <1>1, <1>2, StepsOfTables DEF TableStep, Vote, Publish, QueueAdd, SeedNext, ReplaceQueue

LEMMA TypesStarted ==
  ASSUME HistoryInit
  PROVE  HistoryTypes
<1>1. Shapes /\ Accounted
  BY HistoryStarted
<1>2. RowTables /\ Titles
  BY RowKinds, FS_EmptySet, HistoryAssumption DEF HistoryInit, RowTables, Titles, Title, ByHand
<1>3. clock \in Day
  BY <1>1 DEF Shapes
<1>4. Holdings
  BY <1>3, IdleHolding DEF HistoryInit, Holdings
<1>5. NoReq.st = "idle" /\ NoReq \in Request /\ NoHost.date = 0 /\ 0 \in 0 .. clock
  BY <1>3 DEF NoReq, Request, NoHost, Day
<1>6. Seen
  BY <1>5 DEF HistoryInit, Seen, ArchiveCopy
<1> QED BY <1>1, <1>2, <1>4, <1>6 DEF HistoryInit, HistoryTypes

\* The state of the hall keeps its shape (the whole of the type invariant of HistoryArchive), for
\* any number of voters, dates, titles, commands and requests, and every length of a period: rows
\* that are counts wherever they are held, a schedule within its length, titles of the bank or of
\* the schedule, and dates that never pass the backend's clock.
THEOREM HistoryTypeInvariant == HistorySpec => []HistoryTypeOK
<1>1. HistoryInit => HistoryTypes
  BY TypesStarted
<1>2. HistoryTypes /\ [HistoryNext]_historyVars => HistoryTypes'
  BY ShapesStep, RowTablesStep, TitlesStep, HoldingsStep, SeenStep, MarksKnown DEF HistoryTypes
<1>3. HistoryTypes => HistoryTypeOK
  BY Who DEF HistoryTypes, HistoryTypeOK, Shapes, States, QueueRow, Accounted, RowTables, Titles,
             Holdings, Holding, Seen, ArchiveCopy
<1> QED BY <1>1, <1>2, <1>3, PTL DEF HistorySpec
-----------------------------------------------------------------------------
(* The browser tab: its types, by variable. *)

Wire == [epoch : Nat, mode : Mode \cup {"none"}, rev : Int, body : Nat]

\* A wire an authority has sent.
Sent == {w \in Wire : w.epoch > 0 /\ w.mode \in Mode /\ w.rev >= 0}

Authority == {a \in [epoch : Nat, rev : Nat, body : Nat] : a.epoch > 0}

Hosts ==
  {h \in [up : BOOLEAN, ready : BOOLEAN, mode : Mode, to : Mode \cup {"none"}, epoch : Nat,
          auth : [Mode -> Authority], books : [Mode -> SUBSET [id : Nat, press : Nat]]] :
     /\ \A m \in Mode : h.auth[m].epoch <= h.epoch
     /\ h.ready => h.up}

Links == [open : BOOLEAN, last : Wire, pipe : Seq(Sent)]

Pulls ==
  {p \in [at : {"idle", "sent", "held", "answered", "failed"}, to : Mode \cup {"none"},
          wire : Wire] :
     p.at = "answered" => p.wire \in Sent}

Calls ==
  {c \in [try : {1, 2}, press : Nat, id : Nat, case : Mode \cup {"none"},
          at : {"sent", "queued", "running", "answered", "failed", "limited"},
          by : Mode \cup {"none"}, epoch : Nat, wire : Wire] :
     /\ c.id = c.press
     /\ c.at \in {"queued", "running"} => c.by \in Mode
     /\ c.at = "answered" => c.wire \in Sent}

\* The cursors of a tab are those of the state it shows.
Cursors(t) ==
  \/ t.view = NoWire /\ t.rev = -1 /\ t.epoch = -1
  \/ t.view \in Sent /\ t.rev = t.view.rev /\ t.epoch = t.view.epoch

Tabs ==
  {t \in [conn : {"connecting", "live", "offline"}, view : Wire, rev : Int, epoch : Int,
          stream : {"none", "opening", "open", "refused"}, errors : Nat,
          starting : BOOLEAN, timer : BOOLEAN, gone : BOOLEAN, late : BOOLEAN,
          press : {"idle", "first", "resting", "second"}, presses : Nat,
          case : Mode \cup {"none"}] :
     t.errors <= MaxErrors - 1 /\ Cursors(t)}

Types ==
  /\ host \in Hosts /\ link \in Links /\ pulls \in [Pull -> Pulls]
  /\ calls \subseteq Calls /\ tab \in Tabs

LEMMA Numbers == MaxErrors \in Nat \ {0} /\ Asks \subseteq {"refresh", "reconcile"}
BY LiveViewAssumption

LEMMA Kinds ==
  /\ "state" \in Pull /\ "mode" \in Pull
  /\ NoPull \in Pulls /\ NoWire \in Wire /\ NoWire \notin Sent /\ NoLink \in Links
BY DEF Pull, NoPull, NoWire, NoLink, Pulls, Wire, Sent, Links, Mode
-----------------------------------------------------------------------------
(* What the operators of the model make of their arguments. *)

LEMMA ShownIsSent ==
  ASSUME NEW h \in Hosts
  PROVE  Shown(h) \in Sent
BY DEF Shown, Hosts, Authority, Sent, Wire

LEMMA ContentIsWire ==
  ASSUME NEW w \in Wire
  PROVE  /\ Content(w) \in Wire
         /\ Content(w).epoch = w.epoch /\ Content(w).mode = w.mode /\ Content(w).body = w.body
BY DEF Content, Wire

LEMMA SameContent ==
  ASSUME NEW v \in Wire, NEW w \in Wire
  PROVE  Content(v) = Content(w) <=> v.epoch = w.epoch /\ v.mode = w.mode /\ v.body = w.body
<1>1. /\ v = [epoch |-> v.epoch, mode |-> v.mode, rev |-> v.rev, body |-> v.body]
      /\ w = [epoch |-> w.epoch, mode |-> w.mode, rev |-> w.rev, body |-> w.body]
  BY DEF Wire
<1>2. /\ Content(v) = [epoch |-> v.epoch, mode |-> v.mode, rev |-> -1, body |-> v.body]
      /\ Content(w) = [epoch |-> w.epoch, mode |-> w.mode, rev |-> -1, body |-> w.body]
  BY <1>1 DEF Content
<1> QED BY <1>2

\* What is written is what the Host serves, unless that was written last.
LEMMA Written ==
  ASSUME NEW l \in Links, NEW h \in Hosts
  PROVE  /\ WriteFrame(l, h) \in Links
         /\ WriteFrame(l, h).open = l.open
         /\ l.open => WriteFrame(l, h).last = Content(Shown(h))
         /\ \/ WriteFrame(l, h) = l
            \/ l.open /\ WriteFrame(l, h).pipe = Append(l.pipe, Shown(h))
<1>1. Shown(h) \in Sent /\ Content(Shown(h)) \in Wire
  BY ShownIsSent, ContentIsWire DEF Sent
<1>2. CASE ~ l.open \/ Content(Shown(h)) = l.last
  BY <1>2 DEF WriteFrame
<1>3. CASE ~ (~ l.open \/ Content(Shown(h)) = l.last)
  <2>1. WriteFrame(l, h) = [open |-> l.open, last |-> Content(Shown(h)),
                              pipe |-> Append(l.pipe, Shown(h))]
    BY <1>3 DEF WriteFrame, Links
  <2>2. Append(l.pipe, Shown(h)) \in Seq(Sent)
    BY <1>1, AppendProperties DEF Links
  <2>3. WriteFrame(l, h) \in Links
    BY <1>1, <2>1, <2>2 DEF Links
  <2>4. l.open
    BY <1>3 DEF Links
  <2>5. WriteFrame(l, h).open = l.open /\ WriteFrame(l, h).last = Content(Shown(h))
    BY <2>1, <2>4
  <2>6. l.open /\ WriteFrame(l, h).pipe = Append(l.pipe, Shown(h))
    BY <2>1, <2>4
  <2> QED BY <2>3, <2>5, <2>6
<1> QED BY <1>2, <1>3

(* How authorities move on: with a new revision, or under a new epoch. *)

MovesOn(a, b) == b.epoch = a.epoch /\ b.rev > a.rev /\ b.body >= a.body

Moves(h, g) ==
  /\ g.epoch >= h.epoch
  /\ \A m \in Mode : \/ g.auth[m] = h.auth[m]
                     \/ MovesOn(h.auth[m], g.auth[m])
                     \/ g.auth[m].epoch > h.epoch

LEMMA BumpedMoves ==
  ASSUME NEW h \in Hosts, NEW m \in Mode, NEW new \in BOOLEAN
  PROVE  /\ Bumped(h, m, new) \in Hosts /\ Moves(h, Bumped(h, m, new))
         /\ Bumped(h, m, new).up = h.up /\ Bumped(h, m, new).books = h.books
<1> DEFINE a == [epoch |-> h.auth[m].epoch, rev |-> h.auth[m].rev + 1,
                 body |-> h.auth[m].body + IF new THEN 1 ELSE 0]
           f == [h.auth EXCEPT ![m] = a]
           g == Bumped(h, m, new)
<1>1. h.auth \in [Mode -> Authority] /\ h.auth[m] \in Authority /\ a \in Authority
  BY DEF Hosts, Authority
<1>2. f \in [Mode -> Authority]
  BY <1>1
<1>3. g = [h EXCEPT !.auth = f]
  <2>1. h = [up |-> h.up, ready |-> h.ready, mode |-> h.mode, to |-> h.to, epoch |-> h.epoch,
             auth |-> h.auth, books |-> h.books]
    BY DEF Hosts
  <2>2. [[h.auth EXCEPT ![m].rev = @ + 1] EXCEPT ![m].body = IF new THEN @ + 1 ELSE @] = f
    BY <1>1 DEF Authority
  <2> QED BY <1>1, <2>1, <2>2 DEF Bumped, Hosts, Authority
<1>4. \A n \in Mode : f[n] = IF n = m THEN a ELSE h.auth[n]
  BY <1>1
<1>5. g = [up |-> h.up, ready |-> h.ready, mode |-> h.mode, to |-> h.to, epoch |-> h.epoch,
           auth |-> f, books |-> h.books]
  BY <1>3 DEF Hosts
<1>6. a.epoch = h.auth[m].epoch /\ (a = h.auth[m] \/ MovesOn(h.auth[m], a))
  BY <1>1 DEF Authority, MovesOn
<1>7. \A n \in Mode : f[n].epoch <= h.epoch
  BY <1>4, <1>6 DEF Hosts
<1> HIDE DEF f, a, g
<1>8. g \in Hosts
  BY <1>2, <1>5, <1>7 DEF Hosts
<1>9. Moves(h, g)
  <2>1. h.epoch \in Nat
    BY DEF Hosts
  <2> QED BY <1>4, <1>5, <1>6, <2>1 DEF Moves
<1> QED BY <1>5, <1>8, <1>9 DEF g

LEMMA SwitchedMoves ==
  ASSUME NEW h \in Hosts
  PROVE  /\ Switched(h) \in Hosts /\ Moves(h, Switched(h))
         /\ Switched(h).up = h.up /\ Switched(h).books = h.books
<1>1. h = [up |-> h.up, ready |-> h.ready, mode |-> h.mode, to |-> h.to, epoch |-> h.epoch,
           auth |-> h.auth, books |-> h.books] /\ h.auth \in [Mode -> Authority] /\ h.epoch \in Nat
  BY DEF Hosts
<1>2. CASE h.to = "local"
  <2>1. Switched(h) = [h EXCEPT !.mode = "local", !.to = "none"]
    BY <1>2 DEF Switched
  <2>2. Switched(h) = [up |-> h.up, ready |-> h.ready, mode |-> "local", to |-> "none",
                       epoch |-> h.epoch, auth |-> h.auth, books |-> h.books]
    BY <1>1, <2>1
  <2>3. Switched(h) \in Hosts
    BY <2>2 DEF Hosts, Mode
  <2> QED BY <1>1, <2>2, <2>3 DEF Moves
<1>3. CASE h.to # "local"
  <2> DEFINE f == [h.auth EXCEPT !["online"] = Fresh(h.epoch + 1)]
  <2>1. Switched(h) = [up |-> h.up, ready |-> h.ready, mode |-> "online", to |-> "none",
                       epoch |-> h.epoch + 1, auth |-> f, books |-> h.books]
    BY <1>1, <1>3 DEF Switched
  <2>2. Fresh(h.epoch + 1) \in Authority /\ Fresh(h.epoch + 1).epoch = h.epoch + 1
    BY <1>1 DEF Fresh, Authority
  <2>3. f \in [Mode -> Authority]
    BY <1>1, <2>2
  <2>4. \A m \in Mode : f[m] = IF m = "online" THEN Fresh(h.epoch + 1) ELSE h.auth[m]
    BY <1>1
  <2>5. \A m \in Mode : f[m].epoch <= h.epoch + 1
    BY <1>1, <2>2, <2>4 DEF Hosts, Authority
  <2> HIDE DEF f
  <2>6. Switched(h) \in Hosts
    BY <2>1, <2>3, <2>5, <1>1 DEF Hosts, Mode
  <2>7. Moves(h, Switched(h))
    BY <1>1, <2>1, <2>2, <2>4 DEF Moves
  <2> QED BY <2>1, <2>6, <2>7
<1> QED BY <1>2, <1>3

\* A state applied to the tab: shown, unless the tab has shown a later one of its authority.
LEMMA Applied ==
  ASSUME NEW t \in Tabs, NEW w \in Sent
  PROVE  /\ Apply(t, w) \in Tabs
         /\ Apply(t, w).stream = t.stream /\ Apply(t, w).late = t.late
         /\ Apply(t, w).press = t.press /\ Apply(t, w).presses = t.presses
         /\ Apply(t, w).case = t.case
         /\ \/ /\ Apply(t, w).view = w
               /\ t.view \in Sent /\ t.view.epoch = w.epoch /\ t.view.mode = w.mode
                    => t.view.rev < w.rev
            \/ /\ Apply(t, w).view = t.view /\ t.view \in Sent
               /\ t.view.epoch = w.epoch /\ t.view.mode = w.mode /\ w.rev <= t.view.rev
<1> DEFINE other == w.epoch # t.epoch \/ (t.view # NoWire /\ w.mode # t.view.mode)
           seen  == IF other THEN -1 ELSE t.rev
           a     == Apply(t, w)
<1>1. /\ t \in [conn : {"connecting", "live", "offline"}, view : Wire, rev : Int, epoch : Int,
                stream : {"none", "opening", "open", "refused"}, errors : Nat,
                starting : BOOLEAN, timer : BOOLEAN, gone : BOOLEAN, late : BOOLEAN,
                press : {"idle", "first", "resting", "second"}, presses : Nat,
                case : Mode \cup {"none"}]
      /\ t.errors <= MaxErrors - 1 /\ Cursors(t)
      /\ w \in Wire /\ w.epoch > 0 /\ w.epoch \in Nat /\ w.rev >= 0 /\ w.rev \in Int
  BY DEF Tabs, Sent, Wire
<1>2. a = [conn |-> "live", view |-> IF w.rev > seen THEN w ELSE t.view,
           rev |-> IF w.rev > seen THEN w.rev ELSE seen, epoch |-> w.epoch,
           stream |-> t.stream, errors |-> t.errors, starting |-> t.starting, timer |-> t.timer,
           gone |-> t.gone, late |-> t.late, press |-> t.press, presses |-> t.presses,
           case |-> t.case]
  <2>1. t = [conn |-> t.conn, view |-> t.view, rev |-> t.rev, epoch |-> t.epoch,
             stream |-> t.stream, errors |-> t.errors, starting |-> t.starting,
             timer |-> t.timer, gone |-> t.gone, late |-> t.late, press |-> t.press,
             presses |-> t.presses, case |-> t.case]
    BY <1>1
  <2>2. a = [t EXCEPT !.epoch = w.epoch, !.conn = "live",
                !.rev  = IF w.rev > seen THEN w.rev ELSE seen,
                !.view = IF w.rev > seen THEN w ELSE t.view]
    BY <2>1 DEF Apply
  <2> HIDE DEF seen, a
  <2> QED BY <2>1, <2>2
<1>3. CASE w.rev > seen
  <2>1. a.view = w /\ a.rev = w.rev /\ a.epoch = w.epoch
    BY <1>2, <1>3
  <2>2. Cursors(a)
    BY <2>1 DEF Cursors
  <2> HIDE DEF seen
  <2>3. a \in Tabs
    BY <1>1, <1>2, <1>3, <2>2 DEF Tabs
  <2>4. t.view \in Sent /\ t.view.epoch = w.epoch /\ t.view.mode = w.mode => t.view.rev < w.rev
    <3>1. t.view \in Sent => t.view # NoWire /\ t.rev = t.view.rev /\ t.epoch = t.view.epoch
      BY <1>1, Kinds DEF Cursors
    <3> QED BY <1>3, <3>1 DEF seen
  <2> QED BY <1>2, <2>1, <2>3, <2>4
<1>4. CASE ~ (w.rev > seen)
  <2>1. ~ other /\ seen = t.rev /\ w.rev <= t.rev
    BY <1>1, <1>4 DEF Cursors, Tabs
  <2>2. t.view \in Sent /\ t.view.epoch = w.epoch /\ t.view.mode = w.mode /\ t.rev = t.view.rev
    BY <1>1, <2>1 DEF Cursors, NoWire, Sent
  <2>3. a.view = t.view /\ a.rev = t.rev /\ a.epoch = w.epoch
    BY <1>2, <1>4, <2>1
  <2>4. Cursors(a)
    BY <2>2, <2>3, <2>1, <1>1 DEF Cursors
  <2> HIDE DEF seen, other
  <2>5. a \in Tabs
    BY <1>1, <1>2, <1>4, <2>1, <2>4 DEF Tabs
  <2> QED BY <1>2, <2>1, <2>2, <2>3, <2>5
<1> QED BY <1>3, <1>4

LEMMA OfTypes ==
  ASSUME Types
  PROVE  /\ host \in Hosts /\ link \in Links /\ tab \in Tabs /\ calls \subseteq Calls
         /\ \A k \in Pull : pulls[k] \in Pulls
BY DEF Types
-----------------------------------------------------------------------------
(* What a step may do to each variable. *)

\* The Host: its authorities move on, and its process does not fail to be one.
HostMoves == host' \in Hosts /\ Moves(host, host')

LEMMA Stays ==
  ASSUME NEW h \in Hosts
  PROVE  Moves(h, h)
BY DEF Moves, Hosts

LEMMA HostFields ==
  ASSUME NEW h \in Hosts
  PROVE  h = [up |-> h.up, ready |-> h.ready, mode |-> h.mode, to |-> h.to, epoch |-> h.epoch,
              auth |-> h.auth, books |-> h.books]
BY DEF Hosts

LEMMA SameAuthorities ==
  ASSUME NEW h \in Hosts, NEW g \in Hosts, g.auth = h.auth, g.epoch = h.epoch
  PROVE  Moves(h, g)
BY DEF Moves, Hosts

LEMMA SpentIsHost ==
  ASSUME NEW h \in Hosts, NEW c \in Calls, c.by \in Mode
  PROVE  /\ Spent(h, c) \in Hosts /\ Moves(h, Spent(h, c)) /\ Shown(Spent(h, c)) = Shown(h)
         /\ Spent(h, c).up = h.up
         /\ \A m \in Mode : Spent(h, c).books[m] =
              IF m = c.by THEN h.books[m] \cup {[id |-> c.id, press |-> c.press]} ELSE h.books[m]
<1> DEFINE b == [h.books EXCEPT ![c.by] = h.books[c.by] \cup {[id |-> c.id, press |-> c.press]}]
<1>1. h.books \in [Mode -> SUBSET [id : Nat, press : Nat]] /\ c.id \in Nat /\ c.press \in Nat
  BY DEF Hosts, Calls
<1>2. b \in [Mode -> SUBSET [id : Nat, press : Nat]]
  BY <1>1
<1>3. \A m \in Mode : b[m] = IF m = c.by THEN h.books[m] \cup {[id |-> c.id, press |-> c.press]}
                             ELSE h.books[m]
  BY <1>1
<1>4. Spent(h, c) = [up |-> h.up, ready |-> h.ready, mode |-> h.mode, to |-> h.to,
                     epoch |-> h.epoch, auth |-> h.auth, books |-> b]
  BY HostFields DEF Spent
<1> HIDE DEF b
<1>5. Spent(h, c) \in Hosts
  BY <1>2, <1>4 DEF Hosts
<1>6. Moves(h, Spent(h, c))
  BY <1>4, <1>5, SameAuthorities
<1> QED BY <1>3, <1>4, <1>5, <1>6 DEF Shown

LEMMA HostStep ==
  ASSUME Types, [Next]_vars
  PROVE  HostMoves
<1> USE OfTypes

<1>1. CASE Start
  <2> DEFINE f == [m \in Mode |-> Fresh(host.epoch + 1)]
  <2>1. host' = [up |-> TRUE, ready |-> host.ready, mode |-> host.mode, to |-> host.to,
                 epoch |-> host.epoch + 1, auth |-> f, books |-> host.books]
    <3>1. host' = [host EXCEPT !.up = TRUE, !.epoch = host.epoch + 1, !.auth = f]
      BY <1>1 DEF Start
    <3>2. host = [up |-> host.up, ready |-> host.ready, mode |-> host.mode, to |-> host.to,
                  epoch |-> host.epoch, auth |-> host.auth, books |-> host.books]
      BY HostFields
    <3> HIDE DEF f
    <3> QED BY <3>1, <3>2
  <2>2. host.epoch \in Nat
    BY DEF Hosts
  <2>3. Fresh(host.epoch + 1) \in Authority /\ Fresh(host.epoch + 1).epoch = host.epoch + 1
    BY <2>2 DEF Fresh, Authority
  <2>4. f \in [Mode -> Authority] /\ \A m \in Mode : f[m].epoch = host.epoch + 1
    BY <2>3
  <2> HIDE DEF f
  <2>5. host' \in Hosts
    BY <2>1, <2>2, <2>4 DEF Hosts
  <2> QED BY <2>1, <2>2, <2>4, <2>5 DEF HostMoves, Moves
<1>2. CASE Ready
  <2>1. host' = [host EXCEPT !.ready = TRUE] /\ host.up
    BY <1>2 DEF Ready, Emits
  <2>2. host' \in Hosts /\ host'.auth = host.auth /\ host'.epoch = host.epoch
    BY <2>1 DEF Hosts
  <2> QED BY <2>2, SameAuthorities DEF HostMoves
<1>3. CASE Stop
  <2>1. host' = [host EXCEPT !.up = FALSE, !.ready = FALSE, !.to = "none"]
    BY <1>3 DEF Stop
  <2>2. host' \in Hosts /\ host'.auth = host.auth /\ host'.epoch = host.epoch
    BY <2>1 DEF Hosts
  <2> QED BY <2>2, SameAuthorities DEF HostMoves
<1>4. CASE Bump
  <2>1. PICK new \in BOOLEAN : host' = Bumped(host, host.mode, new)
    BY <1>4 DEF Bump, Emits
  <2>2. host.mode \in Mode
    BY DEF Hosts
  <2> QED BY <2>1, <2>2, BumpedMoves DEF HostMoves
<1>5. CASE BeginSwitch
  <2>1. PICK m \in Mode \cup {"none"} : host' = [host EXCEPT !.to = m]
    <3>1. "mode" \in Pull /\ pulls["mode"].to \in Mode \cup {"none"}
      BY Kinds DEF Pulls
    <3> QED BY <1>5, <3>1 DEF BeginSwitch
  <2>2. host' \in Hosts /\ host'.auth = host.auth /\ host'.epoch = host.epoch
    BY <2>1 DEF Hosts
  <2> QED BY <2>2, SameAuthorities DEF HostMoves
<1>6. CASE FinishSwitch
  <2>1. host' = Switched(host)
    BY <1>6 DEF FinishSwitch, Emits
  <2> QED BY <2>1, SwitchedMoves DEF HostMoves
<1>7. CASE FailSwitch
  <2>1. host' = [host EXCEPT !.to = "none"]
    BY <1>7 DEF FailSwitch
  <2>2. host' \in Hosts /\ host'.auth = host.auth /\ host'.epoch = host.epoch
    BY <2>1 DEF Hosts
  <2> QED BY <2>2, SameAuthorities DEF HostMoves
<1>8. CASE Break
  BY <1>8, Stays DEF Break, HostMoves, vars
<1>9. CASE StreamOpens
  BY <1>9, Stays DEF StreamOpens, HostMoves, vars
<1>10. CASE StreamFails
  BY <1>10, Stays DEF StreamFails, HostMoves, vars
<1>11. CASE StreamRefused
  BY <1>11, Stays DEF StreamRefused, HostMoves, vars
<1>12. CASE StreamBreaks
  BY <1>12, Stays DEF StreamBreaks, HostMoves, vars
<1>13. CASE Frame
  BY <1>13, Stays DEF Frame, HostMoves, vars
<1>14. CASE Reconnect
  BY <1>14, Stays DEF Reconnect, HostMoves, vars
<1>15. CASE AskMode
  BY <1>15, Stays DEF AskMode, HostMoves, vars
<1>16. ASSUME NEW k \in Asks, Ask(k) PROVE HostMoves
  BY <1>16, Stays DEF Ask, HostMoves, vars
<1>17. ASSUME NEW k \in Pull, Answer(k) PROVE HostMoves
  BY <1>17, Stays DEF Answer, HostMoves, vars
<1>18. ASSUME NEW k \in Pull, Lose(k) PROVE HostMoves
  BY <1>18, Stays DEF Lose, HostMoves, vars
<1>19. ASSUME NEW k \in Pull, Arrive(k) PROVE HostMoves
  BY <1>19, Stays DEF Arrive, HostMoves
<1>20. CASE Press
  BY <1>20, Stays DEF Press, HostMoves, vars
<1>21. CASE Retry
  BY <1>21, Stays DEF Retry, HostMoves, vars
<1>22. CASE GiveUp
  BY <1>22, Stays DEF GiveUp, HostMoves, vars
<1>23. CASE Dispose
  BY <1>23, Stays DEF Dispose, HostMoves, vars
<1>24. ASSUME NEW c \in calls, Receive(c) PROVE HostMoves
  BY <1>24, Stays DEF Receive, HostMoves, vars
<1>25. ASSUME NEW c \in calls, Begin(c) PROVE HostMoves
  BY <1>25, Stays DEF Begin, HostMoves, vars
<1>26. ASSUME NEW c \in calls, Decide(c) PROVE HostMoves
  <2>1. CASE host' = host
    BY <2>1, Stays DEF HostMoves
  <2>2. CASE host' = Bumped(Spent(host, c), c.by, TRUE)
    <3>1. c \in Calls /\ c.by \in Mode
      BY <1>26 DEF Decide, Calls
    <3>2. Spent(host, c) \in Hosts /\ Moves(host, Spent(host, c))
      BY <3>1, SpentIsHost
    <3>3. host' \in Hosts /\ Moves(Spent(host, c), host')
      BY <2>2, <3>1, <3>2, BumpedMoves
    <3>4. Spent(host, c).auth = host.auth /\ Spent(host, c).epoch = host.epoch
      BY HostFields DEF Spent
    <3> QED BY <3>3, <3>4 DEF HostMoves, Moves
  <2> QED BY <1>26, <2>1, <2>2 DEF Decide, Decided, Emits
<1>27. ASSUME NEW c \in calls, Limit(c) PROVE HostMoves
  BY <1>27, Stays DEF Limit, HostMoves, vars
<1>28. ASSUME NEW c \in calls, CannotHear(c) PROVE HostMoves
  <2>1. c \in Calls /\ c.by \in Mode
    BY <1>28 DEF CannotHear, Calls
  <2>2. host' = host \/ host' = Spent(host, c)
    BY <1>28 DEF CannotHear
  <2> QED BY <2>1, <2>2, SpentIsHost, Stays DEF HostMoves
<1>29. ASSUME NEW c \in calls, Return(c) PROVE HostMoves
  BY <1>29, Stays DEF Return, HostMoves, vars
<1>30. CASE UNCHANGED vars
  BY <1>30, Stays DEF vars, HostMoves, vars
<1> QED BY <1>1, <1>2, <1>3, <1>4, <1>5, <1>6, <1>7, <1>8, <1>9, <1>10, <1>11, <1>12, <1>13, <1>14, <1>15, <1>16, <1>17, <1>18, <1>19, <1>20, <1>21, <1>22, <1>23, <1>24, <1>25, <1>26, <1>27, <1>28, <1>29, <1>30 DEF Next

\* The tab's requests: what one brings is what the Host serves as it is answered.
PullsMove ==
  /\ pulls' \in [Pull -> Pulls]
  /\ \A k \in Pull : pulls'[k].wire \in {pulls[k].wire, NoWire, Shown(host')}

LEMMA PullAt ==
  ASSUME NEW p \in Pulls, NEW at \in {"sent", "held", "failed"}
  PROVE  [p EXCEPT !.at = at] \in Pulls /\ [p EXCEPT !.at = at].wire = p.wire
BY DEF Pulls

LEMMA NewPull ==
  ASSUME NEW at \in {"sent", "failed"}
  PROVE  [NoPull EXCEPT !.at = at] \in Pulls /\ [NoPull EXCEPT !.at = at].wire = NoWire
BY Kinds DEF Pulls, NoPull

LEMMA AnsweredPull ==
  ASSUME NEW p \in Pulls, NEW h \in Hosts, NEW at \in {"answered", "failed"}
  PROVE  /\ [at |-> at, to |-> p.to, wire |-> Shown(h)] \in Pulls
         /\ [NoPull EXCEPT !.at = "answered", !.wire = Shown(h)] \in Pulls
         /\ [NoPull EXCEPT !.at = "answered", !.wire = Shown(h)].wire = Shown(h)
BY ShownIsSent, Kinds DEF Pulls, NoPull, Sent

LEMMA BootstrapPulls ==
  ASSUME pulls \in [Pull -> Pulls], NEW t, Bootstrap(t)
  PROVE  PullsMove
<1>1. CASE t.starting
  BY <1>1 DEF Bootstrap, PullsMove
<1>2. CASE ~ t.starting
  <2>1. pulls' = [pulls EXCEPT !["state"] = [NoPull EXCEPT !.at = "sent"]]
    BY <1>2 DEF Bootstrap
  <2> QED BY <2>1, NewPull, Kinds DEF PullsMove
<1> QED BY <1>1, <1>2

LEMMA PullStep ==
  ASSUME Types, [Next]_vars
  PROVE  PullsMove
<1> USE OfTypes
<1>h. host' \in Hosts
  BY HostStep DEF HostMoves
<1>p. pulls \in [Pull -> Pulls]
  BY DEF Types

<1>1. CASE Start
  BY <1>p, <1>1 DEF Start, PullsMove, vars
<1>2. CASE Ready
  BY <1>p, <1>2 DEF Ready, PullsMove, vars
<1>3. CASE Stop
  <2>1. pulls' = [k \in Pull |-> IF pulls[k].at = "held" THEN [NoPull EXCEPT !.at = "failed"] ELSE pulls[k]]
    BY <1>3 DEF Stop
  <2> QED BY <1>p, <2>1, NewPull DEF PullsMove
<1>4. CASE Bump
  BY <1>p, <1>4 DEF Bump, PullsMove, vars
<1>5. CASE BeginSwitch
  <2>1. \/ pulls' = pulls
        \/ pulls' = [pulls EXCEPT !["mode"] = [pulls["mode"] EXCEPT !.at = "held"]]
    BY <1>5 DEF BeginSwitch
  <2>2. [pulls["mode"] EXCEPT !.at = "held"] \in Pulls
        /\ [pulls["mode"] EXCEPT !.at = "held"].wire = pulls["mode"].wire
    BY <1>p, Kinds, PullAt
  <2> QED BY <1>p, <2>1, <2>2, Kinds DEF PullsMove
<1>6. CASE FinishSwitch
  <2>1. \/ pulls' = pulls
        \/ pulls' = [pulls EXCEPT !["mode"] = [at |-> "answered", to |-> pulls["mode"].to,
                                              wire |-> Shown(host')]]
    BY <1>6 DEF FinishSwitch, Emits, AnswersMode
  <2>2. [at |-> "answered", to |-> pulls["mode"].to, wire |-> Shown(host')] \in Pulls
    BY <1>h, <1>p, Kinds, AnsweredPull
  <2> QED BY <1>p, <2>1, <2>2, Kinds DEF PullsMove
<1>7. CASE FailSwitch
  <2>1. \/ pulls' = pulls
        \/ pulls' = [pulls EXCEPT !["mode"] = [at |-> "failed", to |-> pulls["mode"].to,
                                              wire |-> Shown(host)]]
    BY <1>7 DEF FailSwitch, AnswersMode
  <2>2. [at |-> "failed", to |-> pulls["mode"].to, wire |-> Shown(host)] \in Pulls
    BY <1>p, Kinds, AnsweredPull
  <2>3. Shown(host') = Shown(host)
    <3>1. host' = [host EXCEPT !.to = "none"]
      BY <1>7 DEF FailSwitch
    <3> QED BY <3>1 DEF Shown, Hosts
  <2> QED BY <1>p, <2>1, <2>2, <2>3, Kinds DEF PullsMove
<1>8. CASE Break
  BY <1>p, <1>8 DEF Break, PullsMove, vars
<1>9. CASE StreamOpens
  BY <1>p, <1>9 DEF StreamOpens, PullsMove, vars
<1>10. CASE StreamFails
  BY <1>p, <1>10 DEF StreamFails, PullsMove, vars
<1>11. CASE StreamRefused
  BY <1>p, <1>11 DEF StreamRefused, PullsMove, vars
<1>12. CASE StreamBreaks
  BY <1>p, <1>12 DEF StreamBreaks, PullsMove, vars
<1>13. CASE Frame
  BY <1>p, <1>13 DEF Frame, PullsMove, vars
<1>14. CASE Reconnect
  BY <1>p, <1>14, BootstrapPulls DEF Reconnect
<1>15. CASE AskMode
  <2> DEFINE q == [NoPull EXCEPT !.at = "sent",
                     !.to = IF tab.view.mode = "local" THEN "online" ELSE "local"]
  <2>1. q \in Pulls /\ q.wire = NoWire
    BY Kinds DEF Pulls, NoPull, Mode
  <2>2. pulls' = [pulls EXCEPT !["mode"] = q]
    BY <1>15 DEF AskMode
  <2> HIDE DEF q
  <2> QED BY <1>p, <2>1, <2>2, Kinds DEF PullsMove
<1>16. ASSUME NEW k \in Asks, Ask(k) PROVE PullsMove
  <2>1. k \in Pull
    BY DEF Pull
  <2>2. CASE tab.conn = "offline"
    BY <1>p, <1>16, <2>2, BootstrapPulls DEF Ask
  <2>3. CASE tab.conn # "offline"
    <3>1. pulls[k] = NoPull /\ pulls' = [pulls EXCEPT ![k] = [pulls[k] EXCEPT !.at = "sent"]]
      BY <1>16, <2>3 DEF Ask
    <3>2. [pulls[k] EXCEPT !.at = "sent"] \in Pulls /\ [pulls[k] EXCEPT !.at = "sent"].wire = pulls[k].wire
      BY <1>p, <2>1, PullAt
    <3> QED BY <1>p, <2>1, <3>1, <3>2 DEF PullsMove
  <2> QED BY <2>2, <2>3
<1>17. ASSUME NEW k \in Pull, Answer(k) PROVE PullsMove
  <2>1. host' = host
    BY <1>17 DEF Answer
  <2>2. \/ pulls' = [pulls EXCEPT ![k] = [pulls[k] EXCEPT !.at = "failed"]]
        \/ pulls' = [pulls EXCEPT ![k] = [NoPull EXCEPT !.at = "answered", !.wire = Shown(host)]]
    BY <1>17 DEF Answer
  <2>3. [pulls[k] EXCEPT !.at = "failed"] \in Pulls /\ [pulls[k] EXCEPT !.at = "failed"].wire = pulls[k].wire
    BY <1>p, PullAt
  <2>4. /\ [NoPull EXCEPT !.at = "answered", !.wire = Shown(host)] \in Pulls
        /\ [NoPull EXCEPT !.at = "answered", !.wire = Shown(host)].wire = Shown(host)
    BY <1>p, AnsweredPull
  <2> QED BY <1>p, <2>1, <2>2, <2>3, <2>4 DEF PullsMove
<1>18. ASSUME NEW k \in Pull, Lose(k) PROVE PullsMove
  <2>1. pulls' = [pulls EXCEPT ![k] = [NoPull EXCEPT !.at = "failed"]]
    BY <1>18 DEF Lose
  <2> QED BY <1>p, <2>1, NewPull DEF PullsMove
<1>19. ASSUME NEW k \in Pull, Arrive(k) PROVE PullsMove
  <2>1. pulls' = [pulls EXCEPT ![k] = NoPull]
    BY <1>19 DEF Arrive
  <2>2. NoPull.wire = NoWire
    BY DEF NoPull
  <2> QED BY <1>p, <2>1, <2>2, Kinds DEF PullsMove
<1>20. CASE Press
  BY <1>p, <1>20 DEF Press, PullsMove, vars
<1>21. CASE Retry
  BY <1>p, <1>21 DEF Retry, PullsMove, vars
<1>22. CASE GiveUp
  BY <1>p, <1>22 DEF GiveUp, PullsMove, vars
<1>23. CASE Dispose
  <2>1. pulls' = [k \in Pull |-> NoPull]
    BY <1>23 DEF Dispose
  <2>2. NoPull.wire = NoWire
    BY DEF NoPull
  <2> QED BY <2>1, <2>2, Kinds DEF PullsMove
<1>24. ASSUME NEW c \in calls, Receive(c) PROVE PullsMove
  BY <1>p, <1>24 DEF Receive, PullsMove, vars
<1>25. ASSUME NEW c \in calls, Begin(c) PROVE PullsMove
  BY <1>p, <1>25 DEF Begin, PullsMove, vars
<1>26. ASSUME NEW c \in calls, Decide(c) PROVE PullsMove
  BY <1>p, <1>26 DEF Decide, PullsMove, vars
<1>27. ASSUME NEW c \in calls, Limit(c) PROVE PullsMove
  BY <1>p, <1>27 DEF Limit, PullsMove, vars
<1>28. ASSUME NEW c \in calls, CannotHear(c) PROVE PullsMove
  BY <1>p, <1>28 DEF CannotHear, PullsMove, vars
<1>29. ASSUME NEW c \in calls, Return(c) PROVE PullsMove
  BY <1>p, <1>29 DEF Return, PullsMove, vars
<1>30. CASE UNCHANGED vars
  BY <1>p, <1>30 DEF vars, PullsMove, vars
<1> QED BY <1>1, <1>2, <1>3, <1>4, <1>5, <1>6, <1>7, <1>8, <1>9, <1>10, <1>11, <1>12, <1>13, <1>14, <1>15, <1>16, <1>17, <1>18, <1>19, <1>20, <1>21, <1>22, <1>23, <1>24, <1>25, <1>26, <1>27, <1>28, <1>29, <1>30 DEF Next

\* The votes on their way.
CallsMove ==
  /\ calls' \subseteq Calls
  /\ \A c \in calls' : \/ c.wire \in {NoWire, Shown(host')}
                       \/ \E d \in calls : c.wire = d.wire

LEMMA CallAt ==
  ASSUME NEW c \in Calls, NEW at \in {"failed", "limited"}
  PROVE  [c EXCEPT !.at = at] \in Calls /\ [c EXCEPT !.at = at].wire = c.wire
BY DEF Calls

LEMMA CallReplaced ==
  ASSUME calls \subseteq Calls, NEW c \in calls, NEW d \in Calls, Replace(c, d),
         d.wire \in {c.wire, Shown(host')}
  PROVE  CallsMove
BY DEF Replace, CallsMove

LEMMA NewCall ==
  ASSUME NEW t \in Tabs, NEW n \in {1, 2}
  PROVE  VoteCall(t, n) \in Calls /\ VoteCall(t, n).wire = NoWire
BY Kinds DEF VoteCall, Calls, Tabs

LEMMA CallStep ==
  ASSUME Types, [Next]_vars
  PROVE  CallsMove
<1> USE OfTypes
<1>h. host' \in Hosts /\ Shown(host') \in Sent
  BY HostStep, ShownIsSent DEF HostMoves

<1>1. CASE Start
  BY <1>1 DEF Start, CallsMove, vars
<1>2. CASE Ready
  BY <1>2 DEF Ready, CallsMove, vars
<1>3. CASE Stop
  <2>1. calls' = {IF c.at \in {"queued", "running"} THEN [c EXCEPT !.at = "failed"] ELSE c : c \in calls}
    BY <1>3 DEF Stop
  <2>2. \A c \in calls : [c EXCEPT !.at = "failed"] \in Calls /\ [c EXCEPT !.at = "failed"].wire = c.wire
    BY CallAt
  <2> QED BY <2>1, <2>2 DEF CallsMove
<1>4. CASE Bump
  BY <1>4 DEF Bump, CallsMove, vars
<1>5. CASE BeginSwitch
  BY <1>5 DEF BeginSwitch, CallsMove, vars
<1>6. CASE FinishSwitch
  BY <1>6 DEF FinishSwitch, CallsMove, vars
<1>7. CASE FailSwitch
  BY <1>7 DEF FailSwitch, CallsMove, vars
<1>8. CASE Break
  BY <1>8 DEF Break, CallsMove, vars
<1>9. CASE StreamOpens
  BY <1>9 DEF StreamOpens, CallsMove, vars
<1>10. CASE StreamFails
  BY <1>10 DEF StreamFails, CallsMove, vars
<1>11. CASE StreamRefused
  BY <1>11 DEF StreamRefused, CallsMove, vars
<1>12. CASE StreamBreaks
  BY <1>12 DEF StreamBreaks, CallsMove, vars
<1>13. CASE Frame
  BY <1>13 DEF Frame, CallsMove, vars
<1>14. CASE Reconnect
  BY <1>14 DEF Reconnect, CallsMove, vars
<1>15. CASE AskMode
  BY <1>15 DEF AskMode, CallsMove, vars
<1>16. ASSUME NEW k \in Asks, Ask(k) PROVE CallsMove
  BY <1>16 DEF Ask, CallsMove, vars
<1>17. ASSUME NEW k \in Pull, Answer(k) PROVE CallsMove
  BY <1>17 DEF Answer, CallsMove, vars
<1>18. ASSUME NEW k \in Pull, Lose(k) PROVE CallsMove
  BY <1>18 DEF Lose, CallsMove, vars
<1>19. ASSUME NEW k \in Pull, Arrive(k) PROVE CallsMove
  BY <1>19 DEF Arrive, CallsMove, vars
<1>20. CASE Press
  <2>1. PICK t \in {[tab EXCEPT !.press = "first", !.presses = @ + 1, !.case = tab.view.mode]} :
          calls' = calls \cup {VoteCall(t, 1)}
    BY <1>20 DEF Press
  <2>2. VoteCall(t, 1) \in Calls /\ VoteCall(t, 1).wire = NoWire
    <3>1. tab.view.mode \in Mode \cup {"none"} /\ tab.presses + 1 \in Nat
      BY DEF Tabs, Wire
    <3>2. t.presses = tab.presses + 1 /\ t.case = tab.view.mode
      BY DEF Tabs
    <3> QED BY <3>1, <3>2, Kinds DEF VoteCall, Calls
  <2> QED BY <2>1, <2>2 DEF CallsMove
<1>21. CASE Retry
  <2>1. calls' = calls \cup {VoteCall(tab, 2)}
    BY <1>21 DEF Retry
  <2> QED BY <2>1, NewCall DEF CallsMove
<1>22. CASE GiveUp
  BY <1>22 DEF GiveUp, CallsMove, vars
<1>23. CASE Dispose
  BY <1>23 DEF Dispose, CallsMove, vars
<1>24. ASSUME NEW c \in calls, Receive(c) PROVE CallsMove
  <2> DEFINE d == IF ~ host.up \/ ~ host.ready \/ host.to # "none" THEN [c EXCEPT !.at = "failed"]
                  ELSE [c EXCEPT !.at = "queued", !.by = host.mode, !.epoch = Shown(host).epoch]
  <2>1. d \in Calls /\ d.wire = c.wire
    <3>1. host.mode \in Mode /\ Shown(host).epoch \in Nat
      BY ShownIsSent DEF Hosts, Sent, Wire
    <3> QED BY <3>1 DEF Calls
  <2>2. Replace(c, d)
    BY <1>24 DEF Receive
  <2> QED BY <2>1, <2>2, CallReplaced
<1>25. ASSUME NEW c \in calls, Begin(c) PROVE CallsMove
  <2> DEFINE d == [c EXCEPT !.at = IF Serves(c) /\ host.to = "none" THEN "running" ELSE "failed"]
  <2>1. d \in Calls /\ d.wire = c.wire
    BY <1>25 DEF Calls, Begin
  <2>2. Replace(c, d)
    BY <1>25 DEF Begin
  <2> QED BY <2>1, <2>2, CallReplaced
<1>26. ASSUME NEW c \in calls, Decide(c) PROVE CallsMove
  <2> DEFINE d == [c EXCEPT !.at = "answered", !.wire = Shown(host')]
  <2>1. d \in Calls /\ d.wire = Shown(host')
    BY <1>h DEF Calls, Sent
  <2>2. Replace(c, d)
    BY <1>26 DEF Decide, Decided, Emits
  <2> QED BY <2>1, <2>2, CallReplaced
<1>27. ASSUME NEW c \in calls, Limit(c) PROVE CallsMove
  <2>1. Replace(c, [c EXCEPT !.at = "limited"])
    BY <1>27 DEF Limit
  <2> QED BY <2>1, CallAt, CallReplaced
<1>28. ASSUME NEW c \in calls, CannotHear(c) PROVE CallsMove
  <2>1. Replace(c, [c EXCEPT !.at = "failed"])
    BY <1>28 DEF CannotHear
  <2> QED BY <2>1, CallAt, CallReplaced
<1>29. ASSUME NEW c \in calls, Return(c) PROVE CallsMove
  BY <1>29 DEF Return, CallsMove, vars
<1>30. CASE UNCHANGED vars
  BY <1>30 DEF vars, CallsMove, vars
<1> QED BY <1>1, <1>2, <1>3, <1>4, <1>5, <1>6, <1>7, <1>8, <1>9, <1>10, <1>11, <1>12, <1>13, <1>14, <1>15, <1>16, <1>17, <1>18, <1>19, <1>20, <1>21, <1>22, <1>23, <1>24, <1>25, <1>26, <1>27, <1>28, <1>29, <1>30 DEF Next

\* The tab: what it shows is what it showed, or what has come from the Host.
SameView(t, u) ==
  /\ u \in Tabs /\ u.view = t.view /\ u.late = t.late
  /\ u.stream = "open" => t.stream = "open"

LEMMA Tiring ==
  ASSUME NEW t \in Tabs
  PROVE  SameView(t, Tired(t)) /\ Tired(t).presses = t.presses /\ Tired(t).case = t.case
         /\ (t.press # "idle" \/ Tired(t).press = "idle")
BY DEF Tired, Tabs, Cursors, SameView

LEMMA Timed ==
  ASSUME NEW t \in Tabs, NEW b \in BOOLEAN
  PROVE  /\ SameView(t, [t EXCEPT !.timer = b]) /\ SameView(t, [t EXCEPT !.starting = b])
         /\ [t EXCEPT !.timer = b].press = t.press /\ [t EXCEPT !.starting = b].press = t.press
         /\ [t EXCEPT !.timer = b].case = t.case /\ [t EXCEPT !.starting = b].case = t.case
         /\ [t EXCEPT !.timer = b].presses = t.presses /\ [t EXCEPT !.starting = b].presses = t.presses
BY DEF Tabs, Cursors, SameView

LEMMA Streams ==
  ASSUME NEW t \in Tabs, NEW next \in {"none", "opening", "refused"}
  PROVE  /\ SameView(t, GoOffline(t)) /\ SameView(t, StreamError(t, next))
         /\ SameView(t, OpenStream(t))
         /\ \A u \in {GoOffline(t), StreamError(t, next), OpenStream(t)} :
              u.press = t.press /\ u.case = t.case /\ u.presses = t.presses
<1> DEFINE g == GoOffline(t)
           e == [t EXCEPT !.errors = @ + 1, !.stream = next]
           n == [t EXCEPT !.stream = "opening", !.errors = 0]
<1>1. SameView(t, g) /\ g.press = t.press /\ g.case = t.case /\ g.presses = t.presses
  BY DEF GoOffline, Tabs, Cursors, SameView
<1>t. t = [conn |-> t.conn, view |-> t.view, rev |-> t.rev, epoch |-> t.epoch,
           stream |-> t.stream, errors |-> t.errors, starting |-> t.starting,
           timer |-> t.timer, gone |-> t.gone, late |-> t.late, press |-> t.press,
           presses |-> t.presses, case |-> t.case]
  BY DEF Tabs
<1>e. e = [conn |-> t.conn, view |-> t.view, rev |-> t.rev, epoch |-> t.epoch,
           stream |-> next, errors |-> t.errors + 1, starting |-> t.starting,
           timer |-> t.timer, gone |-> t.gone, late |-> t.late, press |-> t.press,
           presses |-> t.presses, case |-> t.case]
  <2>1. e = [t EXCEPT !.errors = t.errors + 1, !.stream = next]
    OBVIOUS
  <2> HIDE DEF e
  <2> QED BY <1>t, <2>1
<1>n. n = [conn |-> t.conn, view |-> t.view, rev |-> t.rev, epoch |-> t.epoch,
           stream |-> "opening", errors |-> 0, starting |-> t.starting,
           timer |-> t.timer, gone |-> t.gone, late |-> t.late, press |-> t.press,
           presses |-> t.presses, case |-> t.case]
  <2>1. n = [t EXCEPT !.stream = "opening", !.errors = 0]
    OBVIOUS
  <2> HIDE DEF n
  <2> QED BY <1>t, <2>1
<1> HIDE DEF e, n
<1>2. ASSUME t.errors + 1 < MaxErrors
      PROVE  SameView(t, e) /\ e.press = t.press /\ e.case = t.case /\ e.presses = t.presses
  <2>1. t.errors + 1 \in Nat /\ t.errors + 1 <= MaxErrors - 1
    BY <1>2, Numbers DEF Tabs
  <2>2. e \in Tabs
    BY <1>e, <2>1 DEF Tabs, Cursors
  <2> QED BY <1>e, <2>2 DEF SameView
<1>3. SameView(t, n) /\ n.press = t.press /\ n.case = t.case /\ n.presses = t.presses
  <2>1. n \in Tabs
    BY <1>n, Numbers DEF Tabs, Cursors
  <2> QED BY <1>n, <2>1 DEF SameView
<1>4. SameView(t, t)
  BY DEF SameView
<1>5. t.errors \in Nat
  BY DEF Tabs
<1> HIDE DEF g
<1>6. StreamError(t, next) = IF t.errors + 1 >= MaxErrors THEN g ELSE e
  BY DEF StreamError, g, e
<1>7. OpenStream(t) = IF t.stream # "none" THEN t ELSE n
  BY DEF OpenStream, n
<1>8. StreamError(t, next) \in {g, e} /\ (StreamError(t, next) = e => t.errors + 1 < MaxErrors \/ e = g)
  BY <1>5, <1>6, Numbers
<1> QED BY <1>1, <1>2, <1>3, <1>4, <1>7, <1>8 DEF g

\* A state has landed: it is shown, or what is shown is a later one of its authority.
Shows(t, u, w) ==
  /\ u \in Tabs /\ w \in Sent
  /\ u.stream = "open" => t.stream = "open"
  /\ u.late \in BOOLEAN
  /\ (~ u.late) => ~ t.late /\ w.epoch = Shown(host).epoch /\ w.mode = Shown(host).mode
  /\ \/ /\ u.view = w
        /\ t.view \in Sent /\ t.view.epoch = w.epoch /\ t.view.mode = w.mode => t.view.rev < w.rev
     \/ /\ u.view = t.view /\ t.view \in Sent
        /\ t.view.epoch = w.epoch /\ t.view.mode = w.mode /\ w.rev <= t.view.rev

LEMMA Landing ==
  ASSUME NEW t \in Tabs, NEW w \in Sent
  PROVE  /\ Shows(t, Landed(t, w), w)
         /\ Landed(t, w).press = t.press /\ Landed(t, w).case = t.case
         /\ Landed(t, w).presses = t.presses /\ Landed(t, w).stream = t.stream
<1> DEFINE a == Apply(t, w)
           late == a.late \/ w.epoch # Shown(host).epoch \/ w.mode # Shown(host).mode
<1>1. a \in Tabs
  BY Applied
<1>2. Landed(t, w) = [a EXCEPT !.late = late]
  <2>1. a = [conn |-> a.conn, view |-> a.view, rev |-> a.rev, epoch |-> a.epoch,
             stream |-> a.stream, errors |-> a.errors, starting |-> a.starting,
             timer |-> a.timer, gone |-> a.gone, late |-> a.late, press |-> a.press,
             presses |-> a.presses, case |-> a.case]
    BY <1>1 DEF Tabs
  <2> QED BY <2>1 DEF Landed
<1>3. late \in BOOLEAN /\ (~ late => ~ a.late /\ w.epoch = Shown(host).epoch /\ w.mode = Shown(host).mode)
  OBVIOUS
<1> HIDE DEF late, a
<1>4. /\ [a EXCEPT !.late = late] \in Tabs
      /\ [a EXCEPT !.late = late].late = late /\ [a EXCEPT !.late = late].view = a.view
      /\ [a EXCEPT !.late = late].stream = a.stream /\ [a EXCEPT !.late = late].press = a.press
      /\ [a EXCEPT !.late = late].case = a.case /\ [a EXCEPT !.late = late].presses = a.presses
  BY <1>1, <1>3 DEF Tabs, Cursors
<1>5. /\ a.stream = t.stream /\ a.late = t.late /\ a.press = t.press /\ a.presses = t.presses
      /\ a.case = t.case
      /\ \/ /\ a.view = w
            /\ t.view \in Sent /\ t.view.epoch = w.epoch /\ t.view.mode = w.mode
                 => t.view.rev < w.rev
         \/ /\ a.view = t.view /\ t.view \in Sent
            /\ t.view.epoch = w.epoch /\ t.view.mode = w.mode /\ w.rev <= t.view.rev
  BY Applied DEF a
<1> QED BY <1>2, <1>3, <1>4, <1>5 DEF Shows

-----------------------------------------------------------------------------
(* The stream, and what the tab reads from it. *)

\* Every wire that is held or on its way somewhere.
Wires ==
  {link.pipe[n] : n \in DOMAIN link.pipe} \cup {pulls[k].wire : k \in Pull}
    \cup {c.wire : c \in calls} \cup {tab.view}

\* The Host's end of the stream knows what it wrote last, and that is what it serves.
Streaming ==
  /\ link.open => host.up /\ link.last = Content(Shown(host))
  /\ ~ link.open => link = NoLink
  /\ link.pipe # <<>> => Content(link.pipe[Len(link.pipe)]) = link.last

LinkMoves ==
  \/ link' = NoLink
  \/ link' = link /\ Shown(host') = Shown(host) /\ (host.up => host'.up)
  \/ link' = WriteFrame(link, host') /\ host'.up = host.up

Opens ==
  /\ link' = WriteFrame([NoLink EXCEPT !.open = TRUE], host) /\ host' = host /\ host.up
  /\ tab' \in Tabs /\ tab'.view = tab.view

Reads ==
  /\ link.pipe # <<>> /\ link' = [link EXCEPT !.pipe = Tail(@)] /\ host' = host
  /\ tab' \in Tabs
  /\ LET w == Head(link.pipe)
     IN \/ tab'.view = w
        \/ /\ tab'.view = tab.view /\ tab.view \in Sent
           /\ tab.view.epoch = w.epoch /\ tab.view.mode = w.mode /\ w.rev <= tab.view.rev

\* Between frames the tab goes on showing what it shows, or an answer lands.
Waits == SameView(tab, tab') /\ LinkMoves
Lands == host' = host /\ LinkMoves /\ \E w \in Wires : Shows(tab, tab', w)

ViewMoves == Waits \/ Lands \/ Opens \/ Reads

LEMMA Kept ==
  ASSUME NEW t, Keeps(t), host' = host
  PROVE  tab' = t /\ LinkMoves
BY DEF Keeps, LinkMoves

LEMMA SameTab ==
  ASSUME tab \in Tabs
  PROVE  SameView(tab, tab)
BY DEF SameView

LEMMA BootstrapTab ==
  ASSUME NEW t \in Tabs, Bootstrap(t)
  PROVE  SameView(t, tab') /\ tab'.press = t.press /\ tab'.case = t.case /\ tab'.presses = t.presses
<1>1. SameView(t, t)
  BY DEF SameView
<1> QED BY <1>1, Timed DEF Bootstrap

LEMMA ViewStep ==
  ASSUME Types, Streaming, [Next]_vars
  PROVE  ViewMoves
<1> USE OfTypes, SameTab
<1>a. ASSUME host' = host, link' = link, tab' = tab PROVE ViewMoves
  BY <1>a DEF ViewMoves, Waits, LinkMoves
<1>b. ASSUME host' = host, link' = link, SameView(tab, tab') PROVE ViewMoves
  BY <1>b DEF ViewMoves, Waits, LinkMoves
<1>c. ASSUME host' = host, NEW t, Keeps(t), SameView(tab, t) PROVE ViewMoves
  BY <1>c, Kept DEF ViewMoves, Waits
<1>d. ASSUME NEW h, Emits(h), h.up = host.up, tab' = tab PROVE ViewMoves
  BY <1>d DEF ViewMoves, Waits, LinkMoves, Emits

<1>1. CASE Start
  BY <1>1 DEF Start, Streaming, ViewMoves, Waits, LinkMoves
<1>2. CASE Ready
  <2> DEFINE h == [host EXCEPT !.ready = TRUE]
  <2>1. Emits(h) /\ tab' = tab
    BY <1>2 DEF Ready
  <2>2. h.up = host.up
    BY DEF Hosts
  <2> QED BY <1>d, <2>1, <2>2
<1>3. CASE Stop
  BY <1>3 DEF Stop, ViewMoves, Waits, LinkMoves
<1>4. CASE Bump
  <2>1. PICK new \in BOOLEAN : Emits(Bumped(host, host.mode, new))
    BY <1>4 DEF Bump
  <2>2. host.mode \in Mode
    BY DEF Hosts
  <2>3. Bumped(host, host.mode, new).up = host.up
    BY <2>2, BumpedMoves
  <2>4. tab' = tab
    BY <1>4 DEF Bump
  <2> QED BY <1>d, <2>1, <2>3, <2>4
<1>5. CASE BeginSwitch
  <2>1. \E m : host' = [host EXCEPT !.to = m]
    BY <1>5 DEF BeginSwitch
  <2>2. Shown(host') = Shown(host) /\ host'.up = host.up
    BY <2>1 DEF Shown, Hosts
  <2> QED BY <1>5, <2>2 DEF BeginSwitch, ViewMoves, Waits, LinkMoves
<1>6. CASE FinishSwitch
  <2>1. Emits(Switched(host)) /\ tab' = tab
    BY <1>6 DEF FinishSwitch
  <2> QED BY <1>d, <2>1, SwitchedMoves
<1>7. CASE FailSwitch
  <2>1. host' = [host EXCEPT !.to = "none"]
    BY <1>7 DEF FailSwitch
  <2>2. Shown(host') = Shown(host) /\ host'.up = host.up
    BY <2>1 DEF Shown, Hosts
  <2> QED BY <1>7, <2>2 DEF FailSwitch, ViewMoves, Waits, LinkMoves
<1>8. CASE Break
  BY <1>8 DEF Break, ViewMoves, Waits, LinkMoves
<1>9. CASE StreamOpens
  <2>1. tab' = [tab EXCEPT !.stream = "open"]
    BY <1>9 DEF StreamOpens
  <2>2. tab' \in Tabs /\ tab'.view = tab.view
    BY <2>1 DEF Tabs, Cursors
  <2> QED BY <1>9, <2>2 DEF StreamOpens, ViewMoves, Opens
<1>10. CASE StreamFails
  BY <1>c, <1>10, Streams DEF StreamFails
<1>11. CASE StreamRefused
  BY <1>c, <1>11, Streams DEF StreamRefused
<1>12. CASE StreamBreaks
  BY <1>c, <1>12, Streams DEF StreamBreaks
<1>13. CASE Frame
  <2> DEFINE w == Head(link.pipe)
             t == Apply(tab, w)
  <2>1. link.pipe # <<>> /\ tab' = [t EXCEPT !.errors = 0, !.late = FALSE]
    BY <1>13 DEF Frame
  <2>2. w \in Sent
    BY <2>1, HeadTailProperties DEF Links
  <2> HIDE DEF t, w
  <2>3. t \in Tabs /\ (t.view = w \/ (t.view = tab.view /\ tab.view \in Sent
           /\ tab.view.epoch = w.epoch /\ tab.view.mode = w.mode /\ w.rev <= tab.view.rev))
    BY <2>2, Applied DEF t
  <2>4. tab' \in Tabs /\ tab'.view = t.view
    <3>1. t = [conn |-> t.conn, view |-> t.view, rev |-> t.rev, epoch |-> t.epoch,
               stream |-> t.stream, errors |-> t.errors, starting |-> t.starting,
               timer |-> t.timer, gone |-> t.gone, late |-> t.late, press |-> t.press,
               presses |-> t.presses, case |-> t.case]
      BY <2>3 DEF Tabs
    <3>2. tab' = [conn |-> t.conn, view |-> t.view, rev |-> t.rev, epoch |-> t.epoch,
                  stream |-> t.stream, errors |-> 0, starting |-> t.starting,
                  timer |-> t.timer, gone |-> t.gone, late |-> FALSE, press |-> t.press,
                  presses |-> t.presses, case |-> t.case]
      BY <2>1, <3>1
    <3> QED BY <2>3, <3>2, Numbers DEF Tabs, Cursors
  <2>5. link' = [link EXCEPT !.pipe = Tail(@)] /\ host' = host
    BY <1>13 DEF Frame
  <2> QED BY <2>1, <2>3, <2>4, <2>5 DEF ViewMoves, Reads, w
<1>14. CASE Reconnect
  <2> DEFINE t == [tab EXCEPT !.timer = FALSE]
  <2>1. SameView(tab, t) /\ t \in Tabs
    BY Timed DEF SameView
  <2>2. Bootstrap(t) /\ host' = host /\ link' = link
    BY <1>14 DEF Reconnect
  <2> HIDE DEF t
  <2>3. SameView(t, tab')
    BY <2>1, <2>2, BootstrapTab
  <2> QED BY <1>b, <2>1, <2>2, <2>3 DEF SameView
<1>15. CASE AskMode
  BY <1>a, <1>15 DEF AskMode, vars
<1>16. ASSUME NEW k \in Asks, Ask(k) PROVE ViewMoves
  <2> DEFINE t == IF k = "refresh" THEN [tab EXCEPT !.timer = FALSE] ELSE tab
  <2>1. SameView(tab, t) /\ t \in Tabs
    BY Timed DEF SameView
  <2>2. host' = host /\ link' = link /\ (Bootstrap(t) \/ tab' = tab)
    BY <1>16 DEF Ask
  <2> HIDE DEF t
  <2>3. Bootstrap(t) => SameView(t, tab')
    BY <2>1, BootstrapTab
  <2> QED BY <1>a, <1>b, <2>1, <2>2, <2>3 DEF SameView
<1>17. ASSUME NEW k \in Pull, Answer(k) PROVE ViewMoves
  BY <1>a, <1>17 DEF Answer, vars
<1>18. ASSUME NEW k \in Pull, Lose(k) PROVE ViewMoves
  BY <1>a, <1>18 DEF Lose, vars
<1>19. ASSUME NEW k \in Pull, Arrive(k) PROVE ViewMoves
  <2>1. host' = host
    BY <1>19 DEF Arrive
  <2>2. CASE pulls[k].at = "answered"
    <3> DEFINE w == pulls[k].wire
               s == [[tab EXCEPT !.starting = FALSE] EXCEPT !.timer = FALSE]
    <3>1. w \in Sent /\ w \in Wires
      BY <2>2 DEF Pulls, Wires
    <3>2. SameView(tab, s) /\ s \in Tabs
      BY Timed DEF SameView
    <3>3. Keeps(IF k = "state" THEN OpenStream(Landed(s, w)) ELSE Landed(tab, w))
      <4>1. [tab EXCEPT !.starting = FALSE, !.timer = FALSE] = s
        OBVIOUS
      <4> QED BY <1>19, <2>2, <4>1 DEF Arrive
    <3> HIDE DEF w, s
    <3>4. Shows(tab, Landed(tab, w), w)
      BY <3>1, Landing
    <3>5. Shows(tab, OpenStream(Landed(s, w)), w)
      <4>1. Shows(s, Landed(s, w), w) /\ Landed(s, w) \in Tabs
        BY <3>1, <3>2, Landing DEF Shows
      <4>2. SameView(Landed(s, w), OpenStream(Landed(s, w)))
        BY <4>1, Streams
      <4> QED BY <3>2, <4>1, <4>2 DEF Shows, SameView
    <3>6. LinkMoves /\ \E u : tab' = u /\ Shows(tab, u, w)
      BY <2>1, <3>3, <3>4, <3>5, Kept
    <3> QED BY <2>1, <3>1, <3>6 DEF ViewMoves, Lands
  <2>3. CASE pulls[k].at # "answered"
    <3> DEFINE s == [tab EXCEPT !.starting = FALSE]
    <3>1. SameView(tab, s) /\ s \in Tabs
      BY Timed DEF SameView
    <3>2. Keeps(IF k = "state" THEN GoOffline(s) ELSE tab)
      BY <1>19, <2>3 DEF Arrive
    <3> HIDE DEF s
    <3>3. SameView(s, GoOffline(s))
      BY <3>1, Streams
    <3>4. SameView(tab, GoOffline(s))
      BY <3>1, <3>3 DEF SameView
    <3> QED BY <1>c, <2>1, <3>2, <3>4
  <2> QED BY <2>2, <2>3
<1>20. CASE Press
  <2>1. tab' = [tab EXCEPT !.press = "first", !.presses = tab.presses + 1, !.case = tab.view.mode]
    BY <1>20 DEF Press
  <2>2. tab.view.mode \in Mode \cup {"none"} /\ tab.presses + 1 \in Nat
    BY DEF Tabs, Wire
  <2>3. SameView(tab, tab')
    BY <2>1, <2>2 DEF Tabs, Cursors, SameView
  <2> QED BY <1>b, <1>20, <2>3 DEF Press
<1>21. CASE Retry
  <2>1. tab' = [tab EXCEPT !.press = "second"]
    BY <1>21 DEF Retry
  <2>2. SameView(tab, tab')
    BY <2>1 DEF Tabs, Cursors, SameView
  <2> QED BY <1>b, <1>21, <2>2 DEF Retry
<1>22. CASE GiveUp
  BY <1>b, <1>22, Tiring DEF GiveUp
<1>23. CASE Dispose
  <2> DEFINE t == [tab EXCEPT !.gone = TRUE, !.stream = "none", !.timer = FALSE, !.starting = FALSE,
                              !.press = "idle"]
  <2>1. SameView(tab, t)
    BY DEF Tabs, Cursors, SameView
  <2>2. Keeps(t) /\ host' = host
    BY <1>23 DEF Dispose
  <2> QED BY <1>c, <2>1, <2>2
<1>24. ASSUME NEW c \in calls, Receive(c) PROVE ViewMoves
  BY <1>a, <1>24 DEF Receive, vars
<1>25. ASSUME NEW c \in calls, Begin(c) PROVE ViewMoves
  BY <1>a, <1>25 DEF Begin, vars
<1>26. ASSUME NEW c \in calls, Decide(c) PROVE ViewMoves
  <2>1. c \in Calls /\ c.by \in Mode
    BY <1>26 DEF Decide, Calls
  <2>2. PICK h \in {host, Bumped(Spent(host, c), c.by, TRUE)} : Emits(h)
    BY <1>26 DEF Decide, Decided
  <2>3. h.up = host.up
    <3>1. Spent(host, c) \in Hosts /\ Spent(host, c).up = host.up
      BY <2>1, SpentIsHost
    <3> QED BY <2>1, <2>2, <3>1, BumpedMoves
  <2> QED BY <1>d, <1>26, <2>2, <2>3 DEF Decide
<1>27. ASSUME NEW c \in calls, Limit(c) PROVE ViewMoves
  BY <1>a, <1>27 DEF Limit, vars
<1>28. ASSUME NEW c \in calls, CannotHear(c) PROVE ViewMoves
  <2>1. c \in Calls /\ c.by \in Mode
    BY <1>28 DEF CannotHear, Calls
  <2>2. Shown(host') = Shown(host) /\ host'.up = host.up
    BY <1>28, <2>1, SpentIsHost DEF CannotHear
  <2> QED BY <1>28, <2>2 DEF CannotHear, ViewMoves, Waits, LinkMoves
<1>29. ASSUME NEW c \in calls, Return(c) PROVE ViewMoves
  <2>1. host' = host /\ link' = link
    BY <1>29 DEF Return
  <2>2. CASE Awaited(c) /\ c.at = "answered"
    <3>1. c.wire \in Sent /\ c.wire \in Wires
      BY <2>2 DEF Calls, Wires
    <3> DEFINE t == Landed(tab, c.wire)
    <3>2. tab' = [t EXCEPT !.press = "idle"]
      BY <1>29, <2>2 DEF Return
    <3>3. Shows(tab, t, c.wire) /\ t \in Tabs
      BY <3>1, Landing DEF Shows
    <3> HIDE DEF t
    <3>4. SameView(t, tab') /\ SameView(tab', t)
      BY <3>2, <3>3 DEF Tabs, Cursors, SameView
    <3>5. Shows(tab, tab', c.wire)
      BY <3>3, <3>4 DEF Shows, SameView
    <3> QED BY <2>1, <3>1, <3>5 DEF ViewMoves, Lands, LinkMoves
  <2>3. CASE ~ (Awaited(c) /\ c.at = "answered")
    <3>1. tab' \in {tab, [tab EXCEPT !.press = "idle"], Tired(tab)}
      BY <1>29, <2>3 DEF Return
    <3>2. SameView(tab, [tab EXCEPT !.press = "idle"])
      BY DEF Tabs, Cursors, SameView
    <3> QED BY <1>b, <2>1, <3>1, <3>2, Tiring
  <2> QED BY <2>2, <2>3
<1>30. CASE UNCHANGED vars
  BY <1>a, <1>30 DEF vars
<1> QED BY <1>1, <1>2, <1>3, <1>4, <1>5, <1>6, <1>7, <1>8, <1>9, <1>10, <1>11, <1>12, <1>13, <1>14, <1>15, <1>16, <1>17, <1>18, <1>19, <1>20, <1>21, <1>22, <1>23, <1>24, <1>25, <1>26, <1>27, <1>28, <1>29, <1>30 DEF Next

LEMMA ShowsTab ==
  ASSUME Types, Streaming, [Next]_vars
  PROVE  tab' \in Tabs
BY ViewStep DEF ViewMoves, Waits, Lands, Opens, Reads, SameView, Shows

\* The wires of a queue that a frame is written to, or taken from.
PipeOf(l) == {l.pipe[n] : n \in DOMAIN l.pipe}

LEMMA WrittenPipe ==
  ASSUME NEW l \in Links, NEW h \in Hosts
  PROVE  PipeOf(WriteFrame(l, h)) \subseteq PipeOf(l) \cup {Shown(h)}
<1>1. Shown(h) \in Sent /\ l.pipe \in Seq(Sent)
  BY ShownIsSent DEF Links
<1>2. CASE WriteFrame(l, h) = l
  BY <1>2
<1>3. CASE WriteFrame(l, h).pipe = Append(l.pipe, Shown(h))
  <2> DEFINE q == Append(l.pipe, Shown(h))
  <2>1. /\ Len(q) = Len(l.pipe) + 1 /\ DOMAIN q = 1 .. Len(q)
        /\ \A n \in 1 .. Len(l.pipe) : q[n] = l.pipe[n]
        /\ q[Len(l.pipe) + 1] = Shown(h)
    BY <1>1, AppendProperties
  <2>2. Len(l.pipe) \in Nat /\ DOMAIN l.pipe = 1 .. Len(l.pipe)
    BY <1>1
  <2> HIDE DEF q
  <2>3. \A n \in DOMAIN q : n \in DOMAIN l.pipe \/ n = Len(l.pipe) + 1
    BY <2>1, <2>2
  <2> QED BY <1>3, <2>1, <2>2, <2>3 DEF PipeOf, q
<1> QED BY <1>2, <1>3, Written

LEMMA TailPipe ==
  ASSUME NEW l \in Links, l.pipe # <<>>
  PROVE  /\ [l EXCEPT !.pipe = Tail(@)] \in Links
         /\ PipeOf([l EXCEPT !.pipe = Tail(@)]) \subseteq PipeOf(l)
         /\ Head(l.pipe) \in PipeOf(l)
<1> DEFINE q == Tail(l.pipe)
<1>1. l.pipe \in Seq(Sent)
  BY DEF Links
<1>2. /\ q \in Seq(Sent) /\ Len(q) = Len(l.pipe) - 1
      /\ \A n \in 1 .. Len(q) : q[n] = l.pipe[n + 1]
  BY <1>1, HeadTailProperties
<1>3. DOMAIN q = 1 .. Len(q) /\ DOMAIN l.pipe = 1 .. Len(l.pipe) /\ Len(l.pipe) \in Nat
      /\ Len(l.pipe) > 0
  BY <1>1, <1>2
<1>4. Head(l.pipe) = l.pipe[1] /\ 1 \in DOMAIN l.pipe
  BY <1>1, <1>3
<1>5. [l EXCEPT !.pipe = Tail(@)] = [open |-> l.open, last |-> l.last, pipe |-> q]
  BY DEF Links
<1> HIDE DEF q
<1>6. [l EXCEPT !.pipe = Tail(@)] \in Links
  BY <1>2, <1>5 DEF Links
<1>7. \A n \in DOMAIN q : n + 1 \in DOMAIN l.pipe /\ q[n] = l.pipe[n + 1]
  BY <1>2, <1>3
<1> QED BY <1>4, <1>5, <1>6, <1>7 DEF PipeOf

\* A queue is what it was, without some of its wires, or with the one now served.
LEMMA LinkStep ==
  ASSUME Types, Streaming, [Next]_vars
  PROVE  link' \in Links /\ PipeOf(link') \subseteq PipeOf(link) \cup {Shown(host')}
<1> USE OfTypes
<1>1. host' \in Hosts
  BY HostStep DEF HostMoves
<1>2. PipeOf(NoLink) = {} /\ NoLink \in Links
  BY Kinds DEF PipeOf, NoLink
<1>3. ASSUME LinkMoves PROVE link' \in Links /\ PipeOf(link') \subseteq PipeOf(link) \cup {Shown(host')}
  <2>1. CASE link' = NoLink
    BY <1>2, <2>1
  <2>2. CASE link' = link
    BY <2>2
  <2>3. CASE link' = WriteFrame(link, host')
    BY <1>1, <2>3, Written, WrittenPipe
  <2> QED BY <1>3, <2>1, <2>2, <2>3 DEF LinkMoves
<1>4. ASSUME Opens PROVE link' \in Links /\ PipeOf(link') \subseteq PipeOf(link) \cup {Shown(host')}
  <2> DEFINE l == [NoLink EXCEPT !.open = TRUE]
  <2>1. l.open = TRUE /\ l.last = NoWire /\ l.pipe = <<>> /\ l \in Links
    BY Kinds DEF NoLink, Links
  <2> HIDE DEF l
  <2>2. l \in Links /\ PipeOf(l) = {}
    BY <2>1 DEF PipeOf
  <2> QED BY <1>1, <1>4, <2>2, Written, WrittenPipe DEF Opens, l
<1>5. ASSUME Reads PROVE link' \in Links /\ PipeOf(link') \subseteq PipeOf(link) \cup {Shown(host')}
  BY <1>5, TailPipe DEF Reads
<1> QED BY <1>3, <1>4, <1>5, ViewStep DEF ViewMoves, Waits, Lands

\* The types are kept.
LEMMA TypesStep ==
  ASSUME Types, Streaming, [Next]_vars
  PROVE  Types'
<1>1. host' \in Hosts
  BY HostStep DEF HostMoves
<1>2. pulls' \in [Pull -> Pulls]
  BY PullStep DEF PullsMove
<1>3. calls' \subseteq Calls
  BY CallStep DEF CallsMove
<1> QED BY <1>1, <1>2, <1>3, LinkStep, ShowsTab DEF Types

\* No wire appears but one of what the Host serves.
LEMMA WiresStep ==
  ASSUME Types, Streaming, [Next]_vars
  PROVE  Wires' \subseteq Wires \cup {NoWire, Shown(host')}
<1> USE OfTypes
<1>w. Wires = PipeOf(link) \cup {pulls[k].wire : k \in Pull} \cup {c.wire : c \in calls} \cup {tab.view}
  BY DEF Wires, PipeOf
<1>v. Wires' = PipeOf(link') \cup {pulls'[k].wire : k \in Pull} \cup {c.wire : c \in calls'} \cup {tab'.view}
  BY DEF Wires, PipeOf
<1>1. PipeOf(link') \subseteq Wires \cup {NoWire, Shown(host')}
  BY <1>w, LinkStep
<1>2. {pulls'[k].wire : k \in Pull} \subseteq Wires \cup {NoWire, Shown(host')}
  BY <1>w, PullStep DEF PullsMove
<1>3. {c.wire : c \in calls'} \subseteq Wires \cup {NoWire, Shown(host')}
  BY <1>w, CallStep DEF CallsMove
<1>4. tab'.view \in Wires
  <2>1. Waits \/ Opens => tab'.view = tab.view
    BY DEF Waits, Opens, SameView
  <2>2. Lands => tab'.view \in Wires
    BY <1>w DEF Lands, Shows
  <2>3. Reads => tab'.view \in Wires
    BY <1>w, TailPipe DEF Reads
  <2> QED BY <1>w, <2>1, <2>2, <2>3, ViewStep DEF ViewMoves
<1> QED BY <1>v, <1>1, <1>2, <1>3, <1>4
-----------------------------------------------------------------------------
(* The past of the authorities. *)

\* A wire is no newer than its authority, and with the same revision it is the same.
Past(w, h) ==
  w.mode \in Mode =>
    /\ w.epoch <= h.epoch
    /\ w.epoch = h.auth[w.mode].epoch =>
         /\ w.rev <= h.auth[w.mode].rev /\ w.body <= h.auth[w.mode].body
         /\ w.rev = h.auth[w.mode].rev => w.body = h.auth[w.mode].body

\* A later revision has no older content.
InOrder(v, w) ==
  v.epoch = w.epoch /\ v.mode = w.mode /\ v.rev <= w.rev => v.body <= w.body

History(W, h) ==
  /\ \A w \in W : w \in Sent \cup {NoWire} /\ Past(w, h)
  /\ \A v, w \in W : InOrder(v, w)

LEMMA PastMoves ==
  ASSUME NEW h \in Hosts, NEW g \in Hosts, Moves(h, g), NEW w \in Wire, Past(w, h)
  PROVE  Past(w, g)
<1> SUFFICES ASSUME w.mode \in Mode PROVE Past(w, g)
  BY DEF Past
<1> DEFINE a == h.auth[w.mode]
           b == g.auth[w.mode]
<1>1. a \in Authority /\ b \in Authority /\ h.epoch \in Nat /\ g.epoch \in Nat
  BY DEF Hosts
<1>2. w.epoch \in Nat /\ w.rev \in Int /\ w.body \in Nat
  BY DEF Wire
<1>3. /\ w.epoch <= h.epoch /\ g.epoch >= h.epoch
      /\ w.epoch = a.epoch => /\ w.rev <= a.rev /\ w.body <= a.body
                              /\ w.rev = a.rev => w.body = a.body
      /\ b = a \/ MovesOn(a, b) \/ b.epoch > h.epoch
  BY DEF Past, Moves
<1> HIDE DEF a, b
<1>4. w.epoch <= g.epoch
  BY <1>1, <1>2, <1>3
<1>5. w.epoch = b.epoch => /\ w.rev <= b.rev /\ w.body <= b.body
                           /\ w.rev = b.rev => w.body = b.body
  BY <1>1, <1>2, <1>3 DEF Authority, MovesOn
<1> QED BY <1>4, <1>5 DEF Past, b

LEMMA HistoryMoves ==
  ASSUME NEW h \in Hosts, NEW g \in Hosts, Moves(h, g), NEW W, History(W, h),
         NEW V, V \subseteq W \cup {NoWire, Shown(g)}
  PROVE  History(V, g)
<1> DEFINE s == Shown(g)
<1>1. s \in Sent /\ s \in Wire /\ NoWire \in Wire
  BY ShownIsSent, Kinds DEF Sent
<1>2. s.mode \in Mode /\ s.epoch = g.auth[s.mode].epoch /\ s.rev = g.auth[s.mode].rev
      /\ s.body = g.auth[s.mode].body /\ s.epoch <= g.epoch
  BY DEF Shown, Hosts
<1>3. \A w \in W : w \in Sent \cup {NoWire} /\ Past(w, g)
  BY <1>1, PastMoves DEF History, Sent
<1>4. Past(NoWire, g)
  BY DEF Past, NoWire, Mode
<1> HIDE DEF s
<1>5. Past(s, g)
  BY <1>1, <1>2 DEF Past, Wire
<1>6. \A w \in V : w \in Sent \cup {NoWire} /\ w \in Wire /\ Past(w, g)
  BY <1>1, <1>3, <1>4, <1>5 DEF s, Sent
<1>7. ASSUME NEW v \in V, NEW w \in V PROVE InOrder(v, w)
  <2>1. CASE v = NoWire \/ w = NoWire
    BY <1>6, <2>1 DEF InOrder, NoWire, Mode, Sent, Wire
  <2>2. CASE v \in W /\ w \in W
    BY <2>2 DEF History
  <2>3. CASE v = s
    <3> SUFFICES ASSUME s.epoch = w.epoch, s.mode = w.mode, s.rev <= w.rev PROVE s.body <= w.body
      BY <2>3 DEF InOrder
    <3>1. w.rev <= s.rev /\ (w.rev = s.rev => w.body = s.body)
      BY <1>2, <1>6 DEF Past
    <3>2. w.rev \in Int /\ s.rev \in Int /\ s.body \in Nat
      BY <1>1, <1>6 DEF Wire
    <3> QED BY <3>1, <3>2
  <2>4. CASE w = s
    <3> SUFFICES ASSUME v.epoch = s.epoch, v.mode = s.mode PROVE v.body <= s.body
      BY <2>4 DEF InOrder
    <3> QED BY <1>2, <1>6 DEF Past
  <2> QED BY <2>1, <2>2, <2>3, <2>4 DEF s
<1> QED BY <1>6, <1>7 DEF History


\* All that is held or on its way is of the past of its authority.
LEMMA HistoryStep ==
  ASSUME Types, Streaming, History(Wires, host), [Next]_vars
  PROVE  History(Wires', host')
BY OfTypes, HostStep, WiresStep, HistoryMoves DEF HostMoves

LEMMA WrittenLast ==
  ASSUME NEW l \in Links, NEW h \in Hosts, l.open,
         l.pipe # <<>> => Content(l.pipe[Len(l.pipe)]) = l.last
  PROVE  LET k == WriteFrame(l, h)
         IN  /\ k.open /\ k.last = Content(Shown(h))
             /\ k.pipe # <<>> => Content(k.pipe[Len(k.pipe)]) = k.last
             /\ k.pipe = <<>> => k = l
<1> DEFINE k == WriteFrame(l, h)
<1>1. k.open /\ k.last = Content(Shown(h))
  BY Written
<1>2. CASE k = l
  BY <1>1, <1>2
<1>3. CASE k.pipe = Append(l.pipe, Shown(h))
  <2>1. Shown(h) \in Sent /\ l.pipe \in Seq(Sent)
    BY ShownIsSent DEF Links
  <2>2. Len(k.pipe) = Len(l.pipe) + 1 /\ k.pipe[Len(l.pipe) + 1] = Shown(h) /\ k.pipe # <<>>
    BY <1>3, <2>1, AppendProperties
  <2>3. Content(k.pipe[Len(k.pipe)]) = k.last
    BY <1>1, <2>2
  <2> QED BY <1>1, <2>2, <2>3
<1> QED BY <1>1, <1>2, <1>3, Written

LEMMA NewStream ==
  ASSUME NEW h \in Hosts
  PROVE  LET k == WriteFrame([NoLink EXCEPT !.open = TRUE], h)
         IN  /\ k.open /\ k.last = Content(Shown(h)) /\ k.pipe # <<>>
             /\ Content(k.pipe[Len(k.pipe)]) = k.last
<1> DEFINE l == [NoLink EXCEPT !.open = TRUE]
           k == WriteFrame(l, h)
<1>1. l.open /\ l.last = NoWire /\ l.pipe = <<>> /\ l \in Links
  BY Kinds DEF NoLink, Links
<1> HIDE DEF l
<1>2. /\ k.open /\ k.last = Content(Shown(h))
      /\ k.pipe # <<>> => Content(k.pipe[Len(k.pipe)]) = k.last
      /\ k.pipe = <<>> => k = l
  BY <1>1, WrittenLast
<1>3. Shown(h) \in Sent
  BY ShownIsSent
<1>4. Content(Shown(h)).epoch > 0 /\ NoWire.epoch = 0
  BY <1>3, ContentIsWire DEF Sent, NoWire
<1>5. k.pipe # <<>>
  <2> HIDE DEF k
  <2> QED BY <1>1, <1>2, <1>4
<1> QED BY <1>2, <1>5 DEF l

LEMMA StreamingStep ==
  ASSUME Types, Streaming, [Next]_vars
  PROVE  Streaming'
<1> USE OfTypes
<1>1. host' \in Hosts
  BY HostStep DEF HostMoves
<1>2. ~ NoLink.open /\ NoLink.pipe = <<>>
  BY DEF NoLink
<1>3. ASSUME LinkMoves PROVE Streaming'
  <2>1. CASE link' = NoLink
    BY <1>2, <2>1 DEF Streaming
  <2>2. CASE link' = link /\ Shown(host') = Shown(host) /\ (host.up => host'.up)
    BY <2>2 DEF Streaming
  <2>3. CASE link' = WriteFrame(link, host') /\ host'.up = host.up
    <3>1. CASE link.open
      BY <1>1, <2>3, <3>1, WrittenLast DEF Streaming
    <3>2. CASE ~ link.open
      <4>1. link' = link
        BY <2>3, <3>2 DEF WriteFrame
      <4> QED BY <3>2, <4>1, <1>2 DEF Streaming
    <3> QED BY <3>1, <3>2
  <2> QED BY <1>3, <2>1, <2>2, <2>3 DEF LinkMoves
<1>4. ASSUME Opens PROVE Streaming'
  BY <1>4, NewStream DEF Opens, Streaming
<1>5. ASSUME Reads PROVE Streaming'
  <2> DEFINE q == Tail(link.pipe)
  <2>1. link.pipe \in Seq(Sent) /\ link.pipe # <<>> /\ host' = host
    BY <1>5 DEF Links, Reads
  <2>2. link' = [open |-> link.open, last |-> link.last, pipe |-> q]
    BY <1>5 DEF Reads, Links
  <2>3. /\ q \in Seq(Sent) /\ Len(q) = Len(link.pipe) - 1
        /\ \A n \in 1 .. Len(q) : q[n] = link.pipe[n + 1]
    BY <2>1, HeadTailProperties
  <2>4. link.open
    BY <1>2, <2>1 DEF Streaming
  <2>5. q # <<>> => Len(q) \in 1 .. Len(q) /\ Len(q) + 1 = Len(link.pipe)
    BY <2>1, <2>3
  <2>6. q # <<>> => q[Len(q)] = link.pipe[Len(link.pipe)]
    BY <2>3, <2>5
  <2> HIDE DEF q
  <2> QED BY <2>1, <2>2, <2>4, <2>6 DEF Streaming
<1> QED BY <1>3, <1>4, <1>5, ViewStep DEF ViewMoves, Waits, Lands

LEMMA InStepStep ==
  ASSUME Types, Streaming, History(Wires, host), InStep, [Next]_vars
  PROVE  InStep'
<1> USE OfTypes
<1> SUFFICES ASSUME link'.open, tab'.stream = "open", link'.pipe = <<>>, ~ tab'.late
             PROVE  Content(tab'.view) = Content(Shown(host'))
  BY DEF InStep
<1>1. host' \in Hosts /\ Shown(host) \in Sent /\ Shown(host) \in Wire
  BY HostStep, ShownIsSent DEF HostMoves, Sent
<1>2. Shown(host).mode \in Mode /\ Shown(host).epoch = host.auth[Shown(host).mode].epoch
      /\ Shown(host).body = host.auth[Shown(host).mode].body
  BY DEF Shown, Hosts
<1>3. ASSUME NEW w \in Wires, w.epoch = Shown(host).epoch, w.mode = Shown(host).mode
      PROVE  w.body <= Shown(host).body
  BY <1>2, <1>3 DEF History, Past
<1>4. tab.view \in Wires
  BY DEF Wires
<1>5. \A w \in Wires : w \in Wire
  BY Kinds DEF History, Sent
<1>6. ASSUME LinkMoves
      PROVE  link' = link /\ Content(Shown(host')) = Content(Shown(host))
  <2>1. link' # NoLink
    BY DEF NoLink
  <2>2. CASE link' = link /\ Shown(host') = Shown(host)
    BY <2>2
  <2>3. CASE link' = WriteFrame(link, host')
    <3>1. link.open
      <4>1. CASE ~ link.open
        BY <2>3, <4>1 DEF WriteFrame
      <4> QED BY <4>1
    <3>2. link' = link /\ link'.last = Content(Shown(host'))
      BY <1>1, <2>3, <3>1, WrittenLast DEF Streaming
    <3> QED BY <3>1, <3>2 DEF Streaming
  <2> QED BY <1>6, <2>1, <2>2, <2>3 DEF LinkMoves
<1>7. CASE Waits
  BY <1>6, <1>7 DEF Waits, SameView, InStep
<1>8. CASE Lands
  <2>1. PICK w \in Wires : Shows(tab, tab', w)
    BY <1>8 DEF Lands
  <2>2. /\ ~ tab.late /\ w.epoch = Shown(host).epoch /\ w.mode = Shown(host).mode
        /\ tab.stream = "open"
    BY <2>1 DEF Shows
  <2>3. link' = link /\ host' = host
    BY <1>6, <1>8 DEF Lands
  <2>4. Content(tab.view) = Content(Shown(host))
    BY <2>2, <2>3 DEF InStep
  <2>5. /\ tab.view \in Wire /\ tab.view.epoch = Shown(host).epoch
        /\ tab.view.mode = Shown(host).mode /\ tab.view.body = Shown(host).body
    BY <1>1, <1>4, <1>5, <2>4, SameContent
  <2>6. tab.view \in Sent
    BY <1>2, <1>4, <2>5 DEF History, NoWire, Mode
  <2>7. CASE tab'.view = w /\ tab.view.rev < w.rev
    <3>1. tab.view.body <= w.body
      <4>1. tab.view.rev <= w.rev
        BY <1>5, <2>5, <2>7 DEF Wire
      <4> QED BY <1>4, <2>2, <2>5, <4>1 DEF History, InOrder
    <3>2. w.body <= Shown(host).body
      BY <1>3, <2>2
    <3>3. w.body = Shown(host).body
      BY <1>1, <1>5, <2>5, <3>1, <3>2 DEF Wire
    <3> QED BY <1>1, <1>5, <2>2, <2>3, <2>7, <3>3, SameContent
  <2>8. CASE tab'.view = tab.view
    BY <2>3, <2>4, <2>8
  <2> QED BY <2>1, <2>2, <2>5, <2>6, <2>7, <2>8 DEF Shows
<1>9. CASE Opens
  BY <1>9, NewStream DEF Opens
<1>10. CASE Reads
  <2> DEFINE w == Head(link.pipe)
  <2>1. link.pipe \in Seq(Sent) /\ link.pipe # <<>> /\ host' = host /\ link' = [link EXCEPT !.pipe = Tail(@)]
    BY <1>10 DEF Links, Reads
  <2>2. Tail(link.pipe) = <<>>
    BY <2>1 DEF Links
  <2>3. Len(link.pipe) = 1 /\ w = link.pipe[1]
    <3>1. Len(Tail(link.pipe)) = Len(link.pipe) - 1 /\ Len(Tail(link.pipe)) = 0
      BY <2>1, <2>2, HeadTailProperties
    <3>2. Len(link.pipe) = 1
      BY <2>1, <3>1
    <3> QED BY <2>1, <3>2
  <2>4. link.open
    BY <2>1 DEF Streaming, NoLink
  <2>5. w \in Wires /\ w \in Wire
    BY <1>5, <2>1, <2>3 DEF Wires
  <2> HIDE DEF w
  <2>6. Content(w) = Content(Shown(host))
    BY <2>1, <2>3, <2>4 DEF Streaming
  <2>7. w.epoch = Shown(host).epoch /\ w.mode = Shown(host).mode /\ w.body = Shown(host).body
    BY <1>1, <2>5, <2>6, SameContent
  <2>8. CASE tab'.view = w
    BY <2>1, <2>6, <2>8
  <2>9. CASE /\ tab'.view = tab.view /\ tab.view \in Sent
             /\ tab.view.epoch = w.epoch /\ tab.view.mode = w.mode /\ w.rev <= tab.view.rev
    <3>1. w.body <= tab.view.body
      BY <1>4, <2>5, <2>9 DEF History, InOrder
    <3>2. tab.view.body <= Shown(host).body
      BY <1>3, <1>4, <2>7, <2>9
    <3>3. tab.view.body = Shown(host).body
      BY <1>1, <1>4, <1>5, <2>7, <3>1, <3>2 DEF Wire
    <3> QED BY <1>1, <1>4, <1>5, <2>1, <2>7, <2>9, <3>3, SameContent
  <2> QED BY <1>10, <2>8, <2>9 DEF Reads, w
<1> QED BY <1>7, <1>8, <1>9, <1>10, ViewStep DEF ViewMoves


\* The state at the start, and the two of it that say something of a start.
LEMMA Started ==
  ASSUME Init
  PROVE  /\ Types /\ Streaming /\ History(Wires, host) /\ InStep
<1>1. Fresh(1) \in Authority /\ Fresh(1).epoch = 1
  BY DEF Fresh, Authority
<1>2. host \in Hosts
  <2>1. host = [up |-> TRUE, ready |-> FALSE, mode |-> "online", to |-> "none", epoch |-> 1,
                auth |-> [m \in Mode |-> Fresh(1)], books |-> [m \in Mode |-> {}]]
    BY DEF Init
  <2>2. [m \in Mode |-> Fresh(1)] \in [Mode -> Authority]
        /\ [m \in Mode |-> {}] \in [Mode -> SUBSET [id : Nat, press : Nat]]
    BY <1>1
  <2> QED BY <1>1, <2>1, <2>2 DEF Hosts, Mode
<1>3. link = NoLink /\ calls = {}
  BY DEF Init
<1>4. pulls \in [Pull -> Pulls] /\ \A k \in Pull : pulls[k].wire = NoWire
  <2>1. pulls = [k \in Pull |-> IF k = "state" THEN [NoPull EXCEPT !.at = "sent"] ELSE NoPull]
    BY DEF Init
  <2>2. NoPull.wire = NoWire
    BY DEF NoPull
  <2> QED BY <2>1, <2>2, NewPull, Kinds
<1>5. tab \in Tabs /\ tab.view = NoWire
  BY Kinds, Numbers DEF Init, Tabs, Cursors
<1>6. Types
  BY <1>2, <1>3, <1>4, <1>5, Kinds DEF Types
<1>7. Streaming /\ InStep
  BY <1>3 DEF Streaming, InStep, NoLink
<1>8. History({NoWire}, host)
  BY <1>2 DEF History, Past, InOrder, NoWire, Mode, Hosts
<1>9. Wires \subseteq {NoWire}
  BY <1>3, <1>4, <1>5 DEF Wires, NoLink
<1> QED BY <1>6, <1>7, <1>8, <1>9 DEF History

\* The tab's types, and what its request, link and cursors are.
THEOREM TypeInvariant == Spec => []TypeOK
<1>1. Init => Types /\ Streaming
  BY Started
<1>2. Types /\ Streaming /\ [Next]_vars => (Types /\ Streaming)'
  BY TypesStep, StreamingStep
<1>3. Types => TypeOK
  <2> SUFFICES ASSUME Types PROVE TypeOK
    OBVIOUS
  <2>1. tab.errors \in 0 .. MaxErrors - 1
    BY Numbers DEF Types, Tabs
  <2> QED BY <2>1 DEF Types, TypeOK, Hosts, Pulls, Calls, Tabs
<1> QED BY <1>1, <1>2, <1>3, PTL DEF Spec

\* Once a frame has been read the tab shows what the Host serves, whatever answers come in
\* late, as long as they are of the authority that serves.
THEOREM StaysInStep == Spec => []InStep
<1> DEFINE Inv == Types /\ Streaming /\ History(Wires, host) /\ InStep
<1>1. Init => Inv
  BY Started
<1>2. Inv /\ [Next]_vars => Inv'
  BY TypesStep, StreamingStep, HistoryStep, InStepStep
<1>3. Inv => InStep
  OBVIOUS
<1> QED BY <1>1, <1>2, <1>3, PTL DEF Spec
-----------------------------------------------------------------------------
(* Who owns a press: the case it was made for, on its way and in the books. *)

Owns(n, m) ==
  \/ \E c \in calls : c.press = n /\ c.case = m
  \/ m \in Mode /\ \E b \in host.books[m] : b.press = n
  \/ tab.press # "idle" /\ tab.presses = n /\ tab.case = m

Owned == {x \in Nat \X (Mode \cup {"none"}) : Owns(x[1], x[2])}

\* A press that has been made has one owner.
OwnedOnce(O, n) ==
  /\ \A x \in O : x[1] \in 1 .. n
  /\ \A x, y \in O : x[1] = y[1] => x[2] = y[2]

\* An authority knows a vote by the id that its press gave it.
Booked == \A m \in Mode : \A b \in host.books[m] : b.id = b.press

OwnersMove ==
  \/ /\ tab'.presses = tab.presses
     /\ Owned' \subseteq Owned
  \/ /\ tab'.presses = tab.presses + 1
     /\ Owned' \subseteq Owned \cup {<<tab.presses + 1, tab'.case>>}

LEMMA OwnersKept ==
  ASSUME NEW O, NEW P, NEW n \in Nat, NEW x, OwnedOnce(O, n),
         P \subseteq O \cup {<<n + 1, x>>}
  PROVE  OwnedOnce(P, n + 1)
BY DEF OwnedOnce


(* What a step may add to either. *)

BooksMove ==
  \A m \in Mode : \A b \in host'.books[m] :
    \/ b \in host.books[m]
    \/ \E c \in calls : b = [id |-> c.id, press |-> c.press] /\ m = c.case

LEMMA BooksStep ==
  ASSUME Types, [Next]_vars
  PROVE  BooksMove
<1> USE OfTypes
<1>a. ASSUME host'.books = host.books PROVE BooksMove
  BY <1>a DEF BooksMove

<1>1. CASE Start
  BY <1>a, <1>1 DEF Start, Hosts
<1>2. CASE Ready
  BY <1>a, <1>2 DEF Ready, Emits, Hosts
<1>3. CASE Stop
  BY <1>a, <1>3 DEF Stop, Hosts
<1>4. CASE Bump
  BY <1>a, <1>4, BumpedMoves DEF Bump, Emits, Hosts
<1>5. CASE BeginSwitch
  BY <1>a, <1>5 DEF BeginSwitch, Hosts
<1>6. CASE FinishSwitch
  BY <1>a, <1>6, SwitchedMoves DEF FinishSwitch, Emits
<1>7. CASE FailSwitch
  BY <1>a, <1>7 DEF FailSwitch, Hosts
<1>8. CASE Break
  BY <1>a, <1>8 DEF Break, vars
<1>9. CASE StreamOpens
  BY <1>a, <1>9 DEF StreamOpens, vars
<1>10. CASE StreamFails
  BY <1>a, <1>10 DEF StreamFails, vars
<1>11. CASE StreamRefused
  BY <1>a, <1>11 DEF StreamRefused, vars
<1>12. CASE StreamBreaks
  BY <1>a, <1>12 DEF StreamBreaks, vars
<1>13. CASE Frame
  BY <1>a, <1>13 DEF Frame, vars
<1>14. CASE Reconnect
  BY <1>a, <1>14 DEF Reconnect, vars
<1>15. CASE AskMode
  BY <1>a, <1>15 DEF AskMode, vars
<1>16. ASSUME NEW k \in Asks, Ask(k) PROVE BooksMove
  BY <1>a, <1>16 DEF Ask, vars
<1>17. ASSUME NEW k \in Pull, Answer(k) PROVE BooksMove
  BY <1>a, <1>17 DEF Answer, vars
<1>18. ASSUME NEW k \in Pull, Lose(k) PROVE BooksMove
  BY <1>a, <1>18 DEF Lose, vars
<1>19. ASSUME NEW k \in Pull, Arrive(k) PROVE BooksMove
  BY <1>a, <1>19 DEF Arrive, vars
<1>20. CASE Press
  BY <1>a, <1>20 DEF Press, vars
<1>21. CASE Retry
  BY <1>a, <1>21 DEF Retry, vars
<1>22. CASE GiveUp
  BY <1>a, <1>22 DEF GiveUp, vars
<1>23. CASE Dispose
  BY <1>a, <1>23 DEF Dispose, vars
<1>24. ASSUME NEW c \in calls, Receive(c) PROVE BooksMove
  BY <1>a, <1>24 DEF Receive, vars
<1>25. ASSUME NEW c \in calls, Begin(c) PROVE BooksMove
  BY <1>a, <1>25 DEF Begin, vars
<1>26. ASSUME NEW c \in calls, Decide(c) PROVE BooksMove
  <2>1. c \in Calls /\ c.by \in Mode
    BY <1>26 DEF Decide, Calls
  <2>2. CASE host' = host
    BY <1>a, <2>2
  <2>3. CASE Accepts(c) /\ host' = Bumped(Spent(host, c), c.by, TRUE)
    <3>1. Spent(host, c) \in Hosts
      BY <2>1, SpentIsHost
    <3>2. host'.books = Spent(host, c).books
      BY <2>1, <2>3, <3>1, BumpedMoves
    <3>3. c.case = c.by
      BY <2>3 DEF Accepts
    <3>4. \A m \in Mode : host'.books[m] =
            IF m = c.by THEN host.books[m] \cup {[id |-> c.id, press |-> c.press]} ELSE host.books[m]
      <4>1. \A m \in Mode : Spent(host, c).books[m] =
              IF m = c.by THEN host.books[m] \cup {[id |-> c.id, press |-> c.press]} ELSE host.books[m]
        BY <2>1, SpentIsHost
      <4> QED BY <3>2, <4>1
    <3> QED BY <3>3, <3>4 DEF BooksMove
  <2> QED BY <1>26, <2>2, <2>3 DEF Decide, Decided, Emits
<1>27. ASSUME NEW c \in calls, Limit(c) PROVE BooksMove
  BY <1>a, <1>27 DEF Limit, vars
<1>28. ASSUME NEW c \in calls, CannotHear(c) PROVE BooksMove
  <2>1. c \in Calls /\ c.by \in Mode
    BY <1>28 DEF CannotHear, Calls
  <2>2. host' = host \/ (Accepts(c) /\ host' = Spent(host, c))
    BY <1>28 DEF CannotHear
  <2>3. CASE Accepts(c) /\ host' = Spent(host, c)
    <3>1. /\ c.case = c.by
          /\ \A m \in Mode : host'.books[m] =
               IF m = c.by THEN host.books[m] \cup {[id |-> c.id, press |-> c.press]} ELSE host.books[m]
      BY <2>1, <2>3, SpentIsHost DEF Accepts
    <3> QED BY <3>1 DEF BooksMove
  <2> QED BY <1>a, <2>2, <2>3
<1>29. ASSUME NEW c \in calls, Return(c) PROVE BooksMove
  BY <1>a, <1>29 DEF Return, vars
<1>30. CASE UNCHANGED vars
  BY <1>a, <1>30 DEF vars
<1> QED BY <1>1, <1>2, <1>3, <1>4, <1>5, <1>6, <1>7, <1>8, <1>9, <1>10, <1>11, <1>12, <1>13, <1>14, <1>15, <1>16, <1>17, <1>18, <1>19, <1>20, <1>21, <1>22, <1>23, <1>24, <1>25, <1>26, <1>27, <1>28, <1>29, <1>30 DEF Next

PressMove ==
  \/ /\ tab'.presses = tab.presses
     /\ tab'.press = "idle" \/ (tab.press # "idle" /\ tab'.case = tab.case)
  \/ tab'.presses = tab.presses + 1

SamePress(t) == t.press = tab.press /\ t.case = tab.case /\ t.presses = tab.presses

LEMMA PressStep ==
  ASSUME Types, [Next]_vars
  PROVE  PressMove
<1> USE OfTypes
<1>a. ASSUME NEW t, tab' = t, SamePress(t) PROVE PressMove
  BY <1>a DEF PressMove, SamePress
<1>b. ASSUME NEW t, Keeps(t), SamePress(t) PROVE PressMove
  BY <1>a, <1>b DEF Keeps
<1>c. SamePress(tab)
  BY DEF SamePress

<1>1. CASE Start
  BY <1>a, <1>c, <1>1 DEF Start, vars
<1>2. CASE Ready
  BY <1>a, <1>c, <1>2 DEF Ready, vars
<1>3. CASE Stop
  BY <1>a, <1>c, <1>3 DEF Stop, vars
<1>4. CASE Bump
  BY <1>a, <1>c, <1>4 DEF Bump, vars
<1>5. CASE BeginSwitch
  BY <1>a, <1>c, <1>5 DEF BeginSwitch, vars
<1>6. CASE FinishSwitch
  BY <1>a, <1>c, <1>6 DEF FinishSwitch, vars
<1>7. CASE FailSwitch
  BY <1>a, <1>c, <1>7 DEF FailSwitch, vars
<1>8. CASE Break
  BY <1>a, <1>c, <1>8 DEF Break, vars
<1>9. CASE StreamOpens
  BY <1>9 DEF StreamOpens, PressMove, Tabs
<1>10. CASE StreamFails
  BY <1>b, <1>10, Streams DEF StreamFails, SamePress
<1>11. CASE StreamRefused
  BY <1>b, <1>11, Streams DEF StreamRefused, SamePress
<1>12. CASE StreamBreaks
  BY <1>b, <1>12, Streams DEF StreamBreaks, SamePress
<1>13. CASE Frame
  <2> DEFINE t == Apply(tab, Head(link.pipe))
  <2>1. Head(link.pipe) \in Sent
    BY <1>13, HeadTailProperties DEF Frame, Links
  <2>2. tab' = [t EXCEPT !.errors = 0, !.late = FALSE]
    BY <1>13 DEF Frame
  <2>3. t \in Tabs /\ SamePress(t)
    BY <2>1, Applied DEF SamePress
  <2> HIDE DEF t
  <2> QED BY <2>2, <2>3 DEF Tabs, PressMove, SamePress
<1>14. CASE Reconnect
  <2> DEFINE t == [tab EXCEPT !.timer = FALSE]
  <2>1. t \in Tabs /\ SamePress(t) /\ Bootstrap(t)
    BY <1>14, Timed DEF SameView, SamePress, Reconnect
  <2> HIDE DEF t
  <2>2. SamePress(tab')
    BY <2>1, BootstrapTab DEF SamePress
  <2> QED BY <1>a, <2>2
<1>15. CASE AskMode
  BY <1>a, <1>c, <1>15 DEF AskMode, vars
<1>16. ASSUME NEW k \in Asks, Ask(k) PROVE PressMove
  <2> DEFINE t == IF k = "refresh" THEN [tab EXCEPT !.timer = FALSE] ELSE tab
  <2>1. t \in Tabs /\ SamePress(t) /\ (Bootstrap(t) \/ tab' = tab)
    BY <1>16, Timed DEF SameView, SamePress, Ask
  <2> HIDE DEF t
  <2>2. SamePress(tab')
    BY <2>1, <1>c, BootstrapTab DEF SamePress
  <2> QED BY <1>a, <2>2
<1>17. ASSUME NEW k \in Pull, Answer(k) PROVE PressMove
  BY <1>a, <1>c, <1>17 DEF Answer, vars
<1>18. ASSUME NEW k \in Pull, Lose(k) PROVE PressMove
  BY <1>a, <1>c, <1>18 DEF Lose, vars
<1>19. ASSUME NEW k \in Pull, Arrive(k) PROVE PressMove
  <2>1. CASE pulls[k].at = "answered"
    <3> DEFINE w == pulls[k].wire
               s == [[tab EXCEPT !.starting = FALSE] EXCEPT !.timer = FALSE]
    <3>1. w \in Sent /\ s \in Tabs /\ SamePress(s)
      BY <2>1, Timed DEF Pulls, SameView, SamePress
    <3>2. Keeps(IF k = "state" THEN OpenStream(Landed(s, w)) ELSE Landed(tab, w))
      <4>1. [tab EXCEPT !.starting = FALSE, !.timer = FALSE] = s
        OBVIOUS
      <4> QED BY <1>19, <2>1, <4>1 DEF Arrive
    <3> HIDE DEF w, s
    <3>3. SamePress(Landed(tab, w)) /\ SamePress(Landed(s, w)) /\ Landed(s, w) \in Tabs
      BY <3>1, Landing DEF SamePress, Shows
    <3>4. SamePress(OpenStream(Landed(s, w)))
      BY <3>3, Streams DEF SamePress
    <3> QED BY <1>b, <3>2, <3>3, <3>4
  <2>2. CASE pulls[k].at # "answered"
    <3> DEFINE s == [tab EXCEPT !.starting = FALSE]
    <3>1. s \in Tabs /\ SamePress(s)
      BY Timed DEF SameView, SamePress
    <3>2. Keeps(IF k = "state" THEN GoOffline(s) ELSE tab)
      BY <1>19, <2>2 DEF Arrive
    <3> HIDE DEF s
    <3>3. SamePress(GoOffline(s))
      BY <3>1, Streams DEF SamePress
    <3> QED BY <1>b, <1>c, <3>2, <3>3
  <2> QED BY <2>1, <2>2
<1>20. CASE Press
  <2>1. tab' = [tab EXCEPT !.press = "first", !.presses = tab.presses + 1, !.case = tab.view.mode]
    BY <1>20 DEF Press
  <2> QED BY <2>1 DEF PressMove, Tabs
<1>21. CASE Retry
  BY <1>21 DEF Retry, PressMove, Tabs
<1>22. CASE GiveUp
  <2>1. tab.press # "idle" /\ tab' = Tired(tab)
    BY <1>22 DEF GiveUp
  <2> QED BY <2>1, Tiring DEF PressMove
<1>23. CASE Dispose
  BY <1>23 DEF Dispose, Keeps, PressMove, Tabs
<1>24. ASSUME NEW c \in calls, Receive(c) PROVE PressMove
  BY <1>a, <1>c, <1>24 DEF Receive, vars
<1>25. ASSUME NEW c \in calls, Begin(c) PROVE PressMove
  BY <1>a, <1>c, <1>25 DEF Begin, vars
<1>26. ASSUME NEW c \in calls, Decide(c) PROVE PressMove
  BY <1>a, <1>c, <1>26 DEF Decide, vars
<1>27. ASSUME NEW c \in calls, Limit(c) PROVE PressMove
  BY <1>a, <1>c, <1>27 DEF Limit, vars
<1>28. ASSUME NEW c \in calls, CannotHear(c) PROVE PressMove
  BY <1>a, <1>c, <1>28 DEF CannotHear, vars
<1>29. ASSUME NEW c \in calls, Return(c) PROVE PressMove
  <2>1. CASE Awaited(c) /\ c.at = "answered"
    <3> DEFINE t == Landed(tab, c.wire)
    <3>1. tab' = [t EXCEPT !.press = "idle"]
      BY <1>29, <2>1 DEF Return
    <3>2. t \in Tabs /\ SamePress(t)
      BY <2>1, Landing DEF Calls, Shows, SamePress
    <3> HIDE DEF t
    <3> QED BY <3>1, <3>2 DEF Tabs, PressMove, SamePress
  <2>2. CASE ~ (Awaited(c) /\ c.at = "answered")
    <3>1. \/ tab' = tab
          \/ tab' = [tab EXCEPT !.press = "idle"]
          \/ Awaited(c) /\ tab' = Tired(tab)
      BY <1>29, <2>2 DEF Return
    <3>2. Awaited(c) => tab.press # "idle"
      BY DEF Awaited
    <3>3. [tab EXCEPT !.press = "idle"].press = "idle"
          /\ [tab EXCEPT !.press = "idle"].presses = tab.presses
      BY DEF Tabs
    <3> QED BY <1>a, <1>c, <3>1, <3>2, <3>3, Tiring DEF PressMove
  <2> QED BY <2>1, <2>2
<1>30. CASE UNCHANGED vars
  BY <1>a, <1>c, <1>30 DEF vars
<1> QED BY <1>1, <1>2, <1>3, <1>4, <1>5, <1>6, <1>7, <1>8, <1>9, <1>10, <1>11, <1>12, <1>13, <1>14, <1>15, <1>16, <1>17, <1>18, <1>19, <1>20, <1>21, <1>22, <1>23, <1>24, <1>25, <1>26, <1>27, <1>28, <1>29, <1>30 DEF Next

\* A vote on its way was on its way, or is the press of now.
CallsOwn ==
  \A c \in calls' : \/ \E d \in calls : c.press = d.press /\ c.case = d.case /\ c.id = d.id
                    \/ /\ c.press = tab'.presses /\ c.case = tab'.case
                       /\ tab'.press # "idle"

LEMMA CallsStep ==
  ASSUME Types, [Next]_vars
  PROVE  CallsOwn
<1> USE OfTypes
<1>a. ASSUME calls' \subseteq calls PROVE CallsOwn
  BY <1>a DEF CallsOwn
<1>b. ASSUME NEW c \in calls, NEW d, Replace(c, d), d.press = c.press, d.case = c.case, d.id = c.id
      PROVE  CallsOwn
  BY <1>b DEF CallsOwn, Replace

<1>1. CASE Start
  BY <1>a, <1>1 DEF Start, vars
<1>2. CASE Ready
  BY <1>a, <1>2 DEF Ready, vars
<1>3. CASE Stop
  <2>1. calls' = {IF c.at \in {"queued", "running"} THEN [c EXCEPT !.at = "failed"] ELSE c : c \in calls}
    BY <1>3 DEF Stop
  <2>2. \A c \in calls : /\ [c EXCEPT !.at = "failed"].press = c.press
                         /\ [c EXCEPT !.at = "failed"].case = c.case
                         /\ [c EXCEPT !.at = "failed"].id = c.id
    BY DEF Calls
  <2> QED BY <2>1, <2>2 DEF CallsOwn
<1>4. CASE Bump
  BY <1>a, <1>4 DEF Bump, vars
<1>5. CASE BeginSwitch
  BY <1>a, <1>5 DEF BeginSwitch, vars
<1>6. CASE FinishSwitch
  BY <1>a, <1>6 DEF FinishSwitch, vars
<1>7. CASE FailSwitch
  BY <1>a, <1>7 DEF FailSwitch, vars
<1>8. CASE Break
  BY <1>a, <1>8 DEF Break, vars
<1>9. CASE StreamOpens
  BY <1>a, <1>9 DEF StreamOpens, vars
<1>10. CASE StreamFails
  BY <1>a, <1>10 DEF StreamFails, vars
<1>11. CASE StreamRefused
  BY <1>a, <1>11 DEF StreamRefused, vars
<1>12. CASE StreamBreaks
  BY <1>a, <1>12 DEF StreamBreaks, vars
<1>13. CASE Frame
  BY <1>a, <1>13 DEF Frame, vars
<1>14. CASE Reconnect
  BY <1>a, <1>14 DEF Reconnect, vars
<1>15. CASE AskMode
  BY <1>a, <1>15 DEF AskMode, vars
<1>16. ASSUME NEW k \in Asks, Ask(k) PROVE CallsOwn
  BY <1>a, <1>16 DEF Ask, vars
<1>17. ASSUME NEW k \in Pull, Answer(k) PROVE CallsOwn
  BY <1>a, <1>17 DEF Answer, vars
<1>18. ASSUME NEW k \in Pull, Lose(k) PROVE CallsOwn
  BY <1>a, <1>18 DEF Lose, vars
<1>19. ASSUME NEW k \in Pull, Arrive(k) PROVE CallsOwn
  BY <1>a, <1>19 DEF Arrive, vars
<1>20. CASE Press
  <2>1. PICK t \in {[tab EXCEPT !.press = "first", !.presses = @ + 1, !.case = tab.view.mode]} :
          tab' = t /\ calls' = calls \cup {VoteCall(t, 1)}
    BY <1>20 DEF Press
  <2>2. t.press = "first" /\ VoteCall(t, 1).press = t.presses /\ VoteCall(t, 1).case = t.case
    BY DEF VoteCall, Tabs
  <2> QED BY <2>1, <2>2 DEF CallsOwn
<1>21. CASE Retry
  <2>1. calls' = calls \cup {VoteCall(tab, 2)} /\ tab' = [tab EXCEPT !.press = "second"]
    BY <1>21 DEF Retry
  <2>2. VoteCall(tab, 2).press = tab.presses /\ VoteCall(tab, 2).case = tab.case
    BY DEF VoteCall
  <2>3. tab'.press = "second" /\ tab'.presses = tab.presses /\ tab'.case = tab.case
    BY <2>1 DEF Tabs
  <2> QED BY <2>1, <2>2, <2>3 DEF CallsOwn
<1>22. CASE GiveUp
  BY <1>a, <1>22 DEF GiveUp, vars
<1>23. CASE Dispose
  BY <1>a, <1>23 DEF Dispose, vars
<1>24. ASSUME NEW c \in calls, Receive(c) PROVE CallsOwn
  BY <1>b, <1>24 DEF Receive, Calls
<1>25. ASSUME NEW c \in calls, Begin(c) PROVE CallsOwn
  BY <1>b, <1>25 DEF Begin, Calls
<1>26. ASSUME NEW c \in calls, Decide(c) PROVE CallsOwn
  BY <1>b, <1>26 DEF Decide, Decided, Calls
<1>27. ASSUME NEW c \in calls, Limit(c) PROVE CallsOwn
  BY <1>b, <1>27 DEF Limit, Calls
<1>28. ASSUME NEW c \in calls, CannotHear(c) PROVE CallsOwn
  BY <1>b, <1>28 DEF CannotHear, Calls
<1>29. ASSUME NEW c \in calls, Return(c) PROVE CallsOwn
  BY <1>a, <1>29 DEF Return, vars
<1>30. CASE UNCHANGED vars
  BY <1>a, <1>30 DEF vars
<1> QED BY <1>1, <1>2, <1>3, <1>4, <1>5, <1>6, <1>7, <1>8, <1>9, <1>10, <1>11, <1>12, <1>13, <1>14, <1>15, <1>16, <1>17, <1>18, <1>19, <1>20, <1>21, <1>22, <1>23, <1>24, <1>25, <1>26, <1>27, <1>28, <1>29, <1>30 DEF Next

LEMMA OwnersStep ==
  ASSUME Types, [Next]_vars
  PROVE  OwnersMove
<1> USE OfTypes
<1>1. CASE tab'.presses = tab.presses
  <2>1. \A n \in Nat, m \in Mode \cup {"none"} : Owns(n, m)' => Owns(n, m)
    <3> SUFFICES ASSUME NEW n \in Nat, NEW m \in Mode \cup {"none"}, Owns(n, m)' PROVE Owns(n, m)
      OBVIOUS
    <3>1. tab'.press # "idle" => tab.press # "idle" /\ tab'.case = tab.case
      BY <1>1, PressStep DEF PressMove, Tabs
    <3>2. ASSUME NEW c \in calls', c.press = n, c.case = m PROVE Owns(n, m)
      BY <1>1, <3>1, <3>2, CallsStep DEF CallsOwn, Owns
    <3>3. ASSUME m \in Mode, NEW b \in host'.books[m], b.press = n PROVE Owns(n, m)
      BY <3>3, BooksStep DEF BooksMove, Owns
    <3>4. ASSUME tab'.press # "idle", tab'.presses = n, tab'.case = m PROVE Owns(n, m)
      BY <1>1, <3>1, <3>4 DEF Owns
    <3> QED BY <3>2, <3>3, <3>4 DEF Owns
  <2>2. Owned' = {x \in Nat \X (Mode \cup {"none"}) : Owns(x[1], x[2])'}
    BY DEF Owned
  <2> QED BY <1>1, <2>1, <2>2 DEF Owned, OwnersMove
<1>2. CASE tab'.presses = tab.presses + 1
  <2>1. \A n \in Nat, m \in Mode \cup {"none"} :
          Owns(n, m)' => Owns(n, m) \/ (n = tab.presses + 1 /\ m = tab'.case)
    <3> SUFFICES ASSUME NEW n \in Nat, NEW m \in Mode \cup {"none"}, Owns(n, m)'
                 PROVE  Owns(n, m) \/ (n = tab.presses + 1 /\ m = tab'.case)
      OBVIOUS
    <3>2. ASSUME NEW c \in calls', c.press = n, c.case = m
          PROVE  Owns(n, m) \/ (n = tab.presses + 1 /\ m = tab'.case)
      BY <1>2, <3>2, CallsStep DEF CallsOwn, Owns
    <3>3. ASSUME m \in Mode, NEW b \in host'.books[m], b.press = n PROVE Owns(n, m)
      BY <3>3, BooksStep DEF BooksMove, Owns
    <3> QED BY <1>2, <3>2, <3>3 DEF Owns
  <2>2. Owned' = {x \in Nat \X (Mode \cup {"none"}) : Owns(x[1], x[2])'}
    BY DEF Owned
  <2>3. Owned' \subseteq Owned \cup {<<tab.presses + 1, tab'.case>>}
    <3> SUFFICES ASSUME NEW x \in Owned', x \notin Owned PROVE x = <<tab.presses + 1, tab'.case>>
      OBVIOUS
    <3>1. x = <<x[1], x[2]>> /\ x[1] \in Nat /\ x[2] \in Mode \cup {"none"} /\ Owns(x[1], x[2])'
      BY <2>2
    <3>2. ~ Owns(x[1], x[2])
      BY <2>2 DEF Owned
    <3> QED BY <2>1, <3>1, <3>2
  <2> QED BY <1>2, <2>3 DEF OwnersMove
<1> QED BY <1>1, <1>2, PressStep DEF PressMove

\* Two votes of a press are one, in one authority's books.
LEMMA OnceIsOne ==
  ASSUME OwnedOnce(Owned, tab.presses), Booked, host \in Hosts
  PROVE  PressSpendsOnce
<1> SUFFICES ASSUME NEW n \in 1 .. tab.presses
             PROVE  LET S == UNION {{m} \X {b \in host.books[m] : b.press = n} : m \in Mode}
                    IN  Cardinality(S) <= 1
  BY DEF PressSpendsOnce
<1> DEFINE S == UNION {{m} \X {b \in host.books[m] : b.press = n} : m \in Mode}
<1>1. \A x \in S : /\ x = <<x[1], x[2]>> /\ x[1] \in Mode /\ x[2] \in host.books[x[1]]
                   /\ x[2].press = n
  OBVIOUS
<1>2. \A x \in S : x[2] = [id |-> n, press |-> n] /\ <<n, x[1]>> \in Owned
  <2> SUFFICES ASSUME NEW x \in S PROVE x[2] = [id |-> n, press |-> n] /\ <<n, x[1]>> \in Owned
    OBVIOUS
  <2>1. x[1] \in Mode /\ x[2] \in host.books[x[1]] /\ x[2].press = n
    BY <1>1
  <2> HIDE DEF S
  <2>2. x[2].id = n /\ x[2] \in [id : Nat, press : Nat]
    BY <2>1 DEF Booked, Hosts
  <2>3. <<n, x[1]>> \in Owned
    <3>1. Owns(n, x[1]) /\ n \in Nat
      BY <2>1 DEF Owns
    <3> QED BY <2>1, <3>1 DEF Owned
  <2> QED BY <2>1, <2>2, <2>3
<1>3. \A x, y \in S : x = y
  <2> SUFFICES ASSUME NEW x \in S, NEW y \in S PROVE x = y
    OBVIOUS
  <2>1. <<n, x[1]>>[2] = <<n, y[1]>>[2]
    <3>1. <<n, x[1]>> \in Owned /\ <<n, y[1]>> \in Owned
      BY <1>2
    <3> QED BY <3>1 DEF OwnedOnce
  <2> HIDE DEF S
  <2>2. x[1] = y[1]
    BY <2>1
  <2>4. x[2] = y[2]
    <3>1. x[2] = [id |-> n, press |-> n]
      BY <1>2
    <3>2. y[2] = [id |-> n, press |-> n]
      BY <1>2
    <3> QED BY <3>1, <3>2, Zenon
  <2>3. x = <<x[1], x[2]>> /\ y = <<y[1], y[2]>>
    BY <1>1
  <2> QED BY <2>2, <2>3, <2>4
<1> HIDE DEF S
<1>4. CASE S = {}
  BY <1>4, FS_EmptySet DEF S
<1>5. CASE S # {}
  <2>1. PICK x \in S : S = {x}
    BY <1>3, <1>5
  <2> QED BY <2>1, FS_Singleton DEF S
<1> QED BY <1>4, <1>5

\* One press is spent once, by the authority of the case it was made for, in whatever order
\* its attempts are lost, delayed, retried, restarted under or switched under.
THEOREM SpendsOnce == Spec => []PressSpendsOnce
<1> DEFINE Inv == Types /\ Streaming /\ OwnedOnce(Owned, tab.presses) /\ Booked
<1>1. Init => Inv
  <2> SUFFICES ASSUME Init PROVE Inv
    OBVIOUS
  <2>1. calls = {} /\ tab.press = "idle" /\ \A m \in Mode : host.books[m] = {}
    BY DEF Init
  <2>2. Owned = {}
    <3>1. \A n, m : ~ Owns(n, m)
      BY <2>1 DEF Owns
    <3> QED BY <3>1 DEF Owned
  <2> QED BY <2>1, <2>2, Started DEF OwnedOnce, Booked
<1>2. Inv /\ [Next]_vars => Inv'
  <2> SUFFICES ASSUME Inv, [Next]_vars PROVE Inv'
    OBVIOUS
  <2>1. Types' /\ Streaming'
    BY TypesStep, StreamingStep
  <2>2. OwnedOnce(Owned', tab'.presses)
    <3>1. tab.presses \in Nat
      BY DEF Types, Tabs
    <3>2. CASE tab'.presses = tab.presses /\ Owned' \subseteq Owned
      BY <3>2 DEF OwnedOnce
    <3>3. CASE /\ tab'.presses = tab.presses + 1
               /\ Owned' \subseteq Owned \cup {<<tab.presses + 1, tab'.case>>}
      BY <3>1, <3>3, OwnersKept
    <3> QED BY <3>2, <3>3, OwnersStep DEF OwnersMove
  <2>3. Booked'
    <3>1. \A c \in calls : c.id = c.press
      BY DEF Types, Calls
    <3> QED BY <3>1, BooksStep DEF Booked, BooksMove
  <2> QED BY <2>1, <2>2, <2>3
<1>3. Inv => PressSpendsOnce
  BY OnceIsOne DEF Types
<1> QED BY <1>1, <1>2, <1>3, PTL DEF Spec
=============================================================================
