---------------------------- MODULE LocalAuthority ----------------------------
(***************************************************************************)
(* The offline authority (FakeAuthoritativeLiangService): one process that *)
(* owns the day's cases, the balance, the votes with their receipts, and   *)
(* the archives of past days and periods.  Every handler is synchronous    *)
(* and first rotates to the date of the clock; what it changes is queued   *)
(* on the local domain's write chain, in order.  A crash keeps a prefix of *)
(* that chain.  The storage may attach late, after the process has begun   *)
(* to serve from memory, and attaches again whenever the user comes back   *)
(* to this authority.                                                      *)
(*                                                                         *)
(* Tokens are counted in whole sticks; the vote bucket offers any amount   *)
(* (VoteRateLimiter models the refill); both directions count alike, and   *)
(* what a replay answers changes nothing; a week and a month are periods   *)
(* of Span days.                                                           *)
(***************************************************************************)
EXTENDS Integers, Sequences, FiniteSetsExt, SequencesExt, WireContract

CONSTANTS
  Request,      \* request ids of the votes
  Cases,        \* LOCAL_CASE_TITLES.length
  Span,         \* days in a period
  MaxCount,     \* VOTE_COUNT_MAX
  Starter,      \* starterIncense
  LastDay,      \* bound: business days
  MaxEarned,    \* bound: sticks earned in a day
  MaxActs       \* bound: changes of case, returns to this authority, starts and crashes

ASSUME LocalAssumption ==
  /\ \A n \in {Cases, Span, MaxCount, LastDay} : n \in Nat \ {0}
  /\ \A n \in {Starter, MaxEarned, MaxActs} : n \in Nat

VARIABLES
  day,       \* the business day of the Host's clock
  host,      \* what the process holds
  chain,     \* images of the local domain: the first is durable, the last is what a load reads
  refunded,  \* history: sticks the hydration guard gave back, per day
  faults,    \* history: among "crash" and "late", what has happened
  used       \* the acts that MaxActs bounds

vars == <<day, host, chain, refunded, faults, used>>
-----------------------------------------------------------------------------
Days == 1 .. LastDay
Case == Days \X (0 .. Cases - 1)

NoVotes == [votes |-> 0, voters |-> 0]
NoRows  == [daily |-> <<>>, ledger |-> <<>>, agg |-> <<>>, receipt |-> <<>>, index |-> <<>>,
            days |-> <<>>, periods |-> <<>>, migrated |-> <<>>]

\* Maps: a key that was never set is not in the domain.
Get(map, key, default) == IF key \in DOMAIN map THEN map[key] ELSE default
With(map, key, value)  == [k \in DOMAIN map \cup {key} |-> IF k = key THEN value ELSE map[k]]
Over(new, map)         == [k \in DOMAIN new \cup DOMAIN map |-> IF k \in DOMAIN new THEN new[k] ELSE map[k]]

DatesIn(rows)    == {c[1] : c \in DOMAIN rows.agg}
CasesOn(rows, d) == {c \in DOMAIN rows.agg : c[1] = d}

Total(rows, field, d) == SumFunctionOnSet([c \in DOMAIN rows.agg |-> rows.agg[c][field]], CasesOn(rows, d))
VotesOn(rows, d)      == Total(rows, "votes", d)

\* A process starts with empty maps, no date and no storage; "s" below is [host, chain].
NewHost == [rows |-> NoRows, ready |-> FALSE, sink |-> FALSE, date |-> 0, case |-> 0,
            open |-> NoVotes, spent |-> 0, version |-> 0, refund |-> 0]

\* A put changes the map and queues the row.
Write(s, table, key, value) ==
  [host  |-> [s.host EXCEPT !.rows[table] = With(@, key, value)],
   chain |-> IF s.host.sink
             THEN Append(s.chain, [Last(s.chain) EXCEPT ![table] = With(@, key, value)])
             ELSE s.chain]

\* New rows are put in the order of their keys: the i-th image has the i least.
FirstRows(new, i) ==
  [k \in {k \in DOMAIN new : Cardinality({j \in DOMAIN new : j <= k}) <= i} |-> new[k]]

WriteRows(s, table, new) ==
  [host  |-> [s.host EXCEPT !.rows[table] = Over(new, @)],
   chain |-> IF s.host.sink
             THEN s.chain \o [i \in 1 .. Cardinality(DOMAIN new) |->
                                [Last(s.chain) EXCEPT ![table] = Over(FirstRows(new, i), @)]]
             ELSE s.chain]

Active(s)  == <<s.host.date, s.host.case>>
Earned(s)  == Get(s.host.rows.daily, s.host.date, 0)
Balance(s) == Earned(s) + Starter - s.host.spent
-----------------------------------------------------------------------------
(* The archives: finalizePersistedDaysBefore. *)

PeriodOf(d) == (d - 1) \div Span
EndOf(p)    == (p + 1) * Span

\* fault, for Unarchived: only the day that just ended
JustEnded(rows, next) == {d \in DatesIn(rows) : d = next - 1 /\ d \notin DOMAIN rows.days}

Unarchived(rows, next) == {d \in DatesIn(rows) : d < next /\ d \notin DOMAIN rows.days}

FinalizeLocalDay(rows, d, version) ==
  [votes |-> VotesOn(rows, d), voters |-> Total(rows, "voters", d),
   cases |-> Cardinality(CasesOn(rows, d)), version |-> version]

Covered(rows, p) == {d \in DOMAIN rows.days : PeriodOf(d) = p}

Unsealed(rows, next) ==
  {p \in {PeriodOf(d) : d \in DOMAIN rows.days} : EndOf(p) < next /\ p \notin DOMAIN rows.periods}

\* Votes add up over the days; voters are the largest day's.
FinalizePeriod(rows, p, version) ==
  [votes |-> SumFunctionOnSet([d \in DOMAIN rows.days |-> rows.days[d].votes], Covered(rows, p)),
   voters |-> Max({rows.days[d].voters : d \in Covered(rows, p)}),
   covered |-> Covered(rows, p), version |-> version]

FinalizeDays(s, next, version) ==
  WriteRows(s, "days", [d \in Unarchived(s.host.rows, next) |->
                          FinalizeLocalDay(s.host.rows, d, version)])

FinalizeCompletedPeriods(s, next, version) ==
  WriteRows(s, "periods", [p \in Unsealed(s.host.rows, next) |->
                             FinalizePeriod(s.host.rows, p, version)])

\* The version moves when something was archived.
Versioned(old, new, version) == IF new = old THEN old ELSE [new EXCEPT !.host.version = version]

\* Days first, then the periods they complete, all under one new version.
Finalize(s, next, version) ==
  Versioned(s, FinalizeCompletedPeriods(FinalizeDays(s, next, version), next, version), version)
-----------------------------------------------------------------------------
(* rotateToCurrentDate *)

\* openLocalCase
Opening(s)         == [s EXCEPT !.host.open = Get(s.host.rows.agg, Active(s), NoVotes)]
OpenCase(s, index) == Opening([s EXCEPT !.host.case = index])

\* The case in "s" keeps its votes.
Parked(s) == Write(s, "agg", Active(s), s.host.open)

\* Until the date moves on, the case that was open; then the archives of every earlier day.
Closed(s) == IF s.host.date \in 1 .. day - 1 THEN Parked(s) ELSE s
Dated(s)  == [Finalize(s, day, s.host.version + 1) EXCEPT !.host.date = day]

\* The date's case is opened, and written even when nobody has voted on it.
Reopened(s, index) == Parked(OpenCase(Write(s, "index", day, index), index))

Hydrated(s) == [s EXCEPT !.host.spent = Get(s.host.rows.ledger, day, 0)]

\* The hydration guard: sticks spent beyond those earned are struck from the ledger.
Guarded(s) ==
  IF s.host.spent <= Earned(s) THEN s
  ELSE Write([s EXCEPT !.host.spent = Earned(s), !.host.refund = @ + s.host.spent - Earned(s)],
             "ledger", s.host.date, Earned(s))

Rotate(s)  == Guarded(Hydrated(Reopened(s, Get(s.host.rows.index, day, 0))))
Rotated(s) == IF s.host.date = day THEN s ELSE Rotate(Dated(Closed(s)))

\* getWireState, once rotated; a stick counts for one token, and what is published is
\* taken to be the newest totals of the case.
Frame(d, h) ==
  LET earned == Get(h.rows.daily, d, 0) + Starter
  IN  [up |-> h.open.votes, down |-> 0, voters |-> h.open.voters,
       tokens |-> earned, used |-> h.spent, remaining |-> earned - h.spent, perStick |-> 1]

\* What every handler starts from.
Now == {Rotated([host |-> host, chain |-> chain])}

\* A handler leaves "s"; what the guard gave back moves to the history.
Becomes(s) ==
  /\ host' = [s.host EXCEPT !.refund = 0]
  /\ chain' = s.chain
  /\ refunded' = [refunded EXCEPT ![day] = @ + s.host.refund]
-----------------------------------------------------------------------------
(* The handlers. *)

\* observeUsage and creditSimulatedUsage, for an observation that completes a stick.
Credit ==
  /\ host.ready
  /\ \E s \in Now :
       /\ Earned(s) < MaxEarned
       /\ Becomes(Write(s, "daily", day, Earned(s) + 1))
  /\ UNCHANGED <<day, faults, used>>

\* tick, refreshNow, getWireState and history; and the vote that changes nothing else:
\* a replay, a conflicting payload, or one that finds the bucket empty.
Look ==
  /\ \E s \in Now : Becomes(s)
  /\ UNCHANGED <<day, faults, used>>

\* A browser asks for the active case, or for one it saw before.
Intent(s) == [case : {Active(s)} \cup DOMAIN s.host.rows.agg, count : 1 .. MaxCount]

Receipt(intent, status, spent) == [case |-> intent.case, status |-> status, spent |-> spent]

\* Not the active case, or no stick to spend: the refusal is kept as well.
Refuse(s, r, intent) ==
  /\ intent.case # Active(s) \/ Balance(s) = 0
  /\ Becomes(Write(s, "receipt", r, Receipt(intent, "rejected", 0)))

FirstVote(s) ==
  \A r \in DOMAIN s.host.rows.receipt :
    LET receipt == s.host.rows.receipt[r] IN receipt.status = "accepted" => receipt.case # Active(s)

\* fault, for Spend: the wish is not clamped to the balance
Wished(want, left, available) == Min({want, available})

\* clampVoteSpend
Spend(want, left, available) == Min({want, left, available})

Counted(s, spent) ==
  [s EXCEPT !.host.spent = @ + spent,
            !.host.open.votes = @ + spent,
            !.host.open.voters = @ + IF FirstVote(s) THEN 1 ELSE 0]

\* fault, for Recorded: the receipt is written first
ReceiptFirst(s, r, receipt) ==
  Parked(Write(Write(s, "receipt", r, receipt), "ledger", day, s.host.spent))

\* The ledger, the aggregate and the receipt are written in this order.
Recorded(s, r, receipt) ==
  Write(Parked(Write(s, "ledger", day, s.host.spent)), "receipt", r, receipt)

Accept(s, r, intent, available) ==
  LET spent == Spend(intent.count, Balance(s), available) IN
  /\ intent.case = Active(s) /\ Balance(s) > 0
  /\ Becomes(Recorded(Counted(s, spent), r, Receipt(intent, "accepted", spent)))

\* A request id is new only once.
Vote(r) ==
  /\ host.ready
  /\ \E s \in Now :
       /\ r \notin DOMAIN s.host.rows.receipt
       /\ \E intent \in Intent(s) :
            Refuse(s, r, intent) \/ \E available \in 1 .. MaxCount : Accept(s, r, intent, available)
  /\ UNCHANGED <<day, faults, used>>

Act == used < MaxActs /\ used' = used + 1

Cycled(s, next) == OpenCase(Write(Parked(s), "index", day, next), next)

CycleLocalCase ==
  /\ host.ready /\ Act
  /\ \E s \in Now : Becomes(Cycled(s, (s.host.case + 1) % Cases))
  /\ UNCHANGED <<day, faults>>

Midnight == day < LastDay /\ day' = day + 1 /\ UNCHANGED <<host, chain, refunded, faults, used>>
-----------------------------------------------------------------------------
(* Storage. *)

\* What v0.8.1 left in the core domain: one vote of day 1.
LegacyRows ==
  [NoRows EXCEPT !.ledger = [d \in {1} |-> 1],
                 !.agg = [c \in {<<1, 0>>} |-> [votes |-> 1, voters |-> 1]],
                 !.receipt = [r \in {"legacy"} |->
                   [case |-> <<1, 0>>, status |-> "accepted", spent |-> 1]],
                 !.daily = [d \in {1} |-> 1]]

\* openLiangxiangLocalPersistence copies them once, row by row; local rows win.
CopyTable(images, table) ==
  Append(images, [Last(images) EXCEPT ![table] = Over(@, LegacyRows[table])])

Mark(images) == Append(images, [Last(images) EXCEPT !.migrated = [m \in {1} |-> TRUE]])

Split(images) ==
  Mark(CopyTable(CopyTable(CopyTable(CopyTable(images, "ledger"), "agg"), "receipt"), "daily"))

Opened(images) == IF Last(images).migrated = <<>> THEN Split(images) ELSE images

Merged(current, loaded) ==
  [d \in DOMAIN current \cup DOMAIN loaded |-> Max({Get(current, d, 0), Get(loaded, d, 0)})]

Versions(rows) == {rows.days[d].version : d \in DOMAIN rows.days}
                    \cup {rows.periods[p].version : p \in DOMAIN rows.periods}

\* The rows are loaded only by a process that has not served yet; the daily totals always merge.
Loaded(loaded) ==
  [(IF host.ready THEN host.rows ELSE loaded) EXCEPT !.daily = Merged(host.rows.daily, loaded.daily)]

Attached(rows) ==
  [host EXCEPT !.rows = rows, !.sink = TRUE, !.date = 0, !.ready = TRUE,
               !.version = Max({0} \cup Versions(rows))]

\* attachPersistence rotates the date again, whatever it was.
AttachPersistence ==
  /\ Act
  /\ \E images \in {Opened(chain)} :
       Becomes(Rotated([host |-> Attached(Loaded(Last(images))), chain |-> images]))
  /\ faults' = faults \cup IF host.ready /\ ~ host.sink THEN {"late"} ELSE {}
  /\ UNCHANGED day

\* The 5 s window passed: served from memory.
MarkReadyMemoryOnly ==
  /\ ~ host.ready /\ Act
  /\ Becomes([host |-> [host EXCEPT !.ready = TRUE], chain |-> chain])
  /\ UNCHANGED <<day, faults>>

\* The constructor rotates the empty maps.
Constructed == Rotated([host |-> NewHost, chain |-> <<>>]).host

\* The process ends with the first "i" images written, and another one starts.
Crash(i) ==
  /\ Act
  /\ chain' = <<chain[i]>>
  /\ host' = Constructed
  /\ faults' = IF host.sink /\ i = Len(chain) THEN faults ELSE faults \cup {"crash"}
  /\ UNCHANGED <<day, refunded>>
-----------------------------------------------------------------------------
(* The schemas of the local domain. *)

\* ledgerSchema, dailyUsageSchema and aggregateSchema
CountsAccepted(rows) ==
  /\ \A d \in DOMAIN rows.daily : rows.daily[d] \in Nat
  /\ \A d \in DOMAIN rows.ledger : rows.ledger[d] \in Nat
  /\ \A c \in DOMAIN rows.agg : rows.agg[c] \in [votes : Nat, voters : Nat]

\* voteSchema: a refusal has no spend.
ReceiptAccepted(receipt) ==
  \/ receipt.status = "accepted" /\ receipt.spent \in 1 .. MaxCount
  \/ receipt.status = "rejected"

\* deriveArchiveResult throws on more voters than votes.
ArchiveResult(archive) == archive.votes \in Nat /\ archive.voters \in 0 .. archive.votes

\* dayArchiveSchema
DayAccepted(archive) == archive.cases > 0 /\ ArchiveResult(archive)

\* weekArchiveSchema and monthArchiveSchema: the key is the period of the rows.
PeriodAccepted(p, archive) ==
  ArchiveResult(archive) /\ \A d \in archive.covered : PeriodOf(d) = p

RowsAccepted(rows) ==
  /\ CountsAccepted(rows)
  /\ \A r \in DOMAIN rows.receipt : ReceiptAccepted(rows.receipt[r])
  /\ \A d \in DOMAIN rows.index : rows.index[d] \in Nat
  /\ \A d \in DOMAIN rows.days : DayAccepted(rows.days[d])
  /\ \A p \in DOMAIN rows.periods : PeriodAccepted(p, rows.periods[p])
-----------------------------------------------------------------------------
\* A new installation, or one that v0.8.1 left.
Init ==
  /\ day = 1
  /\ \E migrated \in {<<>>, [m \in {1} |-> TRUE]} : chain = <<[NoRows EXCEPT !.migrated = migrated]>>
  /\ host = Constructed
  /\ refunded = [d \in Days |-> 0] /\ faults = {} /\ used = 0

Next == \/ Credit \/ Look \/ CycleLocalCase \/ Midnight
        \/ \E r \in Request : Vote(r)
        \/ AttachPersistence \/ MarkReadyMemoryOnly
        \/ \E i \in DOMAIN chain : Crash(i)

Spec == Init /\ [][Next]_vars
-----------------------------------------------------------------------------
Receipts(rows, d) ==
  SumFunctionOnSet([r \in DOMAIN rows.receipt |-> rows.receipt[r].spent],
                   {r \in DOMAIN rows.receipt : rows.receipt[r].case[1] = d})

\* The shape of the state.
TypeOK ==
  /\ day \in Days /\ faults \subseteq {"crash", "late"} /\ refunded \in [Days -> Nat]
  /\ host.rows.agg \in [DOMAIN host.rows.agg -> [votes : Nat, voters : Nat]]
  /\ DOMAIN host.rows.agg \subseteq Case /\ DOMAIN host.rows.index \subseteq Days
  /\ host.date \in 0 .. day /\ host.case \in 0 .. Cases - 1
  /\ host.spent \in Nat

\* Each receipt is backed by votes of its day and each vote by a stick of the ledger, to
\* the stick while nothing is lost; a crash may lose receipts and votes but none of what
\* pays for them.  What the hydration guard strikes from the ledger is counted apart, and
\* a storage that attaches after the first vote is left out (fake-service.ts:442-464).
BooksBalance ==
  host.sink /\ "late" \notin faults =>
    \A d \in Days :
      LET receipts == Receipts(host.rows, d)
          votes    == VotesOn(host.rows, d)
          paid     == Get(host.rows.ledger, d, 0) + refunded[d]
      IN  /\ receipts <= votes /\ votes <= paid
          /\ faults = {} => receipts = votes /\ votes = paid

\* Every frame the process can serve is one the browser reads, and every row it has
\* queued is one that the next start can open, whatever was lost, merged or rotated: used
\* beyond earned makes derivePersonal throw out of every later request, a page drops a
\* frame with more voters than votes, and one row that its schema refuses fails the whole
\* open, which leaves the user a game in memory (fake-service.ts:572-638,
\* incense.ts:49-54, wire.ts:254-272, storage.ts:9-11).
StaysReadable == StateAccepted(Frame(host.date, host)) /\ RowsAccepted(Last(chain))

\* Every past day with a case is archived with exactly its votes, and every period that
\* ended is sealed over all its days, however many dates a stopped Host has missed and
\* wherever a crash cut the archives short (fake-service.ts:676-769).
ArchivesAddUp ==
  LET rows == host.rows
      past == {c[1] : c \in {k \in DOMAIN rows.agg : k[1] < host.date}}
  IN  host.sink /\ "late" \notin faults =>
        /\ past = DOMAIN rows.days
        /\ \A d \in past : rows.days[d].votes = VotesOn(rows, d)
        /\ \A p \in {PeriodOf(d) : d \in past} : EndOf(p) < host.date =>
             /\ p \in DOMAIN rows.periods
             /\ rows.periods[p].covered = {d \in past : PeriodOf(d) = p}
             /\ rows.periods[p].votes = SumFunctionOnSet([d \in past |-> VotesOn(rows, d)], rows.periods[p].covered)

=============================================================================
