# A specification of dsh-liangxiang

dsh-liangxiang (梁相) is a plugin of DeepSeek-Harness. The tokens a user spends on
models earn *incense* (`floor(tokens / tokenPerIncense)` sticks a day); the user
spends the sticks as up or down votes on the one case of the day; a community
backend adds the votes of everyone up. This directory holds TLA+ modules of the
parts of it where order, failure and concurrency decide whether a stick is lost,
spent twice or counted twice, the TLC configurations that check them on small
instances, and proofs for every instance. Paths below are relative to the
repository's `src/` directory unless they start with `docs/`.

## Contents

| file | what it is |
|---|---|
| `VoteLedger.tla` | the backend's vote tables and the transactions that change them |
| `VotePromise.tla` | what the ledger promises its clients: the abstract specification |
| `WireContract.tla` | the figures each hop serves and the identities the next hop's parser enforces |
| `WireAnswers.tla`, `VoteAnswers.tla` | the answers the ledger gives, the one to a vote in two steps |
| `VoteRateLimiter.tla` | the vote budget |
| `Admission.tla` | tickets, enrolment, rekey, and the Hosts that go through them |
| `HistoryArchive.tla` | sealed days, weeks and months, the schedule of titles, and the copies of both on Host and browser |
| `HostClaims.tla` | how the Host claims the tokens it observes |
| `TimedIncense.tla` | the Host's timed votes |
| `UsageModes.tla` | token accounting across the two authorities, their storage and their changes |
| `LocalAuthority.tla` | the authority the Host runs itself when offline |
| `LiveView.tla` | one browser tab, its event stream and its votes |
| `MCVoteLedger.tla`, `MCVoteAnswers.tla` | constants for TLC; the other modules are checked as they are |
| `*.cfg` | one instance per run, named after what it asks |
| `SumTheorems.tla` | what a sum over a finite set does when the set or the figures change |
| `VoteLedgerProofs.tla`, `AdmissionProofs.tla`, `HostClaimsProofs.tla`, `TimedIncenseProofs.tla`, `UsageModesProofs.tla`, `LocalAuthorityProofs.tla` | theorems about the module each is named after; those about `VoteAnswers` are the last part of `VoteLedgerProofs`, those about `VoteRateLimiter` the last of `AdmissionProofs` |
| `DisplayProofs.tla` | theorems about what a user is shown: `HistoryArchive`, then `LiveView` |
| `PROJECT.json` | components, runs, mutants, the map from definitions to lines, hazards, theorems |

`PROJECT.json` names the module and the instance of each run: `tlc -config
LedgerVotes.cfg MCVoteLedger.tla`, `tlc -config History.cfg HistoryArchive.tla`, and so on.
To check the proofs: `tlapm VoteLedgerProofs.tla`, and so on.

## The system

Three processes, or kinds of process, talk to each other.

**Backend** (`backend/`), one Node process over one SQLite database.
- *Vote authority* (`service.ts`, `store.ts`, `schema.ts`). State: cases, raw
  aggregates, published snapshots, per-day balances of each installation, vote rows,
  request receipts, day/week/month archives, the title queue. Operations: open the
  day's case on demand (and archive ended days), bootstrap, token claim, vote,
  publish a snapshot, operator publish/reset/clear/retitle. Correct when: a day
  spends no more than it earned; a request id is decided once and charged once;
  aggregates, charges and archives agree with the vote rows; a date has one active
  case; the published totals catch up with the raw ones.
- *Vote limiter* (`vote-rate-limit.ts`, `domain/vote-budget.ts`). State: a bounded map of
  token buckets in memory. Correct when: what is accepted fits one bucket whatever
  is evicted or restarted, and eviction locks nobody out.
- *Identity and admission* (`community-auth.ts`, `identity-rate-limit.ts`,
  `admission-rate-limit.ts`): tickets, keys, nonces, re-keying with a cooldown.
  Correct when: a ticket admits at most as many installations as it says, a device is
  one installation at a time, inventory meets its target.
- *HTTP handler* (`http.ts`, `main.ts`): authenticates, limits, calls the service
  synchronously, and runs the snapshot timer.
- *Operator command line* (`cli.ts`): other processes on the same database file.

**Host** (`host/`, `compat/dsh/`), the plugin process on the user's machine.
- *Backend proxy* (`backend-service.ts`, `backend-client.ts`): caches case, balance
  and snapshot, claims tokens with a ratchet, forwards votes. Correct when: older
  answers do not replace newer ones and a claim is never lost for good.
- *Day-end service* (`day-end-service.ts`): a durable intent per mode, a queue of votes,
  a queue of writes, one timer. Correct when: a timed vote yields to the user, is one
  request whatever is lost, is counted once, and is always tried again.
- *Authority slot and modes* (`authority-slot.ts`, `index.ts`): switches between
  the community and a local authority at run time. Correct when: a call begun for
  one authority does not reach the other, and no observation is lost or paid twice.
- *Local authority* (`fake-service.ts`): the same votes, in process, with
  write-behind persistence.
- *Usage observer and ledger* (`compat/dsh/settled-usage.ts`, `usage-observer.ts`,
  `usage-ledger.ts`, `usage-projection.ts`): turns a session log into tokens of a
  day. Correct when: a settled request is credited once, across replays and restarts.
- *Routes* (`routes.ts`): JSON and server-sent events to the browser.

**Browser** (`client/`): a live store that follows the event stream and falls back to
polling, a cross-tab counter of the user's own sticks, and the presentation.

How they interact: Browser to Host by HTTP and SSE; Host to Backend by signed HTTP
(reads are retried once, votes never by the transport, but by the user or the
timer with the same request id); operator to Backend through the database only.
Inside the Host everything runs on one event loop and interleaves at `await`.

What is hard here: the operator's processes interleave with the server between
transactions; calls hold the business date they started with across midnight; votes are
retried after lost answers; claims arrive late, repeated and reordered; buckets and
caches are lost in a restart while receipts are not; the Host acts on what it
read before an `await`; intents are saved, sent and cleared in separate steps.
`PROJECT.json` lists each hazard at its line with the properties that cover it.

## VoteLedger: the vote authority

One action per SQL transaction, because another process may run between two.
`proc[p]` keeps what a handler holds meanwhile: the operation, the date it captured
(`service.ts` 115), the case it was given, the totals it is about to publish.

| module | code |
|---|---|
| `BeginVote`, `BeginClaim`, `BeginBootstrap`, `BeginSnapshot` | request handlers of `http.ts`, the timer of `main.ts` |
| `EnsureActiveCase` = `FindActiveCase` / `RollOver` / `RollOverFails` | `ensureActiveCase`, with finalisation of ended days and the failing primary key |
| `TokenClaim`, `IgnoreClaim`, `Bootstrap`, `Gift` | `applyTokenClaim` (ratchet, absurd-growth ceiling), `bootstrap`, `tryGrantStarter` |
| `CastVote` = `ReplayVote` / `RejectTarget` / `RejectPoor` / `AcceptVote` | `vote`, `voteInTransaction`, with vote row, receipt, charge, aggregate and snapshot in one transaction |
| `ReadStats`, `ReadLatest`, `PublishSnapshot` | `publishedSnapshot` and `publish`, read and write apart |
| `PublishCase`, `ResetToday`, `ClearHistory` | the operator's transactions |
| `Crash`, `Midnight` | a handler dies between transactions (and the server's memory with it); the clock moves on |

`VotePromise` says the same without tables: an id is decided once; accepting charges
one day, within its earnings, at once; only an operator forgives. The ledger implements it
under the mapping `Accepted`, `Refused`, `Earned` at the end of `VoteLedger`.

`WireAnswers` adds what the authority answers from its tables and what the Host makes of it for the
browser. `WireContract` holds both sides of each hop: what is built (`PersonalWire`,
`SnapshotWire`, `LegacyView` for older Hosts, `HostFrame`) and what the parser of the next
hop asks (`PersonalAccepted`, `SnapshotAccepted`, `BootstrapAccepted`, `StateAccepted` and
so on: `backend-v1.ts`, `wire.ts`). A parser that throws loses a whole answer.

*ledger_votes*: one installation, two request ids, two dates, the server and an operator
with one publication, one wipe, claims of one token where two make a stick and one stick is
given, crashes. Two ids are what it takes for one to be replayed after the other; the
claims put a balance below and at a stick; one publication and one wipe give every order of
the two around a vote and a midnight. `TypeOK`; `NoOverspend`; `ReceiptsMatchVotes`,
`StatsMatchVotes`, `UsedMatchesVotes`, `ArchiveMatchesDay` relate the tables to the vote
rows; `ReadsParse`; `OutcomeIsFinal`; `ImplementsPromise`. 1.3 million states.

**VoteAnswers** cuts a vote in two: `VoteTransaction`, which leaves a result, and `AnswerVote`, which reads the
tables again to build the answer. The server does nothing in between, but an operator's process
may, and a crash loses the answer. *ledger_answers*: one id, a wipe, claims of one and five tokens (five is
beyond the growth ceiling), and two publishers, because an operator's status
(`Reporter`) also publishes. `VoteAnswerParses` exempts an answer that a publication
or reset disturbed (see below). `SnapshotCatchesUp`: the published totals reach the raw
ones. Fairness: the server answers and finishes the handlers it started (WF), its interval
timer fires again and again and sometimes finds the cadence elapsed (SF: the handler competes with
other requests), and it crashes finitely often. Operators are not fair. `PureChecked`
calculates over all counts up to 100 that state, ratio and band of both policies agree.

## VoteRateLimiter: the vote budget

The handler inspects, votes and charges without an `await`, so a request is one step
(`Refuse`, `Fail`, `Accept`, `Reject`). A stick is `BudgetWindow` parts and a tick refills `Rate`
parts, which is exact where the code has floats. `budget` is history: the bucket an
installation would have if nothing were ever evicted or lost. *limiter_budget* has two
installations and room for one bucket, so every request of the other evicts or is refused;
nine ticks are more than two times the four a bucket takes to fill.
`NoOverdraw`: what is accepted fits `budget`, after any evictions, restarts and
rejections. `EvictedKeepMinute`: the evicted one keeps a window of refill.

## Admission: how a Host enters the community

Requests are answered one at a time, but two of them, the touch of an identity and the
rekey, are not one transaction: `server` is the one between its check and its write, where
a command may come in. An installation is its key; `Shared` are keys minted on one machine.

| module | code |
|---|---|
| `OpenDay`, `Replenish`, `Issue` | the top-up of tickets at the opening of a day and on demand, `service.ts` 215-221, 473-499, 744-776 |
| `Replace`, `RevokeTicket`, `Unbind`, `Revoke` | commands of `cli.ts`, and a user's request to be forgotten |
| `Hello`/`Touch`, `Claim`, `Rekey`/`RekeyIdentity` | the routes of `http.ts` over `community-auth.ts`; `last` and `admitted` are the two limiters |
| `Poll`, `ListTickets`, `Again`, `GiveUp`, `Served` | the Host's enrolment and polls, `refreshBootstrap` and `enrollWithPublicTicket` in `backend-service.ts` |
| `LateRequest`, `LostRequest`, `Tick`, `Restart` | the network, time and the backend's memory |

`paid` is history: the devices a ticket was consumed for. *admission*: two profiles of one
machine, one of which may be gone from the start, one ticket of two claims, a
cooldown of two ticks, windows of two and one, a ticket life of three, two bounded acts of different kinds.
`DevicePaid`, `InUseKeepsDevice`, `Recovers`. Fairness: the backend answers whom it
has taken, time passes, days open and each Host goes on asking (WF); a Host that asks again and again
is served (SF: others compete for the server). A tick is at least a minute, so the default
cooldown of half an hour (`config.ts` 56) is more than the two the second property needs.

## HistoryArchive: the hall of past cases

The roll-over of `VoteLedger` again, now with weeks, months, versions and titles, and from there to
the browser.

| module | code |
|---|---|
| `EnsureFinds`, `RollOver`, `RollOverFails` | `ensureActiveCase` with `finalizeArchivesInTransaction` and the title queue |
| `BeginVote`, `Vote`, `AnswerPoll` | a vote; a snapshot or bootstrap answer with its archive version |
| `BeginHistory`, `ReadRows`, `AnswerHistory` | `historyResponse`: rows first, version and running voters after |
| `BeginStatus`, `Publish`, `ClearHistory`, `QueueAdd`, `PlanSeed`/`SeedNext`, `ReplaceQueue` | commands of `cli.ts`; seeding plans once and enqueues row by row |
| `AskPoll`, `PollTurnsOver`, `AdoptSnapshot`, `AdoptBootstrap`, `PollFails` | polls of `backend-service.ts` |
| `FetchLands`, `FetchFails`, `RestartHost` | `refreshHistory`: merge by key, or mark stale |
| `FrameArrives`, `AskLoad`, `LoadLands`, `LoadFails` | `live-store.ts` `loadHistory` and the Host's handler behind it |

`shown` is history; so is `mishap`, which names what the archives do not survive: `torn` (a
command rolls the day over between the two readings of one answer), `cleared` (`history clear`), `late` (a
call of yesterday opens yesterday's first case after another process has gone on).

*history*: one voter, three dates in weeks and months of two (which do not line up), a bank of one
title and a queue of two, and one operator command or Host restart on the middle
date: before it there is nothing to archive, after it nothing archives. `PeriodsAddUp`, `TitlesAccounted`,
`CopiesComplete`. 2.1 million states.

## HostClaims: from observed tokens to the ledger

The Host never sends "these tokens are new". It sends an absolute figure, the ledger it last
read plus the local tokens it believes the ledger lacks (`personal.claimed + local -
displayBaseline`), and the authority keeps the largest figure of the day. So every token is
counted once exactly when `personal` and `baseline`, which different answers set, agree.

| module | code |
|---|---|
| `day`, `row`, `ClaimArrives`, `CallArrives`, `LateClaim` | the authority: `applyTokenClaim`, `bootstrap`, `dailyState`, reached over a network that reorders; a claim the Host gave up on may still arrive |
| `local`, `label`, `Observe`, `Aligned`, `LabelTurns` | `UsageProjection`: buckets by date, and the clock anchored at the last bootstrap |
| `timer`, `TimerFires`, `Vote` | `scheduleClaim`, and `flushClaim` of a vote |
| `task[t]`, `flying`, `Begin`, `Await`, `Resume`, `Submit`, `Settle` | `submitClaim`, cut at its two awaits; `task` has one slot per submission under way, `flying` is `claimInFlight` |
| `ClaimAnswered`, `ClaimFails` | `claimOnce`: the three branches rollover, not applied, applied, and the failure |
| `Refreshed`, `Adopt`, `CallFails`, `BackoffEnds` | `refreshBootstrap`, single flight with back-off, and `adoptBootstrap` |
| `Tick`, `Open`, `SnapshotFails`, `RefreshPersonal`, `PersonalRead` | `tick`, `refreshNow`, the snapshot that asks for a bootstrap, `refreshPersonal`, and the state in a vote's answer |
| `Reconcile`, `Restart` | `reconcileNow`; a new process with the persisted buckets |

`Resume` has priority (`Woken`): what an answer wakes runs before the process takes another
event. `observed` is history, what the user really spent per day of the authority, and `lag` says
when the code itself lets the two books part: an answer that is no bootstrap brought a
ledger the baseline does not match (`behind`), a claim was made from such books (`claimed`), or
`alignDailyBucket` took one day's bucket for another's (`moved`).

*claims* (three submissions, a vote, a read of the daily state, two days, a restart, a gift of
one token, a ceiling of two on a single claim): `TypeOK`, and `OwnDay`: unless `lag` says otherwise,
the ledger of a day, less the gift, is at most what was observed that day. Three
submissions are what it takes for two to wait for the third's claim, to resume together and to
overlap; two tokens leave one for the claim in flight and one observed meanwhile. The clock shows the
authority's date at start (`Skew = {1}`). An exemption never ends, so the run does not look further
once it has begun (`Accounted`). *claims_live* (one submission, a failed call, a late claim, a repair,
two days, a clock that may be a day ahead): `AllClaimed`, `Follows`.

Fairness: timers fire and a resumed submission goes on (WF, the event loop); the cadence ticks and the back-off
ends (WF, `snapshot-cadence.ts`); a call reaches the authority or fails (WF), and when it can
be answered again and again it is (SF: an outage may end the call first, so this says that
outages end; failures are bounded in the instance too). `AllClaimed` assumes besides that a
bootstrap answer comes in again and again, which is the user opening the panel (`refreshNow`). It needs this:
after an applied claim the code sets `displayBaseline` to the smaller of the local total and the whole ledger, gift
included (684-687), so a token observed while the claim was in flight may be taken
for claimed, and only a bootstrap (702-708, which leaves the gift out) brings it back. Without
the assumption the run fails with a gift of one token and passes without a gift.

## TimedIncense: the Host's timed votes

A handler runs to its next `await`; `run.pc` names the await the timed task is at
(`reading` the authority, `saving` the intent, `voting`, `completing`), and
`Continues` keeps the rest of the process from running in the middle of a continuation.

| module | code |
|---|---|
| `votes`, `Vote`, `SendVote`, `VoteEnds` | the promise chain `votes` and `manualPending` (`enqueue`, `vote`) |
| `saves`, `WriteReachesDisk`, `SaveReturns`, `SaveFails` | the promise chain `mutations` (`save`) over the settings table; a write reported as failed may have reached the disk |
| `timer`, `scheduleKey`, `periodicReady`, `Reschedule` | `updateSchedule` |
| `RunDayEnd`, `StartRun`, `RefreshReturns`, `Prepare`, `Send`, `VoteReturns`, `VoteFails`, `Finish` | `runDayEnd`, cut at its awaits |
| `slot`, `changing`, `generation`, `BeginSwitch`, `UseAuthority`, `SwitchFails` | `modeTransitioning` and `use` |
| `disk` and `state`, `Restart` | the durable `DayEndState` and the copy in memory |
| `receipt`, `net`, `Rule`, `Decide` | the authority: the first delivery of an id decides it, any request ever sent may arrive later |

Delays are abstracted: a timer fires any time after it is armed, `quiet` stands for the
gesture lease and the idle time after a vote, `phase` for the distance to the end of the day.

*timed_restart* (online, two days, two cases, two intents, a toggle, a restart; requests and
balances of up to two sticks so that a request may be taken in part): `CountedExactly`,
`NothingForgotten`, `OnePayload`, `OneClosing`. *timed_live* (both authorities, one day, a vote or
gesture, a toggle, a switch): `KeepsWatch`, `Yields`, `Settles`.

Fairness of *timed_live*: handlers end, an armed timer fires, a switch ends, a
request in the network is decided or answered with failure; and an outage of the authority or the
disk does not last for ever (SF on a successful poll, refresh, answer and write). The last is
an assumption about the environment, and what the retry loop of `day-end-service.ts`
236-243 relies on. `Settles` lets an intent go when its day ends or the user opts out.

A retry keeps the case of the first attempt even when the case was replaced: the
authority refuses it, the refusal settles the intent, and the sticks stay with the user.

## UsageModes: token accounting across two authorities

One session's log becomes batches of settled requests; the authority in use credits them to its own daily
record behind a watermark both authorities share. Each of the two storage domains has a
write-behind chain of its own, and a crash keeps a prefix of each.

| module | code |
|---|---|
| `BeginRequest`, `GoOn` | events of the log, `settled-usage.ts` and `usage-observer.ts` |
| `OpenCore`, `ResolveIdentity`, `OpenLocal`, `GiveUp` | the start of the storage in `host/index.ts`, which may be late, fail, or never come |
| `AskChange`, `Barrier`, `PrepareLocal`/`PrepareOnline`, `CommitLocal`/`CommitOnline`, `AbortChange`, `KeepMode` | a change of authority, cut at its awaits; observations queue meanwhile |
| `Midnight`, `Restart` | the clock; a new process after a crash that keeps a prefix of each chain and may find the log renumbered |

`owed` is history, the requests begun under observation; `torn` and `memoryOnly` name what voids
the properties: a crash that kept a local credit without its watermark, and a Host that gave up on its storage.
*usage*: two requests in four events, two acts (the smallest in which a change of
authority and a crash or a midnight meet). `NoTokenTwice`, `LiveCounted`.

## LocalAuthority: the authority the Host runs itself

Every handler of `fake-service.ts` is synchronous: it first rotates to the clock's date (`Rotated`,
made of `Closed`, `Dated`, `Finalize`, `Reopened`, `Hydrated`, `Guarded`), then acts, and queues what it
changed on one write chain: `Write` puts one row, `WriteRows` the new rows of a table in the order of their
keys, so that a crash may fall between any two.

| module | code |
|---|---|
| `Credit`, `Look`, `Vote` = `Refuse` / `Accept`, `CycleLocalCase` | the handlers |
| `AttachPersistence`, `MarkReadyMemoryOnly` | a storage that opens, late or never |
| `Crash`, `Midnight` | a prefix of the chain is kept; the clock |
| `RowsAccepted` | the schemas of the local tables in `storage.ts` |

*local*: two requests, three dates in periods of two, two cases, three acts. `BooksBalance`, `StaysReadable`,
`ArchivesAddUp`.

## LiveView: one browser tab

| module | code |
|---|---|
| `Start`, `Ready`, `Stop`, `Bump`, `BeginSwitch`, `FinishSwitch`, `FailSwitch`, `Break` | the Host, its two authorities and its end of the stream (`authority-slot.ts`, `routes.ts`) |
| `StreamOpens`, `StreamFails`, `StreamRefused`, `StreamBreaks`, `Frame` | `EventSource` in `live-store.ts` |
| `Reconnect`, `Ask`, `AskMode`, `Answer`, `Lose`, `Arrive` | pulls of the state, a refresh or reconcile, a change of mode, and their answers in any order |
| `Press`, `Retry`, `Receive`, `Begin`, `Decide`, `Limit`, `CannotHear`, `Return`, `GiveUp` | one press of a vote button: two attempts under one id, the Host's queue, the authority |
| `Dispose` | the tab goes |

*view*: one tab, one press, three acts, an error limit of two. `InStep`, `PressSpendsOnce`, `CatchesUp`, `PressEnds`.
Fairness: what runs by itself (timers, event loops, `EventSource`, the loopback connection) is
weakly fair. Nothing obliges an authority to answer a vote, or a user to ask.

*Deadlock.* The runs of HostClaims, HistoryArchive, LocalAuthority, TimedIncense, UsageModes and
LiveView do not check for it: on the last date of the bound, with the bounded acts
used up, a system whose user is idle has nothing left to do.

## What is proved

TLC checks the instances above; the theorems hold for every value of the constants that the assumptions
named in the modules admit, and use nothing else about them.

| theorem | argument |
|---|---|
| `VoteLedgerProofs!TypeInvariant` | inductive as stated: `TypeOK` includes `HandlerOK`, which says what a handler holds at each step |
| `NeverOverspent` | inductive with `TypeOK`: only votes raise `used`, under the guard of the spend statement, and nothing lowers `claimed` |
| `OneActiveCasePerDate` | inductive with `TypeOK`: both ways to open a case close those of its date first |
| `OneGift` | from `GrantBacksGift`: sticks given to an installation are backed by the grant row of its device; the property itself is not inductive, since it does not say who holds the grant |
| `ReceiptsAndVotesAgree` | inductive with `TypeOK`: a decision is written only when the id has no receipt |
| `OutcomesAreFinal` | from `OperatorsCommand`: a handler whose operation is an operator's command runs in an operator's process, so the server never wipes |
| `LedgerImplementsPromise` | step simulation under the invariants above: every action maps to `Earn`, `Accept`, `Refuse`, `Intervene` or a stutter |
| `TalliesAddUp` | from `TallyInv`: finitely many votes, each dated by its case, and a handler holds a case of its own date; then an accepted vote adds its row to one sum and a wipe takes a case's rows from it |
| `ChargesAreVotes` | from `ChargeInv`: today's newest case is the active one, cases are numbered in the order they open, nothing is charged to a day ahead; the newest case changes only by a publication, which forgives the charges of the one it replaces |
| `ArchivesAreRight` | from `ArchiveInv`: until the first wipe, an archived day is past, and a handler still at work on it votes for a case that is no longer active; so the sums an archive was made of no longer change |
| `EveryAnswerParses` | from `GiftsClaimed` and `TotalsFit`: a gift is part of the claimed tokens, a snapshot's counts fit each other, in the tables and in what a publisher has read |
| `VoteAnswersParse` | besides, from `ReplyInv`: the counters in the result of an answer under way are those of the day it is answered with, unless a command came in between |
| `AdmissionProofs!BudgetTypeInvariant`, `MapIsBounded` | of the vote budget; inductive |
| `NeverOverdrawn` | from `BudgetCovers`: every level, kept or as it would be rebuilt, is covered by the uninterrupted bucket |
| `EvictionIsHarmless` | an evicted bucket has not been touched for a window, so what it is rebuilt to is at least a window |
| `AdmissionProofs!TypeInvariant` | with `HostOK`, a Host that claims has a ticket of its page left, and `Alone`, one row per device |
| `EveryDevicePaid` | from `PaidInv`, which adds the device of the request between its check and its write |
| `InUseKeeps` | from `FreshInv`: the row of a connected Host is younger than two ticks. Assumes a cooldown of two ticks or more |
| `DisplayProofs!TitlesStayAccounted` | inductive with the shapes of the tables: the title a roll-over takes is one that waits, and it is consumed in the same transaction that shows it |
| `PeriodsStayRight` | from `SealedInv`: a sealed period is *over*, that is, a later case was opened, none of its own is active, and each of its dates with a case has its row; so nothing it was made of changes again, a late case excepted |
| `CopiesStayComplete` | from `CopyInv`, see below |
| `HistoryTypeInvariant` | with the shapes of the three above: there are finitely many ballots at any time, for any set of voters, so what is counted is a number; a title comes from the bank or from a row that waits; what Host and browser hold was dated by a call of the past |
| `HostClaimsProofs!TypeInvariant` | inductive as stated |
| `ClaimsOwnDay` | from `Fit`: while nothing is exempt, every figure held or on its way is at most the gift and what was observed on its day, see below. Assumes that the clock is never a day ahead |
| `TimedIncenseProofs!Invariant` | the inductive invariant of the module: one id is one intent wherever it is (network, disk, memory, task); the books add up; the disk is the state before the writes still queued; the task agrees with what it saved |
| `CountsExactly`, `ForgetsNothing`, `SendsOnePayload` | parts of it |
| `ClosesOnce`, `StaysOnWatch` | inductive relative to it |
| `YieldsToTheUser` | an action property: as the task hands a vote over, `SentIs` says what its earlier checks left true |
| `UsageModesProofs!TokensOnce` | from `OnceInv`, see below |
| `NothingLost` | from `LiveInv` besides, see below |
| `UsageModesProofs!TypeInvariant` | from both, and `Seated`: the authority in the slot of a Host that has started, or that waits for its identity, lives |
| `LocalAuthorityProofs!TypeInvariant`, `Readable` | from `Typed`: every image of the chain, not only the last, has rows that the schemas accept, the process serves no older date than its clock's, and what it has spent is covered by what it has earned: a vote is clamped to the balance, tokens only grow, and a rotation that finds it otherwise strikes the ledger down |
| `Balances`, `Archives` | from `Sound`, see below |
| `DisplayProofs!TypeInvariant` | of `LiveView`; inductive |
| `StaysInStep` | from `Streaming`, the Host's end knows what it wrote last and that is what it serves, and `History`, every state held or on its way is no newer than its authority, and a later revision is no older content |
| `SpendsOnce` | from `OwnedOnce`: a press belongs to one case of one authority, in calls, in books and in the press under way; and an authority books an id once |

How the seven arguments of most weight go:

*Sums.* The ledger and the archives add with `SumFunctionOnSet`, whose fold is a recursive
function on subsets. `SumTheorems` proves what the proofs need of it: the sum over no
element, over one more, over one less, and of equal figures. The induction theorems of the library
take an operator and cannot be used, so induction on finite sets is by the least member
of a family of subsets (`LeastMember`, from the well-foundedness of strict inclusion).

*Timed votes.* `OnePayload` is not inductive: a retry reads its intent from memory, memory comes from the
disk after a restart, and the disk is behind by the queued writes. `QueueOK` says that
only the head of the queue may have reached the disk, that the disk with the queue's changes
applied is the state in memory, and that at most one of the writes is the task's; with `OnDisk`, an intent that
was sent is on disk or no longer the day's, every copy of an id agrees.

*Claims.* `OwnDay` bounds the row, and the row is what some figure sent long ago makes of it. `Fit` bounds all of them by
`Most`, the gift and the tokens observed today: requests and answers under way, late claims
(`OnTheWayFits`), the rows, the buckets, and `BooksFit`, the figure that the books would give if a claim were
made now. `BooksFit` is asked only of books in step (`lag = "none"`). A bootstrap and a rollover set the baseline to the ledger
less its gift, an applied claim to the smaller of ledger and bucket, an answer that is not applied or another read keeps
books in step only when the baseline is no lower than a bootstrap would make it: `Learned` is the one arithmetic fact
behind the three. An observation adds one to both sides. At midnight everything held is of a past date
(`Past`) and nothing bounds the new day but its own tokens. This is where the assumption
`2 \notin Skew` is needed: a claim made under tomorrow's date is refused today and, if it is late, taken
tomorrow for tokens of today; with `Skew = {2}`, one claim and one token, TLC finds `OwnDay` violated.

*Tokens once.* The settler is a fold over the log and a flush a fold over the queue. What a fold does with one more
element is a fact about its table of values (`SettledAppend`, `DeliveredFlow`), and an induction over the length
of a log is by the least length at which a fact fails. So `LogSound` says, of any log, that the settled
requests have the ids `1 .. n` in the order they began, do not overlap and stay what they are when the log grows
or gains a header. `Accounts` then asks of every place that holds a watermark or a
record (two authorities, and every image of two chains, since a crash may keep any) that a request found in a record is `Barred`
by every watermark that a credit could be made with: it ended under the mark, began under its base, or
the mark is of another format, which fences all there is. A merge of two marks bars what either barred (`MergeMarks`), a credit bars what it
credits and nothing else changes (`CreditedSafe`'s parts), a merged record holds nothing that neither held. Then an id is in
one record of one date on one side, with its final usage, and the sum is a single summand.

*Nothing lost.* The converse: what must be credited is not barred. `LiveInv` has a part that always holds, `Typed`: no
watermark of the session reaches past its log and every queued batch lies within it. The rest, `Live`, holds until the Host
gives up on its storage. An authority that writes remembers exactly what its domain holds (`Faithful`); the one
in the slot writes, and no two move the shared watermark at a time (`Manned`). Then (`Lively`) a request that
the books must hold, and that no record holds yet, began at or after the base of every current watermark, or of the
catch-up batch that heads the queue; it ended above every current settled mark and past the batches queued before the one that brings
it; and the next batch is a catch-up or meets no mark of an older format, which would fence it (`Ready`). So a
batch that is delivered credits all it brings (`Served`, `DeliveredServed`), and what a record
holds stays in it. A report extends the queue by what the log gained; a change of authority hands the watermark over before the
slot; a start reads its base from the log as it stands and owes nothing older (`StartingLive`). The theorem assumes that
a log has room for two events, which the request of a parent takes: an assumption on the bound, not on the code.

*Local books.* `BooksBalance` and `ArchivesAddUp` speak of the process and of the last image; a crash makes any
image of the chain the first of the next process, which rotates on top of it. `Sound` asks what they need of all of
them: an image is `Backed` (receipts within votes, votes within the ledger and the sticks given back) and `Filed`
(an archived day is over and has its votes; a sealed period has all its days, each of them archived), and one that has not been
migrated is at some step of the copy of the old domain (`Copying`). Ledger, aggregate and receipt are written in that
order, and days before periods, which is what keeps the images in between right. The process is `Firm`: its rows
are the last image, what it has spent is the ledger of its date, nothing that is over is left to archive
(`Complete`); and while nothing was lost the last image balances to the stick (`Balanced`). A day's votes
change only while it is the date, and it is archived once it no longer is, so archives stay right; a sealed period gains no
date because no case is opened on a past date. The sums come from `SumTheorems`: one
summand more or one raised changes the sum by so much.

*Copies.* A copy with cursor `v` must hold every row stamped `1 .. v`. `CopyInv` says that
rows are written once and under a version of their own (`Stamped`, `Grows`), so that a complete
copy stays complete; that an answer on its way holds every row above the cursor
it was asked with (`Complete(rows, cursor, ..)`); and that this cursor is no more than the copy's
version when it lands (`CursorsHold`), so that together they cover the answer's. The
only call for which the last fails is one asked by a Host that has since restarted; then
the new Host has asked nothing, and the call ends before it can.

## What is only model-checked

- Liveness under fairness, which the proof system cannot state: `SnapshotCatchesUp`, `Settles`,
  `AllClaimed`, `Follows`, `Recovers`, `CatchesUp`, `PressEnds`. Every invariant, every other action property
  and every refinement that a run checks is a theorem.
- The other way round, the shape invariants of `TimedIncense`, `HistoryArchive`, `UsageModes`, `LocalAuthority` and
  `LiveView` are checked by no run of their own: they are proved.

## Where code and documents disagree

Met while modelling. The exemptions named in the properties above (`disturbed`, `lag`, `torn`, `late`,
a refused stream, a wipe) are the ones among these that a property would otherwise run into.

*Backend.*
- The comment on publishing (`backend/service.ts` 519-520) says the database enforces one active case at a
  time. The index is per date (`schema.ts` 49-50), and a call that captured yesterday's
  date (`service.ts` 185) opens its case next to the one an operator has just published.
- The comment on pruning (`store.ts` 483) says sequences stay monotonic; a reset (917) restarts the sequence of
  a case that stays active, and a Host drops its snapshots until they have caught up
  (`host/backend-service.ts` 532-537).
- An operator's command between a vote's transaction and its answer's reads makes the Host refuse the
  answer of an accepted vote. A retry replays it.
- `historyResponse` is no transaction: a command's roll-over between its two readings leaves a gap
  under a version that covers it. `history clear` sets the version back, which Host and browser caches do not notice.
- The first case of yesterday, opened late, misses a week or month that was sealed before.
- Each top-up mints as many tickets as enrolments are missing, though a ticket admits several. With a
  ticket life of 24 hours, as long as the day whose opening tops them up (docs/143:65-66,
  docs/121:101), the page may be empty until the next opening; `Recovers` fails with `Ttl = 2`.
- The comment on the limiter of rekeys and revocations (`identity-rate-limit.ts` 9-10) says that timestamps are
  recorded on every attempt, allowed or denied. Of the refused ones the code records a stranger's only (46), as docs/122:51
  has it: a member's wait is not pushed back by trying again. While the map is full it records none (37-42).
  `Recovers` rests on the code: with what the comment says, its mutant `AlwaysChecked`, a Host that keeps trying to rekey
  never gets in. But docs/122:51 counts successes, and the code every attempt that passes the limiter, also
  one that the cooldown then refuses (`http.ts` 419-425).
- `unbind` between the check of a request (`http.ts` 229) and its touch
  (`community-auth.ts` 93) is undone by the request.
- A profile reinstalled on its machine needs a page with a ticket before its Host tries to rekey.

*Host.*
- `claimableEffectiveTokens` promises local observation *not already represented* in the ledger
  (`backend-service.ts` 846-847, docs/DATA_FLOW.md:22). A bootstrap answer computed before a
  claim and adopted after the claim's answer sets `displayBaseline` back; the
  next figure is refused as not applied, which takes the newer ledger without moving the
  baseline (677), and the next observation is claimed together with tokens the ledger already holds.
- A reconcile while the bootstrap backs off discards the local totals (249-254, 459), and a bootstrap in
  flight may overwrite a newer balance or snapshot (549-566).
- `fake-service.ts` 18-20 says a lost write can only under-count. The watermark is in the other storage domain (316; `storage.ts`
  606-608): a crash that keeps the day's credit and loses the watermark credits twice.
- Local authority: the guard at hydration gives back welcome sticks after a restart (660-669 against 627-638,
  docs/062:10); a merge by maximum after a fallback under-counts; a clock that lags when
  `alignDailyBucket` runs moves another day's bucket; a storage that attaches after the first vote overwrites rows on disk
  (250-258); a crash that loses a receipt lets a voter be counted twice; a fallback while the
  identity resolves leaves an online candidate without its stored tokens.

*Browser.*
- The calendar's derivation throws on archives the code produces (`LiangciModal.tsx` 515, 532, 703-705; `archive.ts`
  158-159; docs/130-liangci-design.md:360).
- The store says it reconnects after stream errors (`live-store.ts` 9-11, docs/144:26-29). An `EventSource` refused with
  503 while the Host starts (`routes.ts` 242-245) is closed for good and reports one error
  (290), below the limit that would reopen it; a refresh then pulls once.
- A replayed acceptance says it spent nothing and is never counted in the browser's own totals (`Badge.tsx` 667-681).

## What is left out, and why

- *Ledger*: a change of `token_per_incense` between rows; pruning of snapshots (only the newest row is read);
  receipts of the legacy format without a count; a clock that steps back; retitle, the broadcast row and
  schema migrations. A wipe may change an ended day, so `ArchiveMatchesDay` is stated up to the first wipe.
- *Limiter*: rounding of floats, a rate of zero (the limiter is off), `retryAfterMs`. The ledger
  takes the room the limiter leaves as an input, the limiter takes the vote's outcome as an
  input: each is checked against every behaviour of the other. A wipe forgives the budget.
- *Admission*: header parsing, nonces and clock skew; the parsers of its answers.
- *History*: the arithmetic of ISO weeks and calendar months (periods of a fixed number of dates), directions of votes.
- *Claims*: what is spent (the ledger always covers it, so the floor of
  `claimableEffectiveTokens` never shows), two Hosts on one installation, disposal, the weights of
  models and the split of input and output, loss of a write of the buckets. An unanchored clock is at most a day off.
- *Timed votes*: how long delays are; intents of the legacy format without a kind, and
  `cadenceVersion`; disposal; the wire projection and its revision; answers of backends that
  do not say how much they accepted; the loss of the local authority's write-behind
  receipts in a restart; a local case that comes back when the user cycles through the
  prepared ones. The online authority of the timed votes is smaller than the ledger: receipts,
  a balance and a case.
- *Usage*: token weights and their carry, the entry for cumulative observations that stays for development and tests
  (`usage-projection.ts` 3; the watermarks it left are modelled), observations the
  local authority holds back by itself, late events of another step, unloading the plugin.
- *Local authority*: the demo seed, versions of the state policy, the publication cadence.
- *Browser*: the posts for day-end preferences and for cycling cases, a half-open connection, malformed
  frames, throttle and back-off times, a history answer of one authority merged into the
  archive of the other during a change (`live-store.ts` 231-233).
- The Host's comparison of snapshot sequences (`backend-service.ts` 532). An expired notice that the
  Host shows until its next poll.
- Signatures, JSON shapes, logging, rendering and sound.

## Plan

All modules of the plan are written and checked, and every safety property that a run checks is proved, as
are the shapes of all states. What is not proved is liveness, which is out of the proof system's reach.
