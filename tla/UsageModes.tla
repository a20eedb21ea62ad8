------------------------------ MODULE UsageModes ------------------------------
(***************************************************************************)
(* Token accounting of the Host across its two authorities.  An observer   *)
(* turns the log of a DSH session into batches of settled requests; the    *)
(* authority in use credits them to its own daily record, behind one       *)
(* watermark per session that both authorities share.  Observations wait   *)
(* in a queue while the Host starts and while the user changes the         *)
(* authority (host/index.ts).                                              *)
(*                                                                         *)
(* Two storage domains keep separate write-behind chains: a crash keeps a  *)
(* prefix of each.  One session is modelled; its log survives the process, *)
(* may begin with requests borrowed from a parent session, and may be      *)
(* renumbered when DSH changes the format.  Amounts are 1 for a chunk's    *)
(* sample and 2 for the final usage that replaces it.                      *)
(***************************************************************************)
EXTENDS Integers, Sequences, FiniteSetsExt, SequencesExt

CONSTANTS
  Default,      \* defaultAuthorityPreference, "online" or "local"
  LastDay,      \* bound: business days
  MaxRequests,  \* bound: requests in the log
  MaxEvents,    \* bound: events in the log; the request of a parent has two
  MaxActs       \* bound: midnights, changes of authority asked for, and restarts

ASSUME UsageAssumption ==
  /\ Default \in {"online", "local"}
  /\ \A n \in {LastDay, MaxRequests} : n \in Nat \ {0}
  /\ MaxEvents \in Nat \ {0, 1}
  /\ MaxActs \in Nat

VARIABLES
  day,        \* the business day of the Host's clock
  log,        \* the session's events; sequence number n is at index n + 1
  format,     \* the session's header version
  borrowed,   \* history: requests the log inherited from its parent
  live,       \* firstLiveSeq: events the session had when it was loaded
  watching,   \* the observer: "off", "unlisted" until the session's first event, "on"
  books,      \* what both authorities and both storage domains hold
  mode,       \* selectedPreference and the authority in the slot
  storage,    \* how far the start of the storage has come
  booted,     \* modeInitialized
  change,     \* the change of authority under way
  pending,    \* pendingObservations
  owed,       \* history: requests begun under observation, to be counted
  memoryOnly, \* history: the Host gave up waiting for its storage in this process
  torn,       \* history: a crash kept a local credit and lost its watermark
  used        \* the acts that MaxActs bounds

session == <<day, log, format, borrowed, live>>
startup == <<storage, booted>>
ghosts  == <<owed, memoryOnly, torn>>
vars    == <<session, watching, books, mode, startup, change, pending, ghosts, used>>
Act == used < MaxActs /\ used' = used + 1
-----------------------------------------------------------------------------
(* Requests of the log: RequestUsageSettler. *)

Request == 1 .. MaxRequests
Days    == 1 .. LastDay

NoSample == 0
Closed   == [id |-> 0, at |-> 0, sample |-> NoSample]

Event == [kind : {"header", "start", "sample", "final", "unreadable", "end"}, id : 0 .. MaxRequests, day : Days]

Larger(a, b) == IF a >= b THEN a ELSE b

\* What an event leaves as the attempt's last sample.
SampleAfter(e, sample) ==
  CASE e.kind = "sample"     -> 1
    [] e.kind = "final"      -> 2
    [] e.kind = "unreadable" -> NoSample
    [] OTHER                 -> sample

Closes(e) == e.kind \in {"final", "unreadable", "end"}

\* consume, for the event at index n: the open attempt and the requests closed so far.
Consume(s, n, e) ==
  LET sample == SampleAfter(e, s.open.sample)
      closed == [id |-> s.open.id, start |-> s.open.at, end |-> n, day |-> e.day, tokens |-> sample]
  IN  IF e.kind = "start" THEN [s EXCEPT !.open = [id |-> e.id, at |-> n, sample |-> NoSample]]
      ELSE IF s.open = Closed THEN s
      ELSE IF ~ Closes(e) THEN [s EXCEPT !.open.sample = sample]
      ELSE [open |-> Closed,
            requests |-> IF sample = NoSample THEN s.requests ELSE s.requests \cup {closed}]

Settled(l) == FoldLeftDomain(LAMBDA s, n : Consume(s, n, l[n]), [open |-> Closed, requests |-> {}], l)
-----------------------------------------------------------------------------
(* Watermarks and daily records: usage-ledger.ts. *)

NoMark == [kind |-> "none", base |-> 0, settled |-> 0, format |-> 0]
Legacy == [kind |-> "legacy", base |-> 0, settled |-> 0, format |-> 0]
Marks  == {NoMark, Legacy}
            \cup [kind : {"offsets"}, base : 0 .. MaxEvents, settled : 0 .. MaxEvents, format : {1, 2}]

Nothing == [r \in Request |-> 0]
Empty   == [d \in Days |-> Nothing]

\* mergeUsageWatermark
MergeMark(current, loaded) ==
  LET newest == Larger(current.format, loaded.format)
      known  == {m \in {current, loaded} : m.kind = "offsets" /\ m.format = newest}
  IN  IF current.kind = "none" THEN loaded
      ELSE IF loaded.kind = "none" THEN current
      ELSE IF known = {} THEN Legacy
      ELSE [kind |-> "offsets", format |-> newest,
            base |-> Min({m.base : m \in known}), settled |-> Max({m.settled : m \in known})]

Tokens(record) == SumFunction(record)

\* A record met twice keeps the larger totals.
MergeDaily(current, loaded) ==
  [d \in Days |-> IF Tokens(loaded[d]) > Tokens(current[d]) THEN loaded[d] ELSE current[d]]

TokensOf(requests, r) == SumFunctionOnSet([q \in requests |-> q.tokens], {q \in requests : q.id = r})

\* fault, for Fence: the session's format is not compared
SameFormat(mark, batch) ==
  LET base == IF mark.kind = "offsets" THEN mark.base
              ELSE IF mark.kind = "legacy" \/ batch.catchup THEN batch.through
              ELSE batch.live
  IN  [base |-> base, settled |-> IF mark.kind = "offsets" THEN mark.settled ELSE base]

\* What a batch may not credit again: up to "settled", and begun up to "base".
Fence(mark, batch) ==
  LET renumbered == mark.kind # "none" /\ mark.format # batch.format
      base == IF renumbered THEN batch.through
              ELSE IF mark.kind = "offsets" THEN mark.base
              ELSE IF mark.kind = "legacy" \/ batch.catchup THEN batch.through
              ELSE batch.live
  IN  [base |-> base,
       settled |-> IF mark.kind = "offsets" /\ ~ renumbered THEN mark.settled ELSE base]

Due(fence, batch, today) ==
  {q \in batch.requests :
     q.end > fence.settled /\ q.start > fence.base /\ (batch.catchup => q.day = today)}

\* creditSettledUsageBatch
Credit(mark, record, batch, today) ==
  LET fence == Fence(mark, batch)
      due   == Due(fence, batch, today)
  IN  [mark   |-> [kind |-> "offsets", base |-> fence.base, format |-> batch.format,
                   settled |-> Larger(fence.settled, batch.through)],
       record |-> [r \in Request |-> record[r] + TokensOf(due, r)]]
-----------------------------------------------------------------------------
(* The two authorities and the two domains.  A domain is the sequence of   *)
(* images its queued writes lead to: the first is durable, the last is     *)
(* what a load reads.                                                      *)

Gone  == [alive |-> FALSE, sink |-> FALSE, mark |-> NoMark, daily |-> Empty]
Fresh == [Gone EXCEPT !.alive = TRUE]

Put(images, image) == IF image = Last(images) THEN images ELSE Append(images, image)
PutMark(b, mark)   == [b EXCEPT !.core = Put(@, [Last(@) EXCEPT !.mark = mark])]
PutDaily(b, daily) == [b EXCEPT !.core = Put(@, [Last(@) EXCEPT !.daily = daily])]
Durable(image)     == <<image>>

\* hydrate: merge what is stored into the candidate and write the result back.
Hydrate(b) ==
  LET mark  == MergeMark(b.online.mark, Last(b.core).mark)
      daily == MergeDaily(b.online.daily, Last(b.core).daily)
  IN  PutDaily(PutMark([b EXCEPT !.online = [alive |-> TRUE, sink |-> TRUE, mark |-> mark, daily |-> daily]],
                       mark), daily)

\* attachPersistence of the local authority: nothing is written back.
Attached(b) ==
  [b EXCEPT !.local = [alive |-> TRUE, sink |-> TRUE,
                       mark  |-> MergeMark(@.mark, Last(b.core).mark),
                       daily |-> MergeDaily(@.daily, Last(b.play))]]

\* UsageProjection.observe
ObserveOnline(b, batch) ==
  LET credit == Credit(b.online.mark, b.online.daily[day], batch, day)
      daily  == [b.online.daily EXCEPT ![day] = credit.record]
      seen   == [b EXCEPT !.online.mark = credit.mark, !.online.daily = daily]
  IN  IF b.online.sink THEN PutDaily(PutMark(seen, credit.mark), daily) ELSE seen

\* FakeAuthoritativeLiangService.observeUsage
ObserveLocal(b, batch) ==
  LET credit == Credit(b.local.mark, b.local.daily[day], batch, day)
      daily  == [b.local.daily EXCEPT ![day] = credit.record]
      seen   == [b EXCEPT !.local.mark = credit.mark, !.local.daily = daily]
  IN  IF b.local.sink THEN [PutMark(seen, credit.mark) EXCEPT !.play = Put(@, daily)] ELSE seen

Observe(b, slot, batch) == IF slot = "online" THEN ObserveOnline(b, batch) ELSE ObserveLocal(b, batch)

\* The batches, one after the other.
Delivered(b, slot, batches) == FoldLeft(LAMBDA c, batch : Observe(c, slot, batch), b, batches)

\* flushPendingObservations, into the authority that ends up in the slot.
Flushed(b, slot) == Delivered(b, slot, pending)
-----------------------------------------------------------------------------
(* The observer: attachUsageObservation. *)

Batch(through, requests, catchup) ==
  [through |-> through, requests |-> requests, catchup |-> catchup, live |-> live, format |-> format]

\* What the event at the end of the log "l" makes the observer report.
Reports(l) ==
  LET requests == Settled(l).requests
      closed   == {q \in requests : q.end = Len(l)}
  IN  CASE watching = "on" /\ closed # {} -> <<Batch(Len(l), closed, FALSE)>>
        [] watching = "unlisted" -> <<Batch(live, {}, TRUE), Batch(Len(l), requests, FALSE)>>
        [] OTHER -> <<>>

Held == ~ booted \/ change.to # "none"

\* onUsage: batches wait while the Host starts or changes authority.
Deliver(batches) ==
  IF Held
  THEN pending' = pending \o batches /\ UNCHANGED books
  ELSE /\ books' = Delivered(books, mode.slot, batches)
       /\ UNCHANGED pending

Attach(listed) ==
  /\ watching = "off"
  /\ watching' = IF listed THEN "on" ELSE "unlisted"
  /\ IF listed THEN Deliver(<<Batch(Len(log), Settled(log).requests, TRUE)>>)
     ELSE UNCHANGED <<books, pending>>
  /\ UNCHANGED <<session, mode, startup, change, ghosts, used>>

\* DSH appends an event to the session and emits it.
Happens(kind, id) ==
  LET l == Append(log, [kind |-> kind, id |-> id, day |-> day]) IN
  /\ Len(log) < MaxEvents
  /\ log' = l
  /\ Deliver(Reports(l))
  /\ watching' = IF watching = "unlisted" THEN "on" ELSE watching
  /\ UNCHANGED <<day, format, borrowed, live, mode, startup, change, memoryOnly, torn, used>>

Begun == Cardinality({n \in DOMAIN log : log[n].kind = "start"})

BeginRequest ==
  /\ Begun < MaxRequests
  /\ Happens("start", Begun + 1)
  /\ owed' = IF watching = "off" THEN owed ELSE owed \cup {Begun + 1}

GoOn(kind) ==
  /\ Settled(log).open # Closed
  /\ Happens(kind, Settled(log).open.id)
  /\ UNCHANGED owed
-----------------------------------------------------------------------------
(* The start of the Host. *)

NoChange == [to |-> "none", pc |-> "idle"]

\* The end of every start: the queue goes to the authority in the slot.
Boot(b, slot) ==
  /\ booted' = TRUE
  /\ books' = Flushed(b, slot)
  /\ pending' = <<>>

\* openLiangxiangPersistence resolved; the saved choice decides what follows.
OpenCore ==
  LET saved == Last(books.core).pref IN
  /\ storage = "closed"
  /\ IF saved = "online"
     THEN storage' = "identity" /\ mode' = [selected |-> "online", slot |-> "online"] /\ books' = Hydrate(books)
     ELSE storage' = "local" /\ mode' = [mode EXCEPT !.selected = "local"] /\ UNCHANGED books
  /\ UNCHANGED <<session, watching, booted, change, pending, ghosts, used>>

\* identity.resolve returned: the online authority is complete.
ResolveIdentity ==
  /\ storage = "identity"
  /\ storage' = "open"
  /\ Boot(books, mode.slot)
  /\ UNCHANGED <<session, watching, mode, change, ghosts, used>>

\* openLocal returned: the local authority takes the slot.
OpenLocal ==
  /\ storage = "local"
  /\ storage' = "open"
  /\ mode' = [mode EXCEPT !.slot = "local"]
  /\ Boot([Attached(books) EXCEPT !.online = Gone], "local")
  /\ UNCHANGED <<session, watching, change, ghosts, used>>

\* The 5 s window passed, or the storage failed: memory only, with the default.
GiveUp(failed) ==
  /\ ~ booted
  /\ failed => storage \in {"closed", "local", "identity"}
  /\ storage' = IF failed THEN "failed" ELSE storage
  /\ mode' = [selected |-> Default, slot |-> Default]
  /\ Boot(IF Default = "online" THEN [books EXCEPT !.online = Fresh] ELSE [books EXCEPT !.local.alive = TRUE],
          Default)
  /\ memoryOnly' = TRUE
  /\ UNCHANGED <<session, watching, change, owed, torn, used>>
-----------------------------------------------------------------------------
(* A change of authority the user asks for: applyAuthorityModeSelection. *)

InUse(p) == p = mode.selected /\ p = mode.slot

SaveChoice(p) == Durable([Last(books.core) EXCEPT !.pref = p])

\* The choice already made is only saved again.
KeepMode ==
  /\ storage = "open" /\ change = NoChange
  /\ InUse(mode.slot)
  /\ books' = [books EXCEPT !.core = SaveChoice(mode.slot)]
  /\ Len(books.core) > 1
  /\ UNCHANGED <<session, watching, mode, startup, change, pending, ghosts, used>>

AskChange(p) ==
  /\ storage = "open" /\ change = NoChange
  /\ ~ InUse(p)
  /\ Act
  /\ change' = [to |-> p, pc |-> "barrier"]
  /\ UNCHANGED <<session, watching, books, mode, startup, pending, ghosts>>

\* setAuthorityPreference(selectedPreference) and flush: every earlier write is durable.
Barrier ==
  /\ change.pc = "barrier"
  /\ change' = [change EXCEPT !.pc = "prepare"]
  /\ books' = [books EXCEPT !.core = SaveChoice(mode.selected),
                            !.play = IF books.local.sink THEN Durable(Last(@)) ELSE @]
  /\ UNCHANGED <<session, watching, mode, startup, pending, ghosts, used>>

PrepareLocal ==
  /\ change.pc = "prepare" /\ change.to = "local"
  /\ change' = [change EXCEPT !.pc = "commit"]
  /\ books' = Attached(books)
  /\ UNCHANGED <<session, watching, mode, startup, pending, ghosts, used>>

\* The candidate hydrates and reaches the backend; the old authority stays in the slot.
PrepareOnline ==
  /\ change.pc = "prepare" /\ change.to = "online"
  /\ change' = [change EXCEPT !.pc = "commit"]
  /\ UNCHANGED <<session, watching, books, mode, startup, pending, ghosts, used>>

\* fault, for Settle: the queue is not delivered
Unflushed(b, slot) == /\ change' = NoChange /\ pending' = <<>> /\ books' = b

\* finally: the queue goes to the authority that won.
Settle(b, slot) ==
  /\ change' = NoChange
  /\ pending' = <<>>
  /\ books' = Flushed(b, slot)

CommitLocal ==
  /\ change = [to |-> "local", pc |-> "commit"]
  /\ mode' = [selected |-> "local", slot |-> "local"]
  /\ Settle([books EXCEPT !.core = SaveChoice("local"), !.online = Gone], "local")
  /\ UNCHANGED <<session, watching, startup, ghosts, used>>

CommitOnline ==
  LET candidate == Hydrate([books EXCEPT !.online = Fresh]) IN
  /\ change = [to |-> "online", pc |-> "commit"]
  /\ mode' = [selected |-> "online", slot |-> "online"]
  /\ Settle([candidate EXCEPT !.core = Durable([Last(@) EXCEPT !.pref = "online"])], "online")
  /\ UNCHANGED <<session, watching, startup, ghosts, used>>

\* Any step may fail; the backend may be out of reach.
AbortChange ==
  /\ change.pc \in {"barrier", "prepare", "commit"}
  /\ Settle(books, mode.slot)
  /\ UNCHANGED <<session, watching, mode, startup, ghosts, used>>
-----------------------------------------------------------------------------
(* Time, and the end of the process. *)

Midnight ==
  /\ day < LastDay
  /\ day' = day + 1
  /\ Act
  /\ UNCHANGED <<log, format, borrowed, live, watching, books, mode, startup, change, pending, ghosts>>

\* Requests a watermark keeps from being credited again.
Covered(mark, l) ==
  {q.id : q \in {p \in Settled(l).requests :
     mark.kind # "none" /\ (mark.kind = "offsets" /\ mark.format = format
                              => p.end <= mark.settled \/ p.start <= mark.base)}}

\* A session renumbered by DSH gains an event at its head.
Renumbered == <<[kind |-> "header", id |-> 0, day |-> 1]>> \o log

\* What the Host serves from until its storage opens.
AtStart(core, play) ==
  [online |-> IF Default = "online" THEN Fresh ELSE Gone, local |-> Gone, core |-> core, play |-> play]

\* The process ends, keeping the first "i" and "j" images, and starts again.
Restart(i, j, renumber) ==
  LET core == books.core[i]
      play == books.play[j]
  IN
  /\ Act
  /\ renumber => format = 1 /\ Len(log) \in 1 .. MaxEvents - 1
  /\ format' = IF renumber THEN 2 ELSE format
  /\ log' = IF renumber THEN Renumbered ELSE log
  /\ live' = Len(log')
  /\ torn' = (torn \/ \E r \in Request, d \in Days : play[d][r] > 0 /\ r \notin Covered(core.mark, log))
  /\ books' = AtStart(<<core>>, <<play>>)
  /\ mode' = [selected |-> Default, slot |-> Default]
  /\ storage' = "closed" /\ booted' = FALSE
  /\ change' = NoChange /\ pending' = <<>>
  /\ watching' = "off" /\ owed' = {} /\ memoryOnly' = FALSE
  /\ UNCHANGED <<day, borrowed>>
-----------------------------------------------------------------------------
Parent == <<[kind |-> "start", id |-> 1, day |-> 1], [kind |-> "final", id |-> 1, day |-> 1]>>

\* A session of its own or a fork; a new installation, or one an older version left.
Init ==
  \E l \in {<<>>, Parent}, mark \in {NoMark, Legacy}, pref \in {"online", "local"} :
    /\ day = 1 /\ log = l /\ format = 1
    /\ borrowed = Len(l) \div 2 /\ live = Len(l)
    /\ watching = "off"
    /\ books = AtStart(<<[mark |-> mark, daily |-> Empty, pref |-> pref]>>, <<Empty>>)
    /\ mode = [selected |-> Default, slot |-> Default]
    /\ storage = "closed" /\ booted = FALSE
    /\ change = NoChange /\ pending = <<>>
    /\ owed = {} /\ memoryOnly = FALSE /\ torn = FALSE
    /\ used = 0

Observation == BeginRequest \/ \E kind \in {"sample", "final", "unreadable", "end"} : GoOn(kind)
Start       == \/ \E listed \in BOOLEAN : Attach(listed)
               \/ OpenCore \/ ResolveIdentity \/ OpenLocal
               \/ \E failed \in BOOLEAN : GiveUp(failed)
Change      == \/ KeepMode \/ (\E p \in {"online", "local"} : AskChange(p))
               \/ Barrier \/ PrepareLocal \/ PrepareOnline
               \/ CommitLocal \/ CommitOnline \/ AbortChange
End         == \E i \in DOMAIN books.core, j \in DOMAIN books.play, renumber \in BOOLEAN : Restart(i, j, renumber)

Next == Observation \/ Start \/ Change \/ Midnight \/ End
Spec == Init /\ [][Next]_vars
-----------------------------------------------------------------------------
Projections == [alive : BOOLEAN, sink : BOOLEAN, mark : Marks, daily : [Days -> [Request -> Nat]]]

\* The shape of the state: every watermark and record the code can build.
TypeOK ==
  /\ day \in Days /\ format \in {1, 2} /\ log \in Seq(Event) /\ live \in 0 .. Len(log)
  /\ books.online \in Projections /\ books.local \in Projections
  /\ \A image \in Range(books.core) : image.mark \in Marks /\ image.pref \in {"online", "local"}
  /\ watching \in {"off", "unlisted", "on"}
  /\ storage \in {"closed", "local", "identity", "open", "failed"}
  /\ mode.slot = "online" /\ booted => books.online.alive
  /\ ~ Held => pending = <<>>

\* The tokens provider and log agree on: the final usage, or the last sample of a closed request.
Billed(r) == IF r <= borrowed THEN 0 ELSE TokensOf(Settled(log).requests, r)

\* What each authority's books show: its memory while it lives, else its domain.
Daily(authority) ==
  CASE authority = "online" -> IF books.online.alive THEN books.online.daily ELSE Last(books.core).daily
    [] authority = "local"  -> IF books.local.alive THEN books.local.daily ELSE Last(books.play)

Booked(r) == SumFunction([x \in {"online", "local"} \X Days |-> Daily(x[1])[x[2]][r]])

\* Whatever is replayed, restarted, switched or renumbered, a request is credited at
\* most once over both authorities, never before it closes, with its final usage, and
\* never when the session inherited it; unless a crash kept a local credit without
\* the watermark that fences it (usage-ledger.ts:160-195, index.ts:130-146).
NoTokenTwice == ~ torn => \A r \in Request : Booked(r) <= Billed(r)

Waiting(r) == \E i \in DOMAIN pending : TokensOf(pending[i].requests, r) > 0

\* A request begun under observation is in the books, or in the queue, as soon as it
\* closes, through every change of authority that succeeds or fails; unless the Host
\* gave up on its storage (index.ts:189-229, usage-projection.ts:73-98).
LiveCounted ==
  ~ memoryOnly => \A r \in owed : Booked(r) >= Billed(r) \/ Waiting(r)
=============================================================================
