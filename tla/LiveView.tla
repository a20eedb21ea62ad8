------------------------------- MODULE LiveView -------------------------------
(***************************************************************************)
(* What one browser tab shows, and what one press of a vote button does,   *)
(* between the Host's two authorities (AuthoritySlot, DayEndService), the  *)
(* HTTP and event routes, and the tab's live store.  Frames of the event   *)
(* stream arrive in order; answers to separate requests arrive in any      *)
(* order, late, or never; the Host restarts and changes authority.         *)
(*                                                                         *)
(* A state of an authority is its content (body) and a revision that moves *)
(* with every read, with new content or without.  The cases of the two     *)
(* authorities differ (local ids name their date and index), so a vote     *)
(* names its case by the authority that opened it.                         *)
(***************************************************************************)
EXTENDS Integers, Sequences, FiniteSets

CONSTANTS
  Asks,         \* what the tab posts and applies the answer of: "refresh", "reconcile"
  MaxErrors,    \* MAX_SSE_ERRORS
  MaxPresses,   \* bound: presses of a vote button
  MaxActs       \* bound: new states, faults, questions, presses and changes of authority

ASSUME LiveViewAssumption ==
  /\ Asks \subseteq {"refresh", "reconcile"}
  /\ MaxErrors \in Nat \ {0} /\ MaxPresses \in Nat /\ MaxActs \in Nat

VARIABLES
  host,    \* the Host process, its authorities and the votes they have accepted
  link,    \* the Host's end of the event stream, and the frames on their way
  pulls,   \* the tab's requests for a state, by kind
  calls,   \* vote requests not yet answered to the tab
  tab,     \* the live store and the press in flight
  acts     \* the acts that MaxActs bounds

vars == <<host, link, pulls, calls, tab, acts>>
-----------------------------------------------------------------------------
Mode == {"local", "online"}
Pull == Asks \cup {"state", "mode"}

NoWire  == [epoch |-> 0, mode |-> "none", rev |-> -1, body |-> 0]
NoLink  == [open |-> FALSE, last |-> NoWire, pipe |-> <<>>]
NoPull  == [at |-> "idle", to |-> "none", wire |-> NoWire]
Fresh(e) == [epoch |-> e, rev |-> 0, body |-> 0]

Act(n) == acts + n <= MaxActs /\ acts' = acts + n

\* DayEndService adds its own settings revision, so Bump stands for either.
Shown(h) == [epoch |-> h.auth[h.mode].epoch, mode |-> h.mode,
             rev |-> h.auth[h.mode].rev, body |-> h.auth[h.mode].body]

\* A frame is compared without its revision.
Content(w) == [w EXCEPT !.rev = -1]

WriteFrame(l, h) ==
  IF ~l.open \/ Content(Shown(h)) = l.last
  THEN l
  ELSE [l EXCEPT !.last = Content(Shown(h)), !.pipe = Append(@, Shown(h))]

\* Every change of the serving authority reaches the subscribers of the slot.
Emits(h) == host' = h /\ link' = WriteFrame(link, h)

Bumped(h, m, new) == [h EXCEPT !.auth[m].rev = @ + 1, !.auth[m].body = IF new THEN @ + 1 ELSE @]
-----------------------------------------------------------------------------
\* The live store.  Only its view, cursors and connection matter; t is the tab.

Apply(t, w) ==
  LET other == \/ w.epoch # t.epoch
               \/ t.view # NoWire /\ w.mode # t.view.mode
      seen  == IF other THEN -1 ELSE t.rev
  IN  [t EXCEPT !.epoch = w.epoch, !.conn = "live",
                !.rev  = IF w.rev > seen THEN w.rev ELSE seen,
                !.view = IF w.rev > seen THEN w ELSE @]

\* late: an answer of an authority no longer serving was applied, and no frame since; the
\* cursor it reset lets older answers of the serving authority in as well.
Landed(t, w) ==
  [Apply(t, w) EXCEPT !.late = @ \/ w.epoch # Shown(host).epoch \/ w.mode # Shown(host).mode]

OpenStream(t) == IF t.stream # "none" THEN t ELSE [t EXCEPT !.stream = "opening", !.errors = 0]

\* goOffline with scheduleReconnect, which leaves a start or a timer under way alone.
GoOffline(t) == [t EXCEPT !.stream = "none", !.conn = "offline", !.timer = @ \/ ~t.starting]

\* An error event: EventSource tries again by itself, unless the answer was no stream.
StreamError(t, next) ==
  IF t.errors + 1 >= MaxErrors THEN GoOffline(t)
  ELSE [t EXCEPT !.errors = @ + 1, !.stream = next]

\* The Host's end closes with the tab's.
Keeps(t) == tab' = t /\ link' = IF t.stream = "open" THEN link ELSE NoLink

Bootstrap(t) ==
  IF t.starting THEN tab' = t /\ UNCHANGED pulls
  ELSE /\ tab'   = [t EXCEPT !.starting = TRUE]
       /\ pulls' = [pulls EXCEPT !["state"] = [NoPull EXCEPT !.at = "sent"]]
-----------------------------------------------------------------------------
Init ==
  /\ host  = [up |-> TRUE, ready |-> FALSE, mode |-> "online", to |-> "none", epoch |-> 1,
              auth |-> [m \in Mode |-> Fresh(1)], books |-> [m \in Mode |-> {}]]
  /\ link  = NoLink
  /\ pulls = [k \in Pull |-> IF k = "state" THEN [NoPull EXCEPT !.at = "sent"] ELSE NoPull]
  /\ calls = {}
  /\ tab   = [conn |-> "connecting", view |-> NoWire, rev |-> -1, epoch |-> -1,
              stream |-> "none", errors |-> 0, starting |-> TRUE, timer |-> FALSE,
              gone |-> FALSE, late |-> FALSE,
              press |-> "idle", presses |-> 0, case |-> "none"]
  /\ acts  = 0
-----------------------------------------------------------------------------
\* The Host process.

\* A start: both authorities may read the same millisecond for their epoch.
Start ==
  /\ ~host.up
  /\ host' = [host EXCEPT !.up = TRUE, !.epoch = @ + 1,
                          !.auth = [m \in Mode |-> Fresh(host.epoch + 1)]]
  /\ UNCHANGED <<link, pulls, calls, tab, acts>>

\* The storage has opened, or the start-up window has ended.
Ready ==
  /\ host.up /\ ~host.ready
  /\ Emits([host EXCEPT !.ready = TRUE])
  /\ UNCHANGED <<pulls, calls, tab, acts>>

\* The process ends: requests it holds fail, the stream breaks; answers given are on their way.
Stop ==
  /\ host.up /\ Act(1)
  /\ host'  = [host EXCEPT !.up = FALSE, !.ready = FALSE, !.to = "none"]
  /\ link'  = NoLink
  /\ pulls' = [k \in Pull |-> IF pulls[k].at = "held" THEN [NoPull EXCEPT !.at = "failed"] ELSE pulls[k]]
  /\ calls' = {IF c.at \in {"queued", "running"} THEN [c EXCEPT !.at = "failed"] ELSE c : c \in calls}
  /\ UNCHANGED tab

\* A read of the authority, a change of settings, a new day: with new content or without.
Bump ==
  /\ host.up /\ host.ready /\ Act(1)
  /\ \E new \in BOOLEAN : Emits(Bumped(host, host.mode, new))
  /\ UNCHANGED <<pulls, calls, tab>>

\* A change of authority asked by this tab (held) or by another page.
BeginSwitch ==
  /\ host.up /\ host.ready /\ host.to = "none"
  /\ \/ /\ pulls["mode"].at = "sent"
        /\ host'  = [host EXCEPT !.to = pulls["mode"].to]
        /\ pulls' = [pulls EXCEPT !["mode"].at = "held"]
        /\ UNCHANGED acts
     \/ /\ Act(1)
        /\ \E m \in Mode \ {host.mode} : host' = [host EXCEPT !.to = m]
        /\ UNCHANGED pulls
  /\ UNCHANGED <<link, calls, tab>>

\* The online authority is a new object each time; the local one lives with the process.
Switched(h) ==
  IF h.to = "local" THEN [h EXCEPT !.mode = "local", !.to = "none"]
  ELSE [h EXCEPT !.mode = "online", !.to = "none", !.epoch = @ + 1,
                 !.auth["online"] = Fresh(h.epoch + 1)]

\* The tab's own request, if it is the one held, is answered with the state then served.
AnswersMode(h, at) ==
  pulls' = IF pulls["mode"].at # "held" THEN pulls
           ELSE [pulls EXCEPT !["mode"] = [at |-> at, to |-> @.to, wire |-> Shown(h)]]

FinishSwitch ==
  /\ host.to # "none"
  /\ \E h \in {Switched(host)} : Emits(h) /\ AnswersMode(h, "answered")
  /\ UNCHANGED <<calls, tab, acts>>

\* The community cannot be reached, or the storage fails: the authority stays.
FailSwitch ==
  /\ host.to # "none"
  /\ host' = [host EXCEPT !.to = "none"]
  /\ AnswersMode(host, "failed")
  /\ UNCHANGED <<link, calls, tab, acts>>

\* The connection of the stream breaks; the frames under way are lost.
Break ==
  /\ link.open /\ Act(1)
  /\ link' = NoLink
  /\ UNCHANGED <<host, pulls, calls, tab>>
-----------------------------------------------------------------------------
\* The event stream.

\* Fault: a new connection waits for the next change.
StreamOpensSilent ==
  /\ tab.stream = "opening" /\ host.up /\ host.ready
  /\ link' = [NoLink EXCEPT !.open = TRUE]
  /\ tab'  = [tab EXCEPT !.stream = "open"]
  /\ UNCHANGED <<host, pulls, calls, acts>>

StreamOpens ==
  /\ tab.stream = "opening" /\ host.up /\ host.ready
  /\ link' = WriteFrame([NoLink EXCEPT !.open = TRUE], host)
  /\ tab'  = [tab EXCEPT !.stream = "open"]
  /\ UNCHANGED <<host, pulls, calls, acts>>

StreamFails ==
  /\ tab.stream = "opening" /\ ~host.up
  /\ Keeps(StreamError(tab, "opening"))
  /\ UNCHANGED <<host, pulls, calls, acts>>

\* 503 "still starting" (or no route yet): EventSource gives up after one error event.
StreamRefused ==
  /\ tab.stream = "opening" /\ host.up /\ ~host.ready
  /\ Keeps(StreamError(tab, "refused"))
  /\ UNCHANGED <<host, pulls, calls, acts>>

StreamBreaks ==
  /\ tab.stream = "open" /\ ~link.open
  /\ Keeps(StreamError(tab, "opening"))
  /\ UNCHANGED <<host, pulls, calls, acts>>

Frame ==
  /\ tab.stream = "open" /\ link.pipe # <<>>
  /\ tab'  = [Apply(tab, Head(link.pipe)) EXCEPT !.errors = 0, !.late = FALSE]
  /\ link' = [link EXCEPT !.pipe = Tail(@)]
  /\ UNCHANGED <<host, pulls, calls, acts>>
-----------------------------------------------------------------------------
\* Requests whose answer is a state.

\* Fault: a timer that fires on a live view has nothing to do.
ReconnectIfOffline ==
  /\ tab.timer
  /\ IF tab.conn = "live" THEN tab' = [tab EXCEPT !.timer = FALSE] /\ UNCHANGED pulls
     ELSE Bootstrap([tab EXCEPT !.timer = FALSE])
  /\ UNCHANGED <<host, link, calls, acts>>

Reconnect ==
  /\ tab.timer
  /\ Bootstrap([tab EXCEPT !.timer = FALSE])
  /\ UNCHANGED <<host, link, calls, acts>>

\* The panel opens, or the user asks for the books: offline, that starts a reconnect.
Ask(k) ==
  /\ ~tab.gone /\ Act(1)
  /\ \/ /\ tab.conn = "offline"
        /\ Bootstrap(IF k = "refresh" THEN [tab EXCEPT !.timer = FALSE] ELSE tab)
     \/ /\ tab.conn # "offline" /\ pulls[k] = NoPull /\ ~tab.starting
        /\ pulls' = [pulls EXCEPT ![k].at = "sent"]
        /\ UNCHANGED tab
  /\ UNCHANGED <<host, link, calls>>

\* The mode button asks for the authority the tab does not show.
AskMode ==
  /\ ~tab.gone /\ pulls["mode"] = NoPull /\ Act(1)
  /\ pulls' = [pulls EXCEPT !["mode"] =
                 [NoPull EXCEPT !.at = "sent",
                                !.to = IF tab.view.mode = "local" THEN "online" ELSE "local"]]
  /\ UNCHANGED <<host, link, calls, tab>>

Refuses(k) == ~host.up \/ ~host.ready \/ (k = "reconcile" /\ host.to # "none")

\* The mode route waits for the storage, and gives up after its window.
Answer(k) ==
  /\ pulls[k].at = "sent"
  /\ \/ Refuses(k) /\ pulls' = [pulls EXCEPT ![k].at = "failed"]
     \/ /\ ~Refuses(k)
        /\ k = "mode" => host.to = "none" /\ pulls[k].to = host.mode   \* nothing to change
        /\ pulls' = [pulls EXCEPT ![k] = [NoPull EXCEPT !.at = "answered", !.wire = Shown(host)]]
  /\ UNCHANGED <<host, link, calls, tab, acts>>

\* The answer is lost, or later than the tab waits; a change of authority goes on without it.
Lose(k) ==
  /\ pulls[k].at \in {"sent", "held", "answered"} /\ Act(1)
  /\ pulls' = [pulls EXCEPT ![k] = [NoPull EXCEPT !.at = "failed"]]
  /\ UNCHANGED <<host, link, calls, tab>>

Arrive(k) ==
  /\ pulls[k].at \in {"answered", "failed"}
  /\ pulls' = [pulls EXCEPT ![k] = NoPull]
  /\ IF pulls[k].at = "answered"
     THEN Keeps(IF k = "state"
                THEN OpenStream(Landed([tab EXCEPT !.starting = FALSE, !.timer = FALSE], pulls[k].wire))
                ELSE Landed(tab, pulls[k].wire))
     ELSE Keeps(IF k = "state" THEN GoOffline([tab EXCEPT !.starting = FALSE]) ELSE tab)
  /\ UNCHANGED <<host, calls, acts>>
-----------------------------------------------------------------------------
\* One press: a request whose case and id are written once, and one retry.

\* Fault: the body is written again for each attempt, from what is shown by then.
VoteCallNow(t, n) ==
  [try |-> n, press |-> t.presses, id |-> t.presses, case |-> t.view.mode,
   at |-> "sent", by |-> "none", epoch |-> 0, wire |-> NoWire]

VoteCall(t, n) ==
  [try |-> n, press |-> t.presses, id |-> t.presses, case |-> t.case,
   at |-> "sent", by |-> "none", epoch |-> 0, wire |-> NoWire]

Press ==
  /\ ~tab.gone /\ tab.press = "idle" /\ tab.conn = "live" /\ tab.presses < MaxPresses /\ Act(1)
  /\ \E t \in {[tab EXCEPT !.press = "first", !.presses = @ + 1, !.case = tab.view.mode]} :
       tab' = t /\ calls' = calls \cup {VoteCall(t, 1)}
  /\ UNCHANGED <<host, link, pulls>>

Retry ==
  /\ tab.press = "resting"
  /\ tab'   = [tab EXCEPT !.press = "second"]
  /\ calls' = calls \cup {VoteCall(tab, 2)}
  /\ UNCHANGED <<host, link, pulls, acts>>

Replace(c, d) == calls' = (calls \ {c}) \cup {d}

\* The route: 503 while starting or changing, else the vote queues with the authority of now.
Receive(c) ==
  /\ c.at = "sent"
  /\ Replace(c, IF ~host.up \/ ~host.ready \/ host.to # "none" THEN [c EXCEPT !.at = "failed"]
                ELSE [c EXCEPT !.at = "queued", !.by = host.mode, !.epoch = Shown(host).epoch])
  /\ UNCHANGED <<host, link, pulls, tab, acts>>

Serves(c) == host.mode = c.by /\ Shown(host).epoch = c.epoch

\* One vote at a time; its turn has come, and the authority may have changed meanwhile.
Begin(c) ==
  /\ c.at = "queued" /\ \A d \in calls : d.at # "running"
  /\ Replace(c, [c EXCEPT !.at = IF Serves(c) /\ host.to = "none" THEN "running" ELSE "failed"])
  /\ UNCHANGED <<host, link, pulls, tab, acts>>

Known(c) == \E b \in host.books[c.by] : b.id = c.id

\* What an authority does of a vote: the same id is answered again and nothing is spent;
\* a case of the other authority is refused as stale.
Accepts(c) == ~Known(c) /\ c.case = c.by

Spent(h, c) == [h EXCEPT !.books[c.by] = @ \cup {[id |-> c.id, press |-> c.press]}]

Decided(c, h) == Emits(h) /\ Replace(c, [c EXCEPT !.at = "answered", !.wire = Shown(h)])

Decide(c) ==
  /\ c.at = "running"
  /\ \/ /\ Accepts(c)
        /\ Decided(c, Bumped(Spent(host, c), c.by, TRUE))
     \/ Decided(c, host)                          \* replayed, or refused
  /\ c.by = "online" => Serves(c)                 \* a disposed client gives no answer
  /\ UNCHANGED <<pulls, tab, acts>>

\* The limiter of the authority refuses the vote (429); the tab does not try again.
Limit(c) ==
  /\ c.at = "running"
  /\ Replace(c, [c EXCEPT !.at = "limited"])
  /\ UNCHANGED <<host, link, pulls, tab, acts>>

\* The community cannot be heard: the answer is lost, before or after it spent the sticks.
CannotHear(c) ==
  /\ c.at = "running" /\ c.by = "online"
  /\ host' \in {host} \cup (IF Accepts(c) THEN {Spent(host, c)} ELSE {})
  /\ Replace(c, [c EXCEPT !.at = "failed"])
  /\ UNCHANGED <<link, pulls, tab, acts>>

Awaited(c) == c.press = tab.presses /\ tab.press = (IF c.try = 1 THEN "first" ELSE "second")

\* No answer yet, or none that is not a 4xx: rest once and try again, then give up.
Tired(t) == [t EXCEPT !.press = IF @ = "first" THEN "resting" ELSE "idle"]

Return(c) ==
  /\ c.at \in {"answered", "failed", "limited"}
  /\ calls' = calls \ {c}
  /\ tab' = IF ~Awaited(c) THEN tab
            ELSE IF c.at = "answered" THEN [Landed(tab, c.wire) EXCEPT !.press = "idle"]
            ELSE IF c.at = "limited" THEN [tab EXCEPT !.press = "idle"]
            ELSE Tired(tab)
  /\ UNCHANGED <<host, link, pulls, acts>>

\* Fault: only the first attempt is bounded in time.
GiveUpFirst ==
  /\ tab.press = "first"
  /\ tab' = Tired(tab)
  /\ UNCHANGED <<host, link, pulls, calls, acts>>

\* The request times out; the Host may still be at work on it.
GiveUp ==
  /\ tab.press \in {"first", "second"}
  /\ tab' = Tired(tab)
  /\ UNCHANGED <<host, link, pulls, calls, acts>>

\* The badge unmounts: the stream closes, every request is aborted, no timer is left.
Dispose ==
  /\ ~tab.gone /\ Act(1)
  /\ Keeps([tab EXCEPT !.gone = TRUE, !.stream = "none", !.timer = FALSE, !.starting = FALSE, !.press = "idle"])
  /\ pulls' = [k \in Pull |-> NoPull]
  /\ UNCHANGED <<host, calls>>
-----------------------------------------------------------------------------
Next ==
  \/ Start \/ Ready \/ Stop \/ Bump \/ BeginSwitch \/ FinishSwitch \/ FailSwitch \/ Break
  \/ StreamOpens \/ StreamFails \/ StreamRefused \/ StreamBreaks \/ Frame
  \/ Reconnect \/ AskMode
  \/ \E k \in Asks : Ask(k)
  \/ \E k \in Pull : Answer(k) \/ Lose(k) \/ Arrive(k)
  \/ Press \/ Retry \/ GiveUp \/ Dispose
  \/ \E c \in calls : Receive(c) \/ Begin(c) \/ Decide(c) \/ Limit(c) \/ CannotHear(c) \/ Return(c)

Spec == Init /\ [][Next]_vars

\* What runs by itself: timers, the event loops, EventSource, the loopback connection.
\* Nothing obliges an authority to answer a vote, or a user to ask.
Fairness ==
  /\ WF_vars(Start) /\ WF_vars(Ready) /\ WF_vars(FinishSwitch)
  /\ WF_vars(StreamOpens \/ StreamFails \/ StreamRefused) /\ WF_vars(StreamBreaks) /\ WF_vars(Frame)
  /\ WF_vars(Reconnect) /\ WF_vars(Retry) /\ WF_vars(GiveUp)
  /\ \A k \in Pull : WF_vars(Answer(k)) /\ WF_vars(Arrive(k))

FairSpec == Spec /\ Fairness
-----------------------------------------------------------------------------
\* The type invariant.
TypeOK ==
  /\ host.mode \in Mode /\ host.to \in Mode \cup {"none"}
  /\ host.ready => host.up
  /\ tab.conn \in {"connecting", "live", "offline"}
  /\ tab.stream \in {"none", "opening", "open", "refused"}
  /\ tab.errors \in 0 .. MaxErrors - 1
  /\ tab.press \in {"idle", "first", "resting", "second"}
  /\ \A k \in Pull : pulls[k].at \in {"idle", "sent", "held", "answered", "failed"}
  /\ \A c \in calls : c.at \in {"sent", "queued", "running", "answered", "failed", "limited"}

\* When the stream is open and no frame is on its way, the tab shows what the Host would
\* answer, through restarts, breaks, frames left out because nothing but the revision
\* moved, and changes of authority; unless a late answer of an authority no longer serving
\* has been applied since the last frame (live-store applyWire, routes writeFrame).
InStep ==
  link.open /\ tab.stream = "open" /\ link.pipe = <<>> /\ ~tab.late
    => Content(tab.view) = Content(Shown(host))

\* One press is spent by at most one authority, once, whatever is lost, retried, restarted
\* or switched between its two attempts (postVote, DayEndService.vote).
PressSpendsOnce ==
  \A n \in 1 .. tab.presses :
    Cardinality(UNION {{m} \X {b \in host.books[m] : b.press = n} : m \in Mode}) <= 1

Settled == tab.conn = "live" /\ link.open /\ tab.stream = "open" /\ link.pipe = <<>>

\* Once faults and changes stop, the tab is live on an open stream with nothing left to
\* read, unless it was unmounted or its EventSource was refused by a starting Host.
CatchesUp == <>[](tab.gone \/ tab.stream = "refused" \/ Settled)

\* The vote buttons come back: a press always ends, even when no answer ever comes.
PressEnds == (tab.press # "idle") ~> (tab.press = "idle")
=============================================================================
