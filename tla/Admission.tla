------------------------------ MODULE Admission ------------------------------
(***************************************************************************)
(* How a Host enters the community: it claims a public ticket for its key, *)
(* or takes over the place of an earlier key of the same device.  The      *)
(* backend (http.ts, service.ts, store.ts) answers one request at a time;  *)
(* the operator's command line changes the same tables from a process of   *)
(* its own, between the statements of a request that is no transaction.    *)
(*                                                                         *)
(* An installation id is its public key, so a signature is "who sent it".  *)
(* A Host presents the fingerprint its key was minted with.  Time is a     *)
(* number of ticks since something happened, no longer than it matters; a  *)
(* tick is at least the admission limiter's minute.  Requests the Host     *)
(* gave up on may arrive late; a read that is asked once more is one read. *)
(***************************************************************************)
EXTENDS Integers, FiniteSets, FiniteSetsExt

CONSTANTS
  Installation,   \* keys
  Shared,         \* those minted on one machine; every other has its own
  Retirable,      \* those whose profile may be gone from the start
  NoOne,          \* no installation
  Limit,          \* admissionPublicListLimit: tickets on the public page
  MaxClaims,      \* admissionTicketMaxClaims
  Target,         \* admissionInventoryTarget
  Ttl,            \* admissionTicketTtlHours, in ticks
  Cooldown,       \* rekeyCooldownMs, in ticks
  HitWindow,      \* IDENTITY_HIT_WINDOW_MS, in ticks
  MissWindow,     \* IDENTITY_MISS_WINDOW_MS, in ticks
  MaxKeys,        \* IDENTITY_RATE_LIMIT_MAX_KEYS
  PerMinute,      \* admissionClaimRateLimitPerMinute
  MaxRounds,      \* pages one enrolment asks for
  MaxTickets,     \* bound: tickets that exist at a time
  MaxActs,        \* bound: commands and revocations, requests given up on, restarts
  MaxEach         \* bound: of those, of one kind

ASSUME AdmissionAssumption ==
  /\ IsFiniteSet(Installation) /\ NoOne \notin Installation
  /\ Shared \subseteq Installation /\ Retirable \subseteq Installation
  /\ \A n \in {Limit, MaxClaims, Ttl, MaxKeys, MaxRounds, MaxTickets} : n \in Nat \ {0}
  /\ \A n \in {Target, Cooldown, HitWindow, MissWindow, PerMinute, MaxActs, MaxEach} : n \in Nat

VARIABLES
  ticket,    \* admission_ticket: per slot a ticket, or NoTicket
  seen,      \* community_identity: ticks since last_seen_at, or Gone
  last,      \* IdentityRateLimiter: per key, ticks since its entry, or Never
  admitted,  \* AdmissionRateLimiter: claims of this minute
  server,    \* the request between its check and its write, if any
  late,      \* requests given up on that may still arrive
  host,      \* per installation: where its Host is
  paid,      \* history: devices a ticket was consumed for since they were removed
  used       \* bounded acts so far

tables == <<ticket, seen>>
memory == <<last, admitted, server>>
vars   == <<tables, memory, late, host, paid, used>>
-----------------------------------------------------------------------------
Slot    == 1 .. MaxTickets
Gone    == -1
Never   == -1

Device(i) == IF i \in Shared THEN Shared ELSE {i}
Devices   == {Device(i) : i \in Installation}

TicketStatus == {"none", "active", "exhausted", "revoked", "expired"}
\* What is left of a ticket that is over is asked by nobody.
Over(status) == [status |-> status, left |-> 0, ttl |-> 0]
NoTicket == Over("none")

Asks == [kind : {"hello", "claim", "rekey"}, from : Installation, slot : Slot \cup {0}]
Free == [step |-> "free", from |-> NoOne, live |-> FALSE]

Off  == [pc |-> "off", page |-> {}, tried |-> {}, round |-> 0, slow |-> FALSE]
At(pc) == [Off EXCEPT !.pc = pc]

\* Where a Host waits for an answer.
Hellos  == {"hello", "again", "poll"}
Waiting == Hellos \cup {"tickets", "claim", "rekey"}

\* identityByFingerprint: at most one row has a fingerprint.
Owners(i) == {j \in Device(i) : seen[j] # Gone}

Least(a, b) == IF a <= b THEN a ELSE b

\* A profile that is gone for good was enrolled and is not heard again.
Running == {i \in Installation : host[i].pc # "off"}

InitWith(retired) ==
  /\ ticket = [s \in Slot |-> NoTicket]
  /\ seen = [i \in Installation |-> IF i \in retired THEN 0 ELSE Gone]
  /\ last = [k \in ({"hit"} \X Installation) \cup ({"miss"} \X Devices) |-> Never]
  /\ admitted = 0 /\ server = Free /\ late = {}
  /\ host = [i \in Installation |-> IF i \in retired THEN Off ELSE At("hello")]
  /\ paid = {Device(i) : i \in retired}
  /\ used = [ops |-> 0, faults |-> 0, restarts |-> 0]

Init ==
  \E retired \in SUBSET Retirable :
    (\A d \in Devices : Cardinality(d \cap retired) <= 1) /\ InitWith(retired)

Spend(act) ==
  /\ used[act] < MaxEach /\ used.ops + used.faults + used.restarts < MaxActs
  /\ used' = [used EXCEPT ![act] = @ + 1]
-----------------------------------------------------------------------------
(* Tickets. *)

\* expireAdmissionTickets
Expired(ts) ==
  [s \in Slot |-> IF ts[s].status = "active" /\ ts[s].ttl = 0
                  THEN Over("expired") ELSE ts[s]]

\* availableAdmissionTickets.  Older ones come first; which of a batch, is chance.
Available(ts) == {s \in Slot : ts[s].status = "active" /\ ts[s].ttl > 0 /\ ts[s].left > 0}

Pages(ts) ==
  IF Cardinality(Available(ts)) <= Limit THEN {Available(ts)} ELSE kSubset(Limit, Available(ts))

\* admissionInventory
Remaining(ts) == MapThenSumSet(LAMBDA s : ts[s].left, Available(ts))

\* A slot whose ticket is over and that nobody can still ask for is reused.
Vacant(ts) ==
  {s \in Slot : /\ ts[s].status # "active"
                /\ \A i \in Running : s \notin host[i].page
                /\ \A r \in late : r.slot # s}

\* mintAdmissionTickets
Minted(ts, slots, claims) ==
  [s \in Slot |-> IF s \in slots THEN [status |-> "active", left |-> claims, ttl |-> Ttl]
                  ELSE ts[s]]

\* Which free slots they take is a matter of names.
Mint(ts, n, claims) ==
  /\ Cardinality(Vacant(ts)) >= n
  /\ ticket' = Minted(ts, CHOOSE slots \in kSubset(n, Vacant(ts)) : TRUE, claims)

\* replenishAdmissionInventoryInTransaction: a deficit of claims, in tickets.
Replenished ==
  LET deficit == Target - Remaining(Expired(ticket)) IN
  IF deficit <= 0 THEN ticket' = Expired(ticket)
  ELSE Mint(Expired(ticket), deficit, MaxClaims)

\* ensureActiveCase, when it opens the day's case.
OpenDay == Replenished /\ UNCHANGED <<seen, memory, late, host, paid, used>>

\* The operator's commands are transactions or single statements of their own.
Operates == Spend("ops") /\ UNCHANGED <<memory, late, host>>

\* replenishAdmissionInventory
Replenish == Operates /\ Replenished /\ UNCHANGED <<seen, paid>>

\* issueAdmissionTickets
Issue(n, claims) == Operates /\ Mint(ticket, n, claims) /\ UNCHANGED <<seen, paid>>

\* revokeActiveAdmissionTickets
Withdrawn(ts) ==
  [s \in Slot |-> IF ts[s].status = "active" THEN Over("revoked") ELSE ts[s]]

\* replaceAdmissionTickets
Replace(n, claims) ==
  /\ Operates
  /\ Mint(Withdrawn(Expired(ticket)), n, claims)
  /\ UNCHANGED <<seen, paid>>

\* revokeAdmissionTicket
RevokeTicket(s) ==
  /\ Operates
  /\ ticket[s].status = "active"
  /\ ticket' = [ticket EXCEPT ![s] = Over("revoked")]
  /\ UNCHANGED <<seen, paid>>

\* fault, for Consumed: the last claim leaves the ticket active
KeptActive(ts, s) == [ts EXCEPT ![s].left = @ - 1]

\* consumeAdmissionTicket
Consumed(ts, s) ==
  IF ts[s].left = 1 THEN [ts EXCEPT ![s] = Over("exhausted")] ELSE [ts EXCEPT ![s].left = @ - 1]

\* What claimAdmission makes of a ticket it found, or did not find.
Claimable(ts, s) == s \in Available(ts)
-----------------------------------------------------------------------------
(* Identities.  A removed device leaves the community; but a request that   *)
(* was let in before may still write the row of the installation it found.  *)

Removed(i) ==
  /\ seen' = [seen EXCEPT ![i] = Gone]
  /\ paid' = IF seen[i] = Gone \/ server.from \in Device(i) THEN paid ELSE paid \ {Device(i)}

\* unbindIdentity, the operator's
Unbind(i) == Operates /\ Removed(i) /\ UNCHANGED ticket

\* upsertIdentity: a row that exists keeps what it has and is seen now.
Upserted(rows, i) == [rows EXCEPT ![i] = 0]

\* The IdentityRateLimiter: one entry per key, MaxKeys entries.
Window(k)  == IF k[1] = "hit" THEN HitWindow ELSE MissWindow
Entries(l) == {k \in DOMAIN l : l[k] # Never}

\* evict
Evicted(l) == [k \in DOMAIN l |-> IF l[k] >= Window(k) THEN Never ELSE l[k]]

\* identityKind
Key(i) == IF Owners(i) # {} THEN <<"hit", i>> ELSE <<"miss", Device(i)>>

Crowded(k) == last[k] = Never /\ Cardinality(Entries(last)) >= MaxKeys
Roomier(k) == IF Crowded(k) THEN Evicted(last) ELSE last
Full(k)    == last[k] = Never /\ Cardinality(Entries(Roomier(k))) >= MaxKeys
Early(k)   == last[k] # Never /\ last[k] < Window(k)

\* fault, for Checked: a refused attempt starts the wait of a member anew, as the
\* head of the file has it (identity-rate-limit.ts 9-10)
AlwaysChecked(k) == last' = IF Full(k) THEN Roomier(k) ELSE [Roomier(k) EXCEPT ![k] = 0]

\* check (46), and docs/122:51: only a stranger's refused attempt is held against it.
Checked(k) ==
  last' = IF Full(k) \/ (Early(k) /\ k[1] = "hit") THEN Roomier(k)
          ELSE [Roomier(k) EXCEPT ![k] = 0]

\* gateIdentityMutation
Gate(i) == ~ Full(Key(i)) /\ ~ Early(Key(i))

\* revokeIdentity: the owner of a key deletes its row.
Revoke(i) ==
  /\ i \in Running /\ server = Free
  /\ Spend("ops")
  /\ Checked(Key(i))
  /\ IF Gate(i) /\ seen[i] # Gone THEN Removed(i) ELSE UNCHANGED <<seen, paid>>
  /\ UNCHANGED <<ticket, admitted, server, late, host>>
-----------------------------------------------------------------------------
(* The Host (BackendLiangService). *)

\* The next ticket of the page that was not found exhausted, or the next page.
Onward(h) ==
  IF h.page \ h.tried # {} THEN [h EXCEPT !.pc = "claim"]
  ELSE IF h.round + 1 < MaxRounds THEN [h EXCEPT !.pc = "tickets", !.round = @ + 1]
  ELSE At("down")

Secret(h) == Min(h.page \ h.tried)

\* An answer of the backend: "ok" or the code of its error.
Step(h, answer) ==
  CASE h.pc \in Hellos /\ answer = "ok" -> At("up")
    [] h.pc = "hello" /\ answer = "admission_required" -> [h EXCEPT !.pc = "tickets"]
    [] h.pc \in {"claim", "rekey"} /\ answer = "ok" -> [At("again") EXCEPT !.slow = h.slow]
    [] h.pc = "claim" /\ answer = "device_conflict" -> [h EXCEPT !.pc = "rekey", !.page = {}]
    [] h.pc = "claim" /\ answer = "admission_ticket_exhausted" ->
         Onward([h EXCEPT !.tried = @ \cup {Secret(h)}])
    [] OTHER -> At("down")

\* A late request is answered to nobody.
Answer(i, live, answer) ==
  host' = IF live THEN [host EXCEPT ![i] = Step(@, answer)] ELSE host

Request(i) ==
  [kind |-> IF host[i].pc \in Hellos THEN "hello" ELSE host[i].pc, from |-> i,
   slot |-> IF host[i].pc = "claim" THEN Secret(host[i]) ELSE 0]

\* tick, refreshNow: the bootstrap is asked for again after its back-off.
Again(i) ==
  /\ host[i].pc = "down"
  /\ host' = [host EXCEPT ![i] = At("hello")]
  /\ UNCHANGED <<tables, memory, late, paid, used>>

\* refreshPersonal: a connected Host makes authenticated calls, one a tick at least.
Poll(i) ==
  /\ host[i].pc = "up" /\ host[i].slow
  /\ host' = [host EXCEPT ![i].pc = "poll"]
  /\ UNCHANGED <<tables, memory, late, paid, used>>

\* The page of the moment; an empty one ends the enrolment.
ListTickets(i) ==
  /\ host[i].pc = "tickets"
  /\ ticket' = Expired(ticket)
  /\ \E page \in Pages(ticket') :
       host' = [host EXCEPT ![i] = IF page = {} THEN At("down") ELSE Onward([@ EXCEPT !.page = page])]
  /\ UNCHANGED <<seen, memory, late, paid, used>>

\* A timeout or a broken connection: the request may arrive all the same.
GiveUp(i) ==
  /\ host[i].pc \in Waiting \ {"tickets"} /\ server.from # i
  /\ Spend("faults")
  /\ late' = late \cup {Request(i)}
  /\ host' = [host EXCEPT ![i] = At("down")]
  /\ UNCHANGED <<tables, memory, paid>>
-----------------------------------------------------------------------------
(* The routes of the backend. *)

\* authenticate, first half: the installation must be known.
Hello(r, live) ==
  /\ r.kind = "hello"
  /\ IF seen[r.from] = Gone
     THEN Answer(r.from, live, "admission_required") /\ UNCHANGED server
     ELSE server' = [step |-> "touch", from |-> r.from, live |-> live] /\ UNCHANGED host
  /\ UNCHANGED <<tables, last, admitted, paid>>

\* Its second half: the device must not be another's, and the row is refreshed.
Touch ==
  /\ server.step = "touch"
  /\ IF Owners(server.from) \subseteq {server.from}
     THEN seen' = Upserted(seen, server.from) /\ Answer(server.from, server.live, "ok")
     ELSE Answer(server.from, server.live, "device_conflict") /\ UNCHANGED seen
  /\ server' = Free
  /\ UNCHANGED <<ticket, last, admitted, late, paid, used>>

\* AdmissionRateLimiter.check
Throttled == PerMinute > 0 /\ admitted >= PerMinute

\* claimAdmission, in one transaction
ClaimAdmission(r, live) ==
  LET i == r.from
      ts == Expired(ticket)
  IN
  /\ ticket' = IF seen[i] # Gone \/ Owners(i) # {} THEN ticket
               ELSE IF Claimable(ts, r.slot) THEN Consumed(ts, r.slot) ELSE ticket
  /\ IF seen[i] = Gone /\ Owners(i) = {} /\ Claimable(ts, r.slot)
     THEN seen' = Upserted(seen, i) /\ paid' = paid \cup {Device(i)}
     ELSE UNCHANGED <<seen, paid>>
  /\ Answer(i, live,
       CASE seen[i] # Gone -> "ok"
         [] Owners(i) # {} -> "device_conflict"
         [] Claimable(ts, r.slot) -> "ok"
         [] OTHER -> "admission_ticket_exhausted")

\* POST /v1/admission/claim
Claim(r, live) ==
  /\ r.kind = "claim"
  /\ IF Throttled
     THEN /\ Answer(r.from, live, "admission_rate_limited")
          /\ UNCHANGED <<tables, admitted, paid>>
     ELSE /\ admitted' = IF PerMinute > 0 THEN admitted + 1 ELSE 0
          /\ ClaimAdmission(r, live)
  /\ UNCHANGED <<last, server>>

Anyone(i) == TRUE  \* fault, for Bound: the device is not looked up

Bound(i) == Owners(i) # {}

\* POST /v1/identity/rekey, up to the service: the device must be bound.
Rekey(r, live) ==
  /\ r.kind = "rekey"
  /\ Checked(Key(r.from))
  /\ IF Gate(r.from) /\ Bound(r.from)
     THEN server' = [step |-> "rekey", from |-> r.from, live |-> live] /\ UNCHANGED host
     ELSE /\ Answer(r.from, live, IF Gate(r.from) THEN "admission_required"
                                  ELSE "identity_rate_limited")
          /\ UNCHANGED server
  /\ UNCHANGED <<tables, admitted, paid>>

Whoever(j) == TRUE  \* fault, for Quiet: the cooldown is not looked at

\* assertRekeyCooldownElapsed
Quiet(j) == seen[j] >= Cooldown

\* rekeyIdentity: the device changes hands when its holder has been quiet.
RekeyIdentity ==
  LET i == server.from IN
  /\ server.step = "rekey"
  /\ IF i \in Owners(i) THEN UNCHANGED seen /\ Answer(i, server.live, "ok")
     ELSE IF \E j \in Owners(i) : ~ Quiet(j)
     THEN UNCHANGED seen /\ Answer(i, server.live, "rekey_cooldown")
     ELSE /\ seen' = Upserted([j \in Installation |-> IF j \in Owners(i) THEN Gone ELSE seen[j]], i)
          /\ Answer(i, server.live, "ok")
  /\ server' = Free
  /\ UNCHANGED <<ticket, last, admitted, late, paid, used>>

Serve(r, live) == server = Free /\ (Hello(r, live) \/ Claim(r, live) \/ Rekey(r, live))

Served(i) ==
  /\ host[i].pc \in Waiting \ {"tickets"}
  /\ Serve(Request(i), TRUE)
  /\ UNCHANGED <<late, used>>

LateRequest ==
  \E r \in late : Serve(r, FALSE) /\ late' = late \ {r} /\ UNCHANGED used

LostRequest ==
  \E r \in late : late' = late \ {r} /\ UNCHANGED <<tables, memory, host, paid, used>>
-----------------------------------------------------------------------------
(* Time and restarts. *)

\* A Host asks for a bootstrap every few seconds and polls every minute: it is
\* done with what it was at before a second tick, and so is the backend; a
\* request on its way arrives, or is lost, before the next one.
InTime == server = Free /\ late = {} /\ \A i \in Running : ~ host[i].slow

Older(age, most) == IF age = Never THEN Never ELSE Least(age + 1, most)

Tick ==
  /\ InTime
  /\ ticket' = [s \in Slot |-> IF ticket[s].status = "active"
                               THEN [ticket[s] EXCEPT !.ttl = IF @ = 0 THEN 0 ELSE @ - 1]
                               ELSE ticket[s]]
  /\ seen' = [i \in Installation |-> Older(seen[i], Cooldown)]
  /\ last' = [k \in DOMAIN last |-> Older(last[k], Window(k))]
  /\ admitted' = 0
  /\ host' = [i \in Installation |-> IF i \in Running THEN [host[i] EXCEPT !.slow = TRUE] ELSE Off]
  /\ UNCHANGED <<server, late, paid, used>>

\* The backend's process ends and starts: what it kept in memory is lost.
Restart ==
  /\ Spend("restarts")
  /\ last' = [k \in DOMAIN last |-> Never] /\ admitted' = 0
  /\ server' = Free
  /\ host' = IF server.live THEN [host EXCEPT ![server.from] = At("down")] ELSE host
  /\ UNCHANGED <<tables, late, paid>>

HostStep(i) == Again(i) \/ Poll(i) \/ ListTickets(i) \/ Served(i)
Backend == Touch \/ RekeyIdentity
Command ==
  \/ Replenish
  \/ \E claims \in 1 .. MaxClaims : Issue(1, claims) \/ Replace(1, claims)
  \/ \E s \in Slot : RevokeTicket(s)
  \/ \E i \in Installation : Unbind(i) \/ Revoke(i)

Next ==
  \/ \E i \in Installation : HostStep(i) \/ GiveUp(i)
  \/ Backend \/ LateRequest \/ LostRequest
  \/ OpenDay \/ Command
  \/ Tick \/ Restart

Spec == Init /\ [][Next]_vars

\* Time passes, days open, Hosts go on asking, and the backend answers everyone
\* who asks: it takes requests as they come.
FairSpec ==
  /\ Spec /\ WF_vars(Backend) /\ WF_vars(LostRequest) /\ WF_vars(OpenDay) /\ WF_vars(Tick)
  /\ \A i \in Installation : WF_vars(HostStep(i)) /\ SF_vars(Served(i))
-----------------------------------------------------------------------------
Ticket == [status : TicketStatus, left : 0 .. MaxClaims, ttl : 0 .. Ttl]

(***************************************************************************)
(* The tables and memories are well-formed: an active ticket has claims    *)
(* left, a device has at most one row (the unique index of the table), no  *)
(* more claims of a minute are counted than it allows, and the limiter     *)
(* keeps within its cap.                                                   *)
(***************************************************************************)
TypeOK ==
  /\ ticket \in [Slot -> Ticket]
  /\ \A s \in Slot : ticket[s].status = "active" <=> ticket[s].left > 0
  /\ seen \in [Installation -> {Gone} \cup (0 .. Cooldown)]
  /\ \A i \in Installation : Cardinality(Owners(i)) <= 1
  /\ \A k \in DOMAIN last : last[k] \in {Never} \cup (0 .. Window(k))
  /\ Cardinality(Entries(last)) <= MaxKeys
  /\ admitted \in 0 .. PerMinute
  /\ server \in [step : {"free", "touch", "rekey"}, from : Installation \cup {NoOne}, live : BOOLEAN]
  /\ late \subseteq Asks
  /\ host \in [Installation -> [pc : Waiting \cup {"off", "down", "up"}, page : SUBSET Slot,
                                tried : SUBSET Slot, round : 0 .. MaxRounds, slow : BOOLEAN]]
  /\ paid \subseteq Devices

(***************************************************************************)
(* Every device in the community got there by a ticket: its row, whoever   *)
(* holds it now and however it changed hands, follows a consumed claim     *)
(* that no removal of the device came after.  (A removal while a request   *)
(* of that device is being answered does not undo that request.)           *)
(***************************************************************************)
DevicePaid == \A i \in Installation : seen[i] # Gone => Device(i) \in paid

(***************************************************************************)
(* A second profile of a machine never takes the place of a first one that *)
(* is in use: a connected Host, which polls well within the cooldown, only *)
(* loses its row to the operator or to its own request to be forgotten.    *)
(***************************************************************************)
InUseKeepsDevice ==
  [][\A i \in Running :
       host[i].pc = "up" /\ seen[i] # Gone /\ seen'[i] = Gone => used'.ops > used.ops]_vars

(***************************************************************************)
(* A machine with a profile that runs gets back in, again and again,       *)
(* whatever was removed, revoked, replaced, refused, lost or restarted:    *)
(* tickets are topped up, the place of a profile that is gone is free once *)
(* it has been quiet, and no limiter stays closed: a Host that asks again  *)
(* before its wait is over does not prolong it (identity-rate-limit.ts 46, *)
(* docs/122:51; the comment of that file, 9-10, has it otherwise).         *)
(***************************************************************************)
Recovers ==
  \A d \in Devices :
    (\E i \in d : host[i].pc # "off") => []<>(\E i \in d : host[i].pc = "up")
=============================================================================
