-------------------------- MODULE AdmissionProofs --------------------------
(***************************************************************************)
(* Theorems about the two gates of the community: admission, for every     *)
(* number of installations, machines, tickets, late requests and operator  *)
(* commands, and every clock; and the vote budget of VoteRateLimiter.      *)
(***************************************************************************)
EXTENDS Admission, VoteRateLimiter, SumTheorems

Keys == ({"hit"} \X Installation) \cup ({"miss"} \X Devices)

HostState == [pc : Waiting \cup {"off", "down", "up"}, page : SUBSET Slot,
              tried : SUBSET Slot, round : 0 .. MaxRounds, slow : BOOLEAN]

\* A Host that claims has a ticket left to ask for.
HostOK(h) == h \in HostState /\ (h.pc = "claim" => h.page \ h.tried # {})

(* The type invariant, by the variables that a step writes. *)

TicketsOK == ticket \in [Slot -> Ticket]
             /\ \A s \in Slot : ticket[s].status = "active" <=> ticket[s].left > 0
RowsOK    == seen \in [Installation -> {Gone} \cup (0 .. Cooldown)]
Alone     == \A i \in Installation : \A x, y \in Owners(i) : x = y
LimitsOK  == /\ DOMAIN last = Keys /\ \A k \in Keys : last[k] \in {Never} \cup (0 .. Window(k))
             /\ IsFiniteSet(Entries(last)) /\ Cardinality(Entries(last)) <= MaxKeys
             /\ admitted \in 0 .. PerMinute
ServerOK  == server \in [step : {"free", "touch", "rekey"}, from : Installation \cup {NoOne},
                         live : BOOLEAN]
             /\ (server.step # "free" => server.from \in Installation)
AsksOK    == late \subseteq Asks
HostsOK   == DOMAIN host = Installation /\ host = [i \in Installation |-> host[i]]
             /\ \A i \in Installation : HostOK(host[i])
PaidOK    == paid \subseteq Devices

TypeInv == TicketsOK /\ RowsOK /\ Alone /\ LimitsOK /\ ServerOK /\ AsksOK /\ HostsOK /\ PaidOK

LEMMA Numbers ==
  /\ Limit \in Nat /\ MaxClaims \in Nat \ {0} /\ Ttl \in Nat /\ MaxKeys \in Nat
  /\ MaxRounds \in Nat \ {0} /\ MaxTickets \in Nat /\ Cooldown \in Nat
  /\ HitWindow \in Nat /\ MissWindow \in Nat /\ PerMinute \in Nat
BY AdmissionAssumption

LEMMA OneMember ==
  ASSUME NEW S, IsFiniteSet(S)
  PROVE  Cardinality(S) <= 1 <=> \A x, y \in S : x = y
<1>1. ASSUME NEW x \in S, NEW y \in S, x # y PROVE ~ (Cardinality(S) <= 1)
  <2>1. IsFiniteSet({x}) /\ Cardinality({x}) = 1
    BY FS_Singleton
  <2>2. IsFiniteSet({x} \cup {y}) /\ Cardinality({x} \cup {y}) = 2
    BY <1>1, <2>1, FS_AddElement
  <2>3. {x} \cup {y} \in SUBSET S
    OBVIOUS
  <2>4. Cardinality({x} \cup {y}) <= Cardinality(S) /\ Cardinality(S) \in Nat
    BY <2>3, FS_Subset, FS_CardinalityType
  <2> QED BY <2>2, <2>4
<1>2. ASSUME \A x, y \in S : x = y PROVE Cardinality(S) <= 1
  <2>1. CASE S = {}
    BY <2>1, FS_EmptySet
  <2>2. CASE S # {}
    <3>1. PICK x \in S : S = {x}
      BY <1>2, <2>2
    <3> QED BY <3>1, FS_Singleton
  <2> QED BY <2>1, <2>2
<1> QED BY <1>1, <1>2

\* A machine's installations.
LEMMA Machines ==
  /\ \A i \in Installation : i \in Device(i) /\ Device(i) \subseteq Installation /\ Device(i) \in Devices
  /\ \A i, j \in Installation : j \in Device(i) => Device(j) = Device(i)
BY AdmissionAssumption DEF Device, Devices

LEMMA OwnersFinite == \A i \in Installation : IsFiniteSet(Owners(i))
<1> TAKE i \in Installation
<1>1. Owners(i) \in SUBSET Installation
  BY Machines DEF Owners
<1> QED BY <1>1, FS_Subset, AdmissionAssumption

LEMMA OwnersFiniteNext == \A i \in Installation : IsFiniteSet(Owners(i))'
<1> TAKE i \in Installation
<1>1. Owners(i)' \in SUBSET Installation
  BY Machines DEF Owners
<1> QED BY <1>1, FS_Subset, AdmissionAssumption

LEMMA TypeHolds == TypeInv => TypeOK
<1> SUFFICES ASSUME TypeInv PROVE TypeOK
  OBVIOUS
<1>1. \A i \in Installation : Cardinality(Owners(i)) <= 1
  BY OwnersFinite, OneMember DEF TypeInv, Alone
<1>2. host \in [Installation -> HostState]
  BY DEF TypeInv, HostsOK, HostOK
<1> QED BY <1>1, <1>2 DEF TypeInv, TypeOK, TicketsOK, RowsOK, LimitsOK, ServerOK, AsksOK, PaidOK, HostState

LEMMA OffOK ==
  \A pc \in {"off", "down", "up", "hello", "again", "poll"} : HostOK([Off EXCEPT !.pc = pc])
<1> TAKE pc \in {"off", "down", "up", "hello", "again", "poll"}
<1>1. Off \in HostState
  BY Numbers DEF Off, HostState
<1>2. pc \in Waiting \cup {"off", "down", "up"} /\ pc # "claim"
  BY DEF Waiting, Hellos
<1> QED BY <1>1, <1>2 DEF HostOK, HostState

LEMMA TypeInit == Init => TypeInv
<1> SUFFICES ASSUME NEW retired \in SUBSET Retirable,
                    \A d \in Devices : Cardinality(d \cap retired) <= 1, InitWith(retired)
             PROVE  TypeInv
  BY DEF Init
<1>1. TicketsOK
  BY AdmissionAssumption DEF InitWith, TicketsOK, NoTicket, Over, Ticket, TicketStatus
<1>2. RowsOK
  BY AdmissionAssumption DEF InitWith, RowsOK
<1>3. Alone
  <2> SUFFICES ASSUME NEW i \in Installation, NEW x \in Owners(i), NEW y \in Owners(i) PROVE x = y
    BY DEF Alone
  <2>1. x \in Device(i) \cap retired /\ y \in Device(i) \cap retired
    BY Machines DEF Owners, InitWith
  <2>2. Device(i) \cap retired \in SUBSET Installation
    BY Machines
  <2>3. IsFiniteSet(Device(i) \cap retired) /\ Cardinality(Device(i) \cap retired) <= 1
    BY <2>2, FS_Subset, Machines, AdmissionAssumption
  <2> QED BY <2>1, <2>3, OneMember
<1>4. LimitsOK
  <2>1. last = [k \in Keys |-> Never] /\ admitted = 0
    BY DEF InitWith, Keys
  <2>2. Entries(last) = {}
    BY <2>1 DEF Entries
  <2> QED BY <2>1, <2>2, FS_EmptySet, Numbers DEF LimitsOK
<1>5. ServerOK /\ AsksOK
  BY DEF InitWith, ServerOK, AsksOK, Free
<1>6. HostsOK
  <2>1. \A i \in Installation : host[i] = [Off EXCEPT !.pc = "off"] \/ host[i] = [Off EXCEPT !.pc = "hello"]
    BY DEF InitWith, At, Off
  <2> QED BY <2>1, OffOK DEF InitWith, HostsOK
<1>7. PaidOK
  BY AdmissionAssumption DEF InitWith, PaidOK, Devices
<1> QED BY <1>1, <1>2, <1>3, <1>4, <1>5, <1>6, <1>7 DEF TypeInv
-----------------------------------------------------------------------------
(* The Host. *)

LEMMA AtOK == \A pc \in {"off", "down", "up", "hello", "again", "poll"} : HostOK(At(pc))
BY OffOK DEF At

LEMMA SecretOK ==
  ASSUME NEW h, HostOK(h), h.pc = "claim"
  PROVE  Secret(h) \in Slot
<1>1. h.page \ h.tried \in SUBSET Nat /\ h.page \ h.tried # {} /\ h.page \subseteq Slot
  BY AdmissionAssumption DEF HostOK, HostState, Slot
<1>2. PICK m \in h.page \ h.tried : \A k \in h.page \ h.tried : m <= k
  BY <1>1, LeastNumber
<1> QED BY <1>1, <1>2 DEF Secret, Min

LEMMA OnwardOK ==
  ASSUME NEW h \in HostState
  PROVE  HostOK(Onward(h))
<1>1. CASE h.page \ h.tried # {}
  BY <1>1 DEF Onward, HostOK, HostState, Waiting
<1>2. CASE h.page \ h.tried = {} /\ h.round + 1 < MaxRounds
  <2>1. h.round + 1 \in 0 .. MaxRounds
    BY <1>2, Numbers DEF HostState
  <2>2. [h EXCEPT !.pc = "tickets", !.round = h.round + 1] \in HostState
    BY <2>1 DEF HostState, Waiting
  <2> QED BY <1>2, <2>2 DEF Onward, HostOK, HostState
<1>3. CASE h.page \ h.tried = {} /\ ~ (h.round + 1 < MaxRounds)
  BY <1>3, AtOK DEF Onward
<1> QED BY <1>1, <1>2, <1>3

LEMMA StepOK ==
  ASSUME NEW h, HostOK(h), NEW answer
  PROVE  HostOK(Step(h, answer))
<1>1. \/ Step(h, answer) \in {At("up"), At("down")}
      \/ h.pc = "hello" /\ Step(h, answer) = [h EXCEPT !.pc = "tickets"]
      \/ Step(h, answer) = [At("again") EXCEPT !.slow = h.slow]
      \/ Step(h, answer) = [h EXCEPT !.pc = "rekey", !.page = {}]
      \/ h.pc = "claim" /\ Step(h, answer) = Onward([h EXCEPT !.tried = @ \cup {Secret(h)}])
  BY DEF Step
<1>2. HostOK([h EXCEPT !.pc = "tickets"]) /\ HostOK([h EXCEPT !.pc = "rekey", !.page = {}])
  BY DEF HostOK, HostState, Waiting
<1>3. HostOK([At("again") EXCEPT !.slow = h.slow])
  <2>1. HostOK(At("again")) /\ h.slow \in BOOLEAN /\ At("again").pc = "again"
    BY AtOK DEF HostOK, HostState, At, Off
  <2> QED BY <2>1 DEF HostOK, HostState
<1>4. h.pc = "claim" => HostOK(Onward([h EXCEPT !.tried = @ \cup {Secret(h)}]))
  <2> SUFFICES ASSUME h.pc = "claim" PROVE [h EXCEPT !.tried = @ \cup {Secret(h)}] \in HostState
    BY OnwardOK
  <2>1. Secret(h) \in Slot
    BY SecretOK
  <2> QED BY <2>1 DEF HostOK, HostState
<1> QED BY <1>1, <1>2, <1>3, <1>4, AtOK

LEMMA AnswerOK ==
  ASSUME HostsOK, NEW i \in Installation, NEW live, NEW answer, Answer(i, live, answer)
  PROVE  HostsOK'
<1>1. CASE live
  <2>1. host' = [host EXCEPT ![i] = Step(host[i], answer)]
    BY <1>1 DEF Answer
  <2>2. HostOK(Step(host[i], answer))
    BY StepOK DEF HostsOK
  <2> QED BY <2>1, <2>2 DEF HostsOK
<1>2. CASE ~ live
  BY <1>2 DEF Answer, HostsOK
<1> QED BY <1>1, <1>2

LEMMA RequestOK ==
  ASSUME HostsOK, NEW i \in Installation, host[i].pc \in Waiting \ {"tickets"}
  PROVE  Request(i) \in Asks /\ Request(i).from = i
<1>1. host[i].pc = "claim" => Secret(host[i]) \in Slot
  BY SecretOK DEF HostsOK
<1> QED BY <1>1 DEF Request, Asks, Waiting, Hellos
-----------------------------------------------------------------------------
(* The tables and the memories. *)

LEMMA ExpiredOK ==
  ASSUME NEW ts \in [Slot -> Ticket], \A s \in Slot : ts[s].status = "active" <=> ts[s].left > 0
  PROVE  /\ Expired(ts) \in [Slot -> Ticket]
         /\ \A s \in Slot : Expired(ts)[s].status = "active" <=> Expired(ts)[s].left > 0
<1>1. Over("expired") \in Ticket
  BY Numbers DEF Over, Ticket, TicketStatus
<1> QED BY <1>1 DEF Expired, Over

LEMMA WithdrawnOK ==
  ASSUME NEW ts \in [Slot -> Ticket], \A s \in Slot : ts[s].status = "active" <=> ts[s].left > 0
  PROVE  /\ Withdrawn(ts) \in [Slot -> Ticket]
         /\ \A s \in Slot : Withdrawn(ts)[s].status = "active" <=> Withdrawn(ts)[s].left > 0
<1>1. Over("revoked") \in Ticket
  BY Numbers DEF Over, Ticket, TicketStatus
<1> QED BY <1>1 DEF Withdrawn, Over

LEMMA MintOK ==
  ASSUME NEW ts \in [Slot -> Ticket], \A s \in Slot : ts[s].status = "active" <=> ts[s].left > 0,
         NEW n, NEW claims \in 1 .. MaxClaims, Mint(ts, n, claims)
  PROVE  TicketsOK'
<1>1. PICK slots : ticket' = Minted(ts, slots, claims)
  BY DEF Mint
<1>2. PICK new : new = [status |-> "active", left |-> claims, ttl |-> Ttl]
  OBVIOUS
<1>3. new \in Ticket /\ new.status = "active" /\ new.left > 0
  BY <1>2, Numbers DEF Ticket, TicketStatus
<1>4. ticket' = [s \in Slot |-> IF s \in slots THEN new ELSE ts[s]]
  BY <1>1, <1>2 DEF Minted
<1> QED BY <1>3, <1>4 DEF TicketsOK

LEMMA ReplenishedOK ==
  ASSUME TicketsOK, Replenished
  PROVE  TicketsOK'
<1>1. MaxClaims \in 1 .. MaxClaims
  BY Numbers
<1>2. PICK ts : ts = Expired(ticket)
  OBVIOUS
<1>3. ts \in [Slot -> Ticket] /\ \A s \in Slot : ts[s].status = "active" <=> ts[s].left > 0
  BY <1>2, ExpiredOK DEF TicketsOK
<1>4. ticket' = ts \/ \E n : Mint(ts, n, MaxClaims)
  BY <1>2 DEF Replenished
<1>5. CASE ticket' = ts
  BY <1>3, <1>5 DEF TicketsOK
<1>6. CASE \E n : Mint(ts, n, MaxClaims)
  BY <1>1, <1>3, <1>6, MintOK
<1> QED BY <1>4, <1>5, <1>6

LEMMA ConsumedOK ==
  ASSUME NEW ts \in [Slot -> Ticket], \A s \in Slot : ts[s].status = "active" <=> ts[s].left > 0,
         NEW s \in Available(ts)
  PROVE  /\ Consumed(ts, s) \in [Slot -> Ticket]
         /\ \A x \in Slot : Consumed(ts, s)[x].status = "active" <=> Consumed(ts, s)[x].left > 0
<1>1. Over("exhausted") \in Ticket /\ Over("exhausted").left = 0 /\ Over("exhausted").status # "active"
  BY Numbers DEF Over, Ticket, TicketStatus
<1>2. s \in Slot /\ ts[s].status = "active" /\ ts[s].left \in 1 .. MaxClaims
  BY Numbers DEF Available, Ticket
<1>3. PICK new : new = IF ts[s].left = 1 THEN Over("exhausted") ELSE [ts[s] EXCEPT !.left = @ - 1]
  OBVIOUS
<1>4. new \in Ticket /\ (new.status = "active" <=> new.left > 0)
  <2>1. CASE ts[s].left = 1
    BY <1>1, <1>3, <2>1
  <2>2. CASE ts[s].left # 1
    <3>1. ts[s].left - 1 \in 1 .. MaxClaims
      BY <1>2, <2>2, Numbers
    <3>2. new = [ts[s] EXCEPT !.left = ts[s].left - 1]
      BY <1>3, <2>2
    <3>3. new.left = ts[s].left - 1 /\ new.status = "active"
      BY <1>2, <3>2 DEF Ticket
    <3>4. new \in Ticket
      BY <1>2, <3>1, <3>2, Numbers DEF Ticket
    <3> QED BY <3>1, <3>3, <3>4
  <2> QED BY <2>1, <2>2
<1>5. Consumed(ts, s) = [ts EXCEPT ![s] = new]
  BY <1>2, <1>3 DEF Consumed
<1> QED BY <1>2, <1>4, <1>5

LEMMA KeyOK == \A i \in Installation : Key(i) \in Keys
BY Machines DEF Key, Keys

LEMMA WindowOK == \A k \in Keys : Window(k) \in Nat
BY Numbers DEF Window

\* An attempt takes an entry only where there is room for one.
LEMMA CheckedOK ==
  ASSUME LimitsOK, NEW k \in Keys, Checked(k), UNCHANGED admitted
  PROVE  LimitsOK'
<1> DEFINE room == Roomier(k)
<1>1. /\ DOMAIN room = Keys /\ \A x \in Keys : room[x] \in {Never} \cup (0 .. Window(x))
      /\ Entries(room) \in SUBSET Entries(last)
  BY DEF Roomier, Evicted, LimitsOK, Entries
<1>2. /\ IsFiniteSet(Entries(room)) /\ Cardinality(Entries(room)) <= MaxKeys
      /\ Cardinality(Entries(room)) \in Nat
  <2> HIDE DEF room
  <2>1. IsFiniteSet(Entries(room)) /\ Cardinality(Entries(room)) <= Cardinality(Entries(last))
    BY <1>1, FS_Subset DEF LimitsOK
  <2>2. Cardinality(Entries(room)) \in Nat /\ Cardinality(Entries(last)) \in Nat
    BY <2>1, FS_CardinalityType DEF LimitsOK
  <2> QED BY <2>1, <2>2, Numbers DEF LimitsOK
<1>3. CASE last' = room
  <2> HIDE DEF room
  <2> QED BY <1>1, <1>2, <1>3 DEF LimitsOK
<1>4. CASE last' # room
  <2>1. last' = [room EXCEPT ![k] = 0] /\ ~ Full(k)
    BY <1>4 DEF Checked
  <2>2. last[k] # Never => room[k] # Never \/ Cardinality(Entries(room)) < MaxKeys
    BY <1>1 DEF Roomier, Crowded
  <2>3. room[k] # Never \/ Cardinality(Entries(room)) < MaxKeys
    BY <1>1, <1>2, <2>1, <2>2, Numbers DEF Full
  <2> HIDE DEF room
  <2>4. Entries(last') = Entries(room) \cup {k}
    BY <1>1, <2>1 DEF Entries, Never
  <2>5. IsFiniteSet(Entries(last')) /\ Cardinality(Entries(last')) <= MaxKeys
    <3>1. CASE room[k] # Never
      <4>1. Entries(last') = Entries(room)
        BY <1>1, <2>4, <3>1 DEF Entries
      <4> QED BY <1>2, <4>1
    <3>2. CASE Cardinality(Entries(room)) < MaxKeys
      BY <1>2, <2>4, <3>2, FS_AddElement, Numbers
    <3> QED BY <2>3, <3>1, <3>2
  <2>6. DOMAIN last' = Keys /\ \A x \in Keys : last'[x] \in {Never} \cup (0 .. Window(x))
    BY <1>1, <2>1, WindowOK
  <2> QED BY <2>5, <2>6 DEF LimitsOK
<1> QED BY <1>3, <1>4

LEMMA RemovedOK ==
  ASSUME TypeInv, NEW i \in Installation, Removed(i)
  PROVE  RowsOK' /\ Alone' /\ PaidOK'
<1>1. RowsOK' /\ PaidOK'
  BY DEF TypeInv, Removed, RowsOK, PaidOK
<1>2. \A j \in Installation : Owners(j)' \subseteq Owners(j)
  BY Machines DEF Owners, Removed, TypeInv, RowsOK
<1> QED BY <1>1, <1>2 DEF Alone, TypeInv

LEMMA UpsertedOK ==
  ASSUME TypeInv, NEW i \in Installation, seen' = Upserted(seen, i), Owners(i) \subseteq {i}
  PROVE  RowsOK' /\ Alone'
<1>1. RowsOK'
  BY Numbers DEF TypeInv, RowsOK, Upserted
<1>2. ASSUME NEW j \in Installation, NEW x \in Owners(j)', NEW y \in Owners(j)' PROVE x = y
  <2>1. /\ x \in Installation /\ Device(x) = Device(j) /\ (x = i \/ x \in Owners(j))
        /\ y \in Installation /\ Device(y) = Device(j) /\ (y = i \/ y \in Owners(j))
    BY Machines DEF Owners, Upserted, TypeInv, RowsOK
  <2>2. CASE i \in Device(j)
    <3>1. Device(i) = Device(j)
      BY <2>2, Machines
    <3>2. Owners(j) \subseteq {i}
      BY <3>1 DEF Owners
    <3> QED BY <2>1, <3>2
  <2>3. CASE i \notin Device(j)
    <3>1. x \in Owners(j) /\ y \in Owners(j)
      BY <2>1, <2>3, Machines DEF Owners
    <3> QED BY <3>1 DEF TypeInv, Alone
  <2> QED BY <2>2, <2>3
<1> QED BY <1>1, <1>2 DEF Alone

\* What a step leaves alone keeps its type.
LEMMA FrameOK ==
  ASSUME TypeInv
  PROVE  /\ UNCHANGED ticket => TicketsOK'
         /\ UNCHANGED seen => RowsOK' /\ Alone'
         /\ UNCHANGED <<last, admitted>> => LimitsOK'
         /\ UNCHANGED server => ServerOK'
         /\ UNCHANGED late => AsksOK'
         /\ UNCHANGED host => HostsOK'
         /\ UNCHANGED paid => PaidOK'
<1>1. UNCHANGED seen => RowsOK' /\ Alone'
  BY DEF TypeInv, RowsOK, Alone, Owners
<1>2. UNCHANGED <<last, admitted>> => LimitsOK'
  BY DEF TypeInv, LimitsOK, Entries
<1> QED BY <1>1, <1>2 DEF TypeInv, TicketsOK, ServerOK, AsksOK, HostsOK, PaidOK

LEMMA ServeType ==
  ASSUME TypeInv, NEW r \in Asks, NEW live \in BOOLEAN, Serve(r, live)
  PROVE  TicketsOK' /\ RowsOK' /\ Alone' /\ LimitsOK' /\ ServerOK' /\ HostsOK' /\ PaidOK'
<1>1. r.from \in Installation
  BY DEF Asks
<1>2. CASE Hello(r, live)
  <2>1. ServerOK' /\ HostsOK'
    <3>1. CASE seen[r.from] = Gone
      BY <1>1, <1>2, <3>1, AnswerOK, FrameOK DEF Hello, TypeInv
    <3>2. CASE seen[r.from] # Gone
      BY <1>1, <1>2, <3>2, FrameOK DEF Hello, ServerOK
    <3> QED BY <3>1, <3>2
  <2> QED BY <1>2, <2>1, FrameOK DEF Hello, tables
<1>3. CASE Claim(r, live)
  <2>1. UNCHANGED <<last, server>>
    BY <1>3 DEF Claim
  <2>2. CASE Throttled
    <3>1. HostsOK'
      BY <1>1, <1>3, <2>2, AnswerOK DEF Claim, TypeInv
    <3> QED BY <1>3, <2>1, <2>2, <3>1, FrameOK DEF Claim, tables
  <2>3. CASE ~ Throttled
    <3>1. admitted' = (IF PerMinute > 0 THEN admitted + 1 ELSE 0) /\ ClaimAdmission(r, live)
      BY <1>3, <2>3 DEF Claim
    <3>2. LimitsOK'
      BY <2>1, <2>3, <3>1, Numbers DEF LimitsOK, TypeInv, Throttled, Entries
    <3>3. HostsOK'
      BY <1>1, <3>1, AnswerOK DEF ClaimAdmission, TypeInv
    <3> DEFINE ts == Expired(ticket)
    <3>4. ts \in [Slot -> Ticket] /\ \A s \in Slot : ts[s].status = "active" <=> ts[s].left > 0
      BY ExpiredOK DEF TypeInv, TicketsOK
    <3>5. \/ ticket' = ticket \/ ticket' = ts
          \/ r.slot \in Available(ts) /\ ticket' = Consumed(ts, r.slot)
      BY <3>1 DEF ClaimAdmission, Claimable
    <3>6. TicketsOK'
      <4> HIDE DEF ts
      <4> QED BY <3>4, <3>5, ConsumedOK, FrameOK DEF TicketsOK
    <3>7. \/ UNCHANGED <<seen, paid>>
          \/ /\ Owners(r.from) = {} /\ seen' = Upserted(seen, r.from)
             /\ paid' = paid \cup {Device(r.from)}
      BY <3>1 DEF ClaimAdmission
    <3>8. RowsOK' /\ Alone' /\ PaidOK'
      <4>1. CASE UNCHANGED <<seen, paid>>
        BY <4>1, FrameOK
      <4>2. CASE Owners(r.from) = {} /\ seen' = Upserted(seen, r.from) /\ paid' = paid \cup {Device(r.from)}
        BY <1>1, <4>2, UpsertedOK, Machines DEF TypeInv, PaidOK
      <4> QED BY <3>7, <4>1, <4>2
    <3> QED BY <2>1, <3>2, <3>3, <3>6, <3>8, FrameOK
  <2> QED BY <2>2, <2>3
<1>4. CASE Rekey(r, live)
  <2>1. LimitsOK'
    BY <1>1, <1>4, KeyOK, CheckedOK DEF Rekey, TypeInv
  <2>2. ServerOK' /\ HostsOK'
    <3>1. CASE Gate(r.from) /\ Bound(r.from)
      BY <1>1, <1>4, <3>1, FrameOK DEF Rekey, ServerOK
    <3>2. CASE ~ (Gate(r.from) /\ Bound(r.from))
      BY <1>1, <1>4, <3>2, FrameOK, AnswerOK DEF Rekey, TypeInv
    <3> QED BY <3>1, <3>2
  <2> QED BY <1>4, <2>1, <2>2, FrameOK DEF Rekey, tables
<1> QED BY <1>2, <1>3, <1>4 DEF Serve

LEMMA BackendType ==
  ASSUME TypeInv, Backend
  PROVE  TypeInv'
<1>1. server.step # "free" /\ server.from \in Installation
  BY DEF Backend, Touch, RekeyIdentity, TypeInv, ServerOK
<1>2. server' = Free /\ UNCHANGED <<ticket, last, admitted, late, paid>>
  BY DEF Backend, Touch, RekeyIdentity
<1>3. ServerOK'
  BY <1>2 DEF ServerOK, Free
<1>4. HostsOK'
  <2>1. \E answer : Answer(server.from, server.live, answer)
    BY DEF Backend, Touch, RekeyIdentity
  <2> QED BY <1>1, <2>1, AnswerOK DEF TypeInv
<1>5. RowsOK' /\ Alone'
  <2> DEFINE i == server.from
             left == [j \in Installation |-> IF j \in Owners(i) THEN Gone ELSE seen[j]]
  <2>1. \/ UNCHANGED seen
        \/ Owners(i) \subseteq {i} /\ seen' = Upserted(seen, i)
        \/ seen' = Upserted(left, i)
    BY DEF Backend, Touch, RekeyIdentity
  <2>2. CASE seen' = Upserted(left, i)
    <3>1. RowsOK'
      <4>1. left \in [Installation -> {Gone} \cup (0 .. Cooldown)]
        BY DEF TypeInv, RowsOK
      <4> HIDE DEF left
      <4> QED BY <1>1, <2>2, <4>1, Numbers DEF RowsOK, Upserted
    <3>2. \A j \in Installation : Owners(j)' = IF i \in Device(j) THEN {i} ELSE Owners(j)
      <4> SUFFICES ASSUME NEW j \in Installation, NEW x
                   PROVE  x \in Owners(j)' <=> x \in (IF i \in Device(j) THEN {i} ELSE Owners(j))
        OBVIOUS
      <4>1. CASE x \notin Device(j)
        BY <4>1 DEF Owners
      <4>2. CASE x \in Device(j) /\ i \in Device(j)
        <5>1. x \in Installation /\ Device(x) = Device(j) /\ Device(i) = Device(j)
          BY <1>1, <4>2, Machines
        <5>2. x # i => seen'[x] = Gone
          BY <1>1, <2>2, <4>2, <5>1 DEF Owners, Upserted
        <5>3. seen'[i] # Gone
          BY <1>1, <2>2 DEF Upserted, Gone
        <5> QED BY <4>2, <5>2, <5>3 DEF Owners
      <4>3. CASE x \in Device(j) /\ i \notin Device(j)
        <5>1. x \in Installation /\ Device(x) = Device(j) /\ x \notin Device(i) /\ x # i
          BY <1>1, <4>3, Machines
        <5>2. seen'[x] = seen[x]
          BY <1>1, <2>2, <5>1 DEF Owners, Upserted
        <5> QED BY <4>3, <5>2 DEF Owners
      <4> QED BY <4>1, <4>2, <4>3
    <3> QED BY <3>1, <3>2 DEF Alone, TypeInv
  <2>3. CASE ~ (seen' = Upserted(left, i))
    BY <1>1, <2>1, <2>3, UpsertedOK, FrameOK
  <2> QED BY <2>2, <2>3
<1> QED BY <1>2, <1>3, <1>4, <1>5, FrameOK DEF TypeInv

LEMMA HostType ==
  ASSUME TypeInv, NEW i \in Installation, HostStep(i) \/ GiveUp(i)
  PROVE  TypeInv'
<1>1. host[i] \in HostState /\ HostOK(host[i])
  BY DEF TypeInv, HostsOK, HostOK
<1>2. ASSUME NEW h, HostOK(h), host' = [host EXCEPT ![i] = h] PROVE HostsOK'
  BY <1>2 DEF TypeInv, HostsOK
<1>3. CASE Again(i)
  <2>1. HostsOK'
    BY <1>2, <1>3, AtOK DEF Again
  <2> QED BY <1>3, <2>1, FrameOK DEF Again, tables, memory, TypeInv
<1>4. CASE Poll(i)
  <2>1. HostOK([host[i] EXCEPT !.pc = "poll"])
    BY <1>1 DEF HostOK, HostState, Waiting, Hellos
  <2>2. HostsOK'
    BY <1>2, <1>4, <2>1 DEF Poll
  <2> QED BY <1>4, <2>2, FrameOK DEF Poll, tables, memory, TypeInv
<1>5. CASE ListTickets(i)
  <2>1. TicketsOK'
    BY <1>5, ExpiredOK DEF ListTickets, TicketsOK, TypeInv
  <2>2. PICK page \in Pages(ticket') :
          host' = [host EXCEPT ![i] = IF page = {} THEN At("down")
                                      ELSE Onward([host[i] EXCEPT !.page = page])]
    BY <1>5 DEF ListTickets
  <2>3. page \subseteq Slot
    BY DEF Pages, Available, kSubset
  <2>4. HostOK(At("down")) /\ HostOK(Onward([host[i] EXCEPT !.page = page]))
    <3>1. [host[i] EXCEPT !.page = page] \in HostState
      BY <1>1, <2>3 DEF HostState
    <3> QED BY <3>1, AtOK, OnwardOK
  <2>5. HostsOK'
    BY <1>2, <2>2, <2>4
  <2> QED BY <1>5, <2>1, <2>5, FrameOK DEF ListTickets, memory, TypeInv
<1>6. CASE GiveUp(i)
  <2>1. HostsOK'
    BY <1>2, <1>6, AtOK DEF GiveUp
  <2>2. AsksOK'
    BY <1>6, RequestOK DEF GiveUp, AsksOK, TypeInv
  <2> QED BY <1>6, <2>1, <2>2, FrameOK DEF GiveUp, tables, memory, TypeInv
<1>7. CASE Served(i)
  <2>1. Request(i) \in Asks
    BY <1>7, RequestOK DEF Served, TypeInv
  <2> QED BY <1>7, <2>1, ServeType, FrameOK DEF Served, TypeInv
<1> QED BY <1>3, <1>4, <1>5, <1>6, <1>7 DEF HostStep

LEMMA CommandType ==
  ASSUME TypeInv, Command
  PROVE  TypeInv'
<1>1. CASE Replenish
  BY <1>1, ReplenishedOK, FrameOK DEF Replenish, Operates, memory, TypeInv
<1>2. ASSUME NEW claims \in 1 .. MaxClaims, Issue(1, claims) PROVE TypeInv'
  <2>1. TicketsOK'
    BY <1>2, MintOK DEF Issue, TypeInv, TicketsOK
  <2> QED BY <1>2, <2>1, FrameOK DEF Issue, Operates, memory, TypeInv
<1>3. ASSUME NEW claims \in 1 .. MaxClaims, Replace(1, claims) PROVE TypeInv'
  <2>1. PICK ts : ts = Withdrawn(Expired(ticket))
    OBVIOUS
  <2>2. ts \in [Slot -> Ticket] /\ \A s \in Slot : ts[s].status = "active" <=> ts[s].left > 0
    BY <2>1, ExpiredOK, WithdrawnOK DEF TypeInv, TicketsOK
  <2>3. Mint(ts, 1, claims)
    BY <1>3, <2>1 DEF Replace
  <2>4. TicketsOK'
    BY <2>2, <2>3, MintOK
  <2> QED BY <1>3, <2>4, FrameOK DEF Replace, Operates, memory, TypeInv
<1>4. ASSUME NEW s \in Slot, RevokeTicket(s) PROVE TypeInv'
  <2>1. Over("revoked") \in Ticket /\ Over("revoked").left = 0 /\ Over("revoked").status # "active"
    BY Numbers DEF Over, Ticket, TicketStatus
  <2>2. TicketsOK'
    BY <1>4, <2>1 DEF RevokeTicket, TypeInv, TicketsOK
  <2> QED BY <1>4, <2>2, FrameOK DEF RevokeTicket, Operates, memory, TypeInv
<1>5. ASSUME NEW i \in Installation, Unbind(i) PROVE TypeInv'
  BY <1>5, RemovedOK, FrameOK DEF Unbind, Operates, memory, TypeInv
<1>6. ASSUME NEW i \in Installation, Revoke(i) PROVE TypeInv'
  <2>1. LimitsOK'
    BY <1>6, KeyOK, CheckedOK DEF Revoke, TypeInv
  <2> QED BY <1>6, <2>1, RemovedOK, FrameOK DEF Revoke, TypeInv
<1> QED BY <1>1, <1>2, <1>3, <1>4, <1>5, <1>6 DEF Command

LEMMA OlderOK ==
  ASSUME NEW most \in Nat, NEW age \in {Never} \cup (0 .. most)
  PROVE  Older(age, most) \in {Never} \cup (0 .. most) /\ (Older(age, most) = Never <=> age = Never)
BY DEF Older, Least, Never

LEMMA AgedTicketOK ==
  ASSUME NEW x \in Ticket, NEW t \in 0 .. Ttl
  PROVE  /\ [x EXCEPT !.ttl = t] \in Ticket
         /\ [x EXCEPT !.ttl = t].left = x.left /\ [x EXCEPT !.ttl = t].status = x.status
BY DEF Ticket

LEMMA SlowOK ==
  ASSUME NEW h, HostOK(h)
  PROVE  HostOK([h EXCEPT !.slow = TRUE])
BY DEF HostOK, HostState

LEMMA TimeType ==
  ASSUME TypeInv, Tick \/ Restart
  PROVE  TypeInv'
<1>1. CASE Tick
  <2>1. TicketsOK'
    <3>1. \A s \in Slot : ticket[s] \in Ticket /\ ticket'[s] =
            IF ticket[s].status = "active"
            THEN [ticket[s] EXCEPT !.ttl = IF ticket[s].ttl = 0 THEN 0 ELSE ticket[s].ttl - 1]
            ELSE ticket[s]
      BY <1>1 DEF Tick, TypeInv, TicketsOK
    <3>2. \A s \in Slot : /\ ticket'[s] \in Ticket /\ ticket'[s].left = ticket[s].left
                           /\ ticket'[s].status = ticket[s].status
      <4> TAKE s \in Slot
      <4>1. PICK t : t = IF ticket[s].ttl = 0 THEN 0 ELSE ticket[s].ttl - 1
        OBVIOUS
      <4>2. ticket[s] \in Ticket /\ ticket[s].ttl \in 0 .. Ttl
        BY <3>1 DEF Ticket
      <4>3. t \in 0 .. Ttl
        BY <4>1, <4>2, Numbers
      <4>4. ticket'[s] = IF ticket[s].status = "active" THEN [ticket[s] EXCEPT !.ttl = t] ELSE ticket[s]
        BY <3>1, <4>1
      <4> QED BY <4>2, <4>3, <4>4, AgedTicketOK
    <3>3. ticket' = [s \in Slot |-> ticket'[s]]
      BY <1>1 DEF Tick
    <3> QED BY <3>2, <3>3 DEF TypeInv, TicketsOK
  <2>2. \A i \in Installation : seen'[i] \in {Gone} \cup (0 .. Cooldown)
                                /\ (seen'[i] = Gone <=> seen[i] = Gone)
    BY <1>1, Numbers, OlderOK DEF Tick, TypeInv, RowsOK, Never, Gone
  <2>3. RowsOK' /\ Alone'
    <3>1. \A i \in Installation : Owners(i)' = Owners(i)
      BY <2>2, Machines DEF Owners
    <3> QED BY <1>1, <2>2, <3>1 DEF RowsOK, Alone, TypeInv, Tick
  <2>4. LimitsOK'
    <3>1. DOMAIN last' = Keys /\ \A k \in Keys : last'[k] = Older(last[k], Window(k))
      BY <1>1 DEF Tick, TypeInv, LimitsOK
    <3>2. \A k \in Keys : last'[k] \in {Never} \cup (0 .. Window(k))
                          /\ (last'[k] = Never <=> last[k] = Never)
      BY <3>1, WindowOK, OlderOK DEF TypeInv, LimitsOK
    <3>3. Entries(last') = Entries(last)
      BY <3>1, <3>2 DEF Entries, TypeInv, LimitsOK
    <3> QED BY <1>1, <3>1, <3>2, <3>3, Numbers DEF Tick, LimitsOK, TypeInv
  <2>5. HostsOK'
    <3>1. \A i \in Installation : HostOK([host[i] EXCEPT !.slow = TRUE])
      BY SlowOK DEF TypeInv, HostsOK
    <3>2. HostOK(Off)
      BY Numbers DEF Off, HostOK, HostState
    <3> QED BY <1>1, <3>1, <3>2 DEF Tick, HostsOK
  <2> QED BY <1>1, <2>1, <2>3, <2>4, <2>5, FrameOK DEF Tick, TypeInv
<1>2. CASE Restart
  <2>1. LimitsOK'
    <3>1. DOMAIN last' = Keys /\ \A k \in Keys : last'[k] = Never
      BY <1>2 DEF Restart, TypeInv, LimitsOK
    <3>2. Entries(last') = {}
      BY <3>1 DEF Entries
    <3> QED BY <1>2, <3>1, <3>2, Numbers, FS_EmptySet DEF Restart, LimitsOK
  <2>2. ServerOK'
    BY <1>2 DEF Restart, ServerOK, Free
  <2>3. HostsOK'
    BY <1>2, AtOK DEF Restart, TypeInv, HostsOK
  <2> QED BY <1>2, <2>1, <2>2, <2>3, FrameOK DEF Restart, tables, TypeInv
<1> QED BY <1>1, <1>2

LEMMA TypeStep == TypeInv /\ [Next]_vars => TypeInv'
<1> SUFFICES ASSUME TypeInv, [Next]_vars PROVE TypeInv'
  OBVIOUS
<1>1. CASE UNCHANGED vars
  BY <1>1, FrameOK DEF vars, tables, memory, TypeInv
<1>2. CASE LateRequest
  BY <1>2, ServeType, FrameOK DEF LateRequest, TypeInv, AsksOK
<1>3. CASE LostRequest
  <2>1. AsksOK'
    BY <1>3 DEF LostRequest, TypeInv, AsksOK
  <2> QED BY <1>3, <2>1, FrameOK DEF LostRequest, tables, memory, TypeInv
<1>4. CASE OpenDay
  BY <1>4, ReplenishedOK, FrameOK DEF OpenDay, memory, TypeInv
<1> QED BY <1>1, <1>2, <1>3, <1>4, HostType, BackendType, CommandType, TimeType DEF Next

\* The tables and the memories are well-formed: no device has two rows, no page a Host
\* works through runs out unnoticed, no limiter grows past its cap
\* (schema.ts: the unique index of community_identity; identity-rate-limit.ts: evict).
THEOREM TypeInvariant == Spec => []TypeOK
BY TypeInit, TypeStep, TypeHolds, PTL DEF Spec
-----------------------------------------------------------------------------
(* A place in the community is paid for.  A request that was let in writes  *)
(* the row of its installation later on, so the device of that request must *)
(* count as paid for as long as the request is being answered.              *)

PaidInv == /\ DevicePaid
           /\ server.step # "free" => Device(server.from) \in paid

LEMMA PaidInit == Init => PaidInv
BY DEF Init, InitWith, PaidInv, DevicePaid, Free

LEMMA PaidFrame ==
  ASSUME PaidInv
  PROVE  /\ UNCHANGED <<seen, paid>> => DevicePaid'
         /\ UNCHANGED <<server, paid>> => (server.step # "free" => Device(server.from) \in paid)'
BY DEF PaidInv, DevicePaid

\* Whoever has a row may write one again.
LEMMA PaidUpsert ==
  ASSUME PaidInv, NEW i \in Installation, Device(i) \in paid', paid \subseteq paid',
         \A j \in Installation : j # i /\ seen'[j] # Gone => seen[j] # Gone
  PROVE  DevicePaid'
BY DEF PaidInv, DevicePaid

LEMMA PaidRemoved ==
  ASSUME TypeInv, PaidInv, NEW i \in Installation, Removed(i)
  PROVE  /\ DevicePaid'
         /\ server.step # "free" => Device(server.from) \in paid'
<1>1. ASSUME NEW j \in Installation, seen'[j] # Gone PROVE Device(j) \in paid'
  <2>1. j # i /\ seen[j] # Gone /\ Device(j) \in paid
    BY <1>1 DEF Removed, TypeInv, RowsOK, PaidInv, DevicePaid
  <2>2. CASE seen[i] = Gone \/ server.from \in Device(i)
    BY <2>1, <2>2 DEF Removed
  <2>3. CASE seen[i] # Gone /\ server.from \notin Device(i)
    <3>1. Device(j) # Device(i)
      BY <2>1, <2>3, Machines DEF Owners, Alone, TypeInv
    <3> QED BY <2>1, <2>3, <3>1 DEF Removed
  <2> QED BY <2>2, <2>3
<1>2. ASSUME server.step # "free" PROVE Device(server.from) \in paid'
  <2>1. server.from \in Installation /\ Device(server.from) \in paid
    BY <1>2 DEF TypeInv, ServerOK, PaidInv
  <2>2. CASE server.from \in Device(i)
    BY <2>1, <2>2 DEF Removed
  <2>3. CASE server.from \notin Device(i)
    <3>1. Device(server.from) # Device(i)
      BY <2>1, <2>3, Machines
    <3> QED BY <2>1, <2>3, <3>1 DEF Removed
  <2> QED BY <2>2, <2>3
<1> QED BY <1>1, <1>2 DEF DevicePaid

LEMMA PaidServe ==
  ASSUME TypeInv, PaidInv, NEW r \in Asks, NEW live \in BOOLEAN, Serve(r, live)
  PROVE  PaidInv'
<1>1. r.from \in Installation /\ server = Free
  BY DEF Asks, Serve
<1>2. CASE Hello(r, live)
  <2>1. UNCHANGED <<seen, paid>>
    BY <1>2 DEF Hello, tables
  <2>2. CASE seen[r.from] = Gone
    BY <1>2, <2>1, <2>2, PaidFrame DEF Hello, PaidInv
  <2>3. CASE seen[r.from] # Gone
    <3>1. Device(r.from) \in paid
      BY <1>1, <2>3 DEF PaidInv, DevicePaid
    <3>2. server'.from = r.from
      BY <1>2, <2>3 DEF Hello
    <3> QED BY <2>1, <3>1, <3>2, PaidFrame DEF PaidInv
  <2> QED BY <2>2, <2>3
<1>3. CASE Claim(r, live)
  <2>1. server' = Free
    BY <1>1, <1>3 DEF Claim
  <2>2. \/ UNCHANGED <<seen, paid>>
        \/ seen' = Upserted(seen, r.from) /\ paid' = paid \cup {Device(r.from)}
    BY <1>3 DEF Claim, ClaimAdmission, tables
  <2>3. CASE UNCHANGED <<seen, paid>>
    BY <2>1, <2>3, PaidFrame DEF PaidInv, Free
  <2>4. CASE seen' = Upserted(seen, r.from) /\ paid' = paid \cup {Device(r.from)}
    <3>1. \A j \in Installation : j # r.from /\ seen'[j] # Gone => seen[j] # Gone
      BY <2>4 DEF Upserted, TypeInv, RowsOK
    <3> QED BY <1>1, <2>1, <2>4, <3>1, PaidUpsert DEF PaidInv, Free
  <2> QED BY <2>2, <2>3, <2>4
<1>4. CASE Rekey(r, live)
  <2>1. UNCHANGED <<seen, paid>>
    BY <1>4 DEF Rekey, tables
  <2>2. CASE Gate(r.from) /\ Bound(r.from)
    <3>1. server'.from = r.from
      BY <1>4, <2>2 DEF Rekey
    <3>2. PICK j \in Device(r.from) : seen[j] # Gone
      BY <2>2 DEF Bound, Owners
    <3>3. Device(r.from) \in paid
      BY <1>1, <3>2, Machines DEF PaidInv, DevicePaid
    <3> QED BY <2>1, <3>1, <3>3, PaidFrame DEF PaidInv
  <2>3. CASE ~ (Gate(r.from) /\ Bound(r.from))
    BY <1>4, <2>1, <2>3, PaidFrame DEF Rekey, PaidInv
  <2> QED BY <2>2, <2>3
<1> QED BY <1>2, <1>3, <1>4 DEF Serve

LEMMA PaidStep == TypeInv /\ PaidInv /\ [Next]_vars => PaidInv'
<1> SUFFICES ASSUME TypeInv, PaidInv, [Next]_vars PROVE PaidInv'
  OBVIOUS
<1>1. CASE Backend
  <2>1. server' = Free /\ UNCHANGED paid /\ server.from \in Installation /\ Device(server.from) \in paid
    BY <1>1 DEF Backend, Touch, RekeyIdentity, TypeInv, ServerOK, PaidInv
  <2>2. \A j \in Installation : j # server.from /\ seen'[j] # Gone => seen[j] # Gone
    BY <1>1 DEF Backend, Touch, RekeyIdentity, Upserted, TypeInv, RowsOK
  <2>3. DevicePaid'
    BY <2>1, <2>2, PaidUpsert
  <2> QED BY <2>1, <2>3 DEF PaidInv, Free
<1>2. ASSUME NEW i \in Installation, Unbind(i) \/ Revoke(i) PROVE PaidInv'
  <2>1. server' = server
    BY <1>2 DEF Unbind, Revoke, Operates, memory
  <2>2. Removed(i) \/ UNCHANGED <<seen, paid>>
    BY <1>2 DEF Unbind, Revoke
  <2> QED BY <2>1, <2>2, PaidRemoved, PaidFrame DEF PaidInv
<1>3. CASE Tick
  <2>1. \A i \in Installation : seen'[i] # Gone => seen[i] # Gone
    BY <1>3 DEF Tick, Older, Never, Gone
  <2> QED BY <1>3, <2>1 DEF Tick, PaidInv, DevicePaid
<1>4. CASE Restart
  BY <1>4, PaidFrame DEF Restart, tables, PaidInv, Free
<1>5. ASSUME NEW i \in Installation, HostStep(i) \/ GiveUp(i) PROVE PaidInv'
  <2>1. CASE Served(i)
    <3>1. Request(i) \in Asks
      BY <2>1, RequestOK DEF Served, TypeInv
    <3> QED BY <2>1, <3>1, PaidServe DEF Served
  <2>2. CASE ~ Served(i)
    BY <1>5, <2>2, PaidFrame DEF HostStep, Again, Poll, ListTickets, GiveUp, tables, memory, PaidInv
  <2> QED BY <2>1, <2>2
<1>6. CASE LateRequest
  BY <1>6, PaidServe DEF LateRequest, TypeInv, AsksOK
<1>7. CASE LostRequest \/ OpenDay
  BY <1>7, PaidFrame DEF LostRequest, OpenDay, tables, memory, PaidInv
<1>8. CASE Command
  <2>1. CASE UNCHANGED <<seen, paid, server>>
    BY <2>1, PaidFrame DEF PaidInv
  <2>2. CASE ~ (UNCHANGED <<seen, paid, server>>)
    BY <1>2, <1>8, <2>2 DEF Command, Replenish, Issue, Replace, RevokeTicket, Operates, memory
  <2> QED BY <2>1, <2>2
<1>9. CASE UNCHANGED vars
  BY <1>9, PaidFrame DEF vars, tables, memory, PaidInv
<1> QED BY <1>1, <1>3, <1>4, <1>5, <1>6, <1>7, <1>8, <1>9 DEF Next

\* Every device in the community got there by a ticket, however its place changed hands
\* since and however the operator's commands fall between the statements of a request
\* (service.ts: claimAdmission, rekeyIdentity, authenticate; store.ts: upsertIdentity).
THEOREM EveryDevicePaid == Spec => []DevicePaid
<1>1. PaidInv => DevicePaid
  BY DEF PaidInv
<1> QED BY TypeInit, TypeStep, PaidInit, PaidStep, <1>1, PTL DEF Spec
-----------------------------------------------------------------------------
(* A Host that is in use keeps its place.  It is connected only once its    *)
(* row was refreshed, and it asks again before a second tick, so the row of *)
(* a connected Host is younger than two ticks; a place is handed over only  *)
(* by a request whose owner has been quiet for the cooldown.                *)

FreshUp == \A i \in Installation :
             host[i].pc = "up" /\ seen[i] # Gone => seen[i] <= IF host[i].slow THEN 1 ELSE 0

\* A Host waits for the answer to the request that is being answered.
LiveAsk == server.live /\ server.step # "free" =>
             host[server.from].pc \in IF server.step = "touch" THEN Hellos ELSE {"rekey"}

Counted == used \in [{"ops", "faults", "restarts"} -> Nat]

FreshInv == FreshUp /\ LiveAsk /\ Counted

LEMMA FreshInit == Init => FreshInv
BY DEF Init, InitWith, FreshInv, FreshUp, LiveAsk, Counted, Off, At, Free

LEMMA Spent ==
  ASSUME Counted, NEW act \in {"ops", "faults", "restarts"}, Spend(act)
  PROVE  Counted' /\ used'[act] > used[act]
BY DEF Counted, Spend

LEMMA OnwardUp ==
  ASSUME NEW h \in HostState
  PROVE  Onward(h).pc \in {"claim", "tickets", "down"}
BY DEF Onward, HostState, At, Off

\* An answer makes a Host connected only if it is the answer to a hello.
LEMMA AnswerUp ==
  ASSUME NEW h \in HostState, HostOK(h), NEW answer, Step(h, answer).pc = "up"
  PROVE  h.pc \in Hellos /\ answer = "ok"
<1>1. At("down").pc = "down" /\ [At("again") EXCEPT !.slow = h.slow].pc = "again"
  BY DEF At, Off
<1>2. [h EXCEPT !.pc = "tickets"].pc = "tickets" /\ [h EXCEPT !.pc = "rekey", !.page = {}].pc = "rekey"
  BY DEF HostState
<1>3. h.pc = "claim" => Onward([h EXCEPT !.tried = @ \cup {Secret(h)}]).pc # "up"
  <2> SUFFICES ASSUME h.pc = "claim" PROVE [h EXCEPT !.tried = @ \cup {Secret(h)}] \in HostState
    BY OnwardUp
  <2>1. Secret(h) \in Slot
    BY SecretOK
  <2> QED BY <2>1 DEF HostState
<1> QED BY <1>1, <1>2, <1>3 DEF Step, Hellos

\* Rows are refreshed or removed; nothing makes one older but the clock.
Refreshed == \A j \in Installation : seen'[j] \in {Gone, seen[j], 0}

LEMMA FreshAnswer ==
  ASSUME TypeInv, FreshInv, Refreshed, NEW i \in Installation, NEW live, NEW answer,
         Answer(i, live, answer),
         live /\ host[i].pc \in Hellos /\ answer = "ok" => seen'[i] = 0
  PROVE  FreshUp'
<1> SUFFICES ASSUME NEW j \in Installation, host'[j].pc = "up", seen'[j] # Gone
             PROVE  seen'[j] <= IF host'[j].slow THEN 1 ELSE 0
  BY DEF FreshUp
<1>1. CASE live /\ j = i
  <2>1. host'[i] = Step(host[i], answer) /\ HostOK(host[i]) /\ host[i] \in HostState
    BY <1>1 DEF Answer, TypeInv, HostsOK, HostOK
  <2>2. seen'[i] = 0
    BY <1>1, <2>1, AnswerUp
  <2> QED BY <1>1, <2>2
<1>2. CASE ~ (live /\ j = i)
  <2>1. host'[j] = host[j]
    BY <1>2 DEF Answer, TypeInv, HostsOK
  <2>2. seen'[j] = 0 \/ seen'[j] = seen[j]
    BY DEF Refreshed
  <2> QED BY <2>1, <2>2 DEF FreshInv, FreshUp
<1> QED BY <1>1, <1>2

LEMMA FreshRows ==
  ASSUME TypeInv, FreshInv, Refreshed, UNCHANGED host
  PROVE  FreshUp'
BY DEF FreshInv, FreshUp, Refreshed, TypeInv, HostsOK

\* What a Host asks and waits for.
Matches(r) == /\ r.kind = "hello" => host[r.from].pc \in Hellos
              /\ r.kind \in {"claim", "rekey"} => host[r.from].pc = r.kind

LEMMA FreshServe ==
  ASSUME TypeInv, FreshInv, NEW r \in Asks, NEW live \in BOOLEAN, Serve(r, live),
         live => Matches(r)
  PROVE  FreshUp' /\ LiveAsk' /\ Refreshed
<1>1. r.from \in Installation /\ server = Free
  BY DEF Asks, Serve
<1>2. CASE Hello(r, live)
  <2>1. Refreshed
    BY <1>2 DEF Hello, tables, Refreshed
  <2>2. CASE seen[r.from] = Gone
    <3>1. Answer(r.from, live, "admission_required") /\ server' = Free
      BY <1>1, <1>2, <2>2 DEF Hello
    <3> QED BY <1>1, <2>1, <3>1, FreshAnswer DEF LiveAsk, Free
  <2>3. CASE seen[r.from] # Gone
    <3>1. server' = [step |-> "touch", from |-> r.from, live |-> live] /\ UNCHANGED host
      BY <1>2, <2>3 DEF Hello
    <3>2. live => host[r.from].pc \in Hellos
      BY <1>2 DEF Matches, Hello
    <3> QED BY <2>1, <3>1, <3>2, FreshRows DEF LiveAsk
  <2> QED BY <2>2, <2>3
<1>3. CASE Claim(r, live)
  <2>1. Refreshed
    BY <1>1, <1>3 DEF Claim, ClaimAdmission, Upserted, tables, Refreshed, TypeInv, RowsOK
  <2>2. live => host[r.from].pc \notin Hellos
    BY <1>3 DEF Matches, Claim, Hellos
  <2>3. \E answer : Answer(r.from, live, answer)
    BY <1>3 DEF Claim, ClaimAdmission
  <2>4. FreshUp'
    BY <1>1, <2>1, <2>2, <2>3, FreshAnswer
  <2> QED BY <1>1, <1>3, <2>1, <2>4 DEF Claim, LiveAsk, Free
<1>4. CASE Rekey(r, live)
  <2>1. Refreshed
    BY <1>4 DEF Rekey, tables, Refreshed
  <2>2. CASE Gate(r.from) /\ Bound(r.from)
    <3>1. server' = [step |-> "rekey", from |-> r.from, live |-> live] /\ UNCHANGED host
      BY <1>4, <2>2 DEF Rekey
    <3>2. live => host[r.from].pc = "rekey"
      BY <1>4 DEF Matches, Rekey
    <3> QED BY <2>1, <3>1, <3>2, FreshRows DEF LiveAsk
  <2>3. CASE ~ (Gate(r.from) /\ Bound(r.from))
    <3>1. server' = Free /\ \E answer : answer # "ok" /\ Answer(r.from, live, answer)
      BY <1>1, <1>4, <2>3 DEF Rekey
    <3> QED BY <1>1, <2>1, <3>1, FreshAnswer DEF LiveAsk, Free
  <2> QED BY <2>2, <2>3
<1> QED BY <1>2, <1>3, <1>4 DEF Serve

LEMMA FreshBackend ==
  ASSUME TypeInv, FreshInv, Backend
  PROVE  FreshUp' /\ LiveAsk' /\ Refreshed
<1>1. server' = Free /\ server.from \in Installation /\ server.step # "free"
  BY DEF Backend, Touch, RekeyIdentity, TypeInv, ServerOK
<1>2. LiveAsk'
  BY <1>1 DEF LiveAsk, Free
<1>3. CASE Touch
  <2>1. Refreshed
    BY <1>1, <1>3 DEF Touch, Upserted, Refreshed, TypeInv, RowsOK
  <2>2. \E answer : Answer(server.from, server.live, answer) /\ (answer = "ok" => seen'[server.from] = 0)
    BY <1>1, <1>3 DEF Touch, Upserted, TypeInv, RowsOK
  <2> QED BY <1>1, <1>2, <2>1, <2>2, FreshAnswer
<1>4. CASE RekeyIdentity
  <2>1. Refreshed
    BY <1>1, <1>4 DEF RekeyIdentity, Upserted, Refreshed, TypeInv, RowsOK
  <2>2. server.live => host[server.from].pc \notin Hellos
    BY <1>4 DEF RekeyIdentity, FreshInv, LiveAsk, Hellos
  <2>3. \E answer : Answer(server.from, server.live, answer)
    BY <1>4 DEF RekeyIdentity
  <2> QED BY <1>1, <1>2, <2>1, <2>2, <2>3, FreshAnswer
<1> QED BY <1>3, <1>4 DEF Backend

LEMMA FreshAsked ==
  ASSUME NEW i \in Installation
  PROVE  Matches(Request(i))
BY DEF Matches, Request, Hellos

\* A Host that does not wait for an answer, or no longer, is not connected by what it does.
LEMMA FreshMoves ==
  ASSUME TypeInv, FreshInv, NEW i \in Installation, Again(i) \/ Poll(i) \/ ListTickets(i) \/ GiveUp(i)
  PROVE  FreshUp' /\ LiveAsk' /\ seen' = seen
<1>1. server' = server /\ seen' = seen
  BY DEF Again, Poll, ListTickets, GiveUp, tables, memory
<1>2. PICK h : host' = [host EXCEPT ![i] = h] /\ h.pc # "up"
  <2>1. CASE Again(i) \/ GiveUp(i)
    BY <2>1 DEF Again, GiveUp, At, Off
  <2>2. CASE Poll(i)
    <3>1. host' = [host EXCEPT ![i] = [host[i] EXCEPT !.pc = "poll"]]
      BY <2>2 DEF Poll
    <3>2. [host[i] EXCEPT !.pc = "poll"].pc = "poll"
      BY DEF TypeInv, HostsOK, HostOK, HostState
    <3> QED BY <3>1, <3>2
  <2>3. CASE ListTickets(i)
    <3>1. PICK page \in Pages(ticket') :
            host' = [host EXCEPT ![i] = IF page = {} THEN At("down")
                                        ELSE Onward([host[i] EXCEPT !.page = page])]
      BY <2>3 DEF ListTickets
    <3>2. page \subseteq Slot
      BY DEF Pages, Available, kSubset
    <3>3. [host[i] EXCEPT !.page = page] \in HostState
      BY <3>2 DEF TypeInv, HostsOK, HostOK, HostState
    <3>4. Onward([host[i] EXCEPT !.page = page]).pc # "up" /\ At("down").pc # "up"
      BY <3>3, OnwardUp DEF At, Off
    <3> QED BY <3>1, <3>4
  <2> QED BY <2>1, <2>2, <2>3
<1>3. FreshUp'
  BY <1>1, <1>2 DEF FreshInv, FreshUp, TypeInv, HostsOK
<1>4. server.live /\ server.step # "free" => server.from # i
  BY DEF FreshInv, LiveAsk, Again, Poll, ListTickets, GiveUp, Hellos
<1>5. LiveAsk'
  BY <1>1, <1>2, <1>4 DEF FreshInv, LiveAsk, TypeInv, HostsOK
<1> QED BY <1>1, <1>3, <1>5

LEMMA FreshClock ==
  ASSUME TypeInv, FreshInv, Tick
  PROVE  FreshUp' /\ LiveAsk'
<1>1. LiveAsk'
  BY DEF Tick, InTime, LiveAsk, Free
<1> SUFFICES ASSUME NEW i \in Installation, host'[i].pc = "up", seen'[i] # Gone
             PROVE  seen'[i] <= IF host'[i].slow THEN 1 ELSE 0
  BY <1>1 DEF FreshUp
<1>2. i \in Running /\ host'[i] = [host[i] EXCEPT !.slow = TRUE] /\ ~ host[i].slow
  BY DEF Tick, InTime, Off
<1>3. host[i].pc = "up" /\ host'[i].slow
  BY <1>2 DEF TypeInv, HostsOK, HostOK, HostState
<1>4. seen'[i] = Older(seen[i], Cooldown)
  BY DEF Tick
<1>5. seen[i] # Gone /\ seen[i] \in 0 .. Cooldown /\ seen[i] <= 0
  BY <1>2, <1>3, <1>4 DEF Older, Gone, Never, FreshInv, FreshUp, TypeInv, RowsOK
<1>6. seen'[i] <= 1
  BY <1>4, <1>5, Numbers DEF Older, Least, Never
<1> QED BY <1>3, <1>6

\* A command leaves the Hosts and the request alone.
LEMMA FreshCommand ==
  ASSUME TypeInv, FreshInv, Command
  PROVE  /\ UNCHANGED <<host, server>> /\ Refreshed
         /\ Counted' /\ used'.ops > used.ops
<1>1. UNCHANGED <<host, server>> /\ Spend("ops")
  BY DEF Command, Replenish, Issue, Replace, RevokeTicket, Unbind, Revoke, Operates, memory
<1>2. UNCHANGED seen \/ \E i \in Installation : Removed(i)
  BY DEF Command, Replenish, Issue, Replace, RevokeTicket, Unbind, Revoke
<1>3. Refreshed
  BY <1>2 DEF Refreshed, Removed, TypeInv, RowsOK
<1> QED BY <1>1, <1>3, Spent DEF FreshInv

LEMMA FreshStep == TypeInv /\ FreshInv /\ [Next]_vars => FreshInv'
<1> SUFFICES ASSUME TypeInv, FreshInv, [Next]_vars PROVE FreshInv'
  OBVIOUS
<1>1. ASSUME UNCHANGED <<host, server>>, Refreshed PROVE FreshUp' /\ LiveAsk'
  BY <1>1, FreshRows DEF LiveAsk, FreshInv
<1>2. ASSUME UNCHANGED used PROVE Counted'
  BY <1>2 DEF Counted, FreshInv
<1>3. ASSUME NEW i \in Installation, HostStep(i) \/ GiveUp(i) PROVE FreshInv'
  <2>1. CASE Served(i)
    <3>1. Request(i) \in Asks
      BY <2>1, RequestOK DEF Served, TypeInv
    <3> QED BY <1>2, <2>1, <3>1, FreshAsked, FreshServe DEF Served, FreshInv
  <2>2. CASE Again(i) \/ Poll(i) \/ ListTickets(i) \/ GiveUp(i)
    <3>1. Counted'
      BY <1>2, <2>2, Spent DEF Again, Poll, ListTickets, GiveUp, FreshInv
    <3> QED BY <2>2, <3>1, FreshMoves DEF FreshInv
  <2> QED BY <1>3, <2>1, <2>2 DEF HostStep
<1>4. CASE Backend
  <2>1. UNCHANGED used
    BY <1>4 DEF Backend, Touch, RekeyIdentity
  <2> QED BY <1>2, <1>4, <2>1, FreshBackend DEF FreshInv
<1>5. CASE LateRequest
  BY <1>2, <1>5, FreshServe DEF LateRequest, FreshInv, TypeInv, AsksOK
<1>6. CASE LostRequest \/ OpenDay \/ UNCHANGED vars
  BY <1>1, <1>2, <1>6 DEF LostRequest, OpenDay, vars, tables, memory, FreshInv, Refreshed
<1>7. CASE Command
  BY <1>1, <1>7, FreshCommand DEF FreshInv
<1>8. CASE Tick
  BY <1>2, <1>8, FreshClock DEF FreshInv, Tick
<1>9. CASE Restart
  <2>1. LiveAsk' /\ Counted'
    BY <1>9, Spent DEF Restart, LiveAsk, Free, FreshInv
  <2>2. FreshUp'
    BY <1>9 DEF Restart, tables, FreshInv, FreshUp, TypeInv, HostsOK, At, Off
  <2> QED BY <2>1, <2>2 DEF FreshInv
<1> QED BY <1>3, <1>4, <1>5, <1>6, <1>7, <1>8, <1>9 DEF Next

\* What InUseKeepsDevice says of a step.
InUseKept == \A i \in Running :
               host[i].pc = "up" /\ seen[i] # Gone /\ seen'[i] = Gone => used'.ops > used.ops

LEMMA InUseStep ==
  ASSUME Cooldown >= 2, TypeInv, FreshInv, [Next]_vars
  PROVE  InUseKept
<1> SUFFICES ASSUME NEW i \in Running, host[i].pc = "up", seen[i] # Gone, seen'[i] = Gone
             PROVE  used'.ops > used.ops
  BY DEF InUseKept
<1>1. i \in Installation /\ seen[i] \in 0 .. Cooldown /\ seen[i] <= 1
  BY DEF Running, TypeInv, RowsOK, FreshInv, FreshUp
<1>2. CASE RekeyIdentity
  <2>1. ~ Quiet(i)
    BY <1>1, Numbers DEF Quiet
  <2> DEFINE owners == Owners(server.from)
  <2>2. seen'[i] # Gone
    <3>1. CASE UNCHANGED seen
      BY <3>1
    <3>2. CASE seen' # seen
      <4>1. /\ seen' = Upserted([j \in Installation |-> IF j \in owners THEN Gone ELSE seen[j]], server.from)
            /\ \A j \in owners : Quiet(j)
        BY <1>2, <3>2 DEF RekeyIdentity
      <4>2. i \notin owners
        BY <2>1, <4>1
      <4> HIDE DEF owners
      <4> QED BY <1>1, <4>1, <4>2 DEF Upserted, Gone
    <3> QED BY <3>1, <3>2
  <2> QED BY <2>2
<1>3. CASE Command
  BY <1>3, FreshCommand
<1>4. ASSUME NEW r, NEW live, Serve(r, live) PROVE FALSE
  BY <1>1, <1>4 DEF Serve, Hello, Claim, ClaimAdmission, Rekey, Upserted, tables, Gone, TypeInv, RowsOK
<1>5. CASE Tick
  BY <1>1, <1>5, Numbers DEF Tick, Older, Least, Gone, Never
<1>6. CASE Touch
  BY <1>1, <1>6 DEF Touch, Upserted, Gone, TypeInv, RowsOK
<1>7. CASE UNCHANGED seen
  BY <1>7
<1>8. ASSUME NEW j \in Installation, HostStep(j) \/ GiveUp(j) PROVE FALSE
  <2>1. CASE Served(j)
    BY <1>4, <2>1 DEF Served
  <2>2. CASE ~ Served(j)
    BY <1>8, <2>2, FreshMoves DEF HostStep
  <2> QED BY <2>1, <2>2
<1>9. CASE LateRequest \/ LostRequest \/ OpenDay \/ Restart \/ UNCHANGED vars
  BY <1>4, <1>9 DEF LateRequest, LostRequest, OpenDay, Restart, vars, tables
<1> QED BY <1>2, <1>3, <1>5, <1>6, <1>8, <1>9 DEF Next, Backend

\* A second profile of a machine never takes the place of a first one in use.  The
\* cooldown must last two ticks: a tick is the minute a connected Host polls in, and
\* rekeyCooldownMs is half an hour unless it is set (service.ts: rekeyIdentity,
\* assertRekeyCooldownElapsed; config.ts).
THEOREM InUseKeeps == ASSUME Cooldown >= 2 PROVE Spec => InUseKeepsDevice
<1>1. TypeInv /\ FreshInv /\ [Next]_vars => [InUseKept]_vars
  BY InUseStep
<1> QED BY <1>1, TypeInit, TypeStep, FreshInit, FreshStep, PTL DEF Spec, InUseKeepsDevice, InUseKept
-----------------------------------------------------------------------------
(* The vote budget, for every set of installations, refill rate, window,   *)
(* burst and map size.                                                     *)

LEMMA Units ==
  /\ Minute \in Nat /\ Cap \in Nat /\ Minute <= Cap
  /\ \A n \in Nat : n * BudgetWindow \in Nat
  /\ \A a, b \in Nat : a <= b => a * Rate \in Nat /\ a * Rate <= b * Rate
  /\ \A t \in Nat : BudgetWindow <= t => Minute <= t * Rate
<1> USE LimiterAssumption
<1>1. Minute \in Nat /\ Cap \in Nat
  BY DEF Minute, Cap
<1>2. Minute <= Cap
  <2>1. \A m \in Nat, k \in Nat \ {0} : m <= m * k
    OBVIOUS
  <2> QED BY <1>1, <2>1 DEF Cap
<1>3. \A n \in Nat : n * BudgetWindow \in Nat
  OBVIOUS
<1>4. \A a, b \in Nat : a <= b => a * Rate \in Nat /\ a * Rate <= b * Rate
  OBVIOUS
<1>5. \A t \in Nat : BudgetWindow <= t => Minute <= t * Rate
  BY <1>4 DEF Minute
<1> QED BY <1>1, <1>2, <1>3, <1>4, <1>5

\* What a bucket holds is between nothing and a full bucket, never less than it
\* held, and grows by what a tick refills.
LEMMA AvailableBounds ==
  ASSUME NEW tokens \in 0 .. Cap, NEW since \in Nat, now \in Nat, since <= now
  PROVE  /\ VoteBudgetAvailable(tokens, since) \in 0 .. Cap
         /\ tokens <= VoteBudgetAvailable(tokens, since)
         /\ now' = now + 1 =>
              VoteBudgetAvailable(tokens, since)' = Lesser(Cap, VoteBudgetAvailable(tokens, since) + Rate)
         /\ now' = now => VoteBudgetAvailable(tokens, since)' = VoteBudgetAvailable(tokens, since)
         /\ VoteBudgetAvailable(0, since) <= VoteBudgetAvailable(tokens, since)
         /\ since = now => VoteBudgetAvailable(tokens, since) = tokens
<1> DEFINE e == now - since
<1>1. e \in Nat /\ e * Rate \in Nat /\ e + 1 \in Nat
  BY Units
<1>2. (e + 1) * Rate = e * Rate + Rate
  BY <1>1, LimiterAssumption
<1>3. now' = now + 1 => now' - since = e + 1
  BY <1>1
<1>4. e = 0 => e * Rate = 0
  BY LimiterAssumption
<1>5. VoteBudgetAvailable(tokens, since) = Lesser(Cap, tokens + e * Rate)
  BY DEF VoteBudgetAvailable
<1>6. VoteBudgetAvailable(0, since) = Lesser(Cap, 0 + e * Rate)
  BY DEF VoteBudgetAvailable
<1>7. now' = now + 1 => VoteBudgetAvailable(tokens, since)' = Lesser(Cap, tokens + (e * Rate + Rate))
  BY <1>2, <1>3 DEF VoteBudgetAvailable, Cap, Minute
<1>8. now' = now => VoteBudgetAvailable(tokens, since)' = Lesser(Cap, tokens + e * Rate)
  BY DEF VoteBudgetAvailable, Cap, Minute
<1> HIDE DEF e
<1>9. since = now => e * Rate = 0
  BY <1>4 DEF e
<1> QED BY <1>1, <1>5, <1>6, <1>7, <1>8, <1>9, Units, LimiterAssumption DEF Lesser
-----------------------------------------------------------------------------
LEMMA LevelType ==
  ASSUME BudgetTypeOK, NEW i \in Voter
  PROVE  /\ Rebuilt(i) \in 0 .. Cap
         /\ Level(i) \in 0 .. Cap
<1>1. Rebuilt(i) \in 0 .. Cap
  BY Units, AvailableBounds DEF BudgetTypeOK, Rebuilt
<1>2. i \in keys => Level(i) \in 0 .. Cap
  <2>1. bucket[i].tokens \in 0 .. Cap /\ bucket[i].at \in Nat /\ bucket[i].at <= now
    BY DEF BudgetTypeOK
  <2> QED BY <2>1, AvailableBounds DEF BudgetTypeOK, Level
<1> QED BY <1>1, <1>2 DEF Level

\* A request that the handler lets through never asks for more than the bucket
\* holds, so it is always charged in full.
LEMMA AlwaysCharged ==
  ASSUME BudgetTypeOK, NEW i \in Voter, NEW n \in Nat, n <= Sticks(i), Charge(i, n)
  PROVE  /\ Level(i) - n * BudgetWindow \in 0 .. Cap
         /\ keys' = Surviving(i) \cup {i}
         /\ bucket' = [k \in Voter |->
              IF k = i THEN [tokens |-> Level(i) - n * BudgetWindow, at |-> now]
              ELSE IF k \in Surviving(i) THEN bucket[k] ELSE Empty]
<1>1. Level(i) \in Nat
  BY LevelType, Units
<1>2. n * BudgetWindow \in Nat /\ n * BudgetWindow <= Level(i)
  <2>1. \A l, m \in Nat, w \in Nat \ {0} : m <= l \div w => m * w <= l
    <3> SUFFICES ASSUME NEW l \in Nat, NEW m \in Nat, NEW w \in Nat \ {0}, m <= l \div w
                 PROVE  m * w <= l
      OBVIOUS
    <3> DEFINE q == l \div w
    <3>1. q \in Nat /\ q * w <= l /\ q * w \in Nat
      OBVIOUS
    <3>2. m <= q
      OBVIOUS
    <3> HIDE DEF q
    <3>3. m * w <= q * w
      BY <3>1, <3>2
    <3> QED BY <3>1, <3>3
  <2> QED BY <1>1, <2>1, Units, LimiterAssumption DEF Sticks
<1>3. ~ (Level(i) < n * BudgetWindow)
  BY <1>1, <1>2
<1>4. Level(i) - n * BudgetWindow \in 0 .. Cap
  BY <1>1, <1>2, LevelType, Units
<1> QED BY <1>3, <1>4 DEF Charge

LEMMA SurvivingKeys ==
  ASSUME BudgetTypeOK, NEW i \in Voter
  PROVE  Surviving(i) \subseteq keys
BY DEF Surviving
-----------------------------------------------------------------------------
\* Everything the map and the votes are made of keeps its type.
THEOREM BudgetTypeInvariant == BudgetSpec => []BudgetTypeOK
<1>1. BudgetInit => BudgetTypeOK
  BY Units, LimiterAssumption DEF BudgetInit, BudgetTypeOK, Empty, NoVote
<1>2. BudgetTypeOK /\ [BudgetNext]_budgetVars => BudgetTypeOK'
  <2> SUFFICES ASSUME BudgetTypeOK, [BudgetNext]_budgetVars PROVE BudgetTypeOK'
    OBVIOUS
  <2> USE DEF BudgetTypeOK
  <2>1. now \in Nat /\ Cap' = Cap /\ Empty \in [tokens : 0 .. Cap, at : 0 .. now]
    BY Units DEF Cap, Minute, Empty
  <2>2. CASE TimePasses
    <3>1. 0 .. now \subseteq 0 .. now'
      BY <2>1, <2>2 DEF TimePasses
    <3>2. bucket \in [Voter -> [tokens : 0 .. Cap, at : 0 .. now']]
      BY <3>1
    <3> QED BY <2>1, <2>2, <3>1, <3>2, Units, LimiterAssumption DEF TimePasses, Lesser
  <2>3. CASE ServerRestart
    BY <2>1, <2>3 DEF ServerRestart, Keep
  <2>4. ASSUME NEW i \in Voter, PostVotes(i)
        PROVE  BudgetTypeOK'
    <3>1. CASE Refuse(i) \/ Fail(i)
      BY <2>1, <3>1, SurvivingKeys DEF Refuse, Fail, Keep
    <3>2. ASSUME NEW n \in Nat, n <= Sticks(i), Charge(i, n), now' = now
          PROVE  keys' \subseteq Voter
                 /\ bucket' \in [Voter -> [tokens : 0 .. Cap, at : 0 .. now]]
      BY <2>1, <3>2, AlwaysCharged, SurvivingKeys
    <3>3. CASE Reject(i)
      <4>1. 1 <= Sticks(i)
        BY <3>3, LevelType, LimiterAssumption, Units DEF Reject, Sticks
      <4> QED BY <2>1, <3>2, <3>3, <4>1 DEF Reject
    <3>4. ASSUME NEW n \in 1 .. MaxCount, Accept(i, n)
          PROVE  BudgetTypeOK'
      <4>1. n * BudgetWindow \in Int
        BY LimiterAssumption
      <4> QED BY <2>1, <3>2, <3>4, <4>1, LimiterAssumption DEF Accept
    <3> QED BY <2>4, <3>1, <3>3, <3>4 DEF PostVotes
  <2>5. ASSUME NEW i \in Voter, NEW t \in NoVote .. LastTick, Wipe(i, t)
        PROVE  BudgetTypeOK'
    <3>1. t \in 0 .. now /\ Cap \in Int
      BY <2>1, <2>5, Units, LimiterAssumption DEF Wipe, NoVote
    <3> QED BY <2>1, <2>5, <3>1 DEF Wipe
  <2>6. CASE UNCHANGED budgetVars
    BY <2>1, <2>6 DEF budgetVars
  <2> QED BY <2>2, <2>3, <2>4, <2>5, <2>6 DEF BudgetNext
<1> QED BY <1>1, <1>2, PTL DEF BudgetSpec
-----------------------------------------------------------------------------
\* The map never holds more than MaxActiveKeys buckets, for any number of installations.
THEOREM MapIsBounded == BudgetSpec => []KeysBounded
<1>1. BudgetInit => KeysBounded
  BY FS_EmptySet, LimiterAssumption DEF BudgetInit, KeysBounded
<1>2. BudgetTypeOK /\ KeysBounded /\ [BudgetNext]_budgetVars => KeysBounded'
  <2> SUFFICES ASSUME BudgetTypeOK, KeysBounded, [BudgetNext]_budgetVars PROVE KeysBounded'
    OBVIOUS
  <2>1. IsFiniteSet(keys) /\ Cardinality(keys) \in Nat
    BY FS_Subset, FS_CardinalityType, VoterAssumption DEF BudgetTypeOK
  <2>2. \A S \in SUBSET keys : IsFiniteSet(S) /\ Cardinality(S) \in Nat
                              /\ Cardinality(S) <= Cardinality(keys)
    BY <2>1, FS_Subset, FS_CardinalityType
  <2>3. ASSUME NEW i \in Voter, PostVotes(i)
        PROVE  KeysBounded'
    <3>1. Surviving(i) \in SUBSET keys
      BY SurvivingKeys
    <3>2. CASE keys' = Surviving(i)
      BY <2>1, <2>2, <3>1, <3>2, LimiterAssumption DEF KeysBounded
    <3>3. CASE Admitted(i) /\ keys' = Surviving(i) \cup {i}
      <4>1. CASE i \in keys
        <5>1. keys' = keys
          BY <3>3, <4>1 DEF Surviving
        <5> QED BY <5>1 DEF KeysBounded
      <4>2. CASE i \notin keys
        <5>1. Cardinality(Surviving(i)) < MaxActiveKeys
          BY <3>3, <4>2 DEF Admitted
        <5>2. Cardinality(keys') = Cardinality(Surviving(i)) + 1
          BY <2>2, <3>1, <3>3, <4>2, FS_AddElement
        <5> QED BY <2>2, <3>1, <5>1, <5>2, LimiterAssumption DEF KeysBounded
      <4> QED BY <4>1, <4>2
    <3>4. keys' = Surviving(i) \/ (Admitted(i) /\ keys' = Surviving(i) \cup {i})
      <4>1. \A n : Charge(i, n) => keys' = Surviving(i) \/ keys' = Surviving(i) \cup {i}
        BY DEF Charge
      <4>2. CASE Refuse(i) \/ Fail(i)
        BY <4>2 DEF Refuse, Fail, Keep
      <4>3. CASE Reject(i)
        BY <4>1, <4>3 DEF Reject
      <4>4. CASE \E n \in 1 .. MaxCount : Accept(i, n)
        BY <4>1, <4>4 DEF Accept
      <4> QED BY <2>3, <4>2, <4>3, <4>4 DEF PostVotes
    <3> QED BY <3>2, <3>3, <3>4
  <2>4. CASE TimePasses \/ UNCHANGED budgetVars \/ \E i \in Voter, t \in NoVote .. LastTick : Wipe(i, t)
    BY <2>4 DEF TimePasses, Wipe, budgetVars, KeysBounded
  <2>5. CASE ServerRestart
    BY <2>5, FS_EmptySet, LimiterAssumption DEF ServerRestart, Keep, KeysBounded
  <2> QED BY <2>3, <2>4, <2>5 DEF BudgetNext
<1> QED BY <1>1, <1>2, BudgetTypeInvariant, PTL DEF BudgetSpec
-----------------------------------------------------------------------------
(* The budget: what the bucket of an installation holds, and what it would *)
(* hold if it were lost now, is at most what an uninterrupted bucket would. *)

Covered(i) ==
  /\ budget[i] \in 0 .. Cap
  /\ Rebuilt(i) <= budget[i]
  /\ i \in keys => /\ Level(i) <= budget[i]
                   /\ lastVote[i] <= bucket[i].at

BudgetCovers == \A i \in Voter : Covered(i)

LEMMA LevelCovered ==
  ASSUME NEW i \in Voter, Covered(i)
  PROVE  Level(i) <= budget[i]
BY DEF Covered, Level

\* An installation whose vote time, bucket and budget are left alone stays covered.
LEMMA CoveredStays ==
  ASSUME BudgetTypeOK, NEW i \in Voter, Covered(i), now' = now,
         lastVote'[i] = lastVote[i], budget'[i] = budget[i],
         i \in keys' => i \in keys /\ bucket'[i] = bucket[i]
  PROVE  Covered(i)'
<1>1. Rebuilt(i)' = Rebuilt(i)
  BY DEF Rebuilt, VoteBudgetAvailable, Cap, Minute
<1>2. i \in keys' => Level(i)' = Level(i)
  BY DEF Level, VoteBudgetAvailable, Cap, Minute
<1> QED BY <1>1, <1>2 DEF Covered, Cap, Minute

LEMMA TickCovered ==
  ASSUME BudgetTypeOK, BudgetCovers, TimePasses, NEW i \in Voter
  PROVE  Covered(i)'
<1>0. /\ Covered(i) /\ Rate \in Nat /\ Cap \in Nat /\ Cap' = Cap /\ Minute' = Minute
      /\ Minute <= Cap /\ Minute \in Nat
  BY Units, LimiterAssumption DEF BudgetCovers, Cap, Minute
<1>1. budget'[i] = Lesser(Cap, budget[i] + Rate) /\ budget'[i] \in 0 .. Cap
      /\ budget[i] <= budget'[i] /\ budget[i] \in 0 .. Cap
  BY <1>0 DEF TimePasses, BudgetTypeOK, Covered, Lesser
<1>2. Rebuilt(i)' <= budget'[i]
  <2>1. CASE lastVote[i] = NoVote
    BY <1>0, <1>1, <2>1 DEF TimePasses, Rebuilt, Covered
  <2>2. CASE lastVote[i] # NoVote
    <3>1. VoteBudgetAvailable(0, lastVote[i])' = Lesser(Cap, VoteBudgetAvailable(0, lastVote[i]) + Rate)
          /\ VoteBudgetAvailable(0, lastVote[i]) \in 0 .. Cap
      BY <1>0, AvailableBounds DEF TimePasses, BudgetTypeOK
    <3>2. Rebuilt(i)' = VoteBudgetAvailable(0, lastVote[i])' /\ VoteBudgetAvailable(0, lastVote[i]) <= budget[i]
      BY <1>0, <2>2 DEF TimePasses, Rebuilt, Covered
    <3> QED BY <1>0, <1>1, <3>1, <3>2 DEF Lesser
  <2> QED BY <2>1, <2>2
<1>3. ASSUME i \in keys
      PROVE  Level(i)' <= budget'[i] /\ lastVote'[i] <= bucket'[i].at
  <2> DEFINE t == bucket[i].tokens
             s == bucket[i].at
  <2>1. t \in 0 .. Cap /\ s \in Nat /\ s <= now /\ now \in Nat /\ t' = t /\ s' = s
    BY <1>3 DEF BudgetTypeOK, TimePasses
  <2>2. VoteBudgetAvailable(t, s)' = Lesser(Cap, VoteBudgetAvailable(t, s) + Rate) /\ VoteBudgetAvailable(t, s) \in 0 .. Cap
    <3> HIDE DEF t, s
    <3>1. now' = now + 1
      BY DEF TimePasses
    <3> QED BY <2>1, <3>1, AvailableBounds DEF VoteBudgetAvailable, Cap, Minute
  <2>3. Level(i) = VoteBudgetAvailable(t, s) /\ Level(i)' = VoteBudgetAvailable(t, s)'
    BY <1>3 DEF Level, TimePasses
  <2>4. Level(i) <= budget[i] /\ lastVote[i] <= s
    BY <1>0, <1>3 DEF Covered
  <2> HIDE DEF t, s
  <2>5. Level(i)' <= budget'[i]
    BY <1>0, <1>1, <2>2, <2>3, <2>4 DEF Lesser
  <2> QED BY <2>1, <2>4, <2>5 DEF TimePasses, t, s
<1> QED BY <1>0, <1>1, <1>2, <1>3 DEF Covered, TimePasses

LEMMA RequestCovered ==
  ASSUME BudgetTypeOK, BudgetCovers, NEW i \in Voter, PostVotes(i), NEW k \in Voter
  PROVE  Covered(k)'
<1>0. /\ Covered(k) /\ Covered(i) /\ now \in Nat /\ now' = now
      /\ Cap \in Nat /\ Cap' = Cap /\ Minute' = Minute
  BY Units DEF BudgetCovers, BudgetTypeOK, Cap, Minute, PostVotes, Refuse, Fail, Reject, Accept
<1>1. CASE Refuse(i) \/ Fail(i)
  <2>1. k \in keys' => k \in keys /\ bucket'[k] = bucket[k]
    BY <1>1, SurvivingKeys DEF Refuse, Fail, Keep
  <2> QED BY <1>0, <1>1, <2>1, CoveredStays DEF Refuse, Fail
<1>2. ASSUME NEW n \in Nat, n <= Sticks(i), Charge(i, n), k # i,
             lastVote'[k] = lastVote[k], budget'[k] = budget[k]
      PROVE  Covered(k)'
  <2>1. k \in keys' => k \in keys /\ bucket'[k] = bucket[k]
    BY <1>2, AlwaysCharged, SurvivingKeys
  <2> QED BY <1>0, <1>2, <2>1, CoveredStays
<1>3. ASSUME NEW n \in Nat, n <= Sticks(i), Charge(i, n)
      PROVE  /\ i \in keys' /\ bucket'[i].at = now
             /\ Level(i)' = Level(i) - n * BudgetWindow /\ Level(i)' \in 0 .. Cap
             /\ n * BudgetWindow \in Nat /\ Level(i) \in Nat
  <2> DEFINE r == Level(i) - n * BudgetWindow
  <2>1. r \in 0 .. Cap /\ i \in keys' /\ bucket'[i] = [tokens |-> r, at |-> now]
    BY <1>3, AlwaysCharged
  <2>2. Level(i)' = r
    <3>1. bucket'[i].tokens = r /\ bucket'[i].at = now
      BY <2>1
    <3> HIDE DEF r
    <3>2. Level(i)' = Lesser(Cap', r + (now' - now) * Rate)
      BY <1>0, <2>1, <3>1 DEF Level, VoteBudgetAvailable
    <3>3. (now' - now) * Rate = 0
      BY <1>0, LimiterAssumption
    <3> QED BY <1>0, <2>1, <3>2, <3>3 DEF Lesser
  <2>3. n * BudgetWindow \in Nat /\ Level(i) \in Nat
    BY <1>3, Units, LevelType
  <2> QED BY <2>1, <2>2, <2>3
<1>4. CASE Reject(i)
  <2>1. 1 <= Sticks(i) /\ Charge(i, 1)
    BY <1>4, LevelType, Units, LimiterAssumption DEF Reject, Sticks
  <2>2. CASE k # i
    BY <1>2, <1>4, <2>1, <2>2 DEF Reject
  <2>3. CASE k = i
    <3>1. Rebuilt(i)' = Rebuilt(i)
      BY <1>0, <1>4 DEF Reject, Rebuilt, VoteBudgetAvailable, Cap, Minute
    <3>2. Level(i)' <= budget[i]
      BY <1>0, <1>3, <2>1, LevelCovered DEF Covered
    <3>3. lastVote[i] <= now
      BY DEF BudgetTypeOK
    <3> QED BY <1>0, <1>3, <1>4, <2>1, <2>3, <3>1, <3>2, <3>3 DEF Reject, Covered
  <2> QED BY <2>2, <2>3
<1>5. ASSUME NEW n \in 1 .. MaxCount, Accept(i, n)
      PROVE  Covered(k)'
  <2>1. n \in Nat /\ n <= Sticks(i) /\ Charge(i, n)
    BY <1>5, LimiterAssumption DEF Accept
  <2>2. CASE k # i
    BY <1>2, <1>5, <2>1, <2>2 DEF Accept, BudgetTypeOK
  <2>3. CASE k = i
    <3>1. budget'[i] = budget[i] - n * BudgetWindow /\ lastVote'[i] = now
      BY <1>5 DEF Accept, BudgetTypeOK
    <3>2. Level(i) <= budget[i] /\ budget[i] \in 0 .. Cap
      BY <1>0, LevelCovered DEF Covered
    <3>3. Level(i)' <= budget'[i] /\ budget'[i] \in 0 .. Cap
      BY <1>0, <1>3, <2>1, <3>1, <3>2
    <3>4. Rebuilt(i)' = 0
      <4>1. now' # NoVote
        BY <1>0 DEF BudgetTypeOK, NoVote
      <4>2. Rebuilt(i)' = Lesser(Cap, 0 + (now - now) * Rate)
        BY <1>0, <3>1, <4>1 DEF Rebuilt, VoteBudgetAvailable
      <4>3. (now - now) * Rate = 0
        BY <1>0, LimiterAssumption
      <4> QED BY <1>0, <4>2, <4>3 DEF Lesser
    <3> QED BY <1>0, <1>3, <2>1, <2>3, <3>1, <3>3, <3>4 DEF Covered
  <2> QED BY <2>2, <2>3
<1> QED BY <1>1, <1>4, <1>5 DEF PostVotes

LEMMA WipeCovered ==
  ASSUME BudgetTypeOK, BudgetCovers, NEW i \in Voter, NEW t \in NoVote .. LastTick,
         Wipe(i, t), NEW k \in Voter
  PROVE  Covered(k)'
<1>0. Covered(k) /\ now' = now /\ keys' = keys /\ bucket' = bucket
  BY DEF BudgetCovers, Wipe
<1>1. CASE k # i
  BY <1>0, <1>1, CoveredStays DEF Wipe, BudgetTypeOK
<1>2. CASE k = i
  <2>1. budget'[i] = Cap /\ lastVote'[i] = t /\ t < lastVote[i] /\ t \in Nat
        /\ lastVote[i] \in 0 .. now /\ now \in Nat
    BY LimiterAssumption DEF Wipe, BudgetTypeOK, NoVote
  <2>2. Rebuilt(i)' <= Cap
    <3>1. VoteBudgetAvailable(0, t) \in 0 .. Cap /\ VoteBudgetAvailable(0, t)' = VoteBudgetAvailable(0, t)
      BY <1>0, <2>1, Units, AvailableBounds
    <3>2. Rebuilt(i)' = IF t = NoVote THEN Minute ELSE VoteBudgetAvailable(0, t)
      BY <1>0, <2>1 DEF Rebuilt, VoteBudgetAvailable, Cap, Minute
    <3> QED BY <3>1, <3>2, Units
  <2>3. Level(i)' <= Cap
    <3>1. i \in keys => Level(i)' = Level(i)
      BY <1>0 DEF Level, VoteBudgetAvailable, Cap, Minute
    <3>2. i \notin keys => Level(i)' = Rebuilt(i)'
      BY <1>0 DEF Level
    <3> QED BY <2>2, <3>1, <3>2, LevelType, Units
  <2>4. i \in keys => t <= bucket[i].at
    <3>1. i \in keys => lastVote[i] <= bucket[i].at /\ bucket[i].at \in Nat
      BY <1>0, <1>2 DEF Covered, BudgetTypeOK
    <3> QED BY <2>1, <3>1
  <2> QED BY <1>0, <1>2, <2>1, <2>2, <2>3, <2>4, Units DEF Covered, Cap, Minute
<1> QED BY <1>1, <1>2

LEMMA BudgetAlwaysCovers == BudgetSpec => []BudgetCovers
<1>1. BudgetInit => BudgetCovers
  BY Units DEF BudgetInit, BudgetCovers, Covered, Rebuilt
<1>2. BudgetTypeOK /\ BudgetCovers /\ [BudgetNext]_budgetVars => BudgetCovers'
  <2> SUFFICES ASSUME BudgetTypeOK, BudgetCovers, [BudgetNext]_budgetVars, NEW k \in Voter
               PROVE  Covered(k)'
    BY DEF BudgetCovers
  <2>1. CASE ServerRestart \/ UNCHANGED budgetVars
    <3>1. k \in keys' => k \in keys /\ bucket'[k] = bucket[k]
      BY <2>1 DEF ServerRestart, Keep, budgetVars
    <3> QED BY <2>1, <3>1, CoveredStays DEF ServerRestart, budgetVars, BudgetCovers
  <2> QED BY <2>1, TickCovered, RequestCovered, WipeCovered DEF BudgetNext
<1> QED BY <1>1, <1>2, BudgetTypeInvariant, PTL DEF BudgetSpec

\* No eviction, restart, rejection or rebuilt bucket lets an installation spend
\* more than one uninterrupted bucket would have allowed.
THEOREM NeverOverdrawn == BudgetSpec => []NoOverdraw
<1>1. BudgetCovers => NoOverdraw
  BY Units DEF BudgetCovers, Covered, NoOverdraw
<1> QED BY <1>1, BudgetAlwaysCovers, PTL

\* Making room for another installation leaves the evicted one a window's refill.
THEOREM EvictionIsHarmless == BudgetSpec => EvictedKeepMinute
<1> DEFINE Harmless == (\E i \in Voter : PostVotes(i))
                     => \A k \in keys \ keys' : Level(k)' >= Minute
<1>1. BudgetTypeOK /\ BudgetCovers => Harmless
  <2> SUFFICES ASSUME BudgetTypeOK, BudgetCovers, NEW i \in Voter, PostVotes(i),
                      NEW k \in keys \ keys'
               PROVE  Level(k)' >= Minute
    OBVIOUS
  <2>1. Surviving(i) \subseteq keys' /\ now' = now
    <3>1. CASE Refuse(i) \/ Fail(i)
      BY <3>1 DEF Refuse, Fail, Keep
    <3>2. \A n : Charge(i, n) => Surviving(i) \subseteq keys'
      BY DEF Charge
    <3> QED BY <3>1, <3>2 DEF PostVotes, Reject, Accept
  <2>2. i \notin keys /\ k \in Idle /\ k \in Voter /\ k # i
    BY <2>1 DEF Surviving, BudgetTypeOK
  <2>3. lastVote'[k] = lastVote[k]
    BY <2>2 DEF PostVotes, Refuse, Fail, Reject, Accept, BudgetTypeOK
  <2>4. Level(k)' = IF lastVote[k] = NoVote THEN Minute ELSE VoteBudgetAvailable(0, lastVote[k])
    BY <2>1, <2>3 DEF Level, Rebuilt, VoteBudgetAvailable, Cap, Minute
  <2>5. CASE lastVote[k] # NoVote
    <3>1. BudgetWindow <= now - lastVote[k] /\ now - lastVote[k] \in Nat
      BY <2>2, LimiterAssumption DEF Idle, BudgetCovers, Covered, BudgetTypeOK
    <3> DEFINE refilled == (now - lastVote[k]) * Rate
    <3>2. refilled >= Minute /\ refilled \in Nat
      BY <3>1, Units
    <3>3. VoteBudgetAvailable(0, lastVote[k]) = Lesser(Cap, 0 + refilled)
      BY DEF VoteBudgetAvailable
    <3> HIDE DEF refilled
    <3> QED BY <2>4, <2>5, <3>2, <3>3, Units DEF Lesser
  <2> QED BY <2>4, <2>5, Units
<1> QED BY <1>1, BudgetAlwaysCovers, BudgetTypeInvariant, PTL DEF EvictedKeepMinute
=============================================================================
