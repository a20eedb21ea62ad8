--------------------------- MODULE UsageModesProofs ---------------------------
(***************************************************************************)
(* Theorems about the accounts of one session over both authorities, for   *)
(* any number of requests, events, dates, midnights, changes and restarts. *)
(*                                                                         *)
(* What the settler reads of a log that grows, or gains a header, comes    *)
(* first (LogSound).  Then, for any books of such a session, what bars a   *)
(* request from being credited again (Safe), and that every step books are *)
(* made of keeps it.  Then which books are whose: Control and Accounts,    *)
(* the invariant behind NoTokenTwice.  Last the other half: what makes     *)
(* sure a request is counted at all (Served, Lively), and LiveInv, the     *)
(* invariant behind LiveCounted.  With both, the shape of every state: the *)
(* authority in the slot of a Host that has started lives (Seated).        *)
(***************************************************************************)
EXTENDS UsageModes, SumTheorems

(* Folds over the events of a log, and over the batches of a queue. *)

Unread    == [open |-> Closed, requests |-> {}]
Places(l) == [i \in DOMAIN l |-> i]
Reading(l, g, s) ==
  IF s = {} THEN Unread ELSE Consume(g[s \ {Max(s)}], Places(l)[Max(s)], l[Places(l)[Max(s)]])
IsReading(l, g) == g = [s \in SUBSET DOMAIN Places(l) |-> Reading(l, g, s)]

LEMMA SettledUnfold ==
  ASSUME NEW l
  PROVE  Settled(l) = (CHOOSE g : IsReading(l, g))[DOMAIN Places(l)]
BY DEF Settled, FoldLeftDomain, FoldLeft, MapThenFoldSet, IsReading, Reading, Places, Unread

Passing(b, slot, batches, g, s) ==
  IF s = {} THEN b ELSE Observe(g[s \ {Max(s)}], slot, batches[Max(s)])
IsPassing(b, slot, batches, g) == g = [s \in SUBSET DOMAIN batches |-> Passing(b, slot, batches, g, s)]

LEMMA DeliveredUnfold ==
  ASSUME NEW b, NEW slot, NEW batches
  PROVE  Delivered(b, slot, batches) = (CHOOSE g : IsPassing(b, slot, batches, g))[DOMAIN batches]
BY DEF Delivered, FoldLeft, MapThenFoldSet, IsPassing, Passing

LEMMA UpTo ==
  ASSUME NEW n \in Nat
  PROVE  IsFiniteSet(1 .. n)
         /\ \A s \in SUBSET (1 .. n) :
              IsFiniteSet(s) /\ Cardinality(s) \in Nat /\ Cardinality(s) <= n /\ \A x \in s : x \in Int
<1>1. 1 \in Int /\ n \in Int
  OBVIOUS
<1>2. IsFiniteSet(1 .. n) /\ Cardinality(1 .. n) = IF 1 > n THEN 0 ELSE n - 1 + 1
  BY <1>1, FS_Interval
<1>3. Cardinality(1 .. n) = n
  BY <1>2
<1>4. ASSUME NEW s \in SUBSET (1 .. n)
      PROVE  IsFiniteSet(s) /\ Cardinality(s) \in Nat /\ Cardinality(s) <= n /\ \A x \in s : x \in Int
  <2>1. IsFiniteSet(s) /\ Cardinality(s) <= Cardinality(1 .. n)
    BY <1>2, FS_Subset
  <2>2. \A x \in s : x \in Int
    OBVIOUS
  <2> QED BY <1>3, <2>1, <2>2, FS_CardinalityType
<1> QED BY <1>2, <1>4

\* A set of numbers without its largest.
LEMMA WithoutLast ==
  ASSUME NEW s, IsFiniteSet(s), s # {}, \A x \in s : x \in Int
  PROVE  /\ Max(s) \in s /\ Cardinality(s \ {Max(s)}) = Cardinality(s) - 1
         /\ Cardinality(s) \in Nat /\ Cardinality(s \ {Max(s)}) \in Nat
<1>1. Max(s) \in s
  BY MaxIn
<1> QED BY <1>1, FS_RemoveElement, FS_CardinalityType

\* The numbers up to n, and the last of them.
LEMMA LastOf ==
  ASSUME NEW n \in Nat \ {0}
  PROVE  Max(1 .. n) = n /\ (1 .. n) \ {Max(1 .. n)} = 1 .. n - 1
<1>1. IsFiniteSet(1 .. n) /\ 1 .. n # {} /\ \A x \in 1 .. n : x \in Int
  <2>1. 1 \in 1 .. n
    OBVIOUS
  <2>2. IsFiniteSet(1 .. n)
    <3>1. n \in Nat
      OBVIOUS
    <3> QED BY <3>1, UpTo
  <2>3. \A x \in 1 .. n : x \in Int
    OBVIOUS
  <2> QED BY <2>1, <2>2, <2>3
<1>2. Max(1 .. n) \in 1 .. n /\ \A y \in 1 .. n : Max(1 .. n) >= y
  BY <1>1, MaxIn
<1>3. Max(1 .. n) = n
  BY <1>2
<1> QED BY <1>3

LEMMA ReadingTables ==
  ASSUME NEW l, NEW N \in Nat, DOMAIN l = 1 .. N
  PROVE  \A n \in Nat : \E g : \A s \in SUBSET (1 .. N) : Cardinality(s) <= n => g[s] = Reading(l, g, s)
<1> DEFINE Table(g, n) == \A s \in SUBSET (1 .. N) : Cardinality(s) <= n => g[s] = Reading(l, g, s)
           B == {n \in Nat : ~ \E g : Table(g, n)}
<1> SUFFICES ASSUME NEW z \in Nat, z \in B PROVE FALSE
  OBVIOUS
<1>1. PICK m \in B : \A k \in B : m <= k
  <2>1. B \in SUBSET Nat
    OBVIOUS
  <2> HIDE DEF B
  <2> QED BY <2>1, LeastNumber
<1>2. m \in Nat /\ ~ \E g : Table(g, m)
  OBVIOUS
<1>3. \A s \in SUBSET (1 .. N) :
        IsFiniteSet(s) /\ Cardinality(s) \in Nat /\ Cardinality(s) <= N /\ \A x \in s : x \in Int
  BY UpTo
<1>4. CASE m = 0
  <2> DEFINE g == [s \in SUBSET (1 .. N) |-> Unread]
  <2>1. ASSUME NEW s \in SUBSET (1 .. N), Cardinality(s) <= 0 PROVE g[s] = Reading(l, g, s)
    <3>1. s = {}
      BY <1>3, <2>1, FS_EmptySet
    <3> QED BY <3>1 DEF Reading
  <2> HIDE DEF g
  <2>2. Table(g, m)
    BY <1>4, <2>1
  <2> QED BY <1>2, <2>2
<1>5. CASE m # 0
  <2>1. m - 1 \in Nat /\ m - 1 \notin B
    BY <1>1, <1>2, <1>5
  <2>2. PICK g : Table(g, m - 1)
    BY <2>1
  <2> DEFINE h == [s \in SUBSET (1 .. N) |-> Reading(l, g, s)]
  <2>3. ASSUME NEW s \in SUBSET (1 .. N), Cardinality(s) <= m PROVE h[s] = Reading(l, h, s)
    <3>1. CASE s = {}
      BY <3>1 DEF Reading
    <3>2. CASE s # {}
      <4> DEFINE t == s \ {Max(s)}
      <4>1. t \in SUBSET (1 .. N) /\ Cardinality(t) <= m - 1
        <5>1. IsFiniteSet(s) /\ \A x \in s : x \in Int
          <6> HIDE DEF t, Table, B, h
          <6> QED BY <1>3
        <5>2. Max(s) \in s /\ Cardinality(t) = Cardinality(s) - 1 /\ Cardinality(s) \in Nat
          BY <3>2, <5>1, WithoutLast
        <5>3. m \in Nat /\ Cardinality(s) <= m
          BY <2>3
        <5>4. t \in SUBSET (1 .. N)
          OBVIOUS
        <5> HIDE DEF t, Table, B
        <5> QED BY <5>2, <5>3, <5>4
      <4>2. h[t] = g[t]
        <5>1. g[t] = Reading(l, g, t)
          BY <2>2, <4>1
        <5> QED BY <4>1, <5>1
      <4>3. h[s] = Reading(l, g, s)
        OBVIOUS
      <4> QED BY <3>2, <4>2, <4>3 DEF Reading
    <3> QED BY <3>1, <3>2
  <2> HIDE DEF h
  <2>4. Table(h, m)
    BY <2>3
  <2> QED BY <1>2, <2>4
<1> QED BY <1>4, <1>5

LEMMA ReadingExists ==
  ASSUME NEW l, NEW N \in Nat, DOMAIN l = 1 .. N
  PROVE  IsReading(l, CHOOSE g : IsReading(l, g))
<1>1. \E g : IsReading(l, g)
  <2>1. PICK g : \A s \in SUBSET (1 .. N) : Cardinality(s) <= N => g[s] = Reading(l, g, s)
    BY ReadingTables
  <2>2. \A s \in SUBSET (1 .. N) : IsFiniteSet(s) /\ Cardinality(s) <= N
    BY UpTo
  <2> DEFINE h == [s \in SUBSET (1 .. N) |-> g[s]]
  <2>3. ASSUME NEW s \in SUBSET (1 .. N) PROVE h[s] = Reading(l, h, s)
    <3>1. h[s] = Reading(l, g, s)
      BY <2>1, <2>2
    <3>2. h[s \ {Max(s)}] = g[s \ {Max(s)}]
      OBVIOUS
    <3> HIDE DEF h
    <3> QED BY <3>1, <3>2 DEF Reading
  <2>4. h = [s \in SUBSET (1 .. N) |-> h[s]]
    OBVIOUS
  <2> HIDE DEF h
  <2>5. h = [s \in SUBSET (1 .. N) |-> Reading(l, h, s)]
    BY <2>3, <2>4
  <2>6. DOMAIN Places(l) = 1 .. N
    BY DEF Places
  <2> QED BY <2>5, <2>6 DEF IsReading
<1> QED BY <1>1

LEMMA PassingTables ==
  ASSUME NEW b, NEW slot, NEW batches, NEW N \in Nat, DOMAIN batches = 1 .. N
  PROVE  \A n \in Nat : \E g : \A s \in SUBSET (1 .. N) : Cardinality(s) <= n => g[s] = Passing(b, slot, batches, g, s)
<1> DEFINE Table(g, n) == \A s \in SUBSET (1 .. N) : Cardinality(s) <= n => g[s] = Passing(b, slot, batches, g, s)
           B == {n \in Nat : ~ \E g : Table(g, n)}
<1> SUFFICES ASSUME NEW z \in Nat, z \in B PROVE FALSE
  OBVIOUS
<1>1. PICK m \in B : \A k \in B : m <= k
  <2>1. B \in SUBSET Nat
    OBVIOUS
  <2> HIDE DEF B
  <2> QED BY <2>1, LeastNumber
<1>2. m \in Nat /\ ~ \E g : Table(g, m)
  OBVIOUS
<1>3. \A s \in SUBSET (1 .. N) :
        IsFiniteSet(s) /\ Cardinality(s) \in Nat /\ Cardinality(s) <= N /\ \A x \in s : x \in Int
  BY UpTo
<1>4. CASE m = 0
  <2> DEFINE g == [s \in SUBSET (1 .. N) |-> b]
  <2>1. ASSUME NEW s \in SUBSET (1 .. N), Cardinality(s) <= 0 PROVE g[s] = Passing(b, slot, batches, g, s)
    <3>1. s = {}
      BY <1>3, <2>1, FS_EmptySet
    <3> QED BY <3>1 DEF Passing
  <2> HIDE DEF g
  <2>2. Table(g, m)
    BY <1>4, <2>1
  <2> QED BY <1>2, <2>2
<1>5. CASE m # 0
  <2>1. m - 1 \in Nat /\ m - 1 \notin B
    BY <1>1, <1>2, <1>5
  <2>2. PICK g : Table(g, m - 1)
    BY <2>1
  <2> DEFINE h == [s \in SUBSET (1 .. N) |-> Passing(b, slot, batches, g, s)]
  <2>3. ASSUME NEW s \in SUBSET (1 .. N), Cardinality(s) <= m PROVE h[s] = Passing(b, slot, batches, h, s)
    <3>1. CASE s = {}
      BY <3>1 DEF Passing
    <3>2. CASE s # {}
      <4> DEFINE t == s \ {Max(s)}
      <4>1. t \in SUBSET (1 .. N) /\ Cardinality(t) <= m - 1
        <5>1. IsFiniteSet(s) /\ \A x \in s : x \in Int
          <6> HIDE DEF t, Table, B, h
          <6> QED BY <1>3
        <5>2. Max(s) \in s /\ Cardinality(t) = Cardinality(s) - 1 /\ Cardinality(s) \in Nat
          BY <3>2, <5>1, WithoutLast
        <5>3. m \in Nat /\ Cardinality(s) <= m
          BY <2>3
        <5>4. t \in SUBSET (1 .. N)
          OBVIOUS
        <5> HIDE DEF t, Table, B
        <5> QED BY <5>2, <5>3, <5>4
      <4>2. h[t] = g[t]
        <5>1. g[t] = Passing(b, slot, batches, g, t)
          BY <2>2, <4>1
        <5> QED BY <4>1, <5>1
      <4>3. h[s] = Passing(b, slot, batches, g, s)
        OBVIOUS
      <4> QED BY <3>2, <4>2, <4>3 DEF Passing
    <3> QED BY <3>1, <3>2
  <2> HIDE DEF h
  <2>4. Table(h, m)
    BY <2>3
  <2> QED BY <1>2, <2>4
<1> QED BY <1>4, <1>5

LEMMA PassingExists ==
  ASSUME NEW b, NEW slot, NEW batches, NEW N \in Nat, DOMAIN batches = 1 .. N
  PROVE  IsPassing(b, slot, batches, CHOOSE g : IsPassing(b, slot, batches, g))
<1>1. \E g : IsPassing(b, slot, batches, g)
  <2>1. PICK g : \A s \in SUBSET (1 .. N) : Cardinality(s) <= N => g[s] = Passing(b, slot, batches, g, s)
    BY PassingTables
  <2>2. \A s \in SUBSET (1 .. N) : IsFiniteSet(s) /\ Cardinality(s) <= N
    BY UpTo
  <2> DEFINE h == [s \in SUBSET (1 .. N) |-> g[s]]
  <2>3. ASSUME NEW s \in SUBSET (1 .. N) PROVE h[s] = Passing(b, slot, batches, h, s)
    <3>1. h[s] = Passing(b, slot, batches, g, s)
      BY <2>1, <2>2
    <3>2. h[s \ {Max(s)}] = g[s \ {Max(s)}]
      OBVIOUS
    <3> HIDE DEF h
    <3> QED BY <3>1, <3>2 DEF Passing
  <2>4. h = [s \in SUBSET (1 .. N) |-> h[s]]
    OBVIOUS
  <2> HIDE DEF h
  <2>5. h = [s \in SUBSET (1 .. N) |-> Passing(b, slot, batches, h, s)]
    BY <2>3, <2>4
  <2>6. TRUE
    BY <2>5
  <2> QED BY <2>5, <2>6 DEF IsPassing
<1> QED BY <1>1

\* The settler's state after each event of a log.
IsRun(l, N, G) ==
  /\ G[0] = Unread
  /\ \A n \in 1 .. N : G[n] = Consume(G[n - 1], n, l[n])

LEMMA SettledRun ==
  ASSUME NEW l, NEW N \in Nat, DOMAIN l = 1 .. N
  PROVE  \E G : IsRun(l, N, G) /\ Settled(l) = G[N]
<1> DEFINE g == CHOOSE g : IsReading(l, g)
           G == [n \in 0 .. N |-> g[1 .. n]]
<1>1. IsReading(l, g)
  BY ReadingExists
<1>2. DOMAIN Places(l) = 1 .. N
  BY DEF Places
<1>3. Settled(l) = g[1 .. N]
  BY <1>2, SettledUnfold
<1> HIDE DEF g
<1>4. \A s \in SUBSET (1 .. N) : g[s] = Reading(l, g, s)
  BY <1>1, <1>2 DEF IsReading
<1>5. G[0] = Unread
  <2>1. 1 .. 0 = {} /\ G[0] = g[1 .. 0]
    OBVIOUS
  <2> QED BY <1>4, <2>1 DEF Reading
<1>6. ASSUME NEW n \in 1 .. N PROVE G[n] = Consume(G[n - 1], n, l[n])
  <2>1. Max(1 .. n) = n /\ (1 .. n) \ {Max(1 .. n)} = 1 .. n - 1
    BY LastOf
  <2>2. 1 .. n \in SUBSET (1 .. N) /\ 1 .. n # {} /\ n \in 0 .. N /\ n - 1 \in 0 .. N
    <3>1. 1 \in 1 .. n
      OBVIOUS
    <3>2. 1 .. n \in SUBSET (1 .. N)
      OBVIOUS
    <3>3. n \in 0 .. N /\ n - 1 \in 0 .. N
      OBVIOUS
    <3> QED BY <3>1, <3>2, <3>3
  <2>3. Places(l)[n] = n
    BY DEF Places
  <2>4. g[1 .. n] = Consume(g[1 .. n - 1], n, l[n])
    BY <1>4, <2>1, <2>2, <2>3 DEF Reading
  <2> QED BY <2>2, <2>4
<1>7. Settled(l) = G[N]
  BY <1>3
<1> HIDE DEF G
<1> QED BY <1>5, <1>6, <1>7 DEF IsRun

\* Reading on: what an event adds to what was read.
LEMMA SettledOn ==
  ASSUME NEW l, NEW k, NEW N \in Nat, DOMAIN l = 1 .. N, DOMAIN k = 1 .. N + 1,
         \A n \in 1 .. N : k[n] = l[n]
  PROVE  Settled(k) = Consume(Settled(l), N + 1, k[N + 1])
<1>1. PICK G : IsRun(l, N, G) /\ Settled(l) = G[N]
  BY SettledRun
<1>2. PICK H : IsRun(k, N + 1, H) /\ Settled(k) = H[N + 1]
  BY SettledRun
<1>3. \A n \in 0 .. N : H[n] = G[n]
  <2> DEFINE B == {n \in 0 .. N : H[n] # G[n]}
  <2> SUFFICES ASSUME NEW z \in B PROVE FALSE
    OBVIOUS
  <2>1. PICK m \in B : \A n \in B : m <= n
    <3>1. B \in SUBSET Nat
      OBVIOUS
    <3> HIDE DEF B
    <3> QED BY <3>1, LeastNumber
  <2>2. m # 0
    BY <1>1, <1>2 DEF IsRun
  <2>3. m \in 1 .. N /\ m - 1 \in 0 .. N /\ m - 1 \notin B
    BY <2>1, <2>2
  <2>4. H[m - 1] = G[m - 1]
    BY <2>3
  <2>5. H[m] = Consume(H[m - 1], m, k[m]) /\ G[m] = Consume(G[m - 1], m, l[m])
    BY <1>1, <1>2, <2>3 DEF IsRun
  <2> QED BY <2>3, <2>4, <2>5
<1>4. H[N + 1] = Consume(H[N + 1 - 1], N + 1, k[N + 1])
  BY <1>2 DEF IsRun
<1> QED BY <1>1, <1>2, <1>3, <1>4

LEMMA SettledEmpty == Settled(<<>>) = Unread
<1>1. PICK G : IsRun(<<>>, 0, G) /\ Settled(<<>>) = G[0]
  BY SettledRun
<1> QED BY <1>1 DEF IsRun

LEMMA SettledAppend ==
  ASSUME NEW S, NEW l \in Seq(S), NEW e \in S
  PROVE  Settled(Append(l, e)) = Consume(Settled(l), Len(l) + 1, e)
<1>1. Len(l) \in Nat /\ DOMAIN l = 1 .. Len(l) /\ DOMAIN Append(l, e) = 1 .. Len(l) + 1
      /\ (\A n \in 1 .. Len(l) : Append(l, e)[n] = l[n]) /\ Append(l, e)[Len(l) + 1] = e
  OBVIOUS
<1> QED BY <1>1, SettledOn

\* What the authority has after each batch of a queue.
IsFlow(b, slot, batches, N, G) ==
  /\ G[0] = b
  /\ \A n \in 1 .. N : G[n] = Observe(G[n - 1], slot, batches[n])

LEMMA DeliveredFlow ==
  ASSUME NEW b, NEW slot, NEW batches, NEW N \in Nat, DOMAIN batches = 1 .. N
  PROVE  \E G : IsFlow(b, slot, batches, N, G) /\ Delivered(b, slot, batches) = G[N]
<1> DEFINE g == CHOOSE g : IsPassing(b, slot, batches, g)
           G == [n \in 0 .. N |-> g[1 .. n]]
<1>1. IsPassing(b, slot, batches, g)
  BY PassingExists
<1>2. Delivered(b, slot, batches) = g[1 .. N]
  BY DeliveredUnfold
<1> HIDE DEF g
<1>3. \A s \in SUBSET (1 .. N) : g[s] = Passing(b, slot, batches, g, s)
  BY <1>1 DEF IsPassing
<1>4. G[0] = b
  <2>1. 1 .. 0 = {} /\ G[0] = g[1 .. 0]
    OBVIOUS
  <2> QED BY <1>3, <2>1 DEF Passing
<1>5. ASSUME NEW n \in 1 .. N PROVE G[n] = Observe(G[n - 1], slot, batches[n])
  <2>1. Max(1 .. n) = n /\ (1 .. n) \ {Max(1 .. n)} = 1 .. n - 1
    BY LastOf
  <2>2. 1 .. n \in SUBSET (1 .. N) /\ 1 .. n # {} /\ n \in 0 .. N /\ n - 1 \in 0 .. N
    <3>1. 1 \in 1 .. n
      OBVIOUS
    <3>2. 1 .. n \in SUBSET (1 .. N)
      OBVIOUS
    <3>3. n \in 0 .. N /\ n - 1 \in 0 .. N
      OBVIOUS
    <3> QED BY <3>1, <3>2, <3>3
  <2>3. g[1 .. n] = Observe(g[1 .. n - 1], slot, batches[n])
    BY <1>3, <2>1, <2>2 DEF Passing
  <2> QED BY <2>2, <2>3
<1>6. Delivered(b, slot, batches) = G[N]
  BY <1>2
<1> HIDE DEF G
<1> QED BY <1>4, <1>5, <1>6 DEF IsFlow
-----------------------------------------------------------------------------
(* The requests of the log. *)

Attempt   == [id : Nat, at : Nat, sample : {0, 1, 2}]
Record(n) == [id : Request, start : 1 .. n, end : 1 .. n, day : Days, tokens : {1, 2}]

\* What was read of n events that begin b requests.
SettlerOK(s, n, b) ==
  /\ s \in [open : Attempt, requests : SUBSET Record(n)]
  /\ \A q \in s.requests : q.id <= b /\ q.start < q.end
  /\ \A p, q \in s.requests : p.id = q.id => p = q
  /\ s.open = Closed \/ /\ s.open.id \in 1 .. b /\ s.open.at \in 1 .. n
                        /\ \A q \in s.requests : q.id # s.open.id

LEMMA UsageConstants ==
  /\ LastDay \in Nat \ {0} /\ MaxRequests \in Nat \ {0} /\ MaxEvents \in Nat \ {0, 1} /\ MaxActs \in Nat
  /\ Default \in {"online", "local"}
BY UsageAssumption

LEMMA UnreadOK == SettlerOK(Unread, 0, 0)
BY DEF SettlerOK, Unread, Closed, Attempt, NoSample

\* An event that begins a request ...
LEMMA ConsumeStart ==
  ASSUME NEW n \in Nat, NEW b \in Nat, NEW s, SettlerOK(s, n, b),
         NEW e \in Event, e.kind = "start", e.id = b + 1, b + 1 <= MaxRequests
  PROVE  /\ SettlerOK(Consume(s, n + 1, e), n + 1, b + 1)
         /\ Consume(s, n + 1, e).requests = s.requests
         /\ Consume(s, n + 1, e).open = [id |-> b + 1, at |-> n + 1, sample |-> NoSample]
<1> DEFINE t == Consume(s, n + 1, e)
           o == [id |-> b + 1, at |-> n + 1, sample |-> NoSample]
<1>1. s \in [open : Attempt, requests : SUBSET Record(n)]
  BY DEF SettlerOK
<1>2. t = [s EXCEPT !.open = o]
  BY DEF Consume
<1>3. t.requests = s.requests /\ t.open = o
  BY <1>1, <1>2
<1>4. o \in Attempt /\ o.id = b + 1 /\ o.at = n + 1
  BY DEF Attempt, NoSample
<1>5. s.requests \subseteq Record(n + 1)
  BY <1>1 DEF Record
<1>6. t \in [open : Attempt, requests : SUBSET Record(n + 1)]
  BY <1>1, <1>2, <1>4, <1>5
<1>7. \A q \in s.requests : q.id \in Nat /\ q.id <= b /\ q.id <= b + 1 /\ q.id # b + 1 /\ q.start < q.end
  <2> SUFFICES ASSUME NEW q \in s.requests
               PROVE  q.id \in Nat /\ q.id <= b /\ q.id <= b + 1 /\ q.id # b + 1 /\ q.start < q.end
    OBVIOUS
  <2>1. q.id \in Nat
    BY <1>1, UsageConstants DEF Record, Request
  <2>2. q.id <= b /\ q.start < q.end
    BY DEF SettlerOK
  <2> QED BY <2>1, <2>2
<1>8. \A p, q \in s.requests : p.id = q.id => p = q
  BY DEF SettlerOK
<1> HIDE DEF t, o
<1>9. SettlerOK(t, n + 1, b + 1)
  BY <1>3, <1>4, <1>6, <1>7, <1>8 DEF SettlerOK
<1> QED BY <1>3, <1>9 DEF t, o

\* ... and one that goes on with it or ends it: at most one request is added, which is the open one.
Longer(s, t, n) ==
  /\ s.requests \subseteq t.requests
  /\ \A q \in t.requests \ s.requests :
       s.open # Closed /\ q.end = n + 1 /\ q.id = s.open.id /\ q.start = s.open.at
  /\ t.open = Closed \/ (s.open # Closed /\ t.open.id = s.open.id /\ t.open.at = s.open.at)

LEMMA ConsumeOther ==
  ASSUME NEW n \in Nat, NEW b \in Nat, b <= MaxRequests, NEW s, SettlerOK(s, n, b),
         NEW e \in Event, e.kind # "start"
  PROVE  SettlerOK(Consume(s, n + 1, e), n + 1, b) /\ Longer(s, Consume(s, n + 1, e), n)
<1> DEFINE t == Consume(s, n + 1, e)
           sample == SampleAfter(e, s.open.sample)
           closed == [id |-> s.open.id, start |-> s.open.at, end |-> n + 1, day |-> e.day, tokens |-> sample]
<1>1. s \in [open : Attempt, requests : SUBSET Record(n)] /\ s.open \in Attempt /\ s.requests \subseteq Record(n)
  BY DEF SettlerOK
<1>2. s.requests \subseteq Record(n + 1)
  BY <1>1 DEF Record
<1>3. /\ \A q \in s.requests : q.id <= b /\ q.start < q.end
      /\ \A p, q \in s.requests : p.id = q.id => p = q
      /\ s.open = Closed \/ /\ s.open.id \in 1 .. b /\ s.open.at \in 1 .. n
                            /\ \A q \in s.requests : q.id # s.open.id
  BY DEF SettlerOK
<1>4. s.open = Closed \/ (s.open.id \in 1 .. b /\ s.open.at \in 1 .. n + 1)
  BY <1>3
<1>5. sample \in {0, 1, 2}
  <2>1. s.open.sample \in {0, 1, 2}
    BY <1>1 DEF Attempt
  <2> QED BY <2>1 DEF SampleAfter, NoSample
<1>6. CASE s.open = Closed
  <2>1. t = s
    BY <1>6 DEF Consume
  <2>2. s \in [open : Attempt, requests : SUBSET Record(n + 1)]
    BY <1>1, <1>2
  <2> HIDE DEF t
  <2> QED BY <1>3, <1>6, <2>1, <2>2 DEF SettlerOK, Longer, t
<1>7. CASE s.open # Closed /\ ~ Closes(e)
  <2>1. t = [s EXCEPT !.open.sample = sample]
    BY <1>7 DEF Consume
  <2>2. t.requests = s.requests /\ t.open = [s.open EXCEPT !.sample = sample]
    BY <1>1, <2>1
  <2>3. t.open \in Attempt /\ t.open.id = s.open.id /\ t.open.at = s.open.at
    BY <1>1, <1>5, <2>2 DEF Attempt
  <2>4. t \in [open : Attempt, requests : SUBSET Record(n + 1)]
    BY <1>1, <1>2, <2>1, <2>2, <2>3
  <2> HIDE DEF t, sample
  <2>5. SettlerOK(t, n + 1, b)
    BY <1>3, <1>4, <1>7, <2>2, <2>3, <2>4 DEF SettlerOK
  <2>6. Longer(s, t, n)
    BY <1>7, <2>2, <2>3 DEF Longer
  <2> QED BY <2>5, <2>6 DEF t
<1>8. CASE s.open # Closed /\ Closes(e)
  <2> DEFINE new == IF sample = NoSample THEN s.requests ELSE s.requests \cup {closed}
  <2>1. t = [open |-> Closed, requests |-> new]
    BY <1>8 DEF Consume
  <2>2. t.open = Closed /\ t.requests = new
    BY <2>1
  <2>3. sample # NoSample => closed \in Record(n + 1) /\ closed.start < closed.end /\ closed.id <= b
    <3>1. s.open.id \in Request /\ s.open.id <= b
      BY <1>3, <1>8, UsageConstants DEF Request
    <3>2. s.open.at \in 1 .. n + 1 /\ s.open.at < n + 1 /\ n + 1 \in 1 .. n + 1
      BY <1>3, <1>8
    <3>3. e.day \in Days
      BY DEF Event
    <3>4. sample # NoSample => sample \in {1, 2}
      BY <1>5 DEF NoSample
    <3> HIDE DEF sample
    <3> QED BY <3>1, <3>2, <3>3, <3>4 DEF Record
  <2>4. new \subseteq Record(n + 1)
    BY <1>2, <2>3
  <2>5. Closed \in Attempt
    BY DEF Closed, Attempt, NoSample
  <2>6. closed.id = s.open.id /\ closed.end = n + 1 /\ closed.start = s.open.at
    OBVIOUS
  <2>7. \A q \in s.requests : q.id # s.open.id
    BY <1>3, <1>8
  <2>8. \A q \in new : q.id <= b /\ q.start < q.end
    BY <1>3, <2>3
  <2>9. \A p, q \in new : p.id = q.id => p = q
    BY <1>3, <2>6, <2>7
  <2>10. t \in [open : Attempt, requests : SUBSET Record(n + 1)]
    BY <2>1, <2>4, <2>5
  <2>11. SettlerOK(t, n + 1, b)
    <3> HIDE DEF t, new
    <3> QED BY <2>2, <2>8, <2>9, <2>10 DEF SettlerOK
  <2>12. s.requests \subseteq new /\ \A q \in new \ s.requests : q = closed
    OBVIOUS
  <2>13. Longer(s, t, n)
    <3> HIDE DEF t, new, closed, sample
    <3> QED BY <1>8, <2>2, <2>6, <2>12 DEF Longer
  <2> QED BY <2>11, <2>13
<1> QED BY <1>6, <1>7, <1>8
-----------------------------------------------------------------------------
(* A renumbered log: every event moves on by one place, and so do the requests. *)

Heading    == [kind |-> "header", id |-> 0, day |-> 1]
Moved(q)   == [id |-> q.id, start |-> q.start + 1, end |-> q.end + 1, day |-> q.day, tokens |-> q.tokens]
Pushed(o)  == IF o = Closed THEN Closed ELSE [id |-> o.id, at |-> o.at + 1, sample |-> o.sample]
Shifted(s) == [open |-> Pushed(s.open), requests |-> {Moved(q) : q \in s.requests}]

LEMMA RenumberedIs == Renumbered = <<Heading>> \o log
BY DEF Renumbered, Heading

LEMMA MovedIs ==
  ASSUME NEW n \in Nat, NEW q \in Record(n)
  PROVE  /\ Moved(q) \in Record(n + 1)
         /\ Moved(q).id = q.id /\ Moved(q).tokens = q.tokens /\ Moved(q).day = q.day
         /\ Moved(q).start = q.start + 1 /\ Moved(q).end = q.end + 1
<1>1. q.id \in Request /\ q.start \in 1 .. n /\ q.end \in 1 .. n /\ q.day \in Days /\ q.tokens \in {1, 2}
  BY DEF Record
<1>2. q.start + 1 \in 1 .. n + 1 /\ q.end + 1 \in 1 .. n + 1
  BY <1>1
<1> QED BY <1>1, <1>2 DEF Moved, Record

LEMMA PushedIs ==
  ASSUME NEW o \in Attempt
  PROVE  /\ Pushed(o) \in Attempt
         /\ o = Closed <=> Pushed(o) = Closed
         /\ o # Closed => Pushed(o) = [id |-> o.id, at |-> o.at + 1, sample |-> o.sample]
<1>1. o.id \in Nat /\ o.at \in Nat /\ o.sample \in {0, 1, 2}
  BY DEF Attempt
<1>2. o # Closed => Pushed(o) = [id |-> o.id, at |-> o.at + 1, sample |-> o.sample]
  BY DEF Pushed
<1>3. o = Closed => Pushed(o) = Closed
  BY DEF Pushed
<1>4. o # Closed => Pushed(o).at # Closed.at
  BY <1>1, <1>2 DEF Closed
<1>5. Pushed(o) \in Attempt
  BY <1>1, <1>2, <1>3 DEF Closed, Attempt, NoSample
<1> QED BY <1>2, <1>3, <1>4, <1>5

LEMMA ShiftedIs ==
  ASSUME NEW s
  PROVE  /\ Shifted(s).open = Pushed(s.open) /\ Shifted(s).requests = {Moved(q) : q \in s.requests}
         /\ Shifted(s) = [open |-> Shifted(s).open, requests |-> Shifted(s).requests]
BY DEF Shifted

LEMMA ShiftedOK ==
  ASSUME NEW n \in Nat, NEW b \in Nat, NEW s, SettlerOK(s, n, b)
  PROVE  SettlerOK(Shifted(s), n + 1, b)
<1> DEFINE t == Shifted(s)
<1>1. s \in [open : Attempt, requests : SUBSET Record(n)] /\ s.open \in Attempt /\ s.requests \subseteq Record(n)
  BY DEF SettlerOK
<1>2. t.requests = {Moved(q) : q \in s.requests}
      /\ t.open = Pushed(s.open) /\ t = [open |-> t.open, requests |-> t.requests]
  BY ShiftedIs
<1>3. t.open \in Attempt
  BY <1>1, <1>2, PushedIs
<1>4. t.requests \subseteq Record(n + 1)
  BY <1>1, <1>2, MovedIs
<1> HIDE DEF t
<1>5. ASSUME NEW q \in t.requests PROVE q.id <= b /\ q.start < q.end
  <2>1. PICK p \in s.requests : q = Moved(p)
    BY <1>2
  <2>2. p \in Record(n) /\ p.id <= b /\ p.start < p.end
    BY <1>1, <2>1 DEF SettlerOK
  <2>3. p.start \in Int /\ p.end \in Int
    BY <2>2 DEF Record
  <2>4. q.id = p.id /\ q.start = p.start + 1 /\ q.end = p.end + 1
    BY <2>1, <2>2, MovedIs
  <2> QED BY <2>2, <2>3, <2>4
<1>6. ASSUME NEW p \in t.requests, NEW q \in t.requests, p.id = q.id PROVE p = q
  <2>1. PICK c \in s.requests : p = Moved(c)
    BY <1>2
  <2>2. PICK d \in s.requests : q = Moved(d)
    BY <1>2
  <2>3. p.id = c.id /\ q.id = d.id
    BY <1>1, <2>1, <2>2, MovedIs
  <2>4. c = d
    BY <1>6, <2>3 DEF SettlerOK
  <2> QED BY <2>1, <2>2, <2>4
<1>7. t.open = Closed \/ /\ t.open.id \in 1 .. b /\ t.open.at \in 1 .. n + 1
                         /\ \A q \in t.requests : q.id # t.open.id
  <2> SUFFICES ASSUME t.open # Closed
               PROVE  t.open.id \in 1 .. b /\ t.open.at \in 1 .. n + 1 /\ \A q \in t.requests : q.id # t.open.id
    OBVIOUS
  <2>1. s.open # Closed
    BY <1>1, <1>2, PushedIs
  <2>2. t.open.id = s.open.id /\ t.open.at = s.open.at + 1
    BY <1>1, <1>2, <2>1, PushedIs
  <2>3. s.open.id \in 1 .. b /\ s.open.at \in 1 .. n /\ \A q \in s.requests : q.id # s.open.id
    BY <2>1 DEF SettlerOK
  <2>4. t.open.at \in 1 .. n + 1
    BY <2>2, <2>3
  <2>5. \A q \in t.requests : q.id # t.open.id
    BY <1>1, <1>2, <2>2, <2>3, MovedIs
  <2> QED BY <2>2, <2>3, <2>4, <2>5
<1>8. t \in [open : Attempt, requests : SUBSET Record(n + 1)]
  BY <1>2, <1>3, <1>4
<1>9. SettlerOK(t, n + 1, b)
  BY <1>5, <1>6, <1>7, <1>8 DEF SettlerOK
<1> QED BY <1>9 DEF t

\* Reading on commutes with the move.
LEMMA ShiftedConsume ==
  ASSUME NEW n \in Nat, NEW b \in Nat, NEW s, SettlerOK(s, n, b), NEW e \in Event
  PROVE  Consume(Shifted(s), n + 1 + 1, e) = Shifted(Consume(s, n + 1, e))
<1> DEFINE t == Shifted(s)
           sample == SampleAfter(e, s.open.sample)
           closed == [id |-> s.open.id, start |-> s.open.at, end |-> n + 1, day |-> e.day, tokens |-> sample]
<1>1. s \in [open : Attempt, requests : SUBSET Record(n)] /\ s.open \in Attempt /\ s.requests \subseteq Record(n)
  BY DEF SettlerOK
<1>2. t.requests = {Moved(q) : q \in s.requests}
      /\ t.open = Pushed(s.open) /\ t = [open |-> t.open, requests |-> t.requests]
  BY ShiftedIs
<1>3. s.open = Closed <=> t.open = Closed
  BY <1>1, <1>2, PushedIs
<1>4. s.open # Closed => /\ t.open = [id |-> s.open.id, at |-> s.open.at + 1, sample |-> s.open.sample]
                         /\ t.open.id = s.open.id /\ t.open.at = s.open.at + 1 /\ t.open.sample = s.open.sample
  BY <1>1, <1>2, PushedIs
<1>5. CASE e.kind = "start"
  <2> DEFINE o == [id |-> e.id, at |-> n + 1, sample |-> NoSample]
             p == [id |-> e.id, at |-> n + 1 + 1, sample |-> NoSample]
  <2>1. Consume(s, n + 1, e) = [s EXCEPT !.open = o] /\ Consume(t, n + 1 + 1, e) = [t EXCEPT !.open = p]
    BY <1>5 DEF Consume
  <2>2. Consume(s, n + 1, e).open = o /\ Consume(s, n + 1, e).requests = s.requests
    BY <1>1, <2>1
  <2>3. o # Closed
    <3>1. o.at # Closed.at
      BY DEF Closed
    <3> QED BY <3>1
  <2>4. Pushed(o) = p
    BY <2>3 DEF Pushed
  <2> HIDE DEF o, p
  <2>5. Shifted(Consume(s, n + 1, e)) = [open |-> p, requests |-> {Moved(q) : q \in s.requests}]
    BY <2>2, <2>4 DEF Shifted
  <2>6. [t EXCEPT !.open = p] = [open |-> p, requests |-> t.requests]
    BY <1>2
  <2> QED BY <1>2, <2>1, <2>5, <2>6
<1>6. CASE e.kind # "start" /\ s.open = Closed
  <2>1. Consume(s, n + 1, e) = s /\ Consume(t, n + 1 + 1, e) = t
    BY <1>3, <1>6 DEF Consume
  <2> QED BY <2>1
<1>7. CASE e.kind # "start" /\ s.open # Closed /\ ~ Closes(e)
  <2>1. Consume(s, n + 1, e) = [s EXCEPT !.open.sample = sample]
        /\ Consume(t, n + 1 + 1, e) = [t EXCEPT !.open.sample = SampleAfter(e, t.open.sample)]
    BY <1>3, <1>7 DEF Consume
  <2>2. SampleAfter(e, t.open.sample) = sample
    BY <1>4, <1>7
  <2> DEFINE u == Consume(s, n + 1, e)
             o == [s.open EXCEPT !.sample = sample]
  <2>3. u.requests = s.requests /\ u.open = o
    BY <1>1, <2>1
  <2>4. o # Closed
    <3>1. s.open.at \in 1 .. n /\ o.at = s.open.at /\ Closed.at = 0
      BY <1>1, <1>7 DEF SettlerOK, Attempt, Closed
    <3>2. o.at # Closed.at
      BY <3>1
    <3> QED BY <3>2
  <2>5. Shifted(u) = [open |-> Pushed(o), requests |-> {Moved(q) : q \in s.requests}]
    <3> HIDE DEF u, o
    <3> QED BY <2>3 DEF Shifted
  <2>6. [t EXCEPT !.open.sample = sample] = [open |-> [t.open EXCEPT !.sample = sample], requests |-> t.requests]
    <3> HIDE DEF t, sample
    <3> QED BY <1>2
  <2>7. Pushed(o) = [t.open EXCEPT !.sample = sample]
    <3>1. o = [id |-> s.open.id, at |-> s.open.at, sample |-> sample]
      BY <1>1 DEF Attempt
    <3>2. Pushed(o) = [id |-> s.open.id, at |-> s.open.at + 1, sample |-> sample]
      BY <2>4, <3>1 DEF Pushed
    <3> HIDE DEF t, sample, o
    <3>3. [t.open EXCEPT !.sample = sample] = [id |-> s.open.id, at |-> s.open.at + 1, sample |-> sample]
      BY <1>4, <1>7
    <3> QED BY <3>2, <3>3
  <2> QED BY <1>2, <2>1, <2>2, <2>5, <2>6, <2>7
<1>8. CASE e.kind # "start" /\ s.open # Closed /\ Closes(e)
  <2> DEFINE new == IF sample = NoSample THEN s.requests ELSE s.requests \cup {closed}
             late == [id |-> t.open.id, start |-> t.open.at, end |-> n + 1 + 1, day |-> e.day, tokens |-> sample]
  <2>1. Consume(s, n + 1, e) = [open |-> Closed, requests |-> new]
    BY <1>8 DEF Consume
  <2>2. SampleAfter(e, t.open.sample) = sample
    BY <1>4, <1>8
  <2>3. Consume(t, n + 1 + 1, e) = [open |-> Closed,
          requests |-> IF sample = NoSample THEN t.requests ELSE t.requests \cup {late}]
    <3> HIDE DEF t, sample
    <3> QED BY <1>3, <1>8, <2>2 DEF Consume
  <2>4. Moved(closed) = late
    <3> HIDE DEF t, sample
    <3>1. late = [id |-> s.open.id, start |-> s.open.at + 1, end |-> n + 1 + 1, day |-> e.day, tokens |-> sample]
      BY <1>4, <1>8
    <3> QED BY <3>1 DEF Moved
  <2>5. {Moved(q) : q \in new} = IF sample = NoSample THEN t.requests ELSE t.requests \cup {late}
    <3> HIDE DEF t, sample, closed, late
    <3> QED BY <1>2, <2>4
  <2>6. Shifted([open |-> Closed, requests |-> new]) = [open |-> Closed, requests |-> {Moved(q) : q \in new}]
    <3> HIDE DEF new
    <3> QED BY DEF Shifted, Pushed
  <2> QED BY <2>1, <2>3, <2>5, <2>6
<1> QED BY <1>5, <1>6, <1>7, <1>8

\* What a log says survives the heading put before it.
Movable(l) == Settled(<<Heading>> \o l) = Shifted(Settled(l))

LEMMA EmptyMovable == Movable(<<>>)
<1> DEFINE k == <<Heading>> \o <<>>
<1>1. DOMAIN k = 1 .. 0 + 1 /\ k[0 + 1] = Heading /\ DOMAIN (<<>>) = 1 .. 0
  OBVIOUS
<1> HIDE DEF k
<1>2. Settled(k) = Consume(Settled(<<>>), 0 + 1, k[0 + 1])
  <2> DEFINE l == <<>>
  <2>1. DOMAIN l = 1 .. 0 /\ 0 \in Nat /\ \A n \in 1 .. 0 : k[n] = l[n]
    BY <1>1
  <2> HIDE DEF l
  <2>2. Settled(k) = Consume(Settled(l), 0 + 1, k[0 + 1])
    BY <1>1, <2>1, SettledOn
  <2> QED BY <2>2 DEF l
<1>3. Consume(Unread, 0 + 1, Heading) = Unread
  BY DEF Consume, Unread, Heading
<1>4. Shifted(Unread) = Unread
  BY DEF Shifted, Unread, Pushed
<1> QED BY <1>1, <1>2, <1>3, <1>4, SettledEmpty DEF Movable, k

LEMMA AppendMovable ==
  ASSUME NEW l \in Seq(Event), NEW e \in Event, NEW b \in Nat, SettlerOK(Settled(l), Len(l), b), Movable(l)
  PROVE  Movable(Append(l, e))
<1> DEFINE h == <<Heading>> \o l
           k == <<Heading>> \o Append(l, e)
           n == Len(l)
<1>1. n \in Nat /\ DOMAIN h = 1 .. n + 1 /\ DOMAIN k = 1 .. n + 1 + 1 /\ k[n + 1 + 1] = e
  OBVIOUS
<1>2. \A i \in 1 .. n + 1 : k[i] = h[i]
  OBVIOUS
<1>3. Settled(h) = Shifted(Settled(l))
  BY DEF Movable
<1>4. Settled(Append(l, e)) = Consume(Settled(l), n + 1, e)
  BY SettledAppend
<1> HIDE DEF h, k
<1>5. Settled(k) = Consume(Settled(h), n + 1 + 1, k[n + 1 + 1])
  BY <1>1, <1>2, SettledOn
<1>6. Consume(Shifted(Settled(l)), n + 1 + 1, e) = Shifted(Consume(Settled(l), n + 1, e))
  BY <1>1, ShiftedConsume
<1> QED BY <1>1, <1>3, <1>4, <1>5, <1>6 DEF Movable, k
-----------------------------------------------------------------------------
(* The session's log, as every step leaves it. *)

Starts(l) == {n \in DOMAIN l : l[n].kind = "start"}
Requests  == Settled(log).requests
Ongoing   == Settled(log).open

LogSound ==
  /\ log \in Seq(Event) /\ day \in Days /\ format \in {1, 2} /\ borrowed \in {0, 1} /\ live \in 0 .. Len(log)
  /\ Begun \in Nat /\ Begun <= MaxRequests /\ borrowed <= Begun
  /\ SettlerOK(Settled(log), Len(log), Begun)
  /\ \A q \in Requests : q.id <= borrowed => q.end <= live
  /\ Ongoing = Closed \/ Ongoing.id > borrowed
  /\ owed \subseteq (borrowed + 1) .. Begun
  /\ format = 1 => Movable(log)

LEMMA StartsFinite ==
  ASSUME NEW S, NEW l \in Seq(S)
  PROVE  IsFiniteSet(Starts(l)) /\ Cardinality(Starts(l)) \in Nat /\ Starts(l) \subseteq 1 .. Len(l)
<1>1. Len(l) \in Nat /\ DOMAIN l = 1 .. Len(l)
  OBVIOUS
<1>2. Starts(l) \in SUBSET (1 .. Len(l))
  BY <1>1 DEF Starts
<1> QED BY <1>1, <1>2, UpTo

LEMMA StartsAppend ==
  ASSUME NEW S, NEW l \in Seq(S), NEW e \in S
  PROVE  Cardinality(Starts(Append(l, e))) = Cardinality(Starts(l)) + IF e.kind = "start" THEN 1 ELSE 0
<1>1. Len(l) \in Nat /\ DOMAIN l = 1 .. Len(l) /\ DOMAIN Append(l, e) = 1 .. Len(l) + 1
      /\ (\A n \in 1 .. Len(l) : Append(l, e)[n] = l[n]) /\ Append(l, e)[Len(l) + 1] = e
  OBVIOUS
<1> DEFINE k == Append(l, e)
<1> HIDE DEF k
<1>2. Len(l) + 1 \notin Starts(l) /\ IsFiniteSet(Starts(l)) /\ Cardinality(Starts(l)) \in Nat
  <2>1. Len(l) + 1 \notin 1 .. Len(l)
    BY <1>1
  <2> QED BY <2>1, StartsFinite
<1>3. CASE e.kind = "start"
  <2>1. Starts(k) = Starts(l) \cup {Len(l) + 1}
    BY <1>1, <1>3 DEF Starts, k
  <2>2. Cardinality(Starts(k)) = Cardinality(Starts(l)) + 1
    BY <1>2, <2>1, FS_AddElement
  <2> QED BY <1>3, <2>2 DEF k
<1>4. CASE e.kind # "start"
  <2>1. Starts(k) = Starts(l)
    BY <1>1, <1>4 DEF Starts, k
  <2> QED BY <1>2, <1>4, <2>1 DEF k
<1> QED BY <1>3, <1>4

\* Renumbering keeps the number of requests begun.
LEMMA StartsMoved ==
  ASSUME NEW l \in Seq(Event)
  PROVE  Cardinality(Starts(<<Heading>> \o l)) = Cardinality(Starts(l))
<1> DEFINE k == <<Heading>> \o l
           f == [n \in Nat |-> n + 1]
           g == [n \in Nat |-> n - 1]
<1>1. Len(l) \in Nat /\ DOMAIN l = 1 .. Len(l) /\ DOMAIN k = 1 .. Len(l) + 1
      /\ (\A n \in 1 .. Len(l) : k[n + 1] = l[n]) /\ k[1] = Heading
  OBVIOUS
<1>2. Heading.kind # "start" /\ Heading.kind \in {"header"}
  BY DEF Heading
<1> HIDE DEF k
<1>3. \A n \in 1 .. Len(l) + 1 : n # 1 => n - 1 \in 1 .. Len(l) /\ n = (n - 1) + 1
  BY <1>1
<1>4. \A n \in Starts(k) : n - 1 \in Starts(l) /\ n \in Nat
  <2> SUFFICES ASSUME NEW n \in Starts(k) PROVE n - 1 \in Starts(l) /\ n \in Nat
    OBVIOUS
  <2>1. n \in 1 .. Len(l) + 1 /\ k[n].kind = "start"
    BY <1>1 DEF Starts
  <2>2. n # 1
    BY <1>1, <1>2, <2>1
  <2>3. n - 1 \in 1 .. Len(l) /\ k[(n - 1) + 1] = l[n - 1] /\ (n - 1) + 1 = n
    BY <1>1, <1>3, <2>1, <2>2
  <2>4. l[n - 1].kind = "start"
    BY <2>1, <2>3
  <2> QED BY <1>1, <2>1, <2>3, <2>4 DEF Starts
<1>5. \A n \in Starts(l) : n + 1 \in Starts(k) /\ n \in Nat
  <2> SUFFICES ASSUME NEW n \in Starts(l) PROVE n + 1 \in Starts(k) /\ n \in Nat
    OBVIOUS
  <2>1. n \in 1 .. Len(l) /\ l[n].kind = "start"
    BY <1>1 DEF Starts
  <2>2. n + 1 \in 1 .. Len(l) + 1 /\ k[n + 1] = l[n]
    BY <1>1, <2>1
  <2> QED BY <1>1, <2>1, <2>2 DEF Starts
<1>6. Starts(k) = {f[n] : n \in Starts(l)}
  <2>1. \A n \in Starts(l) : f[n] = n + 1
    BY <1>5
  <2>2. \A n \in Starts(k) : n = f[n - 1]
    <3> SUFFICES ASSUME NEW n \in Starts(k) PROVE n = f[n - 1]
      OBVIOUS
    <3>1. n - 1 \in Nat /\ n \in Nat
      BY <1>4, <1>5
    <3> QED BY <3>1
  <2> HIDE DEF f
  <2> QED BY <1>4, <1>5, <2>1, <2>2
<1>7. Starts(l) = {g[n] : n \in Starts(k)}
  <2>1. \A n \in Starts(k) : g[n] = n - 1
    BY <1>4
  <2>2. \A n \in Starts(l) : n = g[n + 1]
    <3> SUFFICES ASSUME NEW n \in Starts(l) PROVE n = g[n + 1]
      OBVIOUS
    <3>1. n \in Nat
      BY <1>5
    <3> QED BY <3>1
  <2> HIDE DEF g
  <2> QED BY <1>4, <1>5, <2>1, <2>2
<1>8. IsFiniteSet(Starts(l)) /\ Cardinality(Starts(l)) \in Nat
  BY StartsFinite
<1> HIDE DEF f, g
<1>9. IsFiniteSet(Starts(k)) /\ Cardinality(Starts(k)) <= Cardinality(Starts(l))
  BY <1>6, <1>8, FiniteImage
<1>10. Cardinality(Starts(l)) <= Cardinality(Starts(k)) /\ Cardinality(Starts(k)) \in Nat
  BY <1>7, <1>9, FiniteImage, FS_CardinalityType
<1> QED BY <1>8, <1>9, <1>10 DEF k

FirstEvent == [kind |-> "start", id |-> 1, day |-> 1]
LastEvent  == [kind |-> "final", id |-> 1, day |-> 1]

LEMMA ParentIs ==
  /\ Parent \in Seq(Event) /\ Len(Parent) = 2 /\ Cardinality(Starts(Parent)) = 1
  /\ SettlerOK(Settled(Parent), 2, 1) /\ Settled(Parent).open = Closed /\ Movable(Parent)
<1> DEFINE a == FirstEvent
           b == LastEvent
           l == Append(<<>>, a)
<1>1. a \in Event /\ b \in Event /\ a.kind = "start" /\ a.id = 0 + 1 /\ b.kind = "final"
  BY UsageConstants DEF Event, Days, FirstEvent, LastEvent
<1> HIDE DEF a, b
<1>2. Parent = Append(l, b) /\ l \in Seq(Event) /\ Len(l) = 1 /\ <<>> \in Seq(Event) /\ Len(<<>>) = 0
  BY <1>1 DEF Parent, a, b, FirstEvent, LastEvent
<1>3. Parent \in Seq(Event) /\ Len(Parent) = 2
  BY <1>1, <1>2
<1>4. Settled(l) = Consume(Unread, 0 + 1, a)
  BY <1>1, <1>2, SettledAppend, SettledEmpty
<1>5. SettlerOK(Settled(l), 1, 1) /\ Settled(l).open = [id |-> 1, at |-> 1, sample |-> NoSample]
  <2>1. 0 + 1 <= MaxRequests /\ 0 + 1 = 1
    BY UsageConstants
  <2> QED BY <1>1, <1>4, <2>1, UnreadOK, ConsumeStart
<1>6. Settled(Parent) = Consume(Settled(l), 1 + 1, b)
  BY <1>1, <1>2, SettledAppend
<1>7. SettlerOK(Settled(Parent), 2, 1)
  <2>1. 1 <= MaxRequests /\ 1 + 1 = 2 /\ b.kind # "start"
    BY <1>1, UsageConstants
  <2>2. SettlerOK(Consume(Settled(l), 1 + 1, b), 1 + 1, 1)
    BY <1>1, <1>5, <2>1, ConsumeOther
  <2> QED BY <1>6, <2>1, <2>2
<1>8. Settled(Parent).open = Closed
  <2>1. Settled(l).open # Closed
    <3>1. Settled(l).open.at # Closed.at
      BY <1>5 DEF Closed
    <3> QED BY <3>1
  <2>2. Closes(b) /\ b.kind # "start"
    BY <1>1 DEF Closes
  <2> QED BY <1>6, <2>1, <2>2 DEF Consume
<1>9. Movable(l)
  <2>1. SettlerOK(Settled(<<>>), Len(<<>>), 0)
    BY <1>2, UnreadOK, SettledEmpty
  <2>2. Movable(<<>>)
    BY EmptyMovable
  <2> QED BY <1>1, <1>2, <2>1, <2>2, AppendMovable
<1>10. Movable(Parent)
  <2>1. SettlerOK(Settled(l), Len(l), 1)
    BY <1>2, <1>5
  <2> QED BY <1>1, <1>2, <1>9, <2>1, AppendMovable
<1>11. Cardinality(Starts(Parent)) = 1
  <2> DEFINE e == <<>>
  <2>1. Cardinality(Starts(e)) = 0
    <3>1. Starts(e) = {}
      BY DEF Starts
    <3> QED BY <3>1, FS_EmptySet
  <2>2. e \in Seq(Event) /\ l = Append(e, a)
    OBVIOUS
  <2> HIDE DEF e, l
  <2>3. Cardinality(Starts(l)) = 0 + 1
    BY <1>1, <2>1, <2>2, StartsAppend
  <2>4. Cardinality(Starts(Parent)) = 0 + 1 + 0
    BY <1>1, <1>2, <2>3, StartsAppend
  <2> QED BY <2>4
<1> QED BY <1>3, <1>7, <1>8, <1>10, <1>11

LEMMA LogInit == Init => LogSound
<1> SUFFICES ASSUME Init PROVE LogSound
  OBVIOUS
<1>1. PICK l \in {<<>>, Parent} : /\ day = 1 /\ log = l /\ format = 1 /\ owed = {}
                                  /\ borrowed = Len(l) \div 2 /\ live = Len(l)
  BY DEF Init
<1>2. Begun = Cardinality(Starts(log))
  BY DEF Begun, Starts
<1>3. day \in Days
  BY <1>1, UsageConstants DEF Days
<1>4. CASE l = <<>>
  <2>1. log = <<>> /\ log \in Seq(Event) /\ Len(log) = 0
    BY <1>1, <1>4
  <2>2. borrowed = 0 /\ live = 0
    BY <1>1, <2>1
  <2>3. Begun = 0
    <3>1. Starts(log) = {}
      BY <2>1 DEF Starts
    <3> QED BY <1>2, <3>1, FS_EmptySet
  <2>4. Settled(log) = Unread /\ Movable(log)
    BY <2>1, SettledEmpty, EmptyMovable
  <2>5. Requests = {} /\ Ongoing = Closed
    BY <2>4 DEF Requests, Ongoing, Unread
  <2> QED BY <1>1, <1>3, <2>1, <2>2, <2>3, <2>4, <2>5, UnreadOK, UsageConstants DEF LogSound
<1>5. CASE l = Parent
  <2>1. log = Parent /\ log \in Seq(Event) /\ Len(log) = 2 /\ live = 2
    BY <1>1, <1>5, ParentIs
  <2>2. borrowed = 1
    BY <1>1, <2>1
  <2>3. Begun = 1
    BY <1>2, <2>1, ParentIs
  <2>4. SettlerOK(Settled(log), Len(log), Begun) /\ Ongoing = Closed /\ Movable(log)
    BY <2>1, <2>3, ParentIs DEF Ongoing
  <2>5. \A q \in Requests : q.end <= live
    BY <2>1, <2>4 DEF SettlerOK, Record, Requests
  <2> QED BY <1>1, <1>3, <2>1, <2>2, <2>3, <2>4, <2>5, UsageConstants DEF LogSound
<1> QED BY <1>4, <1>5

\* An event at the end of the log: what was closed stays, and at most the open request is added.
Grows ==
  /\ Len(log') = Len(log) + 1 /\ Requests \subseteq Requests'
  /\ \A q \in Requests' \ Requests :
       /\ q.end = Len(log) + 1 /\ q.id > borrowed
       /\ \A p \in Requests : p.id # q.id

LEMMA BeginSound ==
  ASSUME LogSound, BeginRequest
  PROVE  LogSound' /\ Grows
<1> DEFINE e == [kind |-> "start", id |-> Begun + 1, day |-> day]
<1>1. /\ log \in Seq(Event) /\ day \in Days /\ borrowed \in {0, 1} /\ live \in 0 .. Len(log)
      /\ Begun \in Nat /\ borrowed <= Begun /\ Begun + 1 <= MaxRequests
      /\ SettlerOK(Settled(log), Len(log), Begun) /\ owed \subseteq (borrowed + 1) .. Begun
  BY UsageConstants DEF LogSound, BeginRequest
<1>2. log' = Append(log, e) /\ UNCHANGED <<day, format, borrowed, live>> /\ owed' \in {owed, owed \cup {Begun + 1}}
  BY DEF BeginRequest, Happens
<1>3. e \in Event /\ e.kind = "start" /\ e.id = Begun + 1
  BY <1>1, UsageConstants DEF Event
<1> HIDE DEF e
<1>4. log' \in Seq(Event) /\ Len(log') = Len(log) + 1 /\ Len(log) \in Nat
  BY <1>1, <1>2, <1>3
<1>5. Settled(log') = Consume(Settled(log), Len(log) + 1, e)
  BY <1>1, <1>2, <1>3, SettledAppend
<1>6. /\ SettlerOK(Settled(log'), Len(log) + 1, Begun + 1)
      /\ Settled(log').requests = Settled(log).requests
      /\ Settled(log').open = [id |-> Begun + 1, at |-> Len(log) + 1, sample |-> NoSample]
  BY <1>1, <1>3, <1>4, <1>5, ConsumeStart
<1>7. Begun' = Begun + 1
  <2>1. Begun = Cardinality(Starts(log)) /\ Begun' = Cardinality(Starts(log'))
    BY DEF Begun, Starts
  <2> QED BY <1>1, <1>2, <1>3, <2>1, StartsAppend
<1>8. Requests' = Requests /\ Ongoing' = Settled(log').open
  BY <1>6 DEF Requests, Ongoing
<1>9. Ongoing'.id > borrowed
  BY <1>1, <1>6, <1>8
<1>10. owed' \subseteq (borrowed + 1) .. Begun + 1
  BY <1>1, <1>2
<1>11. format = 1 => Movable(log')
  BY <1>1, <1>2, <1>3, AppendMovable DEF LogSound
<1>12. live \in 0 .. Len(log')
  BY <1>1, <1>4
<1>13. borrowed <= Begun'
  BY <1>1, <1>7
<1>14. \A q \in Requests' : q.id <= borrowed => q.end <= live
  BY <1>8 DEF LogSound
<1>15. SettlerOK(Settled(log'), Len(log'), Begun')
  BY <1>4, <1>6, <1>7
<1>16. Grows
  BY <1>4, <1>8 DEF Grows
<1>17. format \in {1, 2}
  BY DEF LogSound
<1>18. LogSound'
  BY <1>1, <1>2, <1>4, <1>7, <1>9, <1>10, <1>11, <1>12, <1>13, <1>14, <1>15, <1>17 DEF LogSound
<1> QED BY <1>16, <1>18

LEMMA GoOnSound ==
  ASSUME LogSound, NEW kind \in {"sample", "final", "unreadable", "end"}, GoOn(kind)
  PROVE  LogSound' /\ Grows
<1> DEFINE e == [kind |-> kind, id |-> Ongoing.id, day |-> day]
<1>1. /\ log \in Seq(Event) /\ day \in Days /\ borrowed \in {0, 1} /\ live \in 0 .. Len(log)
      /\ Begun \in Nat /\ borrowed <= Begun /\ Begun <= MaxRequests
      /\ SettlerOK(Settled(log), Len(log), Begun) /\ owed \subseteq (borrowed + 1) .. Begun
      /\ Ongoing # Closed /\ Ongoing.id > borrowed /\ format \in {1, 2}
  BY DEF LogSound, GoOn, Ongoing
<1>2. log' = Append(log, e) /\ UNCHANGED <<day, format, borrowed, live, owed>>
  BY DEF GoOn, Happens, Ongoing
<1>3. Ongoing.id \in 1 .. Begun /\ \A q \in Requests : q.id # Ongoing.id
  BY <1>1 DEF SettlerOK, Ongoing, Requests
<1>4. e \in Event /\ e.kind # "start"
  <2>1. Ongoing.id \in 0 .. MaxRequests
    BY <1>1, <1>3, UsageConstants
  <2> QED BY <1>1, <2>1 DEF Event
<1> HIDE DEF e
<1>5. log' \in Seq(Event) /\ Len(log') = Len(log) + 1 /\ Len(log) \in Nat
  BY <1>1, <1>2, <1>4
<1>6. Settled(log') = Consume(Settled(log), Len(log) + 1, e)
  BY <1>1, <1>2, <1>4, SettledAppend
<1>7. SettlerOK(Settled(log'), Len(log) + 1, Begun) /\ Longer(Settled(log), Settled(log'), Len(log))
  BY <1>1, <1>4, <1>5, <1>6, ConsumeOther
<1>8. Begun' = Begun
  <2>1. Begun = Cardinality(Starts(log)) /\ Begun' = Cardinality(Starts(log'))
    BY DEF Begun, Starts
  <2> QED BY <1>1, <1>2, <1>4, <2>1, StartsAppend
<1>9. /\ Requests \subseteq Requests'
      /\ \A q \in Requests' \ Requests : q.end = Len(log) + 1 /\ q.id = Ongoing.id
      /\ Ongoing' = Closed \/ Ongoing'.id = Ongoing.id
  BY <1>7 DEF Longer, Requests, Ongoing
<1>10. Ongoing' = Closed \/ Ongoing'.id > borrowed
  BY <1>1, <1>9
<1>11. format = 1 => Movable(log')
  BY <1>1, <1>2, <1>4, AppendMovable DEF LogSound
<1>12. live \in 0 .. Len(log')
  BY <1>1, <1>5
<1>13. \A q \in Requests' : q.id <= borrowed => q.end <= live
  <2>1. Ongoing.id \in Int /\ borrowed \in Int /\ ~ (Ongoing.id <= borrowed)
    BY <1>1, <1>3
  <2>2. \A q \in Requests' : q.id <= borrowed => q \in Requests
    BY <1>9, <2>1
  <2> QED BY <2>2 DEF LogSound
<1>14. SettlerOK(Settled(log'), Len(log'), Begun')
  BY <1>5, <1>7, <1>8
<1>15. Grows
  <2>1. \A q \in Requests' \ Requests : q.end = Len(log) + 1 /\ q.id > borrowed /\ \A p \in Requests : p.id # q.id
    BY <1>1, <1>3, <1>9
  <2> QED BY <1>5, <1>9, <2>1 DEF Grows
<1>16. LogSound'
  BY <1>1, <1>2, <1>5, <1>8, <1>10, <1>11, <1>12, <1>13, <1>14 DEF LogSound
<1> QED BY <1>15, <1>16

\* The log of a process that ends: kept, or renumbered.
Kept ==
  \/ log' = log /\ format' = format /\ Requests' = Requests
  \/ /\ format = 1 /\ format' = 2 /\ Len(log') = Len(log) + 1
     /\ Requests' = {Moved(q) : q \in Requests}

LEMMA RestartSound ==
  ASSUME LogSound, NEW i, NEW j, NEW renumber \in BOOLEAN, Restart(i, j, renumber)
  PROVE  LogSound' /\ Kept /\ live' = Len(log')
<1>1. /\ log \in Seq(Event) /\ day \in Days /\ format \in {1, 2} /\ borrowed \in {0, 1} /\ live \in 0 .. Len(log)
      /\ Begun \in Nat /\ borrowed <= Begun /\ Begun <= MaxRequests
      /\ SettlerOK(Settled(log), Len(log), Begun) /\ Len(log) \in Nat
      /\ Ongoing = Closed \/ Ongoing.id > borrowed
  BY DEF LogSound
<1>2. live' = Len(log') /\ UNCHANGED <<day, borrowed>> /\ owed' = {}
  BY DEF Restart
<1>3. \A q \in Requests : q.end \in 1 .. Len(log) /\ q \in Record(Len(log))
  BY <1>1 DEF SettlerOK, Record, Requests
<1>4. CASE ~ renumber
  <2>1. log' = log /\ format' = format
    BY <1>4 DEF Restart
  <2>2. Begun' = Begun /\ Requests' = Requests /\ Ongoing' = Ongoing
    BY <2>1 DEF Begun, Requests, Ongoing
  <2>3. \A q \in Requests' : q.id <= borrowed => q.end <= Len(log)
    BY <1>1, <1>3, <2>2
  <2>4. Settled(log') = Settled(log)
    BY <2>1
  <2>5. Kept
    BY <2>1, <2>2 DEF Kept
  <2>6. live' \in 0 .. Len(log')
    BY <1>1, <1>2, <2>1
  <2>7. LogSound'
    <3>1. format' = 1 => Movable(log')
      BY <2>1 DEF LogSound
    <3> QED BY <1>1, <1>2, <2>1, <2>2, <2>3, <2>4, <2>6, <3>1 DEF LogSound
  <2> QED BY <1>2, <2>5, <2>7
<1>5. CASE renumber
  <2>1. log' = <<Heading>> \o log /\ format = 1 /\ format' = 2
    BY <1>5, RenumberedIs DEF Restart
  <2>2. Heading \in Event
    BY UsageConstants DEF Heading, Event, Days
  <2>3. log' \in Seq(Event) /\ Len(log') = Len(log) + 1
    BY <1>1, <2>1, <2>2
  <2>4. Settled(log') = Shifted(Settled(log))
    BY <2>1 DEF LogSound, Movable
  <2>5. Begun' = Begun
    <3>1. Begun = Cardinality(Starts(log)) /\ Begun' = Cardinality(Starts(log'))
      BY DEF Begun, Starts
    <3> QED BY <1>1, <2>1, <3>1, StartsMoved
  <2>6. SettlerOK(Settled(log'), Len(log'), Begun')
    BY <1>1, <2>3, <2>4, <2>5, ShiftedOK
  <2>7. Requests' = {Moved(q) : q \in Requests} /\ Ongoing' = Pushed(Ongoing)
    BY <2>4, ShiftedIs DEF Requests, Ongoing
  <2>8. \A q \in Requests' : q.end <= Len(log')
    BY <2>3, <2>6 DEF SettlerOK, Record, Requests
  <2>9. Ongoing' = Closed \/ Ongoing'.id > borrowed
    <3>1. Ongoing \in Attempt
      BY <1>1 DEF SettlerOK, Ongoing
    <3> QED BY <1>1, <2>7, <3>1, PushedIs
  <2>10. Kept
    BY <2>1, <2>3, <2>7 DEF Kept
  <2>11. LogSound'
    <3>1. live' \in 0 .. Len(log')
      BY <1>1, <1>2, <2>3
    <3> QED BY <1>1, <1>2, <2>1, <2>3, <2>5, <2>6, <2>8, <2>9, <3>1 DEF LogSound
  <2> QED BY <1>2, <2>10, <2>11
<1> QED BY <1>4, <1>5

\* The steps that leave the session as it is.
LEMMA SameSound ==
  ASSUME LogSound, UNCHANGED <<log, format, borrowed, live, owed>>, day' \in Days
  PROVE  LogSound' /\ Requests' = Requests
<1>1. Begun' = Begun /\ Requests' = Requests /\ Ongoing' = Ongoing /\ Settled(log') = Settled(log)
  BY DEF Begun, Requests, Ongoing
<1> QED BY <1>1 DEF LogSound
-----------------------------------------------------------------------------
(* Watermarks, for a view of the session. *)

Mark     == [kind : {"none", "legacy", "offsets"}, base : Nat, settled : Nat, format : Nat]
Dailies  == [Days -> [Request -> Nat]]
Closings == [id : Request, start : Nat, end : Nat, day : Days, tokens : {1, 2}]
Views    == [requests : SUBSET Closings, format : {1, 2}, live : Nat, length : Nat, borrowed : Nat]
Image    == [mark : Mark, daily : Dailies, pref : {"online", "local"}]
Memory   == [alive : BOOLEAN, sink : BOOLEAN, mark : Mark, daily : Dailies]
Shelves  == [online : Memory, local : Memory, core : Seq(Image), play : Seq(Dailies)]
Batches  == [through : Nat, requests : SUBSET Closings, catchup : BOOLEAN, live : Nat, format : {1, 2}]

View == [requests |-> Requests, format |-> format, live |-> live, length |-> Len(log), borrowed |-> borrowed]

GoodView(s) ==
  /\ s \in Views /\ s.live <= s.length
  /\ \A q \in s.requests : q.end <= s.length /\ q.start < q.end
  /\ \A p, q \in s.requests : p.id = q.id => p = q

Current(s, m)  == m.kind = "offsets" /\ m.format = s.format
Bars(s, m, q)  == m.kind # "none" /\ (Current(s, m) => q.end <= m.settled \/ q.start <= m.base)
Sure(s, m, q)  == Current(s, m) /\ q.end <= m.settled

\* Where the watermarks and the records of an authority are kept.
Marked(b)     == {b.online.mark, b.local.mark} \cup {x.mark : x \in Range(b.core)}
Records(b, a) == IF a = "online" THEN {b.online.daily} \cup {x.daily : x \in Range(b.core)}
                 ELSE {b.local.daily} \cup Range(b.play)
Sides         == {"online", "local"}

MarkOK(s, m) ==
  /\ m \in Mark
  /\ m.kind = "offsets" => m.format \in 1 .. s.format
  /\ m.kind # "offsets" => m.format = 0

LEMMA ViewGood == ASSUME LogSound PROVE GoodView(View)
<1>1. /\ format \in {1, 2} /\ live \in 0 .. Len(log) /\ Len(log) \in Nat /\ borrowed \in {0, 1}
      /\ SettlerOK(Settled(log), Len(log), Begun)
  BY DEF LogSound
<1>2. Requests \in SUBSET Record(Len(log)) /\ (\A q \in Requests : q.start < q.end)
      /\ \A p, q \in Requests : p.id = q.id => p = q
  BY <1>1 DEF SettlerOK, Requests
<1>3. Requests \in SUBSET Closings
  BY <1>1, <1>2 DEF Record, Closings
<1>4. \A q \in Requests : q.end <= Len(log)
  BY <1>1, <1>2 DEF Record
<1>5. View \in Views
  BY <1>1, <1>3 DEF View, Views
<1> QED BY <1>1, <1>2, <1>4, <1>5 DEF View, GoodView

LEMMA ViewIs ==
  /\ View.requests = Requests /\ View.format = format /\ View.live = live
  /\ View.length = Len(log) /\ View.borrowed = borrowed
BY DEF View

\* Two watermarks of one session merge into one that bars what both bar, and is as sure as either.
Merges(s, c, m, n) ==
  /\ MarkOK(s, c)
  /\ c.kind = "none" <=> m.kind = "none" /\ n.kind = "none"
  /\ \A q \in s.requests :
       /\ Sure(s, m, q) \/ Sure(s, n, q) => Sure(s, c, q)
       /\ (m.kind = "none" \/ Bars(s, m, q)) /\ (n.kind = "none" \/ Bars(s, n, q))
            => c.kind = "none" \/ Bars(s, c, q)

LEMMA OfTwo ==
  ASSUME NEW a \in Nat, NEW b \in Nat, NEW S, S = {a} \/ S = {b} \/ S = {a, b}
  PROVE  /\ Min(S) \in S /\ \A x \in S : Min(S) <= x
         /\ Max(S) \in S /\ \A x \in S : x <= Max(S)
<1>1. \E x \in S : \A y \in S : x <= y
  OBVIOUS
<1>2. \E x \in S : \A y \in S : x >= y
  OBVIOUS
<1>3. Min(S) \in S /\ \A x \in S : Min(S) <= x
  BY <1>1 DEF Min
<1>4. Max(S) \in S /\ \A x \in S : Max(S) >= x
  BY <1>2 DEF Max
<1>5. S \subseteq Nat
  OBVIOUS
<1> QED BY <1>3, <1>4, <1>5

LEMMA MergeMarks ==
  ASSUME NEW s, GoodView(s), NEW m, MarkOK(s, m), NEW n, MarkOK(s, n)
  PROVE  Merges(s, MergeMark(m, n), m, n)
<1> DEFINE c == MergeMark(m, n)
           newest == Larger(m.format, n.format)
           known == {k \in {m, n} : k.kind = "offsets" /\ k.format = newest}
<1>1. m \in Mark /\ n \in Mark /\ s.format \in {1, 2}
  BY DEF MarkOK, GoodView, Views
<1>2. CASE m.kind = "none"
  <2>1. c = n
    BY <1>2 DEF MergeMark
  <2>2. \A q : ~ Sure(s, m, q)
    BY <1>2 DEF Sure, Current
  <2> QED BY <1>2, <2>1, <2>2 DEF Merges
<1>3. CASE m.kind # "none" /\ n.kind = "none"
  <2>1. c = m
    BY <1>3 DEF MergeMark
  <2>2. \A q : ~ Sure(s, n, q)
    BY <1>3 DEF Sure, Current
  <2> QED BY <1>3, <2>1, <2>2 DEF Merges
<1>4. CASE m.kind # "none" /\ n.kind # "none" /\ known = {}
  <2>1. c = Legacy
    BY <1>4 DEF MergeMark
  <2>2. m.kind # "offsets" /\ n.kind # "offsets"
    <3>1. m.format \in Nat /\ n.format \in Nat
      BY <1>1 DEF Mark
    <3>2. m.kind = "offsets" => m.format \in 1 .. s.format
      BY DEF MarkOK
    <3>3. n.kind = "offsets" => n.format \in 1 .. s.format
      BY DEF MarkOK
    <3>4. m.kind # "offsets" => m.format = 0
      BY DEF MarkOK
    <3>5. n.kind # "offsets" => n.format = 0
      BY DEF MarkOK
    <3> QED BY <1>1, <1>4, <3>1, <3>2, <3>3, <3>4, <3>5 DEF Larger
  <2>3. \A q : ~ Sure(s, m, q) /\ ~ Sure(s, n, q)
    BY <2>2 DEF Sure, Current
  <2>4. Legacy.kind = "legacy" /\ Legacy.format = 0 /\ Legacy \in Mark
    BY DEF Legacy, Mark
  <2>5. MarkOK(s, c)
    BY <2>1, <2>4 DEF MarkOK
  <2>6. \A q : Bars(s, c, q)
    BY <2>1, <2>4 DEF Bars, Current
  <2> QED BY <1>4, <2>1, <2>3, <2>4, <2>5, <2>6 DEF Merges
<1>5. CASE m.kind # "none" /\ n.kind # "none" /\ known # {}
  <2> DEFINE bases == {k.base : k \in known}
             settles == {k.settled : k \in known}
  <2>1. c = [kind |-> "offsets", format |-> newest, base |-> Min(bases), settled |-> Max(settles)]
    BY <1>5 DEF MergeMark
  <2>2. known = {m} \/ known = {n} \/ known = {m, n}
    BY <1>5
  <2>3. m.base \in Nat /\ n.base \in Nat /\ m.settled \in Nat /\ n.settled \in Nat /\ m.format \in Nat /\ n.format \in Nat
    BY <1>1 DEF Mark
  <2>4. /\ bases = {m.base} \/ bases = {n.base} \/ bases = {m.base, n.base}
        /\ settles = {m.settled} \/ settles = {n.settled} \/ settles = {m.settled, n.settled}
    <3> HIDE DEF known
    <3> QED BY <2>2
  <2> HIDE DEF bases, settles
  <2>5. Min(bases) \in bases /\ \A x \in bases : Min(bases) <= x
    <3>1. m.base \in Nat /\ n.base \in Nat
      BY <2>3
    <3> QED BY <2>4, <3>1, OfTwo
  <2>6. Max(settles) \in settles /\ \A x \in settles : x <= Max(settles)
    <3>1. m.settled \in Nat /\ n.settled \in Nat
      BY <2>3
    <3> QED BY <2>4, <3>1, OfTwo
  <2>7. Min(bases) \in Nat /\ Max(settles) \in Nat
    BY <2>3, <2>4, <2>5, <2>6
  <2>8. newest \in 1 .. s.format
    <3>1. PICK k \in known : TRUE
      BY <1>5
    <3>2. k.kind = "offsets" /\ k.format = newest /\ k \in {m, n}
      BY <3>1
    <3>3. MarkOK(s, k)
      BY <3>2
    <3> QED BY <3>2, <3>3 DEF MarkOK
  <2> DEFINE lo == Min(bases)
             hi == Max(settles)
  <2>9. c.kind = "offsets" /\ c.format = newest /\ c.base = lo /\ c.settled = hi
    BY <2>1
  <2>10. MarkOK(s, c)
    <3>1. newest \in Nat
      BY <2>8
    <3>2. c \in Mark
      BY <2>1, <2>7, <3>1 DEF Mark
    <3> QED BY <2>8, <2>9, <3>2 DEF MarkOK
  <2>11. \A k \in known : lo <= k.base /\ k.settled <= hi /\ k.base \in Nat /\ k.settled \in Nat
    BY <2>3, <2>5, <2>6 DEF bases, settles
  <2>12. PICK k \in known : k.base = lo
    BY <2>5 DEF bases
  <2> HIDE DEF lo, hi, c
  <2>13. ASSUME NEW k1 \in {m, n}, Current(s, k1) PROVE newest = s.format /\ k1 \in known
    <3>1. m.format \in 0 .. s.format /\ n.format \in 0 .. s.format /\ k1.format = s.format /\ k1.kind = "offsets"
      <4>1. m.kind = "offsets" => m.format \in 1 .. s.format
        BY DEF MarkOK
      <4>2. n.kind = "offsets" => n.format \in 1 .. s.format
        BY DEF MarkOK
      <4>3. m.kind # "offsets" => m.format = 0
        BY DEF MarkOK
      <4>4. n.kind # "offsets" => n.format = 0
        BY DEF MarkOK
      <4> QED BY <1>1, <2>13, <4>1, <4>2, <4>3, <4>4 DEF Current
    <3>2. newest = s.format
      BY <1>1, <2>13, <3>1 DEF Larger
    <3> QED BY <3>1, <3>2
  <2>14. ASSUME NEW q \in s.requests, Sure(s, m, q) \/ Sure(s, n, q) PROVE Sure(s, c, q)
    <3>1. PICK k1 \in {m, n} : Current(s, k1) /\ q.end <= k1.settled
      BY <2>14 DEF Sure
    <3>2. newest = s.format /\ k1 \in known
      BY <2>13, <3>1
    <3>3. q.end \in Nat
      BY DEF GoodView, Views, Closings
    <3>4. q.end <= hi /\ Current(s, c)
      <4> HIDE DEF known, newest
      <4>1. k1.settled <= hi /\ k1.settled \in Nat /\ hi \in Nat
        BY <2>7, <2>11, <3>2 DEF hi
      <4> QED BY <2>9, <3>1, <3>2, <3>3, <4>1 DEF Current
    <3> QED BY <2>9, <3>4 DEF Sure
  <2>15. ASSUME NEW q \in s.requests, Bars(s, m, q), Bars(s, n, q) PROVE Bars(s, c, q)
    <3>1. c.kind # "none"
      BY <2>9
    <3>2. SUFFICES ASSUME Current(s, c) PROVE q.end <= hi \/ q.start <= lo
      BY <2>9, <3>1 DEF Bars
    <3>3. newest = s.format
      BY <2>9, <3>2 DEF Current
    <3>4. k.kind = "offsets" /\ k.format = s.format /\ k \in {m, n}
      BY <3>3
    <3>5. q.end <= k.settled \/ q.start <= k.base
      BY <2>15, <3>4 DEF Bars, Current
    <3>6. q.end \in Nat /\ hi \in Nat /\ k.settled \in Nat /\ k.settled <= hi
      <4>1. q.end \in Nat
        BY DEF GoodView, Views, Closings
      <4> HIDE DEF known
      <4> QED BY <2>7, <2>11, <4>1 DEF hi
    <3> QED BY <2>12, <3>5, <3>6
  <2>16. c.kind # "none"
    BY <2>9
  <2> QED BY <1>5, <2>10, <2>14, <2>15, <2>16 DEF Merges, c
<1> QED BY <1>2, <1>3, <1>4, <1>5
-----------------------------------------------------------------------------
(* What a batch credits, and the watermark it leaves. *)

\* The tokens of one request in a set that has it once.
LEMMA TokensOne ==
  ASSUME NEW R, \A q \in R : q.tokens \in {1, 2}, \A p, q \in R : p.id = q.id => p = q, NEW r
  PROVE  /\ \A q \in R : q.id = r => TokensOf(R, r) = q.tokens
         /\ (\A q \in R : q.id # r) => TokensOf(R, r) = 0
         /\ TokensOf(R, r) \in Nat
<1> DEFINE f == [q \in R |-> q.tokens]
           S == {q \in R : q.id = r}
<1>1. TokensOf(R, r) = SumFunctionOnSet(f, S)
  BY DEF TokensOf
<1>2. CASE S = {}
  <2>1. TokensOf(R, r) = 0
    BY <1>1, <1>2, SumEmpty
  <2> QED BY <1>2, <2>1
<1>3. CASE S # {}
  <2>1. PICK q \in R : q.id = r
    BY <1>3
  <2>2. S = {} \cup {q}
    BY <2>1
  <2>3. f[q] = q.tokens /\ q.tokens \in Nat
    BY <2>1
  <2> HIDE DEF f, S
  <2>4. SumFunctionOnSet(f, {} \cup {q}) = SumFunctionOnSet(f, {}) + f[q]
    <3>1. IsFiniteSet({}) /\ q \notin {} /\ \A y \in {} \cup {q} : f[y] \in Int
      BY <2>3, FS_EmptySet
    <3> QED BY <3>1, SumAdd
  <2>5. SumFunctionOnSet(f, {}) = 0
    BY SumEmpty
  <2>6. TokensOf(R, r) = q.tokens
    BY <1>1, <2>2, <2>3, <2>4, <2>5
  <2> QED BY <2>1, <2>3, <2>6
<1> QED BY <1>2, <1>3

BatchOK(s, batch) ==
  /\ batch \in Batches /\ batch.live = s.live /\ batch.format = s.format
  /\ s.live <= batch.through /\ batch.through <= s.length
  /\ batch.requests \subseteq s.requests /\ \A q \in batch.requests : q.end <= batch.through

\* What was closed when the session was loaded, and is barred, is not due again.
LEMMA NotDue ==
  ASSUME NEW s, GoodView(s), NEW m, MarkOK(s, m), NEW batch, BatchOK(s, batch), NEW today,
         NEW q \in batch.requests, q.end <= s.live, m.kind = "none" \/ Bars(s, m, q)
  PROVE  q \notin Due(Fence(m, batch), batch, today)
<1> DEFINE f == Fence(m, batch)
<1>1. /\ q \in Closings /\ q.start < q.end /\ q.start \in Nat /\ q.end \in Nat /\ s.live \in Nat
      /\ batch.through \in Nat /\ batch.live = s.live /\ batch.format = s.format /\ s.live <= batch.through
      /\ q.end <= batch.through
  BY DEF GoodView, Views, Closings, BatchOK, Batches
<1>2. m \in Mark /\ m.base \in Nat /\ m.settled \in Nat
  BY DEF MarkOK, Mark
<1>3. CASE m.kind = "none"
  <2>1. f.base \in {batch.through, s.live} /\ f.settled = f.base
    BY <1>1, <1>3 DEF Fence
  <2>2. q.end <= f.settled
    BY <1>1, <2>1
  <2>3. ~ (q.end > f.settled)
    BY <1>1, <2>1, <2>2
  <2> HIDE DEF f
  <2> QED BY <2>3 DEF Due, f
<1>4. CASE Current(s, m)
  <2>1. f.base = m.base /\ f.settled = m.settled
    BY <1>1, <1>4 DEF Fence, Current
  <2>2. q.end <= m.settled \/ q.start <= m.base
    BY <1>4 DEF Bars, Current
  <2>3. ~ (q.end > f.settled) \/ ~ (q.start > f.base)
    BY <1>1, <1>2, <2>1, <2>2
  <2> HIDE DEF f
  <2> QED BY <2>3 DEF Due, f
<1>5. CASE m.kind # "none" /\ ~ Current(s, m)
  <2>1. m.format # batch.format
    <3>1. m.kind # "offsets" => m.format = 0
      BY DEF MarkOK
    <3>2. s.format # 0
      BY DEF GoodView, Views
    <3> QED BY <1>1, <1>5, <3>1, <3>2 DEF Current
  <2>2. f.base = batch.through /\ f.settled = batch.through
    BY <1>5, <2>1 DEF Fence
  <2>3. ~ (q.end > f.settled)
    BY <1>1, <2>2
  <2> HIDE DEF f
  <2> QED BY <2>3 DEF Due, f
<1> QED BY <1>3, <1>4, <1>5

\* The watermark a batch leaves: it bars all the batch brought and all that was closed at the load.
LEMMA CreditMark ==
  ASSUME NEW s, GoodView(s), NEW m, MarkOK(s, m), NEW batch, BatchOK(s, batch), NEW today, NEW record
  PROVE  LET c == Credit(m, record, batch, today).mark
         IN  /\ MarkOK(s, c) /\ Current(s, c)
             /\ c.base = Fence(m, batch).base /\ c.settled = Larger(Fence(m, batch).settled, batch.through)
             /\ \A q \in s.requests :
                  /\ Sure(s, m, q) => Sure(s, c, q)
                  /\ q \in batch.requests => Sure(s, c, q)
                  /\ q.end <= s.live => Bars(s, c, q)
<1> DEFINE c == Credit(m, record, batch, today).mark
           f == Fence(m, batch)
<1>1. /\ s.live \in Nat /\ s.format \in {1, 2} /\ batch.through \in Nat /\ batch.live = s.live
      /\ batch.format = s.format /\ s.live <= batch.through
  BY DEF GoodView, Views, BatchOK, Batches
<1>2. m \in Mark /\ m.base \in Nat /\ m.settled \in Nat
  BY DEF MarkOK, Mark
<1>3. f.base \in Nat /\ f.settled \in Nat
  BY <1>1, <1>2 DEF Fence
<1>4. Current(s, m) => f.settled = m.settled
  BY <1>1 DEF Fence, Current
<1> HIDE DEF f
<1> DEFINE hi == Larger(f.settled, batch.through)
<1>5. hi \in Nat /\ f.settled <= hi /\ batch.through <= hi
  BY <1>1, <1>3 DEF Larger
<1> HIDE DEF hi
<1>6. c = [kind |-> "offsets", base |-> f.base, format |-> s.format, settled |-> hi]
  BY <1>1 DEF Credit, f, hi
<1> HIDE DEF c
<1>7. c.kind = "offsets" /\ c.base = f.base /\ c.format = s.format /\ c.settled = hi
  BY <1>6
<1>8. MarkOK(s, c)
  <2>1. s.format \in Nat /\ s.format \in 1 .. s.format
    BY <1>1
  <2>2. c \in Mark
    BY <1>3, <1>5, <1>6, <2>1 DEF Mark
  <2> QED BY <1>7, <2>1, <2>2 DEF MarkOK
<1>9. Current(s, c)
  BY <1>7 DEF Current
<1>10. ASSUME NEW q \in s.requests
       PROVE  /\ Sure(s, m, q) => Sure(s, c, q)
              /\ q \in batch.requests => Sure(s, c, q)
              /\ q.end <= s.live => Bars(s, c, q)
  <2>1. q.end \in Nat
    BY DEF GoodView, Views, Closings
  <2>2. Sure(s, m, q) => q.end <= f.settled
    BY <1>4 DEF Sure
  <2>3. q \in batch.requests => q.end <= batch.through
    BY DEF BatchOK
  <2>4. Sure(s, m, q) \/ q \in batch.requests \/ q.end <= s.live => q.end <= c.settled
    BY <1>1, <1>3, <1>5, <1>7, <2>1, <2>2, <2>3
  <2> QED BY <1>7, <1>9, <2>4 DEF Sure, Bars
<1> QED BY <1>7, <1>8, <1>9, <1>10 DEF c, f, hi

\* The record: each request that is due adds its tokens.
LEMMA CreditRecord ==
  ASSUME NEW s, GoodView(s), NEW m, NEW batch, BatchOK(s, batch), NEW today, NEW record \in [Request -> Nat]
  PROVE  LET c == Credit(m, record, batch, today).record
             due == Due(Fence(m, batch), batch, today)
         IN  /\ c \in [Request -> Nat] /\ due \subseteq batch.requests
             /\ \A q \in due : c[q.id] = record[q.id] + q.tokens
             /\ \A r \in Request : (\A q \in due : q.id # r) => c[r] = record[r]
<1> DEFINE c == Credit(m, record, batch, today).record
           due == Due(Fence(m, batch), batch, today)
<1>1. c = [r \in Request |-> record[r] + TokensOf(due, r)]
  BY DEF Credit
<1>2. due \subseteq batch.requests
  BY DEF Due
<1>3. due \subseteq s.requests
  BY <1>2 DEF BatchOK
<1>4. \A q \in due : q.tokens \in {1, 2} /\ q.id \in Request
  BY <1>3 DEF GoodView, Views, Closings
<1>5. \A p, q \in due : p.id = q.id => p = q
  BY <1>3 DEF GoodView
<1> HIDE DEF c, due
<1>6. \A r \in Request : TokensOf(due, r) \in Nat
  BY <1>4, <1>5, TokensOne
<1>7. \A q \in due : TokensOf(due, q.id) = q.tokens
  BY <1>4, <1>5, TokensOne
<1>8. \A r \in Request : (\A q \in due : q.id # r) => TokensOf(due, r) = 0
  BY <1>4, <1>5, TokensOne
<1>9. c \in [Request -> Nat]
  BY <1>1, <1>6
<1>10. \A q \in due : c[q.id] = record[q.id] + q.tokens
  BY <1>1, <1>4, <1>7
<1>11. \A r \in Request : (\A q \in due : q.id # r) => c[r] = record[r]
  BY <1>1, <1>8
<1> QED BY <1>2, <1>9, <1>10, <1>11 DEF c, due
-----------------------------------------------------------------------------
(* The books: what is booked, and what bars it from being booked again. *)

Shape(b) == b \in Shelves /\ b.core # <<>> /\ b.play # <<>>

In(b, a, d, r)  == \E rec \in Records(b, a) : rec[d][r] > 0
Somewhere(b, r) == \E a \in Sides, d \in Days : In(b, a, d, r)

\* Closed when the session was loaded, and barred by every watermark there is.
Common(s, b, q)    == q.end <= s.live /\ \A m \in Marked(b) : m.kind = "none" \/ Bars(s, m, q)
Barred(s, b, m, q) == Sure(s, m, q) \/ (m.kind # "none" /\ Common(s, b, q))

Shows(daily, q)        == \E d \in Days : daily[d][q.id] > 0
Keeps(s, b, m, daily)  == \A q \in s.requests : Shows(daily, q) => Barred(s, b, m, q)
Deliverable(s, b, q)   == Somewhere(b, q.id) => Common(s, b, q)

Once(b) ==
  \A r \in Request, a, c \in Sides, d, e \in Days : In(b, a, d, r) /\ In(b, c, e, r) => a = c /\ d = e
Exact(s, b) ==
  \A a \in Sides : \A rec \in Records(b, a), d \in Days, r \in Request :
    rec[d][r] > 0 => r > s.borrowed /\ \E q \in s.requests : q.id = r /\ rec[d][r] = q.tokens

LEMMA PutIs ==
  ASSUME NEW S, NEW images \in Seq(S), images # <<>>, NEW image \in S
  PROVE  /\ Put(images, image) \in Seq(S) /\ Put(images, image) # <<>>
         /\ Last(Put(images, image)) = image
         /\ Range(Put(images, image)) = Range(images) \cup {image}
<1>1. Len(images) \in Nat \ {0} /\ DOMAIN images = 1 .. Len(images) /\ Last(images) = images[Len(images)]
  BY DEF Last
<1>2. Last(images) \in Range(images)
  BY <1>1 DEF Range
<1>3. CASE image = Last(images)
  BY <1>2, <1>3 DEF Put
<1>4. CASE image # Last(images)
  <2> DEFINE k == Append(images, image)
  <2>1. k \in Seq(S) /\ Len(k) = Len(images) + 1 /\ DOMAIN k = 1 .. Len(images) + 1
        /\ (\A n \in 1 .. Len(images) : k[n] = images[n]) /\ k[Len(images) + 1] = image
    OBVIOUS
  <2>2. Put(images, image) = k
    BY <1>4 DEF Put
  <2> HIDE DEF k
  <2>3. Last(k) = image /\ k # <<>>
    BY <1>1, <2>1 DEF Last
  <2>4. Range(k) = Range(images) \cup {image}
    BY <1>1, <2>1 DEF Range
  <2> QED BY <2>1, <2>2, <2>3, <2>4
<1> QED BY <1>3, <1>4

LEMMA DurableIs ==
  ASSUME NEW S, NEW image \in S
  PROVE  /\ Durable(image) \in Seq(S) /\ Durable(image) # <<>>
         /\ Last(Durable(image)) = image /\ Range(Durable(image)) = {image}
BY DEF Durable, Last, Range

LEMMA LastIn ==
  ASSUME NEW S, NEW images \in Seq(S), images # <<>>
  PROVE  Last(images) \in Range(images) /\ Range(images) \subseteq S /\ Last(images) \in S
BY DEF Last, Range

\* Books drawn from others: no watermark bars less, and no amount is new.
Drawn(s, c, b) ==
  /\ Shape(c)
  /\ \A m \in Marked(c) :
       /\ MarkOK(s, m)
       /\ \A q \in s.requests :
            (\A n \in Marked(b) : n.kind = "none" \/ Bars(s, n, q)) => m.kind = "none" \/ Bars(s, m, q)
  /\ \A a \in Sides : \A rec \in Records(c, a), d \in Days, r \in Request :
       rec[d][r] > 0 => \E old \in Records(b, a) : rec[d][r] = old[d][r]

Follows(s, c, b) ==
  /\ \A q \in s.requests :
       /\ Common(s, b, q) => Common(s, c, q)
       /\ Deliverable(s, b, q) => Deliverable(s, c, q)
  /\ \A m, daily : Keeps(s, b, m, daily) => Keeps(s, c, m, daily)

LEMMA DrawnFollows ==
  ASSUME NEW s, GoodView(s), NEW b, NEW c, Drawn(s, c, b), Once(b), Exact(s, b)
  PROVE  Once(c) /\ Exact(s, c) /\ Follows(s, c, b)
<1>1. \A a \in Sides, d \in Days, r \in Request : In(c, a, d, r) => In(b, a, d, r)
  <2> SUFFICES ASSUME NEW a \in Sides, NEW d \in Days, NEW r \in Request, NEW rec \in Records(c, a), rec[d][r] > 0
               PROVE  \E old \in Records(b, a) : old[d][r] > 0
    BY DEF In
  <2>1. PICK old \in Records(b, a) : rec[d][r] = old[d][r]
    BY DEF Drawn
  <2> QED BY <2>1
<1>2. Once(c)
  BY <1>1 DEF Once
<1>3. Exact(s, c)
  <2> SUFFICES ASSUME NEW a \in Sides, NEW rec \in Records(c, a), NEW d \in Days, NEW r \in Request, rec[d][r] > 0
               PROVE  r > s.borrowed /\ \E q \in s.requests : q.id = r /\ rec[d][r] = q.tokens
    BY DEF Exact
  <2>1. PICK old \in Records(b, a) : rec[d][r] = old[d][r]
    BY DEF Drawn
  <2> QED BY <2>1 DEF Exact
<1>4. \A q \in s.requests : q.id \in Request
  BY DEF GoodView, Views, Closings
<1>5. \A q \in s.requests : Common(s, b, q) => Common(s, c, q)
  BY DEF Common, Drawn
<1>6. \A q \in s.requests : Somewhere(c, q.id) => Somewhere(b, q.id)
  BY <1>1, <1>4 DEF Somewhere
<1>7. \A q \in s.requests : Deliverable(s, b, q) => Deliverable(s, c, q)
  BY <1>5, <1>6 DEF Deliverable
<1>8. \A m, daily : Keeps(s, b, m, daily) => Keeps(s, c, m, daily)
  BY <1>5 DEF Keeps, Barred
<1> QED BY <1>2, <1>3, <1>5, <1>7, <1>8 DEF Follows

Safe(s, b) ==
  /\ Shape(b)
  /\ \A m \in Marked(b) : MarkOK(s, m)
  /\ Once(b) /\ Exact(s, b)
  /\ \A q \in s.requests : q.id <= s.borrowed => Common(s, b, q)
  /\ \A x \in Range(b.core) : Keeps(s, b, x.mark, x.daily)
  /\ Keeps(s, b, b.online.mark, b.online.daily)
  /\ b.online.sink => Last(b.core).daily = b.online.daily

LocalKeeps(s, b) == b.local.sink => Keeps(s, b, b.local.mark, Last(b.core).daily)

\* What is left to show of books drawn from safe ones.
LEMMA DrawnSafe ==
  ASSUME NEW s, GoodView(s), NEW b, Safe(s, b), NEW c, Drawn(s, c, b),
         \A x \in Range(c.core) : Keeps(s, b, x.mark, x.daily),
         Keeps(s, b, c.online.mark, c.online.daily),
         c.online.sink => Last(c.core).daily = c.online.daily
  PROVE  Safe(s, c) /\ Follows(s, c, b)
<1>1. Once(c) /\ Exact(s, c) /\ Follows(s, c, b)
  BY DrawnFollows DEF Safe
<1>2. Shape(c) /\ \A m \in Marked(c) : MarkOK(s, m)
  BY DEF Drawn
<1>3. \A q \in s.requests : q.id <= s.borrowed => Common(s, c, q)
  BY <1>1 DEF Safe, Follows
<1>4. \A x \in Range(c.core) : Keeps(s, c, x.mark, x.daily)
  BY <1>1 DEF Follows
<1>5. Keeps(s, c, c.online.mark, c.online.daily)
  BY <1>1 DEF Follows
<1> QED BY <1>1, <1>2, <1>3, <1>4, <1>5 DEF Safe
-----------------------------------------------------------------------------
(* The steps books are made of. *)

LEMMA Fields ==
  ASSUME NEW b, Shape(b)
  PROVE  /\ b = [online |-> b.online, local |-> b.local, core |-> b.core, play |-> b.play]
         /\ b.online \in Memory /\ b.local \in Memory
         /\ b.core \in Seq(Image) /\ b.core # <<>> /\ b.play \in Seq(Dailies) /\ b.play # <<>>
         /\ Last(b.core) \in Range(b.core) /\ Range(b.core) \subseteq Image /\ Last(b.core) \in Image
         /\ Last(b.play) \in Range(b.play) /\ Range(b.play) \subseteq Dailies /\ Last(b.play) \in Dailies
<1>1. b \in Shelves /\ b.core # <<>> /\ b.play # <<>>
  BY DEF Shape
<1>2. b.online \in Memory /\ b.local \in Memory /\ b.core \in Seq(Image) /\ b.play \in Seq(Dailies)
      /\ b = [online |-> b.online, local |-> b.local, core |-> b.core, play |-> b.play]
  BY <1>1 DEF Shelves
<1>3. Last(b.core) \in Range(b.core) /\ Range(b.core) \subseteq Image /\ Last(b.core) \in Image
  BY <1>1, <1>2, LastIn
<1>4. Last(b.play) \in Range(b.play) /\ Range(b.play) \subseteq Dailies /\ Last(b.play) \in Dailies
  BY <1>1, <1>2, LastIn
<1> QED BY <1>1, <1>2, <1>3, <1>4

\* What a write to the core domain leaves.
Written(c, b, mark, daily) ==
  /\ Shape(c) /\ c.online = b.online /\ c.local = b.local /\ c.play = b.play
  /\ Last(c.core) \in Image /\ Last(c.core).mark = mark /\ Last(c.core).daily = daily
  /\ Range(c.core) = Range(b.core) \cup {Last(c.core)}

LEMMA PutMarkIs ==
  ASSUME NEW b, Shape(b), NEW mark \in Mark
  PROVE  Written(PutMark(b, mark), b, mark, Last(b.core).daily)
<1> DEFINE x == [Last(b.core) EXCEPT !.mark = mark]
           k == Put(b.core, x)
           c == PutMark(b, mark)
<1>1. /\ b = [online |-> b.online, local |-> b.local, core |-> b.core, play |-> b.play]
      /\ b.online \in Memory /\ b.local \in Memory
      /\ b.core \in Seq(Image) /\ b.core # <<>> /\ b.play \in Seq(Dailies) /\ b.play # <<>>
      /\ Last(b.core) \in Image
  BY Fields
<1>2. x \in Image /\ x.mark = mark /\ x.daily = Last(b.core).daily
  BY <1>1 DEF Image
<1>3. c = [b EXCEPT !.core = k]
  BY DEF PutMark
<1> HIDE DEF x
<1>4. k \in Seq(Image) /\ k # <<>> /\ Last(k) = x /\ Range(k) = Range(b.core) \cup {x}
  BY <1>1, <1>2, PutIs
<1> HIDE DEF k, c
<1>5. c = [online |-> b.online, local |-> b.local, core |-> k, play |-> b.play]
  BY <1>1, <1>3
<1>6. c \in Shelves
  BY <1>1, <1>4, <1>5 DEF Shelves
<1>7. c.core = k /\ c.online = b.online /\ c.local = b.local /\ c.play = b.play
  BY <1>5
<1>8. Written(c, b, mark, Last(b.core).daily)
  BY <1>1, <1>2, <1>4, <1>6, <1>7 DEF Written, Shape
<1> QED BY <1>8 DEF c

LEMMA PutDailyIs ==
  ASSUME NEW b, Shape(b), NEW daily \in Dailies
  PROVE  Written(PutDaily(b, daily), b, Last(b.core).mark, daily)
<1> DEFINE x == [Last(b.core) EXCEPT !.daily = daily]
           k == Put(b.core, x)
           c == PutDaily(b, daily)
<1>1. /\ b = [online |-> b.online, local |-> b.local, core |-> b.core, play |-> b.play]
      /\ b.online \in Memory /\ b.local \in Memory
      /\ b.core \in Seq(Image) /\ b.core # <<>> /\ b.play \in Seq(Dailies) /\ b.play # <<>>
      /\ Last(b.core) \in Image
  BY Fields
<1>2. x \in Image /\ x.daily = daily /\ x.mark = Last(b.core).mark
  BY <1>1 DEF Image
<1>3. c = [b EXCEPT !.core = k]
  BY DEF PutDaily
<1> HIDE DEF x
<1>4. k \in Seq(Image) /\ k # <<>> /\ Last(k) = x /\ Range(k) = Range(b.core) \cup {x}
  BY <1>1, <1>2, PutIs
<1> HIDE DEF k, c
<1>5. c = [online |-> b.online, local |-> b.local, core |-> k, play |-> b.play]
  BY <1>1, <1>3
<1>6. c \in Shelves
  BY <1>1, <1>4, <1>5 DEF Shelves
<1>7. c.core = k /\ c.online = b.online /\ c.local = b.local /\ c.play = b.play
  BY <1>5
<1>8. Written(c, b, Last(b.core).mark, daily)
  BY <1>1, <1>2, <1>4, <1>6, <1>7 DEF Written, Shape
<1> QED BY <1>8 DEF c

\* Both records are written: the watermark first.
WrittenBoth(c, b, mark, daily) ==
  /\ Shape(c) /\ c.online = b.online /\ c.local = b.local /\ c.play = b.play
  /\ Last(c.core).mark = mark /\ Last(c.core).daily = daily
  /\ Last(c.core) \in Range(c.core)
  /\ \A x \in Range(c.core) : x \in Range(b.core) \/ (x.mark = mark /\ x.daily \in {Last(b.core).daily, daily})

LEMMA PutBothIs ==
  ASSUME NEW b, Shape(b), NEW mark \in Mark, NEW daily \in Dailies
  PROVE  WrittenBoth(PutDaily(PutMark(b, mark), daily), b, mark, daily)
<1> DEFINE a == PutMark(b, mark)
           c == PutDaily(a, daily)
<1>1. Written(a, b, mark, Last(b.core).daily)
  BY PutMarkIs
<1> HIDE DEF a
<1>2. Shape(a)
  BY <1>1 DEF Written
<1>3. Written(c, a, Last(a.core).mark, daily)
  BY <1>2, PutDailyIs
<1> HIDE DEF c
<1>4. Last(c.core) \in Range(c.core)
  BY <1>3, Fields DEF Written
<1>5. WrittenBoth(c, b, mark, daily)
  BY <1>1, <1>3, <1>4 DEF Written, WrittenBoth
<1> QED BY <1>5 DEF a, c

LEMMA MergedDaily ==
  ASSUME NEW x \in Dailies, NEW y \in Dailies
  PROVE  MergeDaily(x, y) \in Dailies /\ \A d \in Days : MergeDaily(x, y)[d] \in {x[d], y[d]}
BY DEF MergeDaily, Dailies

LEMMA NothingIs ==
  /\ Empty \in Dailies /\ (\A d \in Days, r \in Request : Empty[d][r] = 0)
  /\ NoMark \in Mark /\ NoMark.kind = "none" /\ NoMark.format = 0
  /\ Gone \in Memory /\ Fresh \in Memory /\ \A o \in {Gone, Fresh} : o.mark = NoMark /\ o.daily = Empty /\ ~ o.sink
<1>1. Empty \in Dailies /\ (\A d \in Days, r \in Request : Empty[d][r] = 0)
  BY DEF Empty, Nothing, Dailies
<1>2. NoMark \in Mark /\ NoMark.kind = "none" /\ NoMark.format = 0
  BY DEF NoMark, Mark
<1>3. Gone \in Memory /\ Gone.mark = NoMark /\ Gone.daily = Empty /\ ~ Gone.sink
  BY <1>1, <1>2 DEF Gone, Memory
<1>4. Fresh \in Memory /\ Fresh.mark = NoMark /\ Fresh.daily = Empty /\ ~ Fresh.sink
  BY <1>1, <1>2 DEF Gone, Fresh, Memory
<1> QED BY <1>1, <1>2, <1>3, <1>4

\* An authority that remembers nothing keeps nothing from anyone.
LEMMA KeepsNothing ==
  ASSUME NEW s, GoodView(s), NEW b, NEW m
  PROVE  Keeps(s, b, m, Empty)
BY NothingIs DEF Keeps, Shows, GoodView, Views, Closings

\* A merged watermark keeps what either keeps, and a merged record holds no more than both.
LEMMA MergedKeeps ==
  ASSUME NEW s, GoodView(s), NEW b, NEW m, MarkOK(s, m), NEW n, MarkOK(s, n),
         NEW x \in Dailies, NEW y \in Dailies
  PROVE  /\ Keeps(s, b, m, x) => Keeps(s, b, MergeMark(m, n), x)
         /\ Keeps(s, b, n, y) => Keeps(s, b, MergeMark(m, n), y)
         /\ Keeps(s, b, m, x) /\ Keeps(s, b, n, y) => Keeps(s, b, MergeMark(m, n), MergeDaily(x, y))
<1> DEFINE c == MergeMark(m, n)
<1>1. Merges(s, c, m, n)
  BY MergeMarks
<1> HIDE DEF c
<1>2. \A q \in s.requests : Barred(s, b, m, q) \/ Barred(s, b, n, q) => Barred(s, b, c, q)
  BY <1>1 DEF Merges, Barred
<1>3. \A q \in s.requests : Shows(MergeDaily(x, y), q) => Shows(x, q) \/ Shows(y, q)
  BY MergedDaily DEF Shows
<1> QED BY <1>2, <1>3 DEF Keeps, c

\* What hydrating leaves: memory and the last image agree on what was merged.
Hydrated(c, b, mark, daily) ==
  /\ Shape(c) /\ c.local = b.local /\ c.play = b.play
  /\ c.online = [alive |-> TRUE, sink |-> TRUE, mark |-> mark, daily |-> daily]
  /\ c.online.mark = mark /\ c.online.daily = daily /\ c.online.sink /\ c.online.alive
  /\ Last(c.core).mark = mark /\ Last(c.core).daily = daily
  /\ \A x \in Range(c.core) : x \in Range(b.core) \/ (x.mark = mark /\ x.daily \in {Last(b.core).daily, daily})

LEMMA HydrateIs ==
  ASSUME NEW b, Shape(b), NEW mark \in Mark, mark = MergeMark(b.online.mark, Last(b.core).mark),
         NEW daily, daily = MergeDaily(b.online.daily, Last(b.core).daily)
  PROVE  Hydrated(Hydrate(b), b, mark, daily) /\ daily \in Dailies
<1> DEFINE last  == Last(b.core)
           o == [alive |-> TRUE, sink |-> TRUE, mark |-> mark, daily |-> daily]
           a == [b EXCEPT !.online = o]
           c == Hydrate(b)
<1>1. /\ b = [online |-> b.online, local |-> b.local, core |-> b.core, play |-> b.play]
      /\ b.online \in Memory /\ b.local \in Memory
      /\ b.core \in Seq(Image) /\ b.core # <<>> /\ b.play \in Seq(Dailies) /\ b.play # <<>>
      /\ last \in Image
  BY Fields
<1>2. daily \in Dailies
  BY <1>1, MergedDaily DEF Image, Memory
<1>3. c = PutDaily(PutMark(a, mark), daily)
  BY DEF Hydrate
<1> HIDE DEF c
<1>4. o \in Memory /\ o.mark = mark /\ o.daily = daily /\ o.sink /\ o.alive
  BY <1>2 DEF Memory
<1>5. o = [alive |-> TRUE, sink |-> TRUE, mark |-> mark, daily |-> daily]
  OBVIOUS
<1> HIDE DEF o
<1>6. a = [online |-> o, local |-> b.local, core |-> b.core, play |-> b.play]
  BY <1>1
<1> HIDE DEF a
<1>7. a.online = o /\ a.local = b.local /\ a.core = b.core /\ a.play = b.play
  BY <1>6
<1>8. Shape(a)
  BY <1>1, <1>4, <1>6, <1>7 DEF Shape, Shelves
<1>9. WrittenBoth(c, a, mark, daily)
  BY <1>2, <1>3, <1>8, PutBothIs
<1>10. /\ Shape(c) /\ c.online = o /\ c.local = b.local /\ c.play = b.play
       /\ Last(c.core).mark = mark /\ Last(c.core).daily = daily
       /\ \A x \in Range(c.core) : x \in Range(b.core) \/ (x.mark = mark /\ x.daily \in {last.daily, daily})
  BY <1>7, <1>9 DEF WrittenBoth
<1> QED BY <1>2, <1>4, <1>5, <1>10 DEF Hydrated, c

LEMMA HydrateSafe ==
  ASSUME NEW s, GoodView(s), NEW b, Safe(s, b)
  PROVE  Safe(s, Hydrate(b)) /\ Follows(s, Hydrate(b), b) /\ Hydrate(b).local = b.local
<1> DEFINE last  == Last(b.core)
           mark  == MergeMark(b.online.mark, last.mark)
           daily == MergeDaily(b.online.daily, last.daily)
           c == Hydrate(b)
<1>1. Shape(b)
  BY DEF Safe
<1>2. /\ b = [online |-> b.online, local |-> b.local, core |-> b.core, play |-> b.play]
      /\ b.online \in Memory /\ b.local \in Memory
      /\ b.core \in Seq(Image) /\ b.core # <<>> /\ b.play \in Seq(Dailies) /\ b.play # <<>>
      /\ last \in Range(b.core) /\ Range(b.core) \subseteq Image /\ last \in Image
  BY <1>1, Fields
<1>3. last.daily \in Dailies /\ b.online.daily \in Dailies
  BY <1>2 DEF Image, Memory
<1>4. MarkOK(s, b.online.mark) /\ MarkOK(s, last.mark) /\ b.online.mark \in Marked(b) /\ last.mark \in Marked(b)
  BY <1>2 DEF Safe, Marked
<1>5. Merges(s, mark, b.online.mark, last.mark)
  BY <1>4, MergeMarks
<1>6. daily \in Dailies /\ \A d \in Days : daily[d] \in {b.online.daily[d], last.daily[d]}
  BY <1>3, MergedDaily
<1>7. Keeps(s, b, mark, last.daily) /\ Keeps(s, b, mark, daily)
  <2>1. Keeps(s, b, last.mark, last.daily) /\ Keeps(s, b, b.online.mark, b.online.daily)
    BY <1>2 DEF Safe
  <2> QED BY <1>3, <1>4, <2>1, MergedKeeps
<1>8. MarkOK(s, mark) /\ mark \in Mark
  BY <1>5 DEF Merges, MarkOK
<1>9. Hydrated(c, b, mark, daily)
  BY <1>1, <1>8, HydrateIs
<1> HIDE DEF mark, daily, c
<1>15. /\ Shape(c) /\ c.local = b.local /\ c.play = b.play
       /\ Last(c.core).mark = mark /\ Last(c.core).daily = daily
       /\ \A x \in Range(c.core) : x \in Range(b.core) \/ (x.mark = mark /\ x.daily \in {last.daily, daily})
  BY <1>9 DEF Hydrated
<1>16. c.online.mark = mark /\ c.online.daily = daily
  BY <1>9 DEF Hydrated
<1>17. \A m \in Marked(c) : m = mark \/ m \in Marked(b)
  BY <1>15, <1>16 DEF Marked
<1>18. Drawn(s, c, b)
  <2>1. ASSUME NEW m \in Marked(c)
        PROVE  /\ MarkOK(s, m)
               /\ \A q \in s.requests :
                    (\A n \in Marked(b) : n.kind = "none" \/ Bars(s, n, q)) => m.kind = "none" \/ Bars(s, m, q)
    <3>1. CASE m \in Marked(b)
      BY <3>1 DEF Safe
    <3>2. CASE m = mark
      BY <1>4, <1>5, <3>2 DEF Merges
    <3> QED BY <1>17, <3>1, <3>2
  <2>2. ASSUME NEW side \in Sides, NEW rec \in Records(c, side), NEW d \in Days, NEW r \in Request
        PROVE  \E old \in Records(b, side) : rec[d][r] = old[d][r]
    <3>1. CASE side # "online"
      BY <1>15, <3>1 DEF Records
    <3>2. CASE side = "online"
      <4>1. b.online.daily \in Records(b, side) /\ last.daily \in Records(b, side)
        BY <1>2, <3>2 DEF Records
      <4>2. rec \in Records(b, side) \/ rec = daily
        BY <1>2, <1>15, <1>16, <3>2, <4>1 DEF Records
      <4>3. daily[d] = b.online.daily[d] \/ daily[d] = last.daily[d]
        BY <1>6
      <4> QED BY <4>1, <4>2, <4>3
    <3> QED BY <3>1, <3>2
  <2> QED BY <1>15, <2>1, <2>2 DEF Drawn
<1>19. \A x \in Range(c.core) : Keeps(s, b, x.mark, x.daily)
  <2> SUFFICES ASSUME NEW x \in Range(c.core) PROVE Keeps(s, b, x.mark, x.daily)
    OBVIOUS
  <2>1. CASE x \in Range(b.core)
    BY <2>1 DEF Safe
  <2>2. CASE x.mark = mark /\ x.daily \in {last.daily, daily}
    BY <1>7, <2>2
  <2> QED BY <1>15, <2>1, <2>2
<1>20. Keeps(s, b, c.online.mark, c.online.daily) /\ Last(c.core).daily = c.online.daily
  BY <1>7, <1>15, <1>16
<1>21. Safe(s, c) /\ Follows(s, c, b)
  BY <1>18, <1>19, <1>20, DrawnSafe
<1> QED BY <1>15, <1>21 DEF c

AttachedTo(c, b, mark, daily) ==
  /\ Shape(c) /\ c.online = b.online /\ c.core = b.core /\ c.play = b.play
  /\ c.local = [alive |-> TRUE, sink |-> TRUE, mark |-> mark, daily |-> daily]
  /\ c.local.mark = mark /\ c.local.daily = daily /\ c.local.sink /\ c.local.alive

LEMMA AttachedIs ==
  ASSUME NEW b, Shape(b), NEW mark \in Mark, mark = MergeMark(b.local.mark, Last(b.core).mark),
         NEW daily, daily = MergeDaily(b.local.daily, Last(b.play))
  PROVE  AttachedTo(Attached(b), b, mark, daily) /\ daily \in Dailies
<1> DEFINE o == [alive |-> TRUE, sink |-> TRUE, mark |-> mark, daily |-> daily]
           c == Attached(b)
<1>1. /\ b = [online |-> b.online, local |-> b.local, core |-> b.core, play |-> b.play]
      /\ b.online \in Memory /\ b.local \in Memory
      /\ b.core \in Seq(Image) /\ b.core # <<>> /\ b.play \in Seq(Dailies) /\ b.play # <<>>
      /\ Last(b.play) \in Dailies
  BY Fields
<1>2. daily \in Dailies
  BY <1>1, MergedDaily DEF Memory
<1>3. c = [b EXCEPT !.local = o]
  BY DEF Attached
<1> HIDE DEF c
<1>4. o \in Memory /\ o.mark = mark /\ o.daily = daily /\ o.sink /\ o.alive
  BY <1>2 DEF Memory
<1>5. o = [alive |-> TRUE, sink |-> TRUE, mark |-> mark, daily |-> daily]
  OBVIOUS
<1> HIDE DEF o
<1>6. c = [online |-> b.online, local |-> o, core |-> b.core, play |-> b.play]
  BY <1>1, <1>3
<1>7. c.online = b.online /\ c.local = o /\ c.core = b.core /\ c.play = b.play
  BY <1>6
<1>8. Shape(c)
  BY <1>1, <1>4, <1>6, <1>7 DEF Shape, Shelves
<1> QED BY <1>2, <1>4, <1>5, <1>7, <1>8 DEF AttachedTo, c

LEMMA AttachedSafe ==
  ASSUME NEW s, GoodView(s), NEW b, Safe(s, b)
  PROVE  Safe(s, Attached(b)) /\ Follows(s, Attached(b), b) /\ LocalKeeps(s, Attached(b))
<1> DEFINE last  == Last(b.core)
           mark  == MergeMark(b.local.mark, last.mark)
           daily == MergeDaily(b.local.daily, Last(b.play))
           c == Attached(b)
<1>1. Shape(b)
  BY DEF Safe
<1>2. /\ b = [online |-> b.online, local |-> b.local, core |-> b.core, play |-> b.play]
      /\ b.online \in Memory /\ b.local \in Memory
      /\ b.core \in Seq(Image) /\ b.core # <<>> /\ b.play \in Seq(Dailies) /\ b.play # <<>>
      /\ last \in Range(b.core) /\ last \in Image
      /\ Last(b.play) \in Range(b.play) /\ Last(b.play) \in Dailies
  BY <1>1, Fields
<1>3. last.daily \in Dailies /\ b.local.daily \in Dailies
  BY <1>2 DEF Image, Memory
<1>4. MarkOK(s, b.local.mark) /\ MarkOK(s, last.mark) /\ b.local.mark \in Marked(b) /\ last.mark \in Marked(b)
  BY <1>2 DEF Safe, Marked
<1>5. Merges(s, mark, b.local.mark, last.mark)
  BY <1>4, MergeMarks
<1>6. daily \in Dailies /\ \A d \in Days : daily[d] \in {b.local.daily[d], Last(b.play)[d]}
  BY <1>2, <1>3, MergedDaily
<1>7. Keeps(s, b, mark, last.daily)
  <2>1. Keeps(s, b, last.mark, last.daily)
    BY <1>2 DEF Safe
  <2> QED BY <1>3, <1>4, <2>1, MergedKeeps
<1>8. MarkOK(s, mark) /\ mark \in Mark
  BY <1>5 DEF Merges, MarkOK
<1>9. AttachedTo(c, b, mark, daily)
  BY <1>1, <1>8, AttachedIs
<1> HIDE DEF mark, daily, c
<1>11. c.local.mark = mark /\ c.local.daily = daily
  BY <1>9 DEF AttachedTo
<1>13. c.online = b.online /\ c.core = b.core /\ c.play = b.play
  BY <1>9 DEF AttachedTo
<1>14. Shape(c)
  BY <1>9 DEF AttachedTo
<1>15. \A m \in Marked(c) : m = mark \/ m \in Marked(b)
  BY <1>11, <1>13 DEF Marked
<1>16. Drawn(s, c, b)
  <2>1. ASSUME NEW m \in Marked(c)
        PROVE  /\ MarkOK(s, m)
               /\ \A q \in s.requests :
                    (\A n \in Marked(b) : n.kind = "none" \/ Bars(s, n, q)) => m.kind = "none" \/ Bars(s, m, q)
    <3>1. CASE m \in Marked(b)
      BY <3>1 DEF Safe
    <3>2. CASE m = mark
      BY <1>4, <1>5, <3>2 DEF Merges
    <3> QED BY <1>15, <3>1, <3>2
  <2>2. ASSUME NEW side \in Sides, NEW rec \in Records(c, side), NEW d \in Days, NEW r \in Request
        PROVE  \E old \in Records(b, side) : rec[d][r] = old[d][r]
    <3>1. CASE side = "online"
      BY <1>13, <3>1 DEF Records
    <3>2. CASE side # "online"
      <4>1. b.local.daily \in Records(b, side) /\ Last(b.play) \in Records(b, side)
        BY <1>2, <3>2 DEF Records
      <4>2. rec \in Records(b, side) \/ rec = daily
        BY <1>11, <1>13, <3>2 DEF Records
      <4>3. daily[d] = b.local.daily[d] \/ daily[d] = Last(b.play)[d]
        BY <1>6
      <4> QED BY <4>1, <4>2, <4>3
    <3> QED BY <3>1, <3>2
  <2> QED BY <1>14, <2>1, <2>2 DEF Drawn
<1>17. /\ \A x \in Range(c.core) : Keeps(s, b, x.mark, x.daily)
       /\ Keeps(s, b, c.online.mark, c.online.daily)
       /\ c.online.sink => Last(c.core).daily = c.online.daily
  BY <1>13 DEF Safe
<1>18. Safe(s, c) /\ Follows(s, c, b)
  BY <1>16, <1>17, DrawnSafe
<1>19. LocalKeeps(s, c)
  BY <1>7, <1>11, <1>13, <1>18 DEF LocalKeeps, Follows, last
<1> QED BY <1>18, <1>19 DEF c

\* Books that lose memory or images, and gain nothing.
Lighter(c, b) ==
  /\ Shape(c)
  /\ c.online = b.online \/ c.online \in {Gone, Fresh}
  /\ c.local.mark = b.local.mark /\ c.local.daily = b.local.daily /\ c.local.sink = b.local.sink
  /\ \A x \in Range(c.core) : \E y \in Range(b.core) : x.mark = y.mark /\ x.daily = y.daily
  /\ Last(c.core).daily = Last(b.core).daily
  /\ Range(c.play) \subseteq Range(b.play)

LEMMA LighterDrawn ==
  ASSUME NEW s, GoodView(s), NEW b, Safe(s, b), NEW c, Lighter(c, b)
  PROVE  Drawn(s, c, b)
<1>1. \A m \in Marked(c) : m = NoMark \/ m \in Marked(b)
  BY NothingIs DEF Lighter, Marked
<1>2. MarkOK(s, NoMark)
  BY NothingIs DEF MarkOK
<1>3. ASSUME NEW m \in Marked(c)
      PROVE  /\ MarkOK(s, m)
             /\ \A q \in s.requests :
                  (\A n \in Marked(b) : n.kind = "none" \/ Bars(s, n, q)) => m.kind = "none" \/ Bars(s, m, q)
  BY <1>1, <1>2, NothingIs DEF Safe
<1>4. ASSUME NEW a \in Sides, NEW rec \in Records(c, a), NEW d \in Days, NEW r \in Request, rec[d][r] > 0
      PROVE  rec \in Records(b, a)
  <2>1. ~ (0 > 0) /\ Empty[d][r] = 0
    BY NothingIs
  <2>2. rec # Empty
    BY <1>4, <2>1
  <2>3. CASE a = "online"
    <3>1. rec = c.online.daily \/ \E x \in Range(c.core) : rec = x.daily
      BY <2>3 DEF Records
    <3>2. rec = b.online.daily \/ \E y \in Range(b.core) : rec = y.daily
      BY <2>2, <3>1, NothingIs DEF Lighter
    <3> QED BY <2>3, <3>2 DEF Records
  <2>4. CASE a # "online"
    BY <2>4 DEF Records, Lighter
  <2> QED BY <2>3, <2>4
<1>5. Shape(c)
  BY DEF Lighter
<1> QED BY <1>3, <1>4, <1>5 DEF Drawn

LEMMA LighterSafe ==
  ASSUME NEW s, GoodView(s), NEW b, Safe(s, b), NEW c, Lighter(c, b)
  PROVE  Safe(s, c) /\ Follows(s, c, b) /\ (LocalKeeps(s, b) => LocalKeeps(s, c))
<1>1. Drawn(s, c, b)
  BY LighterDrawn
<1>2. \A x \in Range(c.core) : Keeps(s, b, x.mark, x.daily)
  BY DEF Lighter, Safe
<1>3. Keeps(s, b, c.online.mark, c.online.daily)
  BY NothingIs, KeepsNothing DEF Lighter, Safe
<1>4. c.online.sink => Last(c.core).daily = c.online.daily
  BY NothingIs DEF Lighter, Safe
<1>5. Safe(s, c) /\ Follows(s, c, b)
  BY <1>1, <1>2, <1>3, <1>4, DrawnSafe
<1>6. LocalKeeps(s, b) => LocalKeeps(s, c)
  BY <1>5 DEF LocalKeeps, Lighter, Follows
<1> QED BY <1>5, <1>6
-----------------------------------------------------------------------------
(* A batch reaches an authority. *)

Credited(c, b, slot, mark, daily) ==
  /\ Shape(c)
  /\ Marked(c) \subseteq Marked(b) \cup {mark}
  /\ \A a \in Sides : Records(c, a) \subseteq Records(b, a) \cup (IF a = slot THEN {daily} ELSE {})

\* What it changes: the requests it brought may now be booked.
FollowsBut(s, c, b, R) ==
  /\ \A q \in s.requests :
       /\ Common(s, b, q) => Common(s, c, q)
       /\ q \notin R /\ Deliverable(s, b, q) => Deliverable(s, c, q)
  /\ \A m, daily : Keeps(s, b, m, daily) => Keeps(s, c, m, daily)

CreditedOK(s, c, b, batch, m, daily, mark, new) ==
  /\ Once(c) /\ Exact(s, c) /\ FollowsBut(s, c, b, batch.requests)
  /\ \A x \in Marked(c) : MarkOK(s, x)
  /\ \A x : Keeps(s, b, m, x) => Keeps(s, c, mark, x)
  /\ Keeps(s, b, m, daily) => Keeps(s, c, mark, new)

LEMMA CreditedSafe ==
  ASSUME NEW s, GoodView(s), NEW b, Safe(s, b), NEW batch, BatchOK(s, batch), NEW today \in Days,
         \A q \in batch.requests : Deliverable(s, b, q),
         NEW slot \in Sides, NEW m \in Marked(b), NEW daily \in Dailies, daily \in Records(b, slot),
         NEW mark, mark = Credit(m, daily[today], batch, today).mark,
         NEW new, new = [daily EXCEPT ![today] = Credit(m, daily[today], batch, today).record],
         NEW c, Credited(c, b, slot, mark, new)
  PROVE  CreditedOK(s, c, b, batch, m, daily, mark, new)
<1> DEFINE credit == Credit(m, daily[today], batch, today)
           due == Due(Fence(m, batch), batch, today)
<1>1. MarkOK(s, m)
  BY DEF Safe
<1>2. daily[today] \in [Request -> Nat] /\ \A d \in Days : daily[d] \in [Request -> Nat]
  BY DEF Dailies
<1>3. /\ MarkOK(s, mark) /\ Current(s, mark)
      /\ \A q \in s.requests :
           /\ Sure(s, m, q) => Sure(s, mark, q)
           /\ q \in batch.requests => Sure(s, mark, q)
           /\ q.end <= s.live => Bars(s, mark, q)
  BY <1>1, CreditMark
<1>4. /\ credit.record \in [Request -> Nat] /\ due \subseteq batch.requests
      /\ \A q \in due : credit.record[q.id] = daily[today][q.id] + q.tokens
      /\ \A r \in Request : (\A q \in due : q.id # r) => credit.record[r] = daily[today][r]
  BY <1>2, CreditRecord
<1>5. batch.requests \subseteq s.requests /\ \A q \in s.requests : q.id \in Request /\ q.tokens \in {1, 2}
  BY DEF GoodView, Views, Closings, BatchOK
<1>6. new = [daily EXCEPT ![today] = credit.record]
  OBVIOUS
<1>7. ASSUME NEW q \in batch.requests, Common(s, b, q) PROVE q \notin due
  <2>1. q.end <= s.live /\ (m.kind = "none" \/ Bars(s, m, q))
    BY <1>7 DEF Common
  <2> QED BY <1>1, <2>1, NotDue
<1> HIDE DEF credit, due
<1>8. \A q \in due : ~ Somewhere(b, q.id)
  BY <1>4, <1>7 DEF Deliverable
<1>9. new \in Dailies /\ new[today] = credit.record /\ \A d \in Days \ {today} : new[d] = daily[d]
  BY <1>4, <1>6 DEF Dailies
\* A positive amount of the new record is an old one, or what a due request used.
<1>10. ASSUME NEW d \in Days, NEW r \in Request, new[d][r] > 0
       PROVE  \/ new[d][r] = daily[d][r]
              \/ d = today /\ ~ Somewhere(b, r) /\ \E q \in due : q.id = r /\ new[d][r] = q.tokens
  <2>1. CASE d # today
    BY <1>9, <2>1
  <2>2. CASE d = today /\ \A q \in due : q.id # r
    BY <1>4, <1>9, <2>2
  <2>3. CASE d = today /\ \E q \in due : q.id = r
    <3>1. PICK q \in due : q.id = r
      BY <2>3
    <3>2. ~ Somewhere(b, r)
      BY <1>8, <3>1
    <3>3. ~ (daily[today][r] > 0)
      BY <3>2 DEF Somewhere, In
    <3>4. daily[today][r] = 0
      BY <1>2, <3>3
    <3>5. q.tokens \in Nat
      BY <1>4, <1>5
    <3>6. new[d][r] = q.tokens
      BY <1>4, <1>9, <2>3, <3>1, <3>4, <3>5
    <3> QED BY <2>3, <3>1, <3>2, <3>6
  <2> QED BY <2>1, <2>2, <2>3
<1>11. ASSUME NEW a \in Sides, NEW rec \in Records(c, a), NEW d \in Days, NEW r \in Request, rec[d][r] > 0
       PROVE  \/ \E old \in Records(b, a) : rec[d][r] = old[d][r]
              \/ /\ a = slot /\ d = today /\ ~ Somewhere(b, r)
                 /\ \E q \in due : q.id = r /\ rec[d][r] = q.tokens
  <2>1. CASE rec \in Records(b, a)
    BY <2>1
  <2>2. CASE a = slot /\ rec = new
    BY <1>10, <1>11, <2>2
  <2>3. rec \in Records(b, a) \/ (a = slot /\ rec = new)
    BY DEF Credited
  <2> QED BY <2>1, <2>2, <2>3
<1>12. \A a \in Sides, d \in Days, r \in Request :
         In(c, a, d, r) => In(b, a, d, r) \/ (a = slot /\ d = today /\ ~ Somewhere(b, r) /\ \E q \in due : q.id = r)
  <2> SUFFICES ASSUME NEW a \in Sides, NEW d \in Days, NEW r \in Request, NEW rec \in Records(c, a), rec[d][r] > 0,
                      \A old \in Records(b, a) : ~ (old[d][r] > 0)
               PROVE  a = slot /\ d = today /\ ~ Somewhere(b, r) /\ \E q \in due : q.id = r
    BY DEF In
  <2>1. ~ \E old \in Records(b, a) : rec[d][r] = old[d][r]
    OBVIOUS
  <2> QED BY <1>11, <2>1
<1>13. \A a \in Sides, d \in Days, r \in Request : In(b, a, d, r) => Somewhere(b, r)
  BY DEF Somewhere
<1>14. Once(c)
  <2> SUFFICES ASSUME NEW r \in Request, NEW a \in Sides, NEW k \in Sides, NEW d \in Days, NEW e \in Days,
                      In(c, a, d, r), In(c, k, e, r)
               PROVE  a = k /\ d = e
    BY DEF Once
  <2>1. CASE In(b, a, d, r) /\ In(b, k, e, r)
    BY <2>1 DEF Safe, Once
  <2> QED BY <1>12, <1>13, <2>1
<1>15. Exact(s, c)
  <2> SUFFICES ASSUME NEW a \in Sides, NEW rec \in Records(c, a), NEW d \in Days, NEW r \in Request, rec[d][r] > 0
               PROVE  r > s.borrowed /\ \E q \in s.requests : q.id = r /\ rec[d][r] = q.tokens
    BY DEF Exact
  <2>1. CASE \E old \in Records(b, a) : rec[d][r] = old[d][r]
    BY <2>1 DEF Safe, Exact
  <2>2. CASE \E q \in due : q.id = r /\ rec[d][r] = q.tokens
    <3>1. PICK q \in due : q.id = r /\ rec[d][r] = q.tokens
      BY <2>2
    <3>2. q \in s.requests /\ q \in batch.requests
      BY <1>4, <1>5
    <3>3. ~ (q.id <= s.borrowed)
      BY <1>7, <3>2 DEF Safe
    <3>4. r \in Nat /\ s.borrowed \in Nat
      BY UsageConstants DEF Request, GoodView, Views
    <3> QED BY <3>1, <3>2, <3>3, <3>4
  <2> QED BY <1>11, <2>1, <2>2
<1>16. \A q \in s.requests : Common(s, b, q) => Common(s, c, q)
  BY <1>3 DEF Common, Credited
<1>17. \A x, y : Keeps(s, b, x, y) => Keeps(s, c, x, y)
  BY <1>16 DEF Keeps, Barred
<1>18. ASSUME NEW q \in s.requests, q \notin batch.requests, Deliverable(s, b, q) PROVE Deliverable(s, c, q)
  <2>1. \A p \in due : p.id # q.id
    BY <1>4, <1>5, <1>18 DEF GoodView
  <2>2. Somewhere(c, q.id) => Somewhere(b, q.id)
    BY <1>5, <1>12, <2>1 DEF Somewhere
  <2> QED BY <1>16, <1>18, <2>2 DEF Deliverable
<1>19. FollowsBut(s, c, b, batch.requests)
  BY <1>16, <1>17, <1>18 DEF FollowsBut
<1>20. mark.kind # "none"
  BY <1>3 DEF Current
<1>21. \A q \in s.requests : Barred(s, b, m, q) => Barred(s, c, mark, q)
  BY <1>3, <1>16, <1>20 DEF Barred
<1>22. \A x : Keeps(s, b, m, x) => Keeps(s, c, mark, x)
  BY <1>21 DEF Keeps
<1>23. ASSUME Keeps(s, b, m, daily) PROVE Keeps(s, c, mark, new)
  <2> SUFFICES ASSUME NEW q \in s.requests, NEW d \in Days, new[d][q.id] > 0
               PROVE  Barred(s, c, mark, q)
    BY DEF Keeps, Shows
  <2>1. CASE new[d][q.id] = daily[d][q.id]
    BY <1>21, <1>23, <2>1 DEF Keeps, Shows
  <2>2. CASE \E p \in due : p.id = q.id
    <3>1. q \in due
      BY <1>4, <1>5, <2>2 DEF GoodView
    <3> QED BY <1>3, <1>4, <3>1 DEF Barred
  <2> QED BY <1>5, <1>10, <2>1, <2>2
<1>24. \A x \in Marked(c) : MarkOK(s, x)
  BY <1>3 DEF Credited, Safe
<1> QED BY <1>14, <1>15, <1>19, <1>22, <1>23, <1>24 DEF CreditedOK

\* What one batch leaves of safe books.
Observed(s, c, b, slot, batch) ==
  /\ Safe(s, c) /\ FollowsBut(s, c, b, batch.requests)
  /\ slot = "local" => LocalKeeps(s, c)

LEMMA Rewritten ==
  ASSUME NEW p \in Memory, NEW x, NEW y
  PROVE  [[p EXCEPT !.mark = x] EXCEPT !.daily = y] = [alive |-> p.alive, sink |-> p.sink, mark |-> x, daily |-> y]
<1> DEFINE a == [p EXCEPT !.mark = x]
<1>1. p = [alive |-> p.alive, sink |-> p.sink, mark |-> p.mark, daily |-> p.daily]
  BY DEF Memory
<1>2. a = [alive |-> p.alive, sink |-> p.sink, mark |-> x, daily |-> p.daily]
  BY <1>1
<1> HIDE DEF a
<1>3. [a EXCEPT !.daily = y] = [alive |-> p.alive, sink |-> p.sink, mark |-> x, daily |-> y]
  BY <1>2
<1> QED BY <1>3 DEF a

\* What the memory of an authority credits a batch with, and its record after that.
CreditOf(p, batch)  == Credit(p.mark, p.daily[day], batch, day)
MarkAfter(p, batch) == CreditOf(p, batch).mark
AfterBatch(p, batch) == [p.daily EXCEPT ![day] = CreditOf(p, batch).record]

LEMMA CreditOfIs ==
  ASSUME NEW s, GoodView(s), NEW p \in Memory, MarkOK(s, p.mark), NEW batch, BatchOK(s, batch), day \in Days
  PROVE  MarkOK(s, MarkAfter(p, batch)) /\ MarkAfter(p, batch) \in Mark /\ AfterBatch(p, batch) \in Dailies
<1>1. p.daily \in Dailies /\ p.daily[day] \in [Request -> Nat]
  BY DEF Memory, Dailies
<1>2. MarkOK(s, MarkAfter(p, batch))
  BY CreditMark DEF MarkAfter, CreditOf
<1>3. CreditOf(p, batch).record \in [Request -> Nat]
  BY <1>1, CreditRecord DEF CreditOf
<1> QED BY <1>1, <1>2, <1>3 DEF MarkOK, Dailies, AfterBatch

OnlineTakes(c, b, mark, new) ==
  /\ Shape(c) /\ c.local = b.local /\ c.play = b.play
  /\ c.online.mark = mark /\ c.online.daily = new
  /\ c.online.sink = b.online.sink /\ c.online.alive = b.online.alive
  /\ \A x \in Range(c.core) : x \in Range(b.core) \/ (b.online.sink /\ x.mark = mark /\ x.daily \in {Last(b.core).daily, new})
  /\ b.online.sink => Last(c.core).mark = mark /\ Last(c.core).daily = new
  /\ ~ b.online.sink => c.core = b.core

LEMMA ObserveOnlineIs ==
  ASSUME NEW s, GoodView(s), NEW b, Shape(b), MarkOK(s, b.online.mark), NEW batch, BatchOK(s, batch), day \in Days
  PROVE  OnlineTakes(ObserveOnline(b, batch), b, MarkAfter(b.online, batch), AfterBatch(b.online, batch))
<1> DEFINE mark == MarkAfter(b.online, batch)
           new == AfterBatch(b.online, batch)
           o == [alive |-> b.online.alive, sink |-> b.online.sink, mark |-> mark, daily |-> new]
           seen == [b EXCEPT !.online.mark = mark, !.online.daily = new]
           c == ObserveOnline(b, batch)
<1>2. /\ b = [online |-> b.online, local |-> b.local, core |-> b.core, play |-> b.play]
      /\ b.online \in Memory /\ b.local \in Memory
      /\ b.core \in Seq(Image) /\ b.core # <<>> /\ b.play \in Seq(Dailies) /\ b.play # <<>>
  BY Fields
<1>5. c = IF b.online.sink THEN PutDaily(PutMark(seen, mark), new) ELSE seen
  BY DEF ObserveOnline, MarkAfter, AfterBatch, CreditOf
<1>6. mark \in Mark /\ new \in Dailies
  BY <1>2, CreditOfIs
<1>7. seen = [online |-> o, local |-> b.local, core |-> b.core, play |-> b.play]
  <2> HIDE DEF mark, new
  <2> DEFINE old == b.online
  <2>1. old \in Memory /\ o = [alive |-> old.alive, sink |-> old.sink, mark |-> mark, daily |-> new]
    BY <1>2
  <2> HIDE DEF old, o
  <2>2. [[old EXCEPT !.mark = mark] EXCEPT !.daily = new] = o
    BY <2>1, Rewritten
  <2> USE DEF old
  <2>3. seen = [b EXCEPT !.online = [[old EXCEPT !.mark = mark] EXCEPT !.daily = new]]
    BY <1>2
  <2> HIDE DEF o, seen, old
  <2>4. seen = [b EXCEPT !.online = o]
    BY <2>2, <2>3
  <2> QED BY <1>2, <2>4
<1> HIDE DEF mark, new, seen, c
<1>9. o \in Memory /\ o.mark = mark /\ o.daily = new /\ o.sink = b.online.sink /\ o.alive = b.online.alive
  BY <1>2, <1>6 DEF Memory
<1> HIDE DEF o
<1>10. seen.online = o /\ seen.local = b.local /\ seen.core = b.core /\ seen.play = b.play
  BY <1>7
<1>11. Shape(seen)
  BY <1>2, <1>7, <1>9, <1>10 DEF Shape, Shelves
<1>12. CASE b.online.sink
  <2>1. c = PutDaily(PutMark(seen, mark), new)
    BY <1>5, <1>12
  <2>2. WrittenBoth(c, seen, mark, new)
    BY <1>6, <1>11, <2>1, PutBothIs
  <2>3. /\ Shape(c) /\ c.online = o /\ c.local = b.local /\ c.play = b.play
        /\ Last(c.core).mark = mark /\ Last(c.core).daily = new
        /\ \A x \in Range(c.core) : x \in Range(b.core) \/ (x.mark = mark /\ x.daily \in {Last(b.core).daily, new})
    BY <1>10, <2>2 DEF WrittenBoth
  <2> QED BY <1>9, <1>12, <2>3 DEF OnlineTakes, c, mark, new
<1>13. CASE ~ b.online.sink
  <2>1. c = seen
    BY <1>5, <1>13
  <2>2. Shape(c) /\ c.online = o /\ c.local = b.local /\ c.play = b.play /\ c.core = b.core
    BY <1>10, <1>11, <2>1
  <2> QED BY <1>9, <1>13, <2>2 DEF OnlineTakes, c, mark, new
<1> QED BY <1>12, <1>13

LEMMA ObserveOnlineSafe ==
  ASSUME NEW s, GoodView(s), NEW b, Safe(s, b), NEW batch, BatchOK(s, batch), day \in Days,
         \A q \in batch.requests : Deliverable(s, b, q)
  PROVE  Observed(s, ObserveOnline(b, batch), b, "online", batch)
<1> DEFINE m == b.online.mark
           daily == b.online.daily
           mark == MarkAfter(b.online, batch)
           new == AfterBatch(b.online, batch)
           c == ObserveOnline(b, batch)
<1>1. Shape(b)
  BY DEF Safe
<1>2. /\ b = [online |-> b.online, local |-> b.local, core |-> b.core, play |-> b.play]
      /\ b.online \in Memory /\ b.local \in Memory
      /\ b.core \in Seq(Image) /\ b.core # <<>> /\ b.play \in Seq(Dailies) /\ b.play # <<>>
      /\ Last(b.core) \in Range(b.core)
  BY <1>1, Fields
<1>3. daily \in Dailies /\ daily \in Records(b, "online") /\ m \in Marked(b) /\ MarkOK(s, m)
  BY <1>2 DEF Memory, Records, Marked, Safe
<1>4. daily[day] \in [Request -> Nat]
  BY <1>3 DEF Dailies
<1>5. OnlineTakes(c, b, mark, new)
  BY <1>1, <1>3, ObserveOnlineIs
<1>8. mark = Credit(m, daily[day], batch, day).mark /\ new = [daily EXCEPT ![day] = Credit(m, daily[day], batch, day).record]
  BY DEF MarkAfter, AfterBatch, CreditOf
<1> HIDE DEF mark, new, c
<1>9. c.online.mark = mark /\ c.online.daily = new /\ c.online.sink = b.online.sink
  BY <1>5 DEF OnlineTakes
<1>12. /\ Shape(c) /\ c.local = b.local /\ c.play = b.play
       /\ \A x \in Range(c.core) : x \in Range(b.core) \/ (b.online.sink /\ x.mark = mark /\ x.daily \in {Last(b.core).daily, new})
       /\ b.online.sink => Last(c.core).daily = new
  BY <1>5 DEF OnlineTakes
<1>13. b.online.sink => Last(b.core).daily = daily
  BY <1>9 DEF Safe
<1>14. Marked(c) \subseteq Marked(b) \cup {mark}
  BY <1>9, <1>12 DEF Marked
<1>15. \A a \in Sides : Records(c, a) \subseteq Records(b, a) \cup (IF a = "online" THEN {new} ELSE {})
  <2>1. Records(c, "online") \subseteq Records(b, "online") \cup {new}
    BY <1>2, <1>9, <1>12 DEF Records
  <2>2. Records(c, "local") \subseteq Records(b, "local")
    BY <1>12 DEF Records
  <2> QED BY <2>1, <2>2 DEF Sides
<1>16. Credited(c, b, "online", mark, new)
  BY <1>12, <1>14, <1>15 DEF Credited
<1>17. /\ Once(c) /\ Exact(s, c) /\ FollowsBut(s, c, b, batch.requests)
       /\ \A x \in Marked(c) : MarkOK(s, x)
       /\ \A x : Keeps(s, b, m, x) => Keeps(s, c, mark, x)
       /\ Keeps(s, b, m, daily) => Keeps(s, c, mark, new)
  <2>1. "online" \in Sides
    BY DEF Sides
  <2> HIDE DEF m, daily
  <2>2. CreditedOK(s, c, b, batch, m, daily, mark, new)
    BY <1>3, <1>8, <1>16, <2>1, CreditedSafe
  <2> QED BY <2>2 DEF CreditedOK
<1>18. Keeps(s, c, mark, new) /\ Keeps(s, c, mark, daily)
  BY <1>17 DEF Safe
<1>19. \A q \in s.requests : q.id <= s.borrowed => Common(s, c, q)
  BY <1>17 DEF Safe, FollowsBut
<1>20. \A x \in Range(c.core) : Keeps(s, c, x.mark, x.daily)
  <2> SUFFICES ASSUME NEW x \in Range(c.core) PROVE Keeps(s, c, x.mark, x.daily)
    OBVIOUS
  <2>1. CASE x \in Range(b.core)
    BY <1>17, <2>1 DEF Safe, FollowsBut
  <2>2. CASE b.online.sink /\ x.mark = mark /\ x.daily \in {Last(b.core).daily, new}
    BY <1>13, <1>18, <2>2
  <2> QED BY <1>12, <2>1, <2>2
<1>21. Safe(s, c)
  BY <1>9, <1>12, <1>17, <1>18, <1>19, <1>20 DEF Safe
<1> QED BY <1>17, <1>21 DEF Observed, c

LocalTakes(c, b, mark, new) ==
  /\ Shape(c) /\ c.online = b.online
  /\ c.local.mark = mark /\ c.local.daily = new
  /\ c.local.sink = b.local.sink /\ c.local.alive = b.local.alive
  /\ \A x \in Range(c.core) : x \in Range(b.core) \/ (b.local.sink /\ x.mark = mark /\ x.daily = Last(b.core).daily)
  /\ Last(c.core).daily = Last(b.core).daily
  /\ Range(c.play) \subseteq Range(b.play) \cup {new}
  /\ b.local.sink => Last(c.core).mark = mark /\ Last(c.play) = new
  /\ ~ b.local.sink => c.core = b.core /\ c.play = b.play

LEMMA ObserveLocalIs ==
  ASSUME NEW s, GoodView(s), NEW b, Shape(b), MarkOK(s, b.local.mark), NEW batch, BatchOK(s, batch), day \in Days
  PROVE  LocalTakes(ObserveLocal(b, batch), b, MarkAfter(b.local, batch), AfterBatch(b.local, batch))
<1> DEFINE mark == MarkAfter(b.local, batch)
           new == AfterBatch(b.local, batch)
           o == [alive |-> b.local.alive, sink |-> b.local.sink, mark |-> mark, daily |-> new]
           seen == [b EXCEPT !.local.mark = mark, !.local.daily = new]
           put == PutMark(seen, mark)
           play == Put(b.play, new)
           c == ObserveLocal(b, batch)
<1>2. /\ b = [online |-> b.online, local |-> b.local, core |-> b.core, play |-> b.play]
      /\ b.online \in Memory /\ b.local \in Memory
      /\ b.core \in Seq(Image) /\ b.core # <<>> /\ b.play \in Seq(Dailies) /\ b.play # <<>>
  BY Fields
<1>5. c = IF b.local.sink THEN [put EXCEPT !.play = Put(@, new)] ELSE seen
  BY DEF ObserveLocal, MarkAfter, AfterBatch, CreditOf
<1>6. mark \in Mark /\ new \in Dailies
  BY <1>2, CreditOfIs
<1>7. seen = [online |-> b.online, local |-> o, core |-> b.core, play |-> b.play]
  <2> HIDE DEF mark, new
  <2> DEFINE old == b.local
  <2>1. old \in Memory /\ o = [alive |-> old.alive, sink |-> old.sink, mark |-> mark, daily |-> new]
    BY <1>2
  <2> HIDE DEF old, o
  <2>2. [[old EXCEPT !.mark = mark] EXCEPT !.daily = new] = o
    BY <2>1, Rewritten
  <2> USE DEF old
  <2>3. seen = [b EXCEPT !.local = [[old EXCEPT !.mark = mark] EXCEPT !.daily = new]]
    BY <1>2
  <2> HIDE DEF o, seen, old
  <2>4. seen = [b EXCEPT !.local = o]
    BY <2>2, <2>3
  <2> QED BY <1>2, <2>4
<1> HIDE DEF mark, new, seen, c
<1>9. o \in Memory /\ o.mark = mark /\ o.daily = new /\ o.sink = b.local.sink /\ o.alive = b.local.alive
  BY <1>2, <1>6 DEF Memory
<1> HIDE DEF o
<1>10. seen.online = b.online /\ seen.local = o /\ seen.core = b.core /\ seen.play = b.play
  BY <1>7
<1>11. Shape(seen)
  BY <1>2, <1>7, <1>9, <1>10 DEF Shape, Shelves
<1>12. play \in Seq(Dailies) /\ play # <<>> /\ Range(play) = Range(b.play) \cup {new} /\ Last(play) = new
  BY <1>2, <1>6, PutIs
<1>13. CASE b.local.sink
  <2>1. Written(put, seen, mark, Last(seen.core).daily)
    BY <1>6, <1>11, PutMarkIs
  <2> HIDE DEF put, play
  <2>2. /\ Shape(put) /\ put.online = b.online /\ put.local = o /\ put.play = b.play
        /\ Last(put.core).mark = mark /\ Last(put.core).daily = Last(b.core).daily
        /\ Range(put.core) = Range(b.core) \cup {Last(put.core)}
    BY <1>10, <2>1 DEF Written
  <2>3. put = [online |-> put.online, local |-> put.local, core |-> put.core, play |-> put.play]
        /\ put.core \in Seq(Image) /\ put.core # <<>>
    BY <2>2, Fields
  <2>4. c = [put EXCEPT !.play = play]
    BY <1>5, <1>13, <2>2 DEF play
  <2>5. c = [online |-> b.online, local |-> o, core |-> put.core, play |-> play]
    BY <2>2, <2>3, <2>4
  <2>6. c.online = b.online /\ c.local = o /\ c.core = put.core /\ c.play = play
    BY <2>5
  <2>7. Shape(c)
    BY <1>2, <1>9, <1>12, <2>3, <2>5, <2>6 DEF Shape, Shelves
  <2> QED BY <1>9, <1>12, <1>13, <2>2, <2>6, <2>7 DEF LocalTakes, c, mark, new
<1>14. CASE ~ b.local.sink
  <2>1. c = seen
    BY <1>5, <1>14
  <2>2. Shape(c) /\ c.online = b.online /\ c.local = o /\ c.play = b.play /\ c.core = b.core
    BY <1>10, <1>11, <2>1
  <2> QED BY <1>9, <1>14, <2>2 DEF LocalTakes, c, mark, new
<1> QED BY <1>13, <1>14

LEMMA ObserveLocalSafe ==
  ASSUME NEW s, GoodView(s), NEW b, Safe(s, b), LocalKeeps(s, b), NEW batch, BatchOK(s, batch), day \in Days,
         \A q \in batch.requests : Deliverable(s, b, q)
  PROVE  Observed(s, ObserveLocal(b, batch), b, "local", batch)
<1> DEFINE m == b.local.mark
           daily == b.local.daily
           mark == MarkAfter(b.local, batch)
           new == AfterBatch(b.local, batch)
           c == ObserveLocal(b, batch)
<1>1. Shape(b)
  BY DEF Safe
<1>2. /\ b = [online |-> b.online, local |-> b.local, core |-> b.core, play |-> b.play]
      /\ b.online \in Memory /\ b.local \in Memory
      /\ b.core \in Seq(Image) /\ b.core # <<>> /\ b.play \in Seq(Dailies) /\ b.play # <<>>
      /\ Last(b.core) \in Range(b.core)
  BY <1>1, Fields
<1>3. daily \in Dailies /\ daily \in Records(b, "local") /\ m \in Marked(b) /\ MarkOK(s, m)
  BY <1>2 DEF Memory, Records, Marked, Safe
<1>4. daily[day] \in [Request -> Nat]
  BY <1>3 DEF Dailies
<1>5. LocalTakes(c, b, mark, new)
  BY <1>1, <1>3, ObserveLocalIs
<1>8. mark = Credit(m, daily[day], batch, day).mark /\ new = [daily EXCEPT ![day] = Credit(m, daily[day], batch, day).record]
  BY DEF MarkAfter, AfterBatch, CreditOf
<1> HIDE DEF mark, new, c
<1>9. c.local.mark = mark /\ c.local.daily = new /\ c.local.sink = b.local.sink
  BY <1>5 DEF LocalTakes
<1>13. /\ Shape(c) /\ c.online = b.online
       /\ \A x \in Range(c.core) : x \in Range(b.core) \/ (b.local.sink /\ x.mark = mark /\ x.daily = Last(b.core).daily)
       /\ Last(c.core).daily = Last(b.core).daily
       /\ Range(c.play) \subseteq Range(b.play) \cup {new}
  BY <1>5 DEF LocalTakes
<1>14. Marked(c) \subseteq Marked(b) \cup {mark}
  BY <1>9, <1>13 DEF Marked
<1>15. \A a \in Sides : Records(c, a) \subseteq Records(b, a) \cup (IF a = "local" THEN {new} ELSE {})
  <2>1. Records(c, "local") \subseteq Records(b, "local") \cup {new}
    BY <1>9, <1>13 DEF Records
  <2>2. Records(c, "online") \subseteq Records(b, "online")
    BY <1>2, <1>13 DEF Records
  <2> QED BY <2>1, <2>2 DEF Sides
<1>16. Credited(c, b, "local", mark, new)
  BY <1>13, <1>14, <1>15 DEF Credited
<1>17. /\ Once(c) /\ Exact(s, c) /\ FollowsBut(s, c, b, batch.requests)
       /\ \A x \in Marked(c) : MarkOK(s, x)
       /\ \A x : Keeps(s, b, m, x) => Keeps(s, c, mark, x)
  <2>1. "local" \in Sides
    BY DEF Sides
  <2> HIDE DEF m, daily
  <2>2. CreditedOK(s, c, b, batch, m, daily, mark, new)
    BY <1>3, <1>8, <1>16, <2>1, CreditedSafe
  <2> QED BY <2>2 DEF CreditedOK
<1>18. b.local.sink => Keeps(s, c, mark, Last(b.core).daily)
  BY <1>9, <1>17 DEF LocalKeeps
<1>19. \A q \in s.requests : q.id <= s.borrowed => Common(s, c, q)
  BY <1>17 DEF Safe, FollowsBut
<1>20. \A x \in Range(c.core) : Keeps(s, c, x.mark, x.daily)
  <2> SUFFICES ASSUME NEW x \in Range(c.core) PROVE Keeps(s, c, x.mark, x.daily)
    OBVIOUS
  <2>1. CASE x \in Range(b.core)
    BY <1>17, <2>1 DEF Safe, FollowsBut
  <2>2. CASE b.local.sink /\ x.mark = mark /\ x.daily = Last(b.core).daily
    BY <1>18, <2>2
  <2> QED BY <1>13, <2>1, <2>2
<1>21. Keeps(s, c, c.online.mark, c.online.daily) /\ (c.online.sink => Last(c.core).daily = c.online.daily)
  BY <1>13, <1>17 DEF Safe, FollowsBut
<1>22. Safe(s, c)
  BY <1>13, <1>17, <1>19, <1>20, <1>21 DEF Safe
<1>23. LocalKeeps(s, c)
  BY <1>9, <1>13, <1>18 DEF LocalKeeps
<1> QED BY <1>17, <1>22, <1>23 DEF Observed, c

\* Batches that no one has had yet.
Queue(s, b, batches) ==
  /\ batches \in Seq(Batches)
  /\ \A i \in DOMAIN batches : BatchOK(s, batches[i]) /\ \A q \in batches[i].requests : Deliverable(s, b, q)
  /\ \A i, j \in DOMAIN batches : \A q \in batches[i].requests \cap batches[j].requests : i = j

LEMMA ObserveSafe ==
  ASSUME NEW s, GoodView(s), NEW b, Safe(s, b), NEW batch, BatchOK(s, batch), day \in Days,
         \A q \in batch.requests : Deliverable(s, b, q),
         NEW slot \in Sides, slot = "local" => LocalKeeps(s, b)
  PROVE  Observed(s, Observe(b, slot, batch), b, slot, batch)
<1>1. CASE slot = "online"
  BY <1>1, ObserveOnlineSafe DEF Observe
<1>2. CASE slot = "local"
  BY <1>2, ObserveLocalSafe DEF Observe
<1> QED BY <1>1, <1>2 DEF Sides

\* What the batches leave: only what they brought can be new.
Arrived(s, c, b, slot, batches) ==
  /\ Safe(s, c)
  /\ slot = "local" => LocalKeeps(s, c)
  /\ \A q \in s.requests :
       Deliverable(s, b, q) /\ (\A i \in DOMAIN batches : q \notin batches[i].requests) => Deliverable(s, c, q)

LEMMA DeliveredSafe ==
  ASSUME NEW s, GoodView(s), NEW b, Safe(s, b), day \in Days,
         NEW slot \in Sides, slot = "local" => LocalKeeps(s, b),
         NEW batches, Queue(s, b, batches)
  PROVE  Arrived(s, Delivered(b, slot, batches), b, slot, batches)
<1> DEFINE N == Len(batches)
<1>1. N \in Nat /\ DOMAIN batches = 1 .. N
  BY DEF Queue
<1> HIDE DEF N
<1>2. PICK G : IsFlow(b, slot, batches, N, G) /\ Delivered(b, slot, batches) = G[N]
  BY <1>1, DeliveredFlow
<1> DEFINE Good(n) ==
             /\ Safe(s, G[n])
             /\ slot = "local" => LocalKeeps(s, G[n])
             /\ \A q \in s.requests :
                  Deliverable(s, b, q) /\ (\A i \in 1 .. n : q \notin batches[i].requests) => Deliverable(s, G[n], q)
           B == {n \in 0 .. N : ~ Good(n)}
<1>3. Good(0)
  <2>1. G[0] = b
    BY <1>2 DEF IsFlow
  <2> QED BY <2>1
<1>4. ASSUME NEW n \in 1 .. N, Good(n - 1) PROVE Good(n)
  <2> DEFINE a == G[n - 1]
             c == G[n]
             batch == batches[n]
  <2>1. c = Observe(a, slot, batch)
    BY <1>2 DEF IsFlow
  <2>2. BatchOK(s, batch) /\ batch.requests \subseteq s.requests
    BY <1>1 DEF Queue, BatchOK
  <2>3. \A q \in batch.requests : Deliverable(s, b, q) /\ \A i \in 1 .. n - 1 : q \notin batches[i].requests
    <3>1. \A i \in 1 .. n - 1 : i \in 1 .. N /\ i # n
      BY <1>1
    <3> QED BY <1>1, <3>1 DEF Queue
  <2>4. \A q \in batch.requests : Deliverable(s, a, q)
    BY <1>4, <2>2, <2>3
  <2>5. Safe(s, a) /\ (slot = "local" => LocalKeeps(s, a))
    BY <1>4
  <2> HIDE DEF a, c, batch
  <2>6. Observed(s, c, a, slot, batch)
    BY <2>1, <2>2, <2>4, <2>5, ObserveSafe
  <2>7. ASSUME NEW q \in s.requests, Deliverable(s, b, q), \A i \in 1 .. n : q \notin batches[i].requests
        PROVE  Deliverable(s, c, q)
    <3>1. q \notin batch.requests
      <4>1. n \in 1 .. n
        OBVIOUS
      <4> QED BY <2>7, <4>1 DEF batch
    <3>2. \A i \in 1 .. n - 1 : i \in 1 .. n
      OBVIOUS
    <3>3. Deliverable(s, a, q)
      BY <1>4, <2>7, <3>2 DEF a
    <3> QED BY <2>6, <3>1, <3>3 DEF Observed, FollowsBut
  <2> QED BY <2>6, <2>7 DEF Observed, c
<1>5. B = {}
  <2> SUFFICES ASSUME NEW z \in B PROVE FALSE
    OBVIOUS
  <2>1. PICK m \in B : \A n \in B : m <= n
    <3>1. B \in SUBSET Nat
      OBVIOUS
    <3> HIDE DEF B
    <3> QED BY <3>1, LeastNumber
  <2> HIDE DEF Good
  <2>2. m # 0
    BY <1>3
  <2>3. m \in 1 .. N /\ m - 1 \in 0 .. N /\ m - 1 \notin B
    BY <1>1, <2>1, <2>2
  <2>4. Good(m - 1)
    BY <2>3
  <2> QED BY <1>4, <2>3, <2>4
<1>6. Good(N)
  <2>1. N \in 0 .. N
    BY <1>1
  <2> HIDE DEF Good
  <2> QED BY <1>5, <2>1
<1> QED BY <1>1, <1>2, <1>6 DEF Arrived

LEMMA QueueFollows ==
  ASSUME NEW s, NEW b, NEW batches, Queue(s, b, batches), NEW c, Follows(s, c, b)
  PROVE  Queue(s, c, batches)
BY DEF Queue, Follows, BatchOK

LEMMA NoBatches ==
  ASSUME NEW s, NEW b
  PROVE  Queue(s, b, <<>>)
<1>1. <<>> \in Seq(Batches) /\ DOMAIN <<>> = {}
  OBVIOUS
<1> QED BY <1>1 DEF Queue
-----------------------------------------------------------------------------
(* The log grows under the books. *)

Extended(t, s) ==
  /\ t.format = s.format /\ t.live = s.live /\ t.borrowed = s.borrowed /\ t.length = s.length + 1
  /\ s.requests \subseteq t.requests
  /\ \A q \in t.requests \ s.requests :
       /\ q.end = t.length /\ q.id > s.borrowed
       /\ \A p \in s.requests : p.id # q.id

LEMMA ExtendedSafe ==
  ASSUME NEW s, GoodView(s), NEW t, GoodView(t), Extended(t, s), NEW b, Safe(s, b)
  PROVE  /\ Safe(t, b) /\ (LocalKeeps(s, b) => LocalKeeps(t, b))
         /\ \A q \in s.requests : Deliverable(s, b, q) => Deliverable(t, b, q)
         /\ \A q \in t.requests \ s.requests : Deliverable(t, b, q)
         /\ \A batches : Queue(s, b, batches) => Queue(t, b, batches)
<1>1. /\ t.format = s.format /\ t.live = s.live /\ t.borrowed = s.borrowed /\ t.length = s.length + 1
      /\ s.requests \subseteq t.requests
      /\ \A q \in t.requests \ s.requests : q.id > s.borrowed /\ \A p \in s.requests : p.id # q.id
  BY DEF Extended
<1>2. \A q \in t.requests : q.id \in Request
  BY DEF GoodView, Views, Closings
<1>3. \A m, q : (Current(t, m) <=> Current(s, m)) /\ (Bars(t, m, q) <=> Bars(s, m, q)) /\ (Sure(t, m, q) <=> Sure(s, m, q))
  BY <1>1 DEF Current, Bars, Sure
<1>4. \A q : Common(t, b, q) <=> Common(s, b, q)
  BY <1>1, <1>3 DEF Common
<1>5. \A m, q : Barred(t, b, m, q) <=> Barred(s, b, m, q)
  BY <1>3, <1>4 DEF Barred
<1>6. \A q \in t.requests \ s.requests, a \in Sides : \A rec \in Records(b, a) : ~ Shows(rec, q)
  BY <1>1, <1>2 DEF Safe, Exact, Shows
<1>7. \A m : \A a \in Sides : \A rec \in Records(b, a) : Keeps(s, b, m, rec) => Keeps(t, b, m, rec)
  BY <1>1, <1>5, <1>6 DEF Keeps
<1>8. \A m : MarkOK(s, m) <=> MarkOK(t, m)
  BY <1>1 DEF MarkOK
<1>9. Exact(t, b)
  BY <1>1 DEF Safe, Exact
<1>10. \A q \in t.requests : q.id <= t.borrowed => Common(t, b, q)
  <2> SUFFICES ASSUME NEW q \in t.requests, q.id <= t.borrowed PROVE q \in s.requests
    BY <1>1, <1>4 DEF Safe
  <2>1. q.id \in Nat /\ s.borrowed \in Nat
    BY <1>2, UsageConstants DEF Request, GoodView, Views
  <2>2. ~ (q.id > s.borrowed)
    BY <1>1, <2>1
  <2> QED BY <1>1, <2>2
<1>11. "online" \in Sides /\ \A x \in Range(b.core) : x.daily \in Records(b, "online")
  BY DEF Sides, Records
<1>12. \A x \in Range(b.core) : Keeps(t, b, x.mark, x.daily)
  <2>1. \A x \in Range(b.core) : Keeps(s, b, x.mark, x.daily)
    BY DEF Safe
  <2> QED BY <1>7, <1>11, <2>1
<1>13. Keeps(t, b, b.online.mark, b.online.daily)
  <2>1. b.online.daily \in Records(b, "online") /\ Keeps(s, b, b.online.mark, b.online.daily)
    BY DEF Records, Safe
  <2> QED BY <1>7, <1>11, <2>1
<1>14. LocalKeeps(s, b) => LocalKeeps(t, b)
  <2>1. Last(b.core) \in Range(b.core)
    BY Fields DEF Safe
  <2>2. Last(b.core).daily \in Records(b, "online")
    BY <1>11, <2>1
  <2> QED BY <1>7, <1>11, <2>2 DEF LocalKeeps
<1>15. Safe(t, b)
  BY <1>8, <1>9, <1>10, <1>12, <1>13 DEF Safe
<1>16. \A q \in s.requests : Deliverable(s, b, q) => Deliverable(t, b, q)
  BY <1>4 DEF Deliverable
<1>17. \A q \in t.requests \ s.requests : Deliverable(t, b, q)
  <2> SUFFICES ASSUME NEW q \in t.requests \ s.requests PROVE ~ Somewhere(b, q.id)
    BY DEF Deliverable
  <2> QED BY <1>6 DEF Somewhere, In, Shows
<1>18. ASSUME NEW batches, Queue(s, b, batches) PROVE Queue(t, b, batches)
  <2>1. batches \in Seq(Batches) /\ \A i, j \in DOMAIN batches : \A q \in batches[i].requests \cap batches[j].requests : i = j
    BY <1>18 DEF Queue
  <2>2. ASSUME NEW i \in DOMAIN batches
        PROVE  BatchOK(t, batches[i]) /\ \A q \in batches[i].requests : Deliverable(t, b, q)
    <3>1. BatchOK(s, batches[i]) /\ \A q \in batches[i].requests : Deliverable(s, b, q)
      BY <1>18 DEF Queue
    <3>2. batches[i].through \in Nat /\ s.length \in Nat
      BY <3>1 DEF BatchOK, Batches, GoodView, Views
    <3>3. batches[i].through <= t.length
      BY <1>1, <3>1, <3>2 DEF BatchOK
    <3>4. BatchOK(t, batches[i])
      BY <1>1, <3>1, <3>3 DEF BatchOK
    <3> QED BY <1>16, <3>1, <3>4 DEF BatchOK
  <2> QED BY <2>1, <2>2 DEF Queue
<1> QED BY <1>14, <1>15, <1>16, <1>17, <1>18

LEMMA GrowsExtended ==
  ASSUME LogSound, Grows, UNCHANGED <<format, borrowed, live>>
  PROVE  Extended(View', View)
<1>1. View' = [requests |-> Requests', format |-> format, live |-> live, length |-> Len(log'), borrowed |-> borrowed]
  BY DEF View
<1> QED BY <1>1, ViewIs DEF Grows, Extended

LEMMA QueueJoins ==
  ASSUME NEW s, NEW b, NEW x, Queue(s, b, x), NEW y, Queue(s, b, y),
         \A i \in DOMAIN x, j \in DOMAIN y : \A q \in x[i].requests : q \notin y[j].requests
  PROVE  Queue(s, b, x \o y)
<1> DEFINE z == x \o y
<1>1. x \in Seq(Batches) /\ y \in Seq(Batches)
  BY DEF Queue
<1>2. /\ Len(x) \in Nat /\ Len(y) \in Nat /\ DOMAIN x = 1 .. Len(x) /\ DOMAIN y = 1 .. Len(y)
      /\ z \in Seq(Batches) /\ DOMAIN z = 1 .. Len(x) + Len(y)
      /\ \A i \in 1 .. Len(x) + Len(y) : z[i] = IF i <= Len(x) THEN x[i] ELSE y[i - Len(x)]
  BY <1>1
<1> HIDE DEF z
<1>3. \A i \in DOMAIN z : \/ i \in DOMAIN x /\ z[i] = x[i]
                          \/ i - Len(x) \in DOMAIN y /\ z[i] = y[i - Len(x)] /\ i \in Nat
  BY <1>2
<1>4. \A i \in DOMAIN z : BatchOK(s, z[i]) /\ \A q \in z[i].requests : Deliverable(s, b, q)
  BY <1>3 DEF Queue
<1>5. ASSUME NEW i \in DOMAIN z, NEW j \in DOMAIN z, NEW q \in z[i].requests \cap z[j].requests PROVE i = j
  <2>1. CASE i \in DOMAIN x /\ z[i] = x[i] /\ j \in DOMAIN x /\ z[j] = x[j]
    BY <1>5, <2>1 DEF Queue
  <2>2. CASE /\ i - Len(x) \in DOMAIN y /\ z[i] = y[i - Len(x)] /\ i \in Nat
             /\ j - Len(x) \in DOMAIN y /\ z[j] = y[j - Len(x)] /\ j \in Nat
    <3>1. i - Len(x) = j - Len(x)
      BY <1>5, <2>2 DEF Queue
    <3> QED BY <1>2, <2>2, <3>1
  <2> QED BY <1>3, <1>5, <2>1, <2>2
<1>6. Queue(s, b, z)
  BY <1>2, <1>4, <1>5 DEF Queue
<1> QED BY <1>6 DEF z
-----------------------------------------------------------------------------
(* The books a process finds when it starts. *)

Restarted(t, s) ==
  /\ t.borrowed = s.borrowed /\ t.live = t.length
  /\ \/ t.requests = s.requests /\ t.format = s.format
     \/ t.requests = {Moved(q) : q \in s.requests} /\ s.format = 1 /\ t.format = 2

\* One request before and after, and what a watermark says of it.
Same(s, t, m, p, q) ==
  p \in s.requests /\ q \in t.requests /\ p.id = q.id /\ p.tokens = q.tokens /\ (Bars(s, m, p) => Bars(t, m, q))

LEMMA RestartedSame ==
  ASSUME NEW s, GoodView(s), NEW t, GoodView(t), Restarted(t, s), NEW m, MarkOK(s, m)
  PROVE  /\ MarkOK(t, m)
         /\ \A q \in t.requests : \E p \in s.requests : Same(s, t, m, p, q)
         /\ \A p \in s.requests : \E q \in t.requests : Same(s, t, m, p, q)
<1>1. CASE t.requests = s.requests /\ t.format = s.format
  BY <1>1 DEF Same, Bars, Current, MarkOK
<1>2. CASE t.requests = {Moved(q) : q \in s.requests} /\ s.format = 1 /\ t.format = 2
  <2>1. m.kind = "offsets" => m.format = 1
    BY <1>2 DEF MarkOK
  <2>2. ~ Current(t, m)
    BY <1>2, <2>1 DEF Current
  <2>3. MarkOK(t, m)
    BY <1>2, <2>1 DEF MarkOK
  <2>4. \A p \in s.requests : Moved(p).id = p.id /\ Moved(p).tokens = p.tokens /\ Moved(p) \in t.requests
    BY <1>2 DEF Moved
  <2>5. \A p, q : Bars(s, m, p) => Bars(t, m, q)
    BY <2>2 DEF Bars
  <2>6. \A p \in s.requests : Same(s, t, m, p, Moved(p))
    BY <2>4, <2>5 DEF Same
  <2> QED BY <1>2, <2>3, <2>4, <2>6
<1> QED BY <1>1, <1>2 DEF Restarted

LEMMA RestartSafe ==
  ASSUME NEW s, GoodView(s), NEW t, GoodView(t), Restarted(t, s), NEW b, Safe(s, b),
         NEW x \in Range(b.core), NEW y \in Range(b.play),
         \A q \in s.requests : Shows(y, q) => Bars(s, x.mark, q)
  PROVE  /\ Safe(t, AtStart(<<x>>, <<y>>)) /\ ~ AtStart(<<x>>, <<y>>).local.sink
         /\ \A q \in t.requests : Deliverable(t, AtStart(<<x>>, <<y>>), q)
<1> DEFINE c == AtStart(<<x>>, <<y>>)
           m == x.mark
           k == <<x>>
           j == <<y>>
<1>1. Range(b.core) \subseteq Image /\ Range(b.play) \subseteq Dailies
  BY Fields DEF Safe
<1>2. x \in Image /\ y \in Dailies /\ x.daily \in Dailies /\ m \in Marked(b) /\ MarkOK(s, m)
  BY <1>1 DEF Image, Marked, Safe
<1>3. k \in Seq(Image) /\ k # <<>> /\ Last(k) = x /\ Range(k) = {x}
  BY <1>2, DurableIs DEF Durable
<1>4. j \in Seq(Dailies) /\ j # <<>> /\ Range(j) = {y}
  BY <1>2, DurableIs DEF Durable
<1> HIDE DEF k, j
<1>5. c = [online |-> IF Default = "online" THEN Fresh ELSE Gone, local |-> Gone, core |-> k, play |-> j]
  BY DEF AtStart, k, j
<1> HIDE DEF c
<1>6. c.online \in {Fresh, Gone} /\ c.local = Gone /\ c.core = k /\ c.play = j
  BY <1>5
<1>7. Shape(c)
  BY <1>3, <1>4, <1>5, <1>6, NothingIs DEF Shape, Shelves
<1>8. c.online.mark = NoMark /\ c.online.daily = Empty /\ ~ c.online.sink
      /\ c.local.mark = NoMark /\ c.local.daily = Empty /\ ~ c.local.sink
  BY <1>6, NothingIs
<1>9. Marked(c) \subseteq {NoMark, m} /\ Records(c, "online") = {Empty, x.daily} /\ Records(c, "local") = {Empty, y}
  BY <1>3, <1>4, <1>6, <1>8 DEF Marked, Records
<1>10. /\ MarkOK(t, m)
       /\ \A q \in t.requests : \E p \in s.requests : Same(s, t, m, p, q)
       /\ \A p \in s.requests : \E q \in t.requests : Same(s, t, m, p, q)
  BY <1>2, RestartedSame
<1>11. \A q \in t.requests : q.end <= t.live /\ q.id \in Request
  BY DEF GoodView, Views, Closings, Restarted
<1>12. \A q \in t.requests : m.kind = "none" \/ Bars(t, m, q) => Common(t, c, q)
  BY <1>9, <1>11, NothingIs DEF Common
<1>13. ASSUME NEW p \in s.requests, Shows(x.daily, p) PROVE Bars(s, m, p)
  <2>1. Barred(s, b, m, p)
    BY <1>13 DEF Safe, Keeps
  <2>2. CASE Sure(s, m, p)
    BY <2>2 DEF Sure, Bars, Current
  <2>3. CASE m.kind # "none" /\ Common(s, b, p)
    BY <1>2, <2>3 DEF Common
  <2> QED BY <2>1, <2>2, <2>3 DEF Barred
<1>14. ASSUME NEW q \in t.requests, Shows(x.daily, q) \/ Shows(y, q) PROVE Bars(t, m, q) /\ Common(t, c, q)
  <2>1. PICK p \in s.requests : Same(s, t, m, p, q)
    BY <1>10
  <2>2. Shows(x.daily, p) \/ Shows(y, p)
    BY <1>14, <2>1 DEF Same, Shows
  <2>3. Bars(s, m, p)
    BY <1>13, <2>2
  <2> QED BY <1>12, <2>1, <2>3 DEF Same
<1>15. \A q : ~ Shows(Empty, q) \/ q.id \notin Request
  BY NothingIs DEF Shows
<1>16. \A q \in t.requests : Somewhere(c, q.id) => Shows(x.daily, q) \/ Shows(y, q)
  <2> SUFFICES ASSUME NEW q \in t.requests, NEW a \in Sides, NEW d \in Days, NEW rec \in Records(c, a), rec[d][q.id] > 0
               PROVE  Shows(x.daily, q) \/ Shows(y, q)
    BY DEF Somewhere, In
  <2>1. rec \in {Empty, x.daily, y}
    BY <1>9 DEF Sides
  <2>2. Shows(rec, q)
    BY DEF Shows
  <2>3. rec # Empty
    BY <1>11, <1>15, <2>2
  <2> QED BY <2>1, <2>2, <2>3
<1>17. \A q \in t.requests : Deliverable(t, c, q)
  BY <1>14, <1>16 DEF Deliverable
<1>18. \A z \in Marked(c) : MarkOK(t, z)
  <2>1. MarkOK(t, NoMark)
    BY NothingIs DEF MarkOK
  <2> QED BY <1>9, <1>10, <2>1
<1>19. ASSUME NEW a \in Sides, NEW rec \in Records(c, a), NEW d \in Days, NEW r \in Request, rec[d][r] > 0
       PROVE  rec \in Records(b, a)
  <2>1. ~ (0 > 0) /\ Empty[d][r] = 0
    BY NothingIs
  <2>2. rec # Empty
    BY <1>19, <2>1
  <2>3. x.daily \in Records(b, "online") /\ y \in Records(b, "local")
    BY DEF Records
  <2> QED BY <1>9, <2>2, <2>3 DEF Sides
<1>20. Once(c)
  <2>1. \A a \in Sides, d \in Days, r \in Request : In(c, a, d, r) => In(b, a, d, r)
    BY <1>19 DEF In
  <2> QED BY <2>1 DEF Safe, Once
<1>21. Exact(t, c)
  <2> SUFFICES ASSUME NEW a \in Sides, NEW rec \in Records(c, a), NEW d \in Days, NEW r \in Request, rec[d][r] > 0
               PROVE  r > t.borrowed /\ \E q \in t.requests : q.id = r /\ rec[d][r] = q.tokens
    BY DEF Exact
  <2>1. rec \in Records(b, a)
    BY <1>19
  <2>2. r > s.borrowed /\ \E p \in s.requests : p.id = r /\ rec[d][r] = p.tokens
    BY <2>1 DEF Safe, Exact
  <2> QED BY <1>10, <2>2 DEF Same, Restarted
<1>22. \A q \in t.requests : q.id <= t.borrowed => Common(t, c, q)
  <2> SUFFICES ASSUME NEW q \in t.requests, q.id <= t.borrowed PROVE Common(t, c, q)
    OBVIOUS
  <2>1. PICK p \in s.requests : Same(s, t, m, p, q)
    BY <1>10
  <2>2. Common(s, b, p)
    BY <2>1 DEF Safe, Same, Restarted
  <2>3. m.kind = "none" \/ Bars(s, m, p)
    BY <1>2, <2>2 DEF Common
  <2> QED BY <1>12, <2>1, <2>3 DEF Same
<1>23. Keeps(t, c, m, x.daily)
  BY <1>14 DEF Keeps, Barred, Bars
<1>24. \A z \in Range(c.core) : Keeps(t, c, z.mark, z.daily)
  BY <1>3, <1>6, <1>23
<1>25. Keeps(t, c, c.online.mark, c.online.daily)
  BY <1>8, KeepsNothing
<1>26. Safe(t, c)
  BY <1>7, <1>8, <1>18, <1>20, <1>21, <1>22, <1>24, <1>25 DEF Safe
<1> QED BY <1>8, <1>17, <1>26 DEF c, k, j
-----------------------------------------------------------------------------
(* The control of the Host, and its accounts. *)

Modes == [selected : Sides, slot : Sides]

Control ==
  /\ mode \in Modes
  /\ change \in [to : {"none", "online", "local"}, pc : {"idle", "barrier", "prepare", "commit"}]
  /\ change # NoChange => storage = "open"
  /\ storage = "open" => booted
  /\ ~ Held => pending = <<>>
  /\ watching # "on" => pending = <<>>

\* The local authority is in the slot, or is next.
LocalWins == mode.slot = "local" \/ change = [to |-> "local", pc |-> "commit"]

Accounts ==
  /\ Safe(View, books) /\ Queue(View, books, pending)
  /\ LocalWins => LocalKeeps(View, books)
  /\ watching # "on" => \A q \in Requests : Deliverable(View, books, q)
  /\ ~ booted => ~ books.local.sink

OnceInv == LogSound /\ Control /\ (~ torn => Accounts)

LEMMA ControlInit == Init => Control
BY UsageConstants DEF Init, Control, Modes, Sides, NoChange, Held

LEMMA ControlFlushed ==
  ASSUME Control, pending' = <<>>, change' = NoChange, mode' \in Modes, storage' = "open" => booted', UNCHANGED watching
  PROVE  Control'
BY DEF Control, NoChange, Held

LEMMA ControlHappens ==
  ASSUME Control, NEW kind, NEW id, Happens(kind, id)
  PROVE  Control'
<1>1. /\ UNCHANGED <<mode, storage, booted, change>>
      /\ watching' = IF watching = "unlisted" THEN "on" ELSE watching
      /\ ~ Held => pending' = pending
      /\ Held => pending' = pending \o Reports(log')
  BY DEF Happens, startup, Deliver
<1>2. watching' # "on" => pending' = <<>>
  <2> SUFFICES ASSUME watching' # "on" PROVE pending' = <<>>
    OBVIOUS
  <2>1. watching # "on" /\ watching # "unlisted" /\ pending = <<>>
    BY <1>1 DEF Control
  <2>2. Reports(log') = <<>>
    BY <2>1 DEF Reports
  <2> QED BY <1>1, <2>1, <2>2
<1>3. ~ Held' => pending' = <<>>
  BY <1>1 DEF Control, Held
<1> QED BY <1>1, <1>2, <1>3 DEF Control

LEMMA ControlObservation == ASSUME Control, Observation PROVE Control'
<1>1. CASE BeginRequest
  BY <1>1, ControlHappens DEF BeginRequest
<1>2. CASE \E kind \in {"sample", "final", "unreadable", "end"} : GoOn(kind)
  BY <1>2, ControlHappens DEF GoOn
<1> QED BY <1>1, <1>2 DEF Observation

LEMMA ControlStart == ASSUME Control, Start PROVE Control'
<1>1. ASSUME NEW listed \in BOOLEAN, Attach(listed) PROVE Control'
  <2>1. UNCHANGED <<mode, storage, booted, change>> /\ watching = "off" /\ pending = <<>>
    BY <1>1 DEF Attach, startup, Control
  <2>2. CASE listed
    <3>1. watching' = "on" /\ (~ Held => pending' = pending)
      BY <1>1, <2>2 DEF Attach, Deliver
    <3> QED BY <2>1, <3>1 DEF Control, Held
  <2>3. CASE ~ listed
    <3>1. UNCHANGED pending
      BY <1>1, <2>3 DEF Attach
    <3> QED BY <2>1, <3>1 DEF Control, Held
  <2> QED BY <2>2, <2>3
<1>2. CASE OpenCore
  <2>1. storage = "closed" /\ storage' \in {"identity", "local"} /\ mode' \in Modes
        /\ UNCHANGED <<watching, booted, change, pending>>
    <3>1. storage = "closed" /\ UNCHANGED <<watching, booted, change, pending>>
      BY <1>2 DEF OpenCore
    <3>2. CASE Last(books.core).pref = "online"
      BY <1>2, <3>1, <3>2 DEF OpenCore, Sides, Modes
    <3>3. CASE Last(books.core).pref # "online"
      <4>1. storage' = "local" /\ mode' = [mode EXCEPT !.selected = "local"]
        BY <1>2, <3>3 DEF OpenCore
      <4>2. mode' \in Modes
        BY <4>1 DEF Control, Modes, Sides
      <4> QED BY <3>1, <4>1, <4>2
    <3> QED BY <3>1, <3>2, <3>3
  <2> QED BY <2>1 DEF Control, Held
<1>3. CASE ResolveIdentity
  <2>1. change = NoChange
    BY <1>3 DEF ResolveIdentity, Control
  <2> QED BY <1>3, <2>1, ControlFlushed DEF ResolveIdentity, Boot, Control
<1>4. CASE OpenLocal
  <2>1. change = NoChange
    BY <1>4 DEF OpenLocal, Control
  <2>2. mode' \in Modes
    <3>1. mode' = [mode EXCEPT !.slot = "local"]
      BY <1>4 DEF OpenLocal
    <3> QED BY <3>1 DEF Control, Modes, Sides
  <2> QED BY <1>4, <2>1, <2>2, ControlFlushed DEF OpenLocal, Boot
<1>5. ASSUME NEW failed \in BOOLEAN, GiveUp(failed) PROVE Control'
  <2>1. change = NoChange
    BY <1>5 DEF GiveUp, Control
  <2>2. mode' \in Modes
    BY <1>5, UsageConstants DEF GiveUp, Modes, Sides
  <2>3. pending' = <<>> /\ booted' /\ UNCHANGED <<watching, change>>
    BY <1>5 DEF GiveUp, Boot
  <2> QED BY <2>1, <2>2, <2>3, ControlFlushed
<1> QED BY <1>1, <1>2, <1>3, <1>4, <1>5 DEF Start

LEMMA ControlChange == ASSUME Control, Change PROVE Control'
<1>1. CASE KeepMode
  BY <1>1 DEF KeepMode, startup, Control, Held
<1>2. ASSUME NEW p \in {"online", "local"}, AskChange(p) PROVE Control'
  <2>1. change' = [to |-> p, pc |-> "barrier"] /\ storage = "open" /\ UNCHANGED <<watching, mode, storage, booted, pending>>
    BY <1>2 DEF AskChange, startup
  <2>2. Held'
    BY <2>1 DEF Held
  <2> QED BY <2>1, <2>2 DEF Control
<1>3. ASSUME NEW pc \in {"prepare", "commit"}, change' = [change EXCEPT !.pc = pc], change.pc # "idle",
             UNCHANGED <<watching, mode, storage, booted, pending>>
      PROVE  Control'
  <2>1. change'.to = change.to /\ change' \in [to : {"none", "online", "local"}, pc : {"idle", "barrier", "prepare", "commit"}]
    BY <1>3 DEF Control
  <2>2. storage = "open"
    <3>1. change # NoChange
      BY <1>3 DEF NoChange
    <3> QED BY <3>1 DEF Control
  <2>3. Held' = Held
    BY <1>3, <2>1 DEF Held
  <2> QED BY <1>3, <2>1, <2>2, <2>3 DEF Control
<1>4. CASE Barrier
  BY <1>3, <1>4 DEF Barrier, startup
<1>5. CASE PrepareLocal
  BY <1>3, <1>5 DEF PrepareLocal, startup
<1>6. CASE PrepareOnline
  BY <1>3, <1>6 DEF PrepareOnline, startup
<1>7. CASE CommitLocal
  BY <1>7, ControlFlushed DEF CommitLocal, Settle, startup, Control, Modes, Sides
<1>8. CASE CommitOnline
  BY <1>8, ControlFlushed DEF CommitOnline, Settle, startup, Control, Modes, Sides
<1>9. CASE AbortChange
  BY <1>9, ControlFlushed DEF AbortChange, Settle, startup, Control
<1> QED BY <1>1, <1>2, <1>4, <1>5, <1>6, <1>7, <1>8, <1>9 DEF Change

LEMMA ControlStep == ASSUME Control, [Next]_vars PROVE Control'
<1>1. CASE Observation
  BY <1>1, ControlObservation
<1>2. CASE Start
  BY <1>2, ControlStart
<1>3. CASE Change
  BY <1>3, ControlChange
<1>4. CASE Midnight
  BY <1>4 DEF Midnight, startup, Control, Held
<1>5. CASE End
  <2>1. PICK i \in DOMAIN books.core, j \in DOMAIN books.play, renumber \in BOOLEAN : Restart(i, j, renumber)
    BY <1>5 DEF End
  <2>2. mode' = [selected |-> Default, slot |-> Default] /\ storage' = "closed" /\ change' = NoChange /\ pending' = <<>>
    BY <2>1 DEF Restart
  <2> QED BY <2>2, UsageConstants DEF Control, NoChange, Modes, Sides
<1>6. CASE UNCHANGED vars
  BY <1>6 DEF vars, startup, Control, Held
<1> QED BY <1>1, <1>2, <1>3, <1>4, <1>5, <1>6 DEF Next
-----------------------------------------------------------------------------
(* Every step keeps the accounts. *)

LEMMA AccountsInit == ASSUME Init, LogSound PROVE Accounts
<1> DEFINE s == View
           c == books
<1>1. PICK mark \in {NoMark, Legacy}, pref \in {"online", "local"} :
        books = AtStart(<<[mark |-> mark, daily |-> Empty, pref |-> pref]>>, <<Empty>>)
  BY DEF Init
<1> DEFINE x == [mark |-> mark, daily |-> Empty, pref |-> pref]
           k == <<x>>
           j == <<Empty>>
<1>2. mark \in Mark /\ mark.kind # "offsets" /\ mark.format = 0
  BY NothingIs DEF NoMark, Legacy, Mark
<1>3. x \in Image /\ x.mark = mark /\ x.daily = Empty
  BY <1>2, NothingIs DEF Image
<1>4. k \in Seq(Image) /\ k # <<>> /\ Last(k) = x /\ Range(k) = {x}
  BY <1>3, DurableIs DEF Durable
<1>5. j \in Seq(Dailies) /\ j # <<>> /\ Range(j) = {Empty}
  BY NothingIs, DurableIs DEF Durable
<1> HIDE DEF k, j
<1>6. c = [online |-> IF Default = "online" THEN Fresh ELSE Gone, local |-> Gone, core |-> k, play |-> j]
  BY <1>1 DEF AtStart, k, j
<1> HIDE DEF c, x
<1>7. c.online \in {Fresh, Gone} /\ c.local = Gone /\ c.core = k /\ c.play = j
  BY <1>6
<1>8. Shape(c)
  BY <1>3, <1>4, <1>5, <1>6, <1>7, NothingIs DEF Shape, Shelves
<1>9. c.online.mark = NoMark /\ c.online.daily = Empty /\ ~ c.online.sink
      /\ c.local.mark = NoMark /\ c.local.daily = Empty /\ ~ c.local.sink
  BY <1>7, NothingIs
<1>10. Marked(c) \subseteq {NoMark, mark} /\ \A a \in Sides : Records(c, a) = {Empty}
  BY <1>3, <1>4, <1>5, <1>7, <1>9 DEF Marked, Records
<1>11. GoodView(s)
  BY ViewGood
<1>12. \A a \in Sides, d \in Days, r \in Request : ~ In(c, a, d, r)
  <2>1. \A d \in Days, r \in Request : ~ (Empty[d][r] > 0)
    BY NothingIs
  <2> QED BY <1>10, <2>1 DEF In
<1>13. Once(c)
  BY <1>12 DEF Once
<1>14. Exact(s, c)
  BY <1>12 DEF Exact, In
<1>15. \A m \in Marked(c) : MarkOK(s, m) /\ \A q : m.kind = "none" \/ Bars(s, m, q)
  <2>1. MarkOK(s, mark) /\ \A q : mark.kind = "none" \/ Bars(s, mark, q)
    BY <1>2 DEF MarkOK, Bars, Current
  <2>2. MarkOK(s, NoMark) /\ NoMark.kind = "none"
    BY NothingIs DEF MarkOK
  <2> QED BY <1>10, <2>1, <2>2
<1>16. \A q \in s.requests : q.id <= s.borrowed => Common(s, c, q)
  <2>1. \A q \in s.requests : q.id <= s.borrowed => q.end <= s.live
    BY ViewIs DEF LogSound
  <2> QED BY <1>15, <2>1 DEF Common
<1>17. \A z \in Range(c.core) : Keeps(s, c, z.mark, z.daily)
  BY <1>3, <1>4, <1>7, <1>11, KeepsNothing
<1>18. Keeps(s, c, c.online.mark, c.online.daily)
  BY <1>9, <1>11, KeepsNothing
<1>19. Safe(s, c)
  BY <1>8, <1>9, <1>13, <1>14, <1>15, <1>16, <1>17, <1>18 DEF Safe
<1>20. \A q \in Requests : Deliverable(s, c, q)
  <2> SUFFICES ASSUME NEW q \in Requests PROVE ~ Somewhere(c, q.id)
    BY DEF Deliverable
  <2>1. q.id \in Request
    BY <1>11, ViewIs DEF GoodView, Views, Closings
  <2> QED BY <1>12, <2>1 DEF Somewhere
<1>21. pending = <<>>
  BY DEF Init
<1>22. Queue(s, c, pending)
  BY <1>21, NoBatches
<1> QED BY <1>9, <1>19, <1>20, <1>22 DEF Accounts, LocalKeeps, c

\* The books change, and the queue goes to the authority in the slot.
LEMMA FlushedAccounts ==
  ASSUME LogSound, Control, Accounts, UNCHANGED <<log, format, borrowed, live, watching>>,
         NEW b, Safe(View, b), Follows(View, b, books),
         NEW slot \in Sides, slot = "local" => LocalKeeps(View, b),
         books' = Flushed(b, slot), pending' = <<>>, mode'.slot = slot, change' = NoChange, booted'
  PROVE  Accounts'
<1>1. GoodView(View) /\ day \in Days /\ View' = View /\ Requests' = Requests
  BY ViewGood DEF LogSound, View, Requests
<1>2. Queue(View, b, pending)
  BY QueueFollows DEF Accounts
<1>3. Arrived(View, books', b, slot, pending)
  BY <1>1, <1>2, DeliveredSafe DEF Flushed
<1>4. Safe(View', books') /\ (slot = "local" => LocalKeeps(View', books'))
  BY <1>1, <1>3 DEF Arrived
<1>5. Queue(View', books', pending')
  BY NoBatches
<1>6. LocalWins' => LocalKeeps(View', books')
  <2>1. LocalWins' => slot = "local"
    <3>1. NoChange # [to |-> "local", pc |-> "commit"]
      BY DEF NoChange
    <3> QED BY <3>1 DEF LocalWins
  <2> QED BY <1>4, <2>1
<1>7. watching' # "on" => \A q \in Requests' : Deliverable(View', books', q)
  <2> SUFFICES ASSUME watching # "on", NEW q \in Requests PROVE Deliverable(View, books', q)
    BY <1>1
  <2>1. pending = <<>> /\ DOMAIN <<>> = {}
    BY DEF Control
  <2>2. \A i \in DOMAIN pending : q \notin pending[i].requests
    BY <2>1
  <2>3. q \in View.requests /\ Deliverable(View, books, q)
    BY ViewIs DEF Accounts
  <2>4. Deliverable(View, b, q)
    BY <2>3 DEF Follows
  <2> QED BY <1>3, <2>2, <2>3, <2>4 DEF Arrived
<1> QED BY <1>4, <1>5, <1>6, <1>7 DEF Accounts

\* The books change, and the queue waits.
LEMMA WaitingAccounts ==
  ASSUME LogSound, Control, Accounts, UNCHANGED <<log, format, borrowed, live, watching, pending>>,
         NEW b, Safe(View, b), Follows(View, b, books), books' = b,
         LocalWins' => LocalKeeps(View, b),
         ~ booted' => ~ b.local.sink
  PROVE  Accounts'
<1>1. View' = View /\ Requests' = Requests
  BY DEF View, Requests
<1>2. Queue(View, b, pending)
  BY QueueFollows DEF Accounts
<1>3. watching' # "on" => \A q \in Requests' : Deliverable(View', books', q)
  BY <1>1, ViewIs DEF Accounts, Follows
<1> QED BY <1>1, <1>2, <1>3 DEF Accounts

LEMMA FollowsSelf == ASSUME NEW s, NEW b PROVE Follows(s, b, b)
BY DEF Follows

LEMMA FollowsOn ==
  ASSUME NEW s, NEW a, NEW b, NEW c, Follows(s, b, a), Follows(s, c, b)
  PROVE  Follows(s, c, a)
BY DEF Follows

\* The core domain as it is, or durable with a choice.
Chosen(k, b) ==
  k = b.core \/ \E p \in {"online", "local"} : k = Durable([Last(b.core) EXCEPT !.pref = p])

LEMMA LighterBy ==
  ASSUME NEW b, Shape(b), NEW o, o = b.online \/ o \in {Gone, Fresh},
         NEW l \in Memory, l.mark = b.local.mark, l.daily = b.local.daily, l.sink = b.local.sink,
         NEW k, Chosen(k, b), NEW j, j = b.play \/ j = Durable(Last(b.play)),
         NEW c, c = [online |-> o, local |-> l, core |-> k, play |-> j]
  PROVE  Lighter(c, b)
<1>1. /\ b.online \in Memory /\ b.local \in Memory
      /\ b.core \in Seq(Image) /\ b.core # <<>> /\ b.play \in Seq(Dailies) /\ b.play # <<>>
      /\ Last(b.core) \in Range(b.core) /\ Last(b.core) \in Image
      /\ Last(b.play) \in Range(b.play) /\ Last(b.play) \in Dailies
  BY Fields
<1>2. /\ k \in Seq(Image) /\ k # <<>> /\ Last(k).daily = Last(b.core).daily
      /\ \A x \in Range(k) : \E y \in Range(b.core) : x.mark = y.mark /\ x.daily = y.daily
  <2>1. CASE k = b.core
    BY <1>1, <2>1
  <2>2. CASE \E p \in {"online", "local"} : k = Durable([Last(b.core) EXCEPT !.pref = p])
    <3>1. PICK p \in {"online", "local"} : k = Durable([Last(b.core) EXCEPT !.pref = p])
      BY <2>2
    <3> DEFINE x == [Last(b.core) EXCEPT !.pref = p]
    <3>2. x \in Image /\ x.mark = Last(b.core).mark /\ x.daily = Last(b.core).daily
      BY <1>1 DEF Image
    <3> HIDE DEF x
    <3>3. k \in Seq(Image) /\ k # <<>> /\ Last(k) = x /\ Range(k) = {x}
      BY <3>1, <3>2, DurableIs DEF x
    <3> QED BY <1>1, <3>2, <3>3
  <2> QED BY <2>1, <2>2 DEF Chosen
<1>3. j \in Seq(Dailies) /\ j # <<>> /\ Range(j) \subseteq Range(b.play)
  <2>1. CASE j = b.play
    BY <1>1, <2>1
  <2>2. CASE j = Durable(Last(b.play))
    BY <1>1, <2>2, DurableIs
  <2> QED BY <2>1, <2>2
<1>4. o \in Memory
  BY <1>1, NothingIs
<1>5. c.online = o /\ c.local = l /\ c.core = k /\ c.play = j
  OBVIOUS
<1>6. c \in Shelves
  BY <1>2, <1>3, <1>4 DEF Shelves
<1> QED BY <1>2, <1>3, <1>5, <1>6 DEF Lighter, Shape

LEMMA OpenCoreAccounts == ASSUME LogSound, Control, Accounts, OpenCore PROVE Accounts'
<1>1. storage = "closed" /\ UNCHANGED <<log, format, borrowed, live, watching, booted, change, pending>>
  BY DEF OpenCore, session
<1>2. change = NoChange /\ NoChange # [to |-> "local", pc |-> "commit"]
  BY <1>1 DEF Control, NoChange
<1>3. GoodView(View) /\ Safe(View, books)
  BY ViewGood DEF Accounts
<1>4. CASE Last(books.core).pref = "online"
  <2>1. mode' = [selected |-> "online", slot |-> "online"] /\ books' = Hydrate(books)
    BY <1>4 DEF OpenCore
  <2>2. ~ LocalWins'
    BY <1>1, <1>2, <2>1 DEF LocalWins
  <2>3. Safe(View, books') /\ Follows(View, books', books) /\ books'.local = books.local
    BY <1>3, <2>1, HydrateSafe
  <2>4. ~ booted' => ~ books'.local.sink
    BY <1>1, <2>3 DEF Accounts
  <2> QED BY <1>1, <2>2, <2>3, <2>4, WaitingAccounts
<1>5. CASE Last(books.core).pref # "online"
  <2>1. mode' = [mode EXCEPT !.selected = "local"] /\ books' = books
    BY <1>5 DEF OpenCore
  <2>2. LocalWins' => LocalWins
    <3>1. mode'.slot = mode.slot
      BY <2>1 DEF Control, Modes
    <3> QED BY <1>1, <3>1 DEF LocalWins
  <2>3. LocalWins' => LocalKeeps(View, books)
    BY <2>2 DEF Accounts
  <2>4. ~ booted' => ~ books.local.sink
    BY <1>1 DEF Accounts
  <2> QED BY <1>1, <1>3, <2>1, <2>3, <2>4, FollowsSelf, WaitingAccounts
<1> QED BY <1>4, <1>5

LEMMA ResolveAccounts == ASSUME LogSound, Control, Accounts, ResolveIdentity PROVE Accounts'
<1>1. /\ storage = "identity" /\ UNCHANGED <<log, format, borrowed, live, watching, mode, change>>
      /\ books' = Flushed(books, mode.slot) /\ pending' = <<>> /\ booted'
  BY DEF ResolveIdentity, Boot, session
<1>2. change' = NoChange
  BY <1>1 DEF Control
<1>3. Safe(View, books) /\ mode.slot \in Sides /\ (mode.slot = "local" => LocalKeeps(View, books))
  BY DEF Accounts, Control, Modes, LocalWins
<1> QED BY <1>1, <1>2, <1>3, FollowsSelf, FlushedAccounts

LEMMA OpenLocalAccounts == ASSUME LogSound, Control, Accounts, OpenLocal PROVE Accounts'
<1> DEFINE a == Attached(books)
           c == [a EXCEPT !.online = Gone]
<1>1. /\ storage = "local" /\ UNCHANGED <<log, format, borrowed, live, watching, change>>
      /\ books' = Flushed(c, "local") /\ pending' = <<>> /\ booted' /\ mode' = [mode EXCEPT !.slot = "local"]
  BY DEF OpenLocal, Boot, session
<1>2. change' = NoChange
  BY <1>1 DEF Control
<1>3. GoodView(View) /\ Safe(View, books)
  BY ViewGood DEF Accounts
<1>4. Safe(View, a) /\ Follows(View, a, books) /\ LocalKeeps(View, a)
  BY <1>3, AttachedSafe
<1>5. Follows(View, c, a) /\ Safe(View, c) /\ LocalKeeps(View, c)
  <2> HIDE DEF a
  <2>1. Shape(a)
    BY <1>4 DEF Safe
  <2>2. a = [online |-> a.online, local |-> a.local, core |-> a.core, play |-> a.play] /\ a.local \in Memory
    BY <2>1, Fields
  <2>3. c = [online |-> Gone, local |-> a.local, core |-> a.core, play |-> a.play]
    BY <2>2
  <2> HIDE DEF c
  <2>4. Chosen(a.core, a)
    BY DEF Chosen
  <2>5. Lighter(c, a)
    BY <2>1, <2>2, <2>3, <2>4, LighterBy
  <2> QED BY <1>3, <1>4, <2>5, LighterSafe
<1> HIDE DEF a, c
<1>6. Follows(View, c, books)
  BY <1>4, <1>5, FollowsOn
<1>7. "local" \in Sides /\ mode'.slot = "local"
  BY <1>1 DEF Control, Modes, Sides
<1> QED BY <1>1, <1>2, <1>5, <1>6, <1>7, FlushedAccounts

LEMMA Awake ==
  ASSUME NEW p \in Memory, NEW x
  PROVE  [p EXCEPT !.alive = x] = [alive |-> x, sink |-> p.sink, mark |-> p.mark, daily |-> p.daily]
<1>1. p = [alive |-> p.alive, sink |-> p.sink, mark |-> p.mark, daily |-> p.daily]
  BY DEF Memory
<1> QED BY <1>1

\* Books of a process that gave up on its storage.
LEMMA GivenUp ==
  ASSUME Shape(books)
  PROVE  Lighter(IF Default = "online" THEN [books EXCEPT !.online = Fresh] ELSE [books EXCEPT !.local.alive = TRUE], books)
<1> DEFINE c == IF Default = "online" THEN [books EXCEPT !.online = Fresh] ELSE [books EXCEPT !.local.alive = TRUE]
<1>1. /\ books = [online |-> books.online, local |-> books.local, core |-> books.core, play |-> books.play]
      /\ books.local \in Memory
  BY Fields
<1> DEFINE yes == TRUE
           old == books.local
           l == [alive |-> yes, sink |-> old.sink, mark |-> old.mark, daily |-> old.daily]
<1>2. l \in Memory /\ l.mark = books.local.mark /\ l.daily = books.local.daily /\ l.sink = books.local.sink
  BY <1>1 DEF Memory
<1>3. [books EXCEPT !.local.alive = TRUE] = [online |-> books.online, local |-> l, core |-> books.core, play |-> books.play]
  <2> HIDE DEF yes
  <2>1. [books EXCEPT !.local.alive = yes] = [books EXCEPT !.local = [old EXCEPT !.alive = yes]]
    BY <1>1
  <2>2. old \in Memory
    BY <1>1
  <2> HIDE DEF old
  <2>3. [old EXCEPT !.alive = yes] = l
    BY <2>2, Awake
  <2> HIDE DEF l
  <2>4. [books EXCEPT !.local = l] = [online |-> books.online, local |-> l, core |-> books.core, play |-> books.play]
    BY <1>1
  <2>5. [books EXCEPT !.local.alive = yes] = [online |-> books.online, local |-> l, core |-> books.core, play |-> books.play]
    BY <2>1, <2>3, <2>4
  <2> QED BY <2>5 DEF yes
<1> HIDE DEF l, old
<1>4. \/ c = [online |-> Fresh, local |-> books.local, core |-> books.core, play |-> books.play]
      \/ c = [online |-> books.online, local |-> l, core |-> books.core, play |-> books.play]
  BY <1>1, <1>3
<1> HIDE DEF c
<1>5. Chosen(books.core, books)
  BY DEF Chosen
<1>6. Lighter(c, books)
  <2>1. CASE c = [online |-> Fresh, local |-> books.local, core |-> books.core, play |-> books.play]
    BY <1>1, <1>5, <2>1, LighterBy
  <2>2. CASE c = [online |-> books.online, local |-> l, core |-> books.core, play |-> books.play]
    BY <1>2, <1>5, <2>2, LighterBy
  <2> QED BY <1>4, <2>1, <2>2
<1> QED BY <1>6 DEF c

LEMMA GiveUpAccounts ==
  ASSUME LogSound, Control, Accounts, NEW failed \in BOOLEAN, GiveUp(failed)
  PROVE  Accounts'
<1> DEFINE c == IF Default = "online" THEN [books EXCEPT !.online = Fresh] ELSE [books EXCEPT !.local.alive = TRUE]
<1>1. /\ ~ booted /\ UNCHANGED <<log, format, borrowed, live, watching, change>>
      /\ books' = Flushed(c, Default) /\ pending' = <<>> /\ booted'
      /\ mode' = [selected |-> Default, slot |-> Default] /\ mode'.slot = Default
  BY DEF GiveUp, Boot, session
<1>2. change' = NoChange
  BY <1>1 DEF Control
<1>3. GoodView(View) /\ Safe(View, books) /\ Shape(books) /\ ~ books.local.sink
  BY <1>1, ViewGood DEF Accounts, Safe
<1>4. Lighter(c, books)
  BY <1>3, GivenUp
<1> HIDE DEF c
<1>5. Safe(View, c) /\ Follows(View, c, books)
  BY <1>3, <1>4, LighterSafe
<1>6. LocalKeeps(View, c)
  BY <1>3, <1>4 DEF LocalKeeps, Lighter
<1>7. Default \in Sides
  BY UsageConstants DEF Sides
<1> QED BY <1>1, <1>2, <1>5, <1>6, <1>7, FlushedAccounts

LEMMA KeepModeAccounts == ASSUME LogSound, Control, Accounts, KeepMode PROVE Accounts'
<1> DEFINE c == [books EXCEPT !.core = SaveChoice(mode.slot)]
<1>1. UNCHANGED <<log, format, borrowed, live, watching, pending, mode, change, booted>> /\ books' = c
  BY DEF KeepMode, session, startup
<1>2. GoodView(View) /\ Safe(View, books) /\ Shape(books) /\ mode.slot \in {"online", "local"}
  BY ViewGood DEF Accounts, Safe, Control, Modes, Sides
<1>3. /\ books = [online |-> books.online, local |-> books.local, core |-> books.core, play |-> books.play]
      /\ books.local \in Memory
  BY <1>2, Fields
<1> DEFINE k == SaveChoice(mode.slot)
<1>4. Chosen(k, books)
  BY <1>2 DEF Chosen, SaveChoice
<1> HIDE DEF k
<1>5. c = [online |-> books.online, local |-> books.local, core |-> k, play |-> books.play]
  BY <1>3 DEF k
<1> HIDE DEF c
<1>6. Lighter(c, books)
  BY <1>2, <1>3, <1>4, <1>5, LighterBy
<1>7. Safe(View, c) /\ Follows(View, c, books) /\ (LocalKeeps(View, books) => LocalKeeps(View, c))
  BY <1>2, <1>6, LighterSafe
<1>8. LocalWins' => LocalKeeps(View, c)
  BY <1>1, <1>7 DEF LocalWins, Accounts
<1>9. ~ booted' => ~ c.local.sink
  BY <1>1, <1>6 DEF Lighter, Accounts
<1> QED BY <1>1, <1>7, <1>8, <1>9, WaitingAccounts

LEMMA BarrierAccounts == ASSUME LogSound, Control, Accounts, Barrier PROVE Accounts'
<1> DEFINE k == SaveChoice(mode.selected)
           j == IF books.local.sink THEN Durable(Last(books.play)) ELSE books.play
           c == [books EXCEPT !.core = SaveChoice(mode.selected),
                              !.play = IF books.local.sink THEN Durable(Last(@)) ELSE @]
<1>1. UNCHANGED <<log, format, borrowed, live, watching, pending, mode, booted>> /\ books' = c
      /\ change' = [change EXCEPT !.pc = "prepare"]
  BY DEF Barrier, session, startup
<1>2. GoodView(View) /\ Safe(View, books) /\ Shape(books) /\ mode.selected \in {"online", "local"}
  BY ViewGood DEF Accounts, Safe, Control, Modes, Sides
<1>3. /\ books = [online |-> books.online, local |-> books.local, core |-> books.core, play |-> books.play]
      /\ books.local \in Memory
  BY <1>2, Fields
<1>4. Chosen(k, books) /\ (j = books.play \/ j = Durable(Last(books.play)))
  BY <1>2 DEF Chosen, SaveChoice
<1>5. c = [online |-> books.online, local |-> books.local, core |-> k, play |-> j]
  <2> HIDE DEF k
  <2>1. c = [[books EXCEPT !.core = k] EXCEPT !.play = j]
    BY <1>3 DEF k
  <2> HIDE DEF j, c
  <2>2. [books EXCEPT !.core = k] = [online |-> books.online, local |-> books.local, core |-> k, play |-> books.play]
    BY <1>3
  <2> QED BY <2>1, <2>2
<1> HIDE DEF c, k, j
<1>6. Lighter(c, books)
  BY <1>2, <1>3, <1>4, <1>5, LighterBy
<1>7. Safe(View, c) /\ Follows(View, c, books) /\ (LocalKeeps(View, books) => LocalKeeps(View, c))
  BY <1>2, <1>6, LighterSafe
<1>8. change' # [to |-> "local", pc |-> "commit"]
  BY <1>1 DEF Control
<1>9. LocalWins' => LocalKeeps(View, c)
  BY <1>1, <1>7, <1>8 DEF LocalWins, Accounts
<1>10. ~ booted' => ~ c.local.sink
  BY <1>1, <1>6 DEF Lighter, Accounts
<1> QED BY <1>1, <1>7, <1>9, <1>10, WaitingAccounts

\* The choice is asked for, or the online authority is prepared: the books stay.
LEMMA AskAccounts ==
  ASSUME LogSound, Control, Accounts, NEW p \in {"online", "local"}, AskChange(p)
  PROVE  Accounts'
<1>1. UNCHANGED <<log, format, borrowed, live, watching, pending, mode, booted, books>>
      /\ change' = [to |-> p, pc |-> "barrier"]
  BY DEF AskChange, session, startup
<1>2. LocalWins' => LocalWins
  BY <1>1 DEF LocalWins
<1>3. LocalWins' => LocalKeeps(View, books)
  BY <1>2 DEF Accounts
<1>4. Safe(View, books) /\ (~ booted' => ~ books.local.sink)
  BY <1>1 DEF Accounts
<1> QED BY <1>1, <1>3, <1>4, FollowsSelf, WaitingAccounts

LEMMA PrepareOnlineAccounts == ASSUME LogSound, Control, Accounts, PrepareOnline PROVE Accounts'
<1>1. UNCHANGED <<log, format, borrowed, live, watching, pending, mode, booted, books>>
      /\ change.to = "online" /\ change' = [change EXCEPT !.pc = "commit"]
  BY DEF PrepareOnline, session, startup
<1>2. change'.to = "online"
  BY <1>1 DEF Control
<1>3. LocalWins' => LocalWins
  BY <1>1, <1>2 DEF LocalWins
<1>4. LocalWins' => LocalKeeps(View, books)
  BY <1>3 DEF Accounts
<1>5. Safe(View, books) /\ (~ booted' => ~ books.local.sink)
  BY <1>1 DEF Accounts
<1> QED BY <1>1, <1>4, <1>5, FollowsSelf, WaitingAccounts

LEMMA PrepareLocalAccounts == ASSUME LogSound, Control, Accounts, PrepareLocal PROVE Accounts'
<1>1. UNCHANGED <<log, format, borrowed, live, watching, pending, mode, booted>> /\ books' = Attached(books)
      /\ change.pc = "prepare"
  BY DEF PrepareLocal, session, startup
<1>2. GoodView(View) /\ Safe(View, books)
  BY ViewGood DEF Accounts
<1>3. Safe(View, books') /\ Follows(View, books', books) /\ LocalKeeps(View, books')
  BY <1>1, <1>2, AttachedSafe
<1>4. booted
  <2>1. change # NoChange
    BY <1>1 DEF NoChange
  <2> QED BY <2>1 DEF Control
<1> QED BY <1>1, <1>3, <1>4, WaitingAccounts

LEMMA CommitLocalAccounts == ASSUME LogSound, Control, Accounts, CommitLocal PROVE Accounts'
<1> DEFINE k == SaveChoice("local")
           c == [books EXCEPT !.core = SaveChoice("local"), !.online = Gone]
<1>1. /\ UNCHANGED <<log, format, borrowed, live, watching, storage, booted>>
      /\ change = [to |-> "local", pc |-> "commit"] /\ change' = NoChange
      /\ mode' = [selected |-> "local", slot |-> "local"] /\ mode'.slot = "local"
      /\ books' = Flushed(c, "local") /\ pending' = <<>>
  BY DEF CommitLocal, Settle, session, startup
<1>2. GoodView(View) /\ Safe(View, books) /\ Shape(books) /\ LocalKeeps(View, books)
  BY <1>1, ViewGood DEF Accounts, Safe, LocalWins
<1>3. /\ books = [online |-> books.online, local |-> books.local, core |-> books.core, play |-> books.play]
      /\ books.local \in Memory
  BY <1>2, Fields
<1>4. Chosen(k, books)
  BY DEF Chosen, SaveChoice
<1> HIDE DEF k
<1>5. c = [online |-> Gone, local |-> books.local, core |-> k, play |-> books.play]
  <2> DEFINE o == Gone
  <2>1. c = [[books EXCEPT !.core = k] EXCEPT !.online = o]
    BY <1>3 DEF k
  <2> HIDE DEF c, o
  <2>2. [books EXCEPT !.core = k] = [online |-> books.online, local |-> books.local, core |-> k, play |-> books.play]
    BY <1>3
  <2>3. c = [online |-> o, local |-> books.local, core |-> k, play |-> books.play]
    BY <2>1, <2>2
  <2> QED BY <2>3 DEF o
<1> HIDE DEF c
<1>6. Lighter(c, books)
  BY <1>2, <1>3, <1>4, <1>5, LighterBy
<1>7. Safe(View, c) /\ Follows(View, c, books) /\ LocalKeeps(View, c)
  BY <1>2, <1>6, LighterSafe
<1>8. booted' /\ "local" \in Sides
  <2>1. change # NoChange
    <3>1. change.to # NoChange.to
      BY <1>1 DEF NoChange
    <3> QED BY <3>1
  <2> QED BY <1>1, <2>1 DEF Control, Sides
<1> QED BY <1>1, <1>7, <1>8, FlushedAccounts

LEMMA CommitOnlineAccounts == ASSUME LogSound, Control, Accounts, CommitOnline PROVE Accounts'
<1> DEFINE a == [books EXCEPT !.online = Fresh]
           h == Hydrate(a)
           c == [h EXCEPT !.core = Durable([Last(@) EXCEPT !.pref = "online"])]
           k == Durable([Last(h.core) EXCEPT !.pref = "online"])
<1>1. /\ UNCHANGED <<log, format, borrowed, live, watching, storage, booted>>
      /\ change = [to |-> "online", pc |-> "commit"] /\ change' = NoChange
      /\ mode' = [selected |-> "online", slot |-> "online"] /\ mode'.slot = "online"
      /\ books' = Flushed(c, "online") /\ pending' = <<>>
  BY DEF CommitOnline, Settle, session, startup
<1>2. GoodView(View) /\ Safe(View, books) /\ Shape(books)
  BY ViewGood DEF Accounts, Safe
<1>3. /\ books = [online |-> books.online, local |-> books.local, core |-> books.core, play |-> books.play]
      /\ books.local \in Memory
  BY <1>2, Fields
<1>4. a = [online |-> Fresh, local |-> books.local, core |-> books.core, play |-> books.play]
  BY <1>3
<1> HIDE DEF a
<1>5. Chosen(books.core, books)
  BY DEF Chosen
<1>6. Lighter(a, books)
  BY <1>2, <1>3, <1>4, <1>5, LighterBy
<1>7. Safe(View, a) /\ Follows(View, a, books)
  BY <1>2, <1>6, LighterSafe
<1>8. Safe(View, h) /\ Follows(View, h, a)
  BY <1>2, <1>7, HydrateSafe
<1> HIDE DEF h
<1>9. Shape(h)
  BY <1>8 DEF Safe
<1>10. h = [online |-> h.online, local |-> h.local, core |-> h.core, play |-> h.play] /\ h.local \in Memory
  BY <1>9, Fields
<1>11. Chosen(k, h)
  BY DEF Chosen
<1>12. c = [online |-> h.online, local |-> h.local, core |-> k, play |-> h.play]
  BY <1>10
<1> HIDE DEF c, k
<1>13. Lighter(c, h)
  BY <1>9, <1>10, <1>11, <1>12, LighterBy
<1>14. Safe(View, c) /\ Follows(View, c, h)
  BY <1>2, <1>8, <1>13, LighterSafe
<1>15. Follows(View, c, books)
  <2>1. Follows(View, h, books)
    BY <1>7, <1>8, FollowsOn
  <2> QED BY <1>14, <2>1, FollowsOn
<1>16. booted' /\ "online" \in Sides /\ "online" # "local"
  <2>1. change # NoChange
    <3>1. change.to # NoChange.to
      BY <1>1 DEF NoChange
    <3> QED BY <3>1
  <2> QED BY <1>1, <2>1 DEF Control, Sides
<1> QED BY <1>1, <1>14, <1>15, <1>16, FlushedAccounts

LEMMA AbortAccounts == ASSUME LogSound, Control, Accounts, AbortChange PROVE Accounts'
<1>1. /\ UNCHANGED <<log, format, borrowed, live, watching, storage, booted, mode>>
      /\ change.pc \in {"barrier", "prepare", "commit"} /\ change' = NoChange
      /\ books' = Flushed(books, mode.slot) /\ pending' = <<>>
  BY DEF AbortChange, Settle, session, startup
<1>2. Safe(View, books) /\ mode.slot \in Sides /\ (mode.slot = "local" => LocalKeeps(View, books))
  BY DEF Accounts, Control, Modes, LocalWins
<1>3. booted'
  <2>1. change # NoChange
    BY <1>1 DEF NoChange
  <2> QED BY <1>1, <2>1 DEF Control
<1> QED BY <1>1, <1>2, <1>3, FollowsSelf, FlushedAccounts

\* The observer reports: its batches wait, or reach the authority in the slot.
LEMMA DeliverAccounts ==
  ASSUME Control, Accounts, day \in Days, NEW t, t = View', GoodView(t), t.requests = Requests',
         Safe(t, books), LocalWins => LocalKeeps(t, books),
         NEW batches, Queue(t, books, pending), Queue(t, books, batches),
         \A i \in DOMAIN pending, j \in DOMAIN batches : \A q \in pending[i].requests : q \notin batches[j].requests,
         watching' # "on" =>
           \A q \in Requests' : Deliverable(t, books, q) /\ \A i \in DOMAIN batches : q \notin batches[i].requests,
         Deliver(batches), UNCHANGED <<mode, change, booted>>
  PROVE  Accounts'
<1>1. LocalWins' = LocalWins
  BY DEF LocalWins
<1>2. CASE Held
  <2>1. pending' = pending \o batches /\ books' = books
    BY <1>2 DEF Deliver
  <2>2. Queue(t, books, pending \o batches)
    BY QueueJoins
  <2> QED BY <1>1, <2>1, <2>2 DEF Accounts
<1>3. CASE ~ Held
  <2>1. pending' = pending /\ books' = Delivered(books, mode.slot, batches) /\ pending = <<>> /\ booted
    BY <1>3 DEF Deliver, Control, Held
  <2>2. mode.slot \in Sides /\ (mode.slot = "local" => LocalKeeps(t, books))
    BY DEF Control, Modes, LocalWins
  <2>3. Arrived(t, books', books, mode.slot, batches)
    BY <2>1, <2>2, DeliveredSafe
  <2>4. Safe(t, books') /\ (mode.slot = "local" => LocalKeeps(t, books'))
    BY <2>3 DEF Arrived
  <2>5. LocalWins' => LocalKeeps(t, books')
    <3>1. change.to # "local"
      BY <1>3 DEF Held
    <3>2. LocalWins => mode.slot = "local"
      BY <3>1 DEF LocalWins
    <3> QED BY <1>1, <2>4, <3>2
  <2>6. Queue(t, books', pending')
    BY <2>1, NoBatches
  <2>7. watching' # "on" => \A q \in Requests' : Deliverable(t, books', q)
    BY <2>3 DEF Arrived
  <2> QED BY <2>1, <2>4, <2>5, <2>6, <2>7 DEF Accounts
<1> QED BY <1>2, <1>3

LEMMA OneBatch ==
  ASSUME NEW s, NEW b, NEW x, BatchOK(s, x), \A q \in x.requests : Deliverable(s, b, q)
  PROVE  Queue(s, b, <<x>>)
<1>1. x \in Batches
  BY DEF BatchOK
<1>2. <<x>> \in Seq(Batches) /\ DOMAIN <<x>> = {1} /\ <<x>>[1] = x
  BY <1>1
<1> QED BY <1>2 DEF Queue

LEMMA AttachAccounts ==
  ASSUME LogSound, Control, Accounts, NEW listed \in BOOLEAN, Attach(listed)
  PROVE  Accounts'
<1>1. watching = "off" /\ UNCHANGED <<day, log, format, borrowed, live, mode, booted, change>>
  BY DEF Attach, session, startup
<1>2. View' = View /\ Requests' = Requests /\ GoodView(View) /\ Safe(View, books) /\ View.requests = Requests
  BY <1>1, ViewGood, ViewIs DEF View, Requests, Accounts
<1>3. pending = <<>> /\ \A q \in Requests : Deliverable(View, books, q)
  BY <1>1 DEF Control, Accounts
<1>4. CASE ~ listed
  <2>1. UNCHANGED <<books, pending>>
    BY <1>4 DEF Attach
  <2>2. LocalWins' = LocalWins
    BY <1>1 DEF LocalWins
  <2> QED BY <1>1, <1>2, <1>3, <2>1, <2>2 DEF Accounts
<1>5. CASE listed
  <2> DEFINE x == Batch(Len(log), Requests, TRUE)
             batches == <<x>>
  <2>1. Deliver(batches) /\ watching' = "on"
    BY <1>5 DEF Attach, Requests
  <2>2. /\ Requests \in SUBSET Closings /\ live \in Nat /\ format \in {1, 2} /\ Len(log) \in Nat /\ live <= Len(log)
        /\ \A q \in Requests : q.end <= Len(log)
    BY <1>2, ViewIs DEF GoodView, Views
  <2>3. /\ x \in Batches /\ x.through = Len(log) /\ x.requests = Requests
        /\ x.live = View.live /\ x.format = View.format
    BY <2>2, ViewIs DEF Batch, Batches
  <2> HIDE DEF x
  <2>4. BatchOK(View, x)
    BY <1>2, <2>2, <2>3, ViewIs DEF BatchOK
  <2>5. Queue(View, books, batches)
    BY <1>3, <2>3, <2>4, OneBatch
  <2>6. DOMAIN pending = {}
    BY <1>3
  <2>7. \A i \in DOMAIN pending, j \in DOMAIN batches : \A q \in pending[i].requests : q \notin batches[j].requests
    BY <2>6
  <2> HIDE DEF batches
  <2>8. Queue(View, books, pending) /\ (LocalWins => LocalKeeps(View, books)) /\ day \in Days
    BY DEF Accounts, LogSound
  <2> QED BY <1>1, <1>2, <2>1, <2>5, <2>7, <2>8, DeliverAccounts
<1> QED BY <1>4, <1>5

\* The requests a report brings are new, or the session's first report brings all.
LEMMA HappensAccounts ==
  ASSUME LogSound, LogSound', Grows, Control, Accounts, NEW kind, NEW id, Happens(kind, id)
  PROVE  Accounts'
<1> DEFINE s == View
           t == View'
           batches == Reports(log')
<1>1. /\ UNCHANGED <<day, format, borrowed, live, mode, booted, change>> /\ Deliver(batches)
      /\ watching' = IF watching = "unlisted" THEN "on" ELSE watching
  BY DEF Happens, startup
<1>2. GoodView(s) /\ GoodView(t) /\ t.requests = Requests' /\ s.requests = Requests
  <2>1. GoodView(View)'
    BY ViewGood, PTL
  <2>2. (View.requests = Requests)'
    BY ViewIs, PTL
  <2> QED BY <2>1, <2>2, ViewGood, ViewIs
<1>3. Extended(t, s) /\ t.live = live /\ t.format = format /\ t.length = Len(log')
  <2>1. Extended(View', View)
    BY <1>1, GrowsExtended
  <2> QED BY <1>1, <2>1, ViewIs DEF Extended, Grows
<1> HIDE DEF s, t
<1>4. Safe(s, books) /\ (LocalWins => LocalKeeps(s, books)) /\ Queue(s, books, pending)
  BY DEF Accounts, s
<1>5. /\ Safe(t, books) /\ (LocalKeeps(s, books) => LocalKeeps(t, books))
      /\ \A q \in s.requests : Deliverable(s, books, q) => Deliverable(t, books, q)
      /\ \A q \in t.requests \ s.requests : Deliverable(t, books, q)
      /\ Queue(t, books, pending)
  BY <1>2, <1>3, <1>4, ExtendedSafe
<1>6. watching # "on" => \A q \in Requests' : Deliverable(t, books, q)
  BY <1>2, <1>5 DEF Accounts, s
<1>7. /\ Requests' \in SUBSET Closings /\ live \in Nat /\ format \in {1, 2} /\ Len(log') \in Nat /\ live <= Len(log')
      /\ \A q \in Requests' : q.end \in Nat /\ q.end <= Len(log')
  BY <1>2, <1>3 DEF GoodView, Views, Closings
<1> DEFINE closed == {q \in Requests' : q.end = Len(log')}
<1>8. \A q \in closed : q \notin Requests
  <2>1. \A q \in Requests : q.end \in Nat /\ q.end <= Len(log) /\ Len(log) \in Nat
    BY <1>2, ViewIs DEF GoodView, Views, Closings, s
  <2> QED BY <2>1 DEF Grows
<1>9. \A i \in DOMAIN pending : \A q \in pending[i].requests : q \in Requests
  BY <1>2, <1>4 DEF Queue, BatchOK
\* A batch of requests up to the end of the log.
<1>10. ASSUME NEW through \in {live, Len(log')}, NEW R \in SUBSET Requests', NEW catchup \in BOOLEAN,
              \A q \in R : q.end <= through
       PROVE  BatchOK(t, Batch(through, R, catchup)) /\ Batch(through, R, catchup).requests = R
  <2> DEFINE x == Batch(through, R, catchup)
  <2>1. /\ x \in Batches /\ x.through = through /\ x.requests = R /\ x.live = t.live /\ x.format = t.format
    BY <1>3, <1>7 DEF Batch, Batches
  <2> HIDE DEF x
  <2>2. live <= through /\ through <= Len(log')
    BY <1>7
  <2>3. BatchOK(t, x)
    BY <1>2, <1>3, <1>10, <2>1, <2>2 DEF BatchOK
  <2> QED BY <2>1, <2>3 DEF x
<1>11. /\ Queue(t, books, batches)
       /\ \A i \in DOMAIN pending, j \in DOMAIN batches : \A q \in pending[i].requests : q \notin batches[j].requests
       /\ watching' # "on" => batches = <<>>
  <2>1. CASE watching = "on" /\ closed # {}
    <3> DEFINE x == Batch(Len(log'), closed, FALSE)
    <3>1. batches = <<x>> /\ watching' = "on"
      BY <1>1, <2>1 DEF Reports, Requests
    <3>2. BatchOK(t, x) /\ x.requests = closed
      BY <1>7, <1>10
    <3>3. \A q \in x.requests : Deliverable(t, books, q)
      BY <1>2, <1>5, <1>8, <3>2
    <3> HIDE DEF x, batches, closed
    <3>4. Queue(t, books, batches)
      BY <3>1, <3>2, <3>3, OneBatch
    <3>5. \A j \in DOMAIN batches : batches[j].requests = closed
      BY <3>1, <3>2
    <3> QED BY <1>8, <1>9, <3>1, <3>4, <3>5
  <2>2. CASE watching = "unlisted"
    <3> DEFINE x == Batch(live, {}, TRUE)
               y == Batch(Len(log'), Requests', FALSE)
    <3>1. batches = <<x, y>> /\ watching' = "on" /\ DOMAIN pending = {}
      <4>1. batches = <<x, y>>
        BY <2>2 DEF Reports, Requests
      <4>2. watching' = "on" /\ pending = <<>>
        BY <1>1, <2>2 DEF Control
      <4> QED BY <4>1, <4>2
    <3>2. BatchOK(t, x) /\ x.requests = {} /\ BatchOK(t, y) /\ y.requests = Requests'
      BY <1>7, <1>10
    <3>3. \A q \in y.requests : Deliverable(t, books, q)
      BY <1>6, <2>2, <3>2
    <3> HIDE DEF x, y, batches
    <3>4. x \in Batches /\ y \in Batches
      BY <3>2 DEF BatchOK
    <3>5. batches \in Seq(Batches) /\ DOMAIN batches = {1, 2} /\ batches[1] = x /\ batches[2] = y
      BY <3>1, <3>4
    <3>6. Queue(t, books, batches)
      BY <3>2, <3>3, <3>5 DEF Queue
    <3> QED BY <3>1, <3>6
  <2>3. CASE watching # "unlisted" /\ ~ (watching = "on" /\ closed # {})
    <3>1. batches = <<>>
      BY <2>3 DEF Reports, Requests
    <3>2. DOMAIN <<>> = {}
      OBVIOUS
    <3> HIDE DEF batches
    <3> QED BY <3>1, <3>2, NoBatches
  <2> QED BY <2>1, <2>2, <2>3
<1>12. watching' # "on" =>
         \A q \in Requests' : Deliverable(t, books, q) /\ \A i \in DOMAIN batches : q \notin batches[i].requests
  <2>1. DOMAIN <<>> = {}
    OBVIOUS
  <2> QED BY <1>1, <1>6, <1>11, <2>1
<1>13. t = View' /\ day \in Days
  BY DEF t, LogSound
<1> HIDE DEF batches
<1> QED BY <1>1, <1>2, <1>4, <1>5, <1>11, <1>12, <1>13, DeliverAccounts

LEMMA RestartAccounts ==
  ASSUME LogSound, LogSound', Kept, live' = Len(log'), Accounts,
         NEW i \in DOMAIN books.core, NEW j \in DOMAIN books.play, NEW renumber \in BOOLEAN,
         Restart(i, j, renumber), ~ torn'
  PROVE  Accounts'
<1> DEFINE s == View
           t == View'
           x == books.core[i]
           y == books.play[j]
<1>1. /\ books' = AtStart(<<x>>, <<y>>) /\ UNCHANGED borrowed
      /\ change' = NoChange /\ pending' = <<>>
  BY DEF Restart
<1>2. GoodView(s) /\ GoodView(t) /\ t.requests = Requests' /\ s.requests = Requests
  <2>1. GoodView(View)'
    BY ViewGood, PTL
  <2>2. (View.requests = Requests)'
    BY ViewIs, PTL
  <2> QED BY <2>1, <2>2, ViewGood, ViewIs
<1>3. Restarted(t, s)
  <2>1. t.format = format' /\ t.live = live' /\ t.length = Len(log') /\ t.borrowed = borrowed'
    BY DEF View
  <2> QED BY <1>1, <1>2, <2>1, ViewIs DEF Restarted, Kept
<1>4. x \in Range(books.core) /\ y \in Range(books.play)
  BY DEF Range
<1>5. \A r \in Request, d \in Days : y[d][r] > 0 => r \in Covered(x.mark, log)
  BY DEF Restart
<1>6. Safe(s, books)
  BY DEF Accounts
<1> HIDE DEF x, y
<1>7. \A q \in s.requests : Shows(y, q) => Bars(s, x.mark, q)
  <2> SUFFICES ASSUME NEW q \in s.requests, Shows(y, q) PROVE Bars(s, x.mark, q)
    OBVIOUS
  <2>1. q.id \in Covered(x.mark, log)
    BY <1>2, <1>5 DEF Shows, GoodView, Views, Closings
  <2>2. \E p \in Requests :
          /\ p.id = q.id /\ x.mark.kind # "none"
          /\ (x.mark.kind = "offsets" /\ x.mark.format = format
                => p.end <= x.mark.settled \/ p.start <= x.mark.base)
    BY <2>1 DEF Covered, Requests
  <2>3. \E p \in s.requests : p.id = q.id /\ Bars(s, x.mark, p)
    BY <1>2, <2>2, ViewIs DEF Bars, Current
  <2> QED BY <1>2, <2>3 DEF GoodView
<1> HIDE DEF s, t
<1>8. /\ Safe(t, books') /\ ~ books'.local.sink
      /\ \A q \in t.requests : Deliverable(t, books', q)
  BY <1>1, <1>2, <1>3, <1>4, <1>6, <1>7, RestartSafe
<1>9. Queue(t, books', pending')
  BY <1>1, NoBatches
<1> QED BY <1>2, <1>8, <1>9 DEF Accounts, LocalKeeps, t

\* The steps that change neither the session nor the books.
LEMMA StillAccounts ==
  ASSUME Accounts, UNCHANGED <<log, format, borrowed, live, books, pending, mode, change, watching, booted>>
  PROVE  Accounts'
<1>1. View' = View /\ Requests' = Requests /\ LocalWins' = LocalWins
  BY DEF View, Requests, LocalWins
<1> QED BY <1>1 DEF Accounts

LEMMA OnceInit == Init => OnceInv
BY LogInit, ControlInit, AccountsInit DEF OnceInv

LEMMA OnceStep == OnceInv /\ [Next]_vars => OnceInv'
<1> SUFFICES ASSUME OnceInv, [Next]_vars PROVE OnceInv'
  OBVIOUS
<1>1. LogSound /\ Control /\ (~ torn => Accounts) /\ day \in Days
  BY DEF OnceInv, LogSound
<1>2. Control'
  BY <1>1, ControlStep
<1>3. CASE BeginRequest
  <2>1. LogSound' /\ Grows
    BY <1>1, <1>3, BeginSound
  <2>2. torn' = torn
    BY <1>3 DEF BeginRequest, Happens
  <2>3. Accounts => Accounts'
    BY <1>1, <1>3, <2>1, HappensAccounts DEF BeginRequest
  <2> QED BY <1>1, <1>2, <2>1, <2>2, <2>3 DEF OnceInv
<1>4. ASSUME NEW kind \in {"sample", "final", "unreadable", "end"}, GoOn(kind) PROVE OnceInv'
  <2>1. LogSound' /\ Grows
    BY <1>1, <1>4, GoOnSound
  <2>2. torn' = torn
    BY <1>4 DEF GoOn, Happens
  <2>3. Accounts => Accounts'
    BY <1>1, <1>4, <2>1, HappensAccounts DEF GoOn
  <2> QED BY <1>1, <1>2, <2>1, <2>2, <2>3 DEF OnceInv
<1>5. ASSUME NEW listed \in BOOLEAN, Attach(listed) PROVE OnceInv'
  <2>1. LogSound'
    BY <1>1, <1>5, SameSound DEF Attach, session, ghosts
  <2>2. torn' = torn
    BY <1>5 DEF Attach, ghosts
  <2> QED BY <1>1, <1>2, <1>5, <2>1, <2>2, AttachAccounts DEF OnceInv
<1>6. CASE OpenCore
  <2>1. LogSound'
    BY <1>1, <1>6, SameSound DEF OpenCore, session, ghosts
  <2>2. torn' = torn
    BY <1>6 DEF OpenCore, ghosts
  <2> QED BY <1>1, <1>2, <1>6, <2>1, <2>2, OpenCoreAccounts DEF OnceInv
<1>7. CASE ResolveIdentity
  <2>1. LogSound'
    BY <1>1, <1>7, SameSound DEF ResolveIdentity, session, ghosts
  <2>2. torn' = torn
    BY <1>7 DEF ResolveIdentity, ghosts
  <2> QED BY <1>1, <1>2, <1>7, <2>1, <2>2, ResolveAccounts DEF OnceInv
<1>8. CASE OpenLocal
  <2>1. LogSound'
    BY <1>1, <1>8, SameSound DEF OpenLocal, session, ghosts
  <2>2. torn' = torn
    BY <1>8 DEF OpenLocal, ghosts
  <2> QED BY <1>1, <1>2, <1>8, <2>1, <2>2, OpenLocalAccounts DEF OnceInv
<1>9. ASSUME NEW failed \in BOOLEAN, GiveUp(failed) PROVE OnceInv'
  <2>1. LogSound'
    BY <1>1, <1>9, SameSound DEF GiveUp, session
  <2>2. torn' = torn
    BY <1>9 DEF GiveUp
  <2> QED BY <1>1, <1>2, <1>9, <2>1, <2>2, GiveUpAccounts DEF OnceInv
<1>10. CASE Change
  <2>1. UNCHANGED <<day, log, format, borrowed, live, owed, torn>>
    BY <1>10 DEF Change, KeepMode, AskChange, Barrier, PrepareLocal, PrepareOnline, CommitLocal, CommitOnline,
                 AbortChange, session, ghosts
  <2>2. LogSound'
    BY <1>1, <2>1, SameSound
  <2>3. Accounts => Accounts'
    BY <1>1, <1>10, KeepModeAccounts, AskAccounts, BarrierAccounts, PrepareLocalAccounts, PrepareOnlineAccounts,
       CommitLocalAccounts, CommitOnlineAccounts, AbortAccounts DEF Change
  <2> QED BY <1>1, <1>2, <2>1, <2>2, <2>3 DEF OnceInv
<1>11. CASE Midnight
  <2>1. UNCHANGED <<log, format, borrowed, live, owed, torn, books, pending, mode, change, watching, booted>>
    BY <1>11 DEF Midnight, ghosts, startup
  <2>2. day' \in Days
    BY <1>1, <1>11, UsageConstants DEF Midnight, Days
  <2>3. LogSound'
    BY <1>1, <2>1, <2>2, SameSound
  <2> QED BY <1>1, <1>2, <2>1, <2>3, StillAccounts DEF OnceInv
<1>12. CASE End
  <2>1. PICK i \in DOMAIN books.core, j \in DOMAIN books.play, renumber \in BOOLEAN : Restart(i, j, renumber)
    BY <1>12 DEF End
  <2>2. LogSound' /\ Kept /\ live' = Len(log')
    BY <1>1, <2>1, RestartSound
  <2>3. torn => torn'
    BY <2>1 DEF Restart
  <2>4. ~ torn' => Accounts'
    BY <1>1, <2>1, <2>2, <2>3, RestartAccounts
  <2> QED BY <1>2, <2>2, <2>4 DEF OnceInv
<1>13. CASE UNCHANGED vars
  <2>1. /\ UNCHANGED <<log, format, borrowed, live, owed, torn, books, pending, mode, change, watching, booted>>
        /\ day' = day
    BY <1>13 DEF vars, session, ghosts, startup
  <2>2. LogSound'
    BY <1>1, <2>1, SameSound
  <2> QED BY <1>1, <1>2, <2>1, <2>2, StillAccounts DEF OnceInv
<1> QED BY <1>3, <1>4, <1>5, <1>6, <1>7, <1>8, <1>9, <1>10, <1>11, <1>12, <1>13 DEF Next, Observation, Start

\* At every moment the log is read soundly, and unless a crash tore a local credit from
\* its watermark: each request is booked in one place at most, with its final usage, and
\* whatever has not been booked can be only once, by the books and the queue there are
\* (usage-ledger.ts:160-195, usage-projection.ts:60-121).
THEOREM OnceAlways == Spec => []OnceInv
<1>1. Init => OnceInv
  BY OnceInit
<1>2. OnceInv /\ [Next]_vars => OnceInv'
  BY OnceStep
<1> QED BY <1>1, <1>2, PTL DEF Spec
-----------------------------------------------------------------------------
(* What the books show of one request. *)

Cells == {"online", "local"} \X Days
Cell(r) == [x \in Cells |-> Daily(x[1])[x[2]][r]]

LEMMA CellsFinite == IsFiniteSet(Cells)
<1>1. IsFiniteSet(Days)
  BY UpTo, UsageConstants DEF Days
<1>2. IsFiniteSet({"online", "local"})
  <2>1. IsFiniteSet({}) /\ {"online", "local"} = ({} \cup {"online"}) \cup {"local"}
    BY FS_EmptySet
  <2> QED BY <2>1, FS_AddElement
<1> QED BY <1>1, <1>2, FS_Product DEF Cells

LEMMA BookedIs == \A r \in Request : Booked(r) = SumFunctionOnSet(Cell(r), Cells)
<1> TAKE r \in Request
<1>1. DOMAIN Cell(r) = Cells /\ Booked(r) = SumFunction(Cell(r))
  BY DEF Booked, Cell, Cells
<1> HIDE DEF Cell, Cells
<1> QED BY <1>1 DEF SumFunction

LEMMA DailyIn ==
  ASSUME Shape(books), NEW a \in {"online", "local"}
  PROVE  Daily(a) \in Records(books, a) /\ Daily(a) \in Dailies
<1>1. /\ books.online \in Memory /\ books.local \in Memory
      /\ Last(books.core) \in Range(books.core) /\ Last(books.core) \in Image
      /\ Last(books.play) \in Range(books.play) /\ Last(books.play) \in Dailies
  BY Fields
<1>2. CASE a = "online"
  BY <1>1, <1>2 DEF Daily, Records, Memory, Image
<1>3. CASE a = "local"
  BY <1>1, <1>3 DEF Daily, Records, Memory
<1> QED BY <1>2, <1>3

LEMMA BooksOnce ==
  ASSUME LogSound, Safe(View, books), NEW r \in Request
  PROVE  Booked(r) <= Billed(r)
<1> DEFINE f == Cell(r)
           t == TokensOf(Requests, r)
<1>1. Shape(books) /\ Once(books) /\ Exact(View, books)
  BY DEF Safe
<1>2. \A x \in Cells : x[1] \in {"online", "local"} /\ x[2] \in Days /\ x = <<x[1], x[2]>>
  BY DEF Cells
<1>3. \A x \in Cells : f[x] = Daily(x[1])[x[2]][r]
  BY DEF Cell
<1>4. \A x \in Cells : f[x] \in Nat
  BY <1>1, <1>2, <1>3, DailyIn DEF Dailies
<1>5. \A x \in Cells : f[x] > 0 => In(books, x[1], x[2], r)
  BY <1>1, <1>2, <1>3, DailyIn DEF In
<1>6. \A x \in Cells : f[x] > 0 => r > borrowed /\ \E q \in Requests : q.id = r /\ f[x] = q.tokens
  BY <1>1, <1>2, <1>3, DailyIn, ViewIs DEF Exact, Sides
<1>7. \A x, y \in Cells : f[x] > 0 /\ f[y] > 0 => x = y
  BY <1>1, <1>2, <1>5 DEF Once, Sides
<1>8. Requests \in SUBSET Closings /\ \A p, q \in Requests : p.id = q.id => p = q
  BY ViewGood, ViewIs DEF GoodView, Views, View
<1>9. \A q \in Requests : q.tokens \in {1, 2}
  BY <1>8 DEF Closings
<1>10. t \in Nat /\ \A q \in Requests : q.id = r => t = q.tokens
  BY <1>8, <1>9, TokensOne
<1>11. Billed(r) = IF r <= borrowed THEN 0 ELSE t
  BY DEF Billed, Requests
<1>12. Booked(r) = SumFunctionOnSet(f, Cells)
  BY BookedIs
<1>13. borrowed \in Nat /\ r \in Nat
  BY DEF LogSound, Request
<1> HIDE DEF f, t
<1>14. CASE \A x \in Cells : f[x] = 0
  <2>1. SumFunctionOnSet(f, Cells) = 0
    BY <1>14, CellsFinite, SumZero
  <2> QED BY <1>10, <1>11, <1>12, <2>1
<1>15. CASE \E x \in Cells : f[x] # 0
  <2>1. PICK x \in Cells : f[x] # 0
    BY <1>15
  <2>2. f[x] > 0 /\ f[x] \in Int
    BY <1>4, <2>1
  <2>3. \A y \in Cells \ {x} : f[y] = 0
    BY <1>4, <1>7, <2>1, <2>2
  <2>4. IsFiniteSet(Cells \ {x}) /\ \A y \in Cells : f[y] \in Int
    BY <1>4, CellsFinite, FS_Subset
  <2>5. SumFunctionOnSet(f, Cells \ {x}) = 0
    BY <2>3, <2>4, SumZero
  <2>6. SumFunctionOnSet(f, Cells) = f[x] + SumFunctionOnSet(f, Cells \ {x})
    BY <2>1, <2>4, CellsFinite, SumRemove
  <2>7. r > borrowed /\ f[x] = t
    BY <1>6, <1>10, <2>1, <2>2
  <2> QED BY <1>10, <1>11, <1>12, <1>13, <2>2, <2>5, <2>6, <2>7
<1> QED BY <1>14, <1>15

LEMMA OnceBooked == OnceInv => NoTokenTwice
<1> SUFFICES ASSUME OnceInv, ~ torn, NEW r \in Request PROVE Booked(r) <= Billed(r)
  BY DEF NoTokenTwice
<1>1. LogSound /\ Safe(View, books)
  BY DEF OnceInv, Accounts
<1> QED BY <1>1, BooksOnce

\* NoTokenTwice: however often the log is replayed, the Host restarted, the authority
\* changed and the session renumbered, a request is credited once over both authorities
\* at most, and no request its parent session was billed for; unless a crash tore a local
\* credit from its watermark (usage-ledger.ts:160-195, index.ts:130-146).
THEOREM TokensOnce == Spec => []NoTokenTwice
BY OnceAlways, OnceBooked, PTL
-----------------------------------------------------------------------------
(* The bounds of the watermarks. *)

Outdated(s, m) == m.kind # "none" /\ ~ Current(s, m)

\* A watermark of the session: it lies within its events.
Fits(s, m) == MarkOK(s, m) /\ m \in Marks /\ (Current(s, m) => m.base <= s.length /\ m.settled <= s.length)

LEMMA NoMarkFits == ASSUME NEW s PROVE Fits(s, NoMark) /\ ~ Current(s, NoMark) /\ ~ Outdated(s, NoMark)
<1>1. MarkOK(s, NoMark) /\ NoMark.kind = "none"
  BY NothingIs DEF MarkOK
<1> QED BY <1>1 DEF Fits, Marks, Current, Outdated

\* A merged watermark of this format has its bounds from such watermarks.
MergedFrom(s, c, m, n) ==
  /\ Fits(s, c)
  /\ Current(s, c) => \E k, l \in {m, n} :
       Current(s, k) /\ Current(s, l) /\ c.base = k.base /\ c.settled = l.settled
  /\ ~ Outdated(s, n) /\ (m.kind # "none" => n.kind # "none") => ~ Outdated(s, c)

LEMMA MergedMark ==
  ASSUME NEW s, GoodView(s), NEW m, Fits(s, m), NEW n, Fits(s, n)
  PROVE  MergedFrom(s, MergeMark(m, n), m, n)
<1> DEFINE c == MergeMark(m, n)
           newest == Larger(m.format, n.format)
           known == {k \in {m, n} : k.kind = "offsets" /\ k.format = newest}
<1>1. /\ MarkOK(s, m) /\ MarkOK(s, n) /\ m \in Mark /\ n \in Mark /\ m \in Marks /\ n \in Marks
      /\ s.format \in {1, 2} /\ s.length \in Nat
  BY DEF Fits, MarkOK, GoodView, Views
<1>2. MarkOK(s, c)
  BY <1>1, MergeMarks DEF Merges
<1>3. CASE m.kind = "none"
  <2>1. c = n
    BY <1>3 DEF MergeMark
  <2> QED BY <2>1 DEF MergedFrom
<1>4. CASE m.kind # "none" /\ n.kind = "none"
  <2>1. c = m
    BY <1>4 DEF MergeMark
  <2> QED BY <1>4, <2>1 DEF MergedFrom
<1>5. CASE m.kind # "none" /\ n.kind # "none" /\ known = {}
  <2>1. c = Legacy
    BY <1>5 DEF MergeMark
  <2>2. c \in Marks /\ ~ Current(s, c)
    BY <2>1 DEF Legacy, Marks, Current
  <2>3. n.kind # "offsets"
    <3>1. m.format \in Nat /\ n.format \in Nat
      BY <1>1 DEF Mark
    <3>2. m.kind = "offsets" => m.format \in 1 .. s.format
      BY <1>1 DEF MarkOK
    <3>3. n.kind = "offsets" => n.format \in 1 .. s.format
      BY <1>1 DEF MarkOK
    <3>4. m.kind # "offsets" => m.format = 0
      BY <1>1 DEF MarkOK
    <3>5. n.kind # "offsets" => n.format = 0
      BY <1>1 DEF MarkOK
    <3> QED BY <1>1, <1>5, <3>1, <3>2, <3>3, <3>4, <3>5 DEF Larger
  <2>4. Outdated(s, n)
    BY <1>5, <2>3 DEF Outdated, Current
  <2> QED BY <1>2, <2>2, <2>4 DEF MergedFrom, Fits
<1>6. CASE m.kind # "none" /\ n.kind # "none" /\ known # {}
  <2> DEFINE bases == {k.base : k \in known}
             settles == {k.settled : k \in known}
             lo == Min(bases)
             hi == Max(settles)
  <2>1. c = [kind |-> "offsets", format |-> newest, base |-> lo, settled |-> hi]
    BY <1>6 DEF MergeMark
  <2>2. known = {m} \/ known = {n} \/ known = {m, n}
    BY <1>6
  <2>3. m.base \in Nat /\ n.base \in Nat /\ m.settled \in Nat /\ n.settled \in Nat /\ m.format \in Nat /\ n.format \in Nat
    BY <1>1 DEF Mark
  <2>4. /\ bases = {m.base} \/ bases = {n.base} \/ bases = {m.base, n.base}
        /\ settles = {m.settled} \/ settles = {n.settled} \/ settles = {m.settled, n.settled}
    <3> HIDE DEF known
    <3> QED BY <2>2
  <2>5. lo \in bases
    <3>1. m.base \in Nat /\ n.base \in Nat
      BY <2>3
    <3> HIDE DEF bases
    <3> QED BY <2>4, <3>1, OfTwo
  <2>6. hi \in settles
    <3>1. m.settled \in Nat /\ n.settled \in Nat
      BY <2>3
    <3> HIDE DEF settles
    <3> QED BY <2>4, <3>1, OfTwo
  <2> HIDE DEF lo, hi
  <2>7. PICK k \in known : lo = k.base
    BY <2>5
  <2>8. PICK l \in known : hi = l.settled
    BY <2>6
  <2>9. /\ k \in {m, n} /\ k.kind = "offsets" /\ k.format = newest
        /\ l \in {m, n} /\ l.kind = "offsets" /\ l.format = newest
    OBVIOUS
  <2> HIDE DEF known, bases, settles, newest, c
  <2>10. c.kind = "offsets" /\ c.format = newest /\ c.base = k.base /\ c.settled = l.settled
    BY <2>1, <2>7, <2>8
  <2>11. k \in Marks /\ l \in Marks /\ Fits(s, k) /\ Fits(s, l)
    BY <1>1, <2>9
  <2>12. k.base \in 0 .. MaxEvents /\ k.format \in {1, 2} /\ l.settled \in 0 .. MaxEvents
    BY <2>9, <2>11 DEF Marks, NoMark, Legacy
  <2>13. c \in Marks
    <3>1. c = [kind |-> "offsets", format |-> newest, base |-> k.base, settled |-> l.settled]
      BY <2>1, <2>7, <2>8
    <3> QED BY <2>9, <2>12, <3>1 DEF Marks
  <2>14. ASSUME Current(s, c) PROVE Current(s, k) /\ Current(s, l)
    BY <2>9, <2>10, <2>14 DEF Current
  <2>15. Current(s, c) => c.base <= s.length /\ c.settled <= s.length
    BY <2>10, <2>11, <2>14 DEF Fits
  <2>16. ~ Outdated(s, n) => ~ Outdated(s, c)
    <3> SUFFICES ASSUME ~ Outdated(s, n) PROVE Current(s, c)
      BY DEF Outdated
    <3>1. n.kind = "offsets" /\ n.format = s.format
      BY <1>6 DEF Outdated, Current
    <3>2. m.format \in 0 .. s.format
      <4>1. m.kind = "offsets" => m.format \in 1 .. s.format
        BY <1>1 DEF MarkOK
      <4>2. m.kind # "offsets" => m.format = 0
        BY <1>1 DEF MarkOK
      <4> QED BY <1>1, <4>1, <4>2
    <3>3. newest = s.format
      BY <1>1, <3>1, <3>2 DEF Larger, newest
    <3> QED BY <2>10, <3>3 DEF Current
  <2> QED BY <1>2, <2>9, <2>10, <2>13, <2>14, <2>15, <2>16 DEF MergedFrom, Fits, c
<1> QED BY <1>3, <1>4, <1>5, <1>6

\* The watermark a batch leaves: its bounds are those it had, or lie within the batch.
MarkedBy(s, c, m, batch) ==
  /\ Fits(s, c) /\ Current(s, c)
  /\ IF Current(s, m) THEN c.base = m.base
     ELSE c.base = IF m.kind = "none" /\ ~ batch.catchup THEN s.live ELSE batch.through
  /\ c.settled = batch.through \/ (Current(s, m) /\ c.settled = m.settled)

LEMMA CreditFits ==
  ASSUME NEW s, GoodView(s), s.length <= MaxEvents, NEW m, Fits(s, m), NEW batch, BatchOK(s, batch),
         NEW today, NEW record
  PROVE  MarkedBy(s, Credit(m, record, batch, today).mark, m, batch)
<1> DEFINE c == Credit(m, record, batch, today).mark
           f == Fence(m, batch)
<1>1. /\ MarkOK(s, m) /\ m \in Mark /\ m.base \in Nat /\ m.settled \in Nat
      /\ Current(s, m) => m.base <= s.length /\ m.settled <= s.length
  BY DEF Fits, MarkOK, Mark
<1>2. /\ s.live \in Nat /\ s.format \in {1, 2} /\ s.length \in Nat /\ batch.through \in Nat /\ batch.live = s.live
      /\ batch.format = s.format /\ s.live <= batch.through /\ batch.through <= s.length
  BY DEF GoodView, Views, BatchOK, Batches
<1>3. MarkOK(s, c) /\ Current(s, c) /\ c.base = f.base /\ c.settled = Larger(f.settled, batch.through)
  BY <1>1, CreditMark
<1>4. c = [kind |-> "offsets", base |-> c.base, format |-> s.format, settled |-> c.settled]
  BY <1>2 DEF Credit
<1> HIDE DEF c
<1>5. Current(s, m) => MarkedBy(s, c, m, batch)
  <2> SUFFICES ASSUME Current(s, m) PROVE MarkedBy(s, c, m, batch)
    OBVIOUS
  <2>1. f.base = m.base /\ f.settled = m.settled
    BY <1>2 DEF Fence, Current
  <2>2. c.base = m.base /\ (c.settled = batch.through \/ c.settled = m.settled)
    <3> HIDE DEF f
    <3> QED BY <1>3, <2>1 DEF Larger
  <2>3. c.base \in Nat /\ c.settled \in Nat /\ c.base <= s.length /\ c.settled <= s.length
    BY <1>1, <1>2, <2>2
  <2>4. c \in Marks
    BY <1>2, <1>4, <2>3, UsageConstants DEF Marks
  <2> QED BY <1>3, <2>2, <2>3, <2>4 DEF MarkedBy, Fits
<1>6. ~ Current(s, m) => MarkedBy(s, c, m, batch)
  <2> SUFFICES ASSUME ~ Current(s, m) PROVE MarkedBy(s, c, m, batch)
    OBVIOUS
  <2>1. m.kind # "none" => m.format # batch.format
    <3>1. m.kind # "offsets" => m.format = 0
      BY <1>1 DEF MarkOK
    <3> QED BY <1>2, <3>1 DEF Current
  <2>2. /\ f.base = IF m.kind = "none" /\ ~ batch.catchup THEN s.live ELSE batch.through
        /\ f.settled = f.base
    BY <1>2, <2>1 DEF Fence
  <2>3. c.settled = batch.through
    <3> HIDE DEF f
    <3> QED BY <1>2, <1>3, <2>2 DEF Larger
  <2>4. c.base = IF m.kind = "none" /\ ~ batch.catchup THEN s.live ELSE batch.through
    BY <1>3, <2>2
  <2>5. c.base \in Nat /\ c.base <= s.length
    BY <1>2, <2>4
  <2>6. c \in Marks
    BY <1>2, <1>4, <2>3, <2>5, UsageConstants DEF Marks
  <2> QED BY <1>2, <1>3, <2>3, <2>4, <2>5, <2>6 DEF MarkedBy, Fits
<1> QED BY <1>5, <1>6 DEF c
-----------------------------------------------------------------------------
(* Books whose watermarks are those of others, or merged from them. *)

Bounded(s, b) == Shape(b) /\ \A m \in Marked(b) : Fits(s, m)

From(s, m, b) ==
  Current(s, m) => \E k, l \in Marked(b) :
    Current(s, k) /\ Current(s, l) /\ m.base = k.base /\ m.settled = l.settled

Draws(s, c, b) == Shape(c) /\ \A m \in Marked(c) : Fits(s, m) /\ From(s, m, b)

LEMMA DrawsBounded == ASSUME NEW s, NEW c, NEW b, Draws(s, c, b) PROVE Bounded(s, c)
BY DEF Draws, Bounded

LEMMA DrawsBy ==
  ASSUME NEW s, NEW b, Bounded(s, b), NEW c, Shape(c), \A m \in Marked(c) : m \in Marked(b) \/ m = NoMark
  PROVE  Draws(s, c, b)
BY NoMarkFits DEF Draws, Bounded, From

LEMMA DrawsOn ==
  ASSUME NEW s, NEW a, NEW b, NEW c, Draws(s, b, a), Draws(s, c, b)
  PROVE  Draws(s, c, a)
<1> SUFFICES ASSUME NEW m \in Marked(c), Current(s, m)
             PROVE  \E k, l \in Marked(a) : Current(s, k) /\ Current(s, l) /\ m.base = k.base /\ m.settled = l.settled
  BY DEF Draws, From
<1>1. PICK k, l \in Marked(b) : Current(s, k) /\ Current(s, l) /\ m.base = k.base /\ m.settled = l.settled
  BY DEF Draws, From
<1>2. \E x \in Marked(a) : Current(s, x) /\ k.base = x.base
  BY <1>1 DEF Draws, From
<1>3. \E y \in Marked(a) : Current(s, y) /\ l.settled = y.settled
  BY <1>1 DEF Draws, From
<1> QED BY <1>1, <1>2, <1>3

LEMMA MergedFits ==
  ASSUME NEW s, GoodView(s), NEW b, Bounded(s, b), NEW m \in Marked(b), NEW n \in Marked(b)
  PROVE  LET c == MergeMark(m, n)
         IN  Fits(s, c) /\ From(s, c, b) /\ c \in Mark /\ MergedFrom(s, c, m, n)
<1>1. Fits(s, m) /\ Fits(s, n)
  BY DEF Bounded
<1>2. MergedFrom(s, MergeMark(m, n), m, n)
  BY <1>1, MergedMark
<1> QED BY <1>2 DEF MergedFrom, From, Fits, MarkOK

LEMMA HydrateDraws ==
  ASSUME NEW s, GoodView(s), NEW b, Bounded(s, b)
  PROVE  Draws(s, Hydrate(b), b)
<1> DEFINE mark  == MergeMark(b.online.mark, Last(b.core).mark)
           daily == MergeDaily(b.online.daily, Last(b.core).daily)
           c == Hydrate(b)
<1>1. Shape(b) /\ Last(b.core) \in Range(b.core)
  BY Fields DEF Bounded
<1>2. b.online.mark \in Marked(b) /\ Last(b.core).mark \in Marked(b)
  BY <1>1 DEF Marked
<1>3. Fits(s, mark) /\ From(s, mark, b) /\ mark \in Mark
  BY <1>2, MergedFits
<1>4. Hydrated(c, b, mark, daily)
  BY <1>1, <1>3, HydrateIs
<1> HIDE DEF mark, daily, c
<1>5. \A m \in Marked(c) : m = mark \/ m \in Marked(b)
  <2>1. Last(b.core).mark \in Marked(b)
    BY <1>2
  <2> QED BY <1>4 DEF Hydrated, Marked
<1>6. \A m \in Marked(b) : Fits(s, m) /\ From(s, m, b)
  BY DEF Bounded, From
<1>7. Shape(c)
  BY <1>4 DEF Hydrated
<1> QED BY <1>3, <1>5, <1>6, <1>7 DEF Draws, c

LEMMA AttachedDraws ==
  ASSUME NEW s, GoodView(s), NEW b, Bounded(s, b)
  PROVE  Draws(s, Attached(b), b)
<1> DEFINE mark  == MergeMark(b.local.mark, Last(b.core).mark)
           daily == MergeDaily(b.local.daily, Last(b.play))
           c == Attached(b)
<1>1. Shape(b) /\ Last(b.core) \in Range(b.core)
  BY Fields DEF Bounded
<1>2. b.local.mark \in Marked(b) /\ Last(b.core).mark \in Marked(b)
  BY <1>1 DEF Marked
<1>3. Fits(s, mark) /\ From(s, mark, b) /\ mark \in Mark
  BY <1>2, MergedFits
<1>4. AttachedTo(c, b, mark, daily)
  BY <1>1, <1>3, AttachedIs
<1> HIDE DEF mark, daily, c
<1>5. \A m \in Marked(c) : m = mark \/ m \in Marked(b)
  BY <1>4 DEF AttachedTo, Marked
<1>6. \A m \in Marked(b) : Fits(s, m) /\ From(s, m, b)
  BY DEF Bounded, From
<1>7. Shape(c)
  BY <1>4 DEF AttachedTo
<1> QED BY <1>3, <1>5, <1>6, <1>7 DEF Draws, c

LEMMA LighterDraws ==
  ASSUME NEW s, NEW b, Bounded(s, b), NEW c, Lighter(c, b)
  PROVE  Draws(s, c, b)
<1>1. \A m \in Marked(c) : m = NoMark \/ m \in Marked(b)
  BY NothingIs DEF Lighter, Marked
<1>2. Shape(c)
  BY DEF Lighter
<1> QED BY <1>1, <1>2, DrawsBy

LEMMA ObserveBounded ==
  ASSUME NEW s, GoodView(s), s.length <= MaxEvents, day \in Days, NEW b, Bounded(s, b),
         NEW batch, BatchOK(s, batch), NEW slot \in Sides
  PROVE  Bounded(s, Observe(b, slot, batch))
<1> DEFINE c == Observe(b, slot, batch)
<1>1. Shape(b) /\ b.online \in Memory /\ b.local \in Memory
  BY Fields DEF Bounded
<1>2. b.online.mark \in Marked(b) /\ b.local.mark \in Marked(b) /\ \A m \in Marked(b) : Fits(s, m) /\ MarkOK(s, m)
  BY DEF Bounded, Marked, Fits
<1>3. CASE slot = "online"
  <2> DEFINE mark == MarkAfter(b.online, batch)
             new == AfterBatch(b.online, batch)
  <2>1. OnlineTakes(c, b, mark, new)
    BY <1>1, <1>2, <1>3, ObserveOnlineIs DEF Observe
  <2>2. Fits(s, mark)
    BY <1>2, CreditFits DEF MarkAfter, CreditOf, MarkedBy
  <2> HIDE DEF mark, new, c
  <2>3. \A m \in Marked(c) : m = mark \/ m \in Marked(b)
    BY <2>1 DEF OnlineTakes, Marked
  <2>4. Bounded(s, c)
    BY <1>2, <2>1, <2>2, <2>3 DEF OnlineTakes, Bounded
  <2> QED BY <2>4 DEF c
<1>4. CASE slot = "local"
  <2> DEFINE mark == MarkAfter(b.local, batch)
             new == AfterBatch(b.local, batch)
  <2>1. LocalTakes(c, b, mark, new)
    BY <1>1, <1>2, <1>4, ObserveLocalIs DEF Observe
  <2>2. Fits(s, mark)
    BY <1>2, CreditFits DEF MarkAfter, CreditOf, MarkedBy
  <2> HIDE DEF mark, new, c
  <2>3. \A m \in Marked(c) : m = mark \/ m \in Marked(b)
    BY <2>1 DEF LocalTakes, Marked
  <2>4. Bounded(s, c)
    BY <1>2, <2>1, <2>2, <2>3 DEF LocalTakes, Bounded
  <2> QED BY <2>4 DEF c
<1> QED BY <1>3, <1>4 DEF Sides

LEMMA DeliveredBounded ==
  ASSUME NEW s, GoodView(s), s.length <= MaxEvents, day \in Days, NEW b, Bounded(s, b), NEW slot \in Sides,
         NEW batches \in Seq(Batches), \A i \in DOMAIN batches : BatchOK(s, batches[i])
  PROVE  Bounded(s, Delivered(b, slot, batches))
<1> DEFINE N == Len(batches)
<1>1. N \in Nat /\ DOMAIN batches = 1 .. N
  OBVIOUS
<1> HIDE DEF N
<1>2. PICK G : IsFlow(b, slot, batches, N, G) /\ Delivered(b, slot, batches) = G[N]
  BY <1>1, DeliveredFlow
<1> DEFINE B == {n \in 0 .. N : ~ Bounded(s, G[n])}
<1>3. Bounded(s, G[0])
  BY <1>2 DEF IsFlow
<1>4. ASSUME NEW n \in 1 .. N, Bounded(s, G[n - 1]) PROVE Bounded(s, G[n])
  <2>1. G[n] = Observe(G[n - 1], slot, batches[n]) /\ BatchOK(s, batches[n])
    BY <1>1, <1>2 DEF IsFlow
  <2> QED BY <1>4, <2>1, ObserveBounded
<1>5. B = {}
  <2> SUFFICES ASSUME NEW z \in B PROVE FALSE
    OBVIOUS
  <2>1. PICK m \in B : \A n \in B : m <= n
    <3>1. B \in SUBSET Nat
      OBVIOUS
    <3> HIDE DEF B
    <3> QED BY <3>1, LeastNumber
  <2>2. m # 0
    BY <1>3
  <2>3. m \in 1 .. N /\ m - 1 \in 0 .. N /\ m - 1 \notin B
    BY <1>1, <2>1, <2>2
  <2>4. Bounded(s, G[m - 1])
    BY <2>3
  <2> QED BY <1>4, <2>3, <2>4
<1>6. N \in 0 .. N
  BY <1>1
<1> QED BY <1>2, <1>5, <1>6
-----------------------------------------------------------------------------
(* Books whose memory and domains agree. *)

\* An authority that writes remembers what its domain holds; one that does not remembers nothing.
Faithful(b) ==
  /\ b.online.daily = IF b.online.sink THEN Last(b.core).daily ELSE Empty
  /\ b.local.daily = IF b.local.sink THEN Last(b.play) ELSE Empty
  /\ b.online.mark = IF b.online.sink THEN Last(b.core).mark ELSE NoMark
  /\ b.local.mark.kind # "none" => b.local.sink /\ Last(b.core).mark.kind # "none"
  /\ b.online.sink => b.online.alive
  /\ b.local.sink => b.local.alive

\* The domains show the same.
Lasts(c, b) ==
  Last(c.core).mark = Last(b.core).mark /\ Last(c.core).daily = Last(b.core).daily /\ Last(c.play) = Last(b.play)

\* Merged into nothing, or into itself, a daily record stays.
LEMMA MergedSame ==
  ASSUME NEW x \in Dailies, NEW y \in Dailies, x = Empty \/ x = y
  PROVE  MergeDaily(x, y) = y
<1>1. MergeDaily(x, y) = [d \in Days |-> IF Tokens(y[d]) > Tokens(x[d]) THEN y[d] ELSE x[d]]
  BY DEF MergeDaily
<1>2. y = [d \in Days |-> y[d]] /\ \A d \in Days : y[d] \in [Request -> Nat]
  BY DEF Dailies
<1>3. CASE x = y
  BY <1>1, <1>2, <1>3
<1>4. CASE x = Empty
  <2>1. IsFiniteSet(Request)
    BY UpTo, UsageConstants DEF Request
  <2>2. \A f \in [Request -> Nat] : Tokens(f) = SumFunctionOnSet(f, Request)
    BY DEF Tokens, SumFunction
  <2>3. ASSUME NEW d \in Days PROVE (IF Tokens(y[d]) > Tokens(x[d]) THEN y[d] ELSE x[d]) = y[d]
    <3>1. x[d] = Nothing /\ Nothing \in [Request -> Nat] /\ \A r \in Request : Nothing[r] = 0
      BY <1>4 DEF Empty, Nothing
    <3>2. Tokens(x[d]) = 0
      BY <2>1, <2>2, <3>1, SumZero
    <3> SUFFICES ASSUME ~ (Tokens(y[d]) > Tokens(x[d])) PROVE y[d] = Nothing
      BY <3>1
    <3> DEFINE f == y[d]
    <3>3. f \in [Request -> Nat]
      BY <1>2
    <3>4. ~ (SumFunctionOnSet(f, Request) > 0)
      BY <2>2, <3>2, <3>3
    <3> HIDE DEF f
    <3>5. SumFunctionOnSet(f, Request) \in Nat
      BY <2>1, <3>3, SumType
    <3>6. \A r \in Request : f[r] <= SumFunctionOnSet(f, Request) /\ f[r] \in Nat
      BY <2>1, <3>3, TermAtMostSum
    <3>7. \A r \in Request : f[r] = 0
      BY <3>4, <3>5, <3>6
    <3>8. f = [r \in Request |-> 0]
      BY <3>3, <3>7
    <3> QED BY <3>8 DEF f, Nothing
  <2>4. MergeDaily(x, y) = [d \in Days |-> y[d]]
    BY <1>1, <2>3
  <2> QED BY <1>2, <2>4
<1> QED BY <1>3, <1>4

HydratedFaithful(c, b) ==
  Faithful(c) /\ Lasts(c, b) /\ c.local = b.local /\ c.online.alive /\ c.online.sink

LEMMA HydrateFaithful ==
  ASSUME NEW b, Shape(b), Faithful(b), ~ b.online.sink
  PROVE  HydratedFaithful(Hydrate(b), b)
<1> DEFINE mark  == MergeMark(b.online.mark, Last(b.core).mark)
           daily == MergeDaily(b.online.daily, Last(b.core).daily)
           c == Hydrate(b)
<1>1. Last(b.core) \in Image /\ b.online.daily = Empty /\ b.online.mark = NoMark
  BY Fields DEF Faithful
<1>2. Last(b.core).mark \in Mark /\ Last(b.core).daily \in Dailies
  BY <1>1 DEF Image
<1>3. mark = Last(b.core).mark
  BY <1>1, NothingIs DEF MergeMark
<1>4. daily = Last(b.core).daily
  BY <1>1, <1>2, NothingIs, MergedSame
<1>5. Hydrated(c, b, mark, daily)
  BY <1>2, <1>3, HydrateIs
<1> HIDE DEF mark, daily, c
<1>6. HydratedFaithful(c, b)
  BY <1>3, <1>4, <1>5 DEF Hydrated, HydratedFaithful, Faithful, Lasts
<1> QED BY <1>6 DEF c

AttachedFaithful(s, c, b) ==
  /\ Faithful(c) /\ Lasts(c, b) /\ c.online = b.online /\ c.local.alive /\ c.local.sink
  /\ ~ Outdated(s, Last(b.core).mark) => ~ Outdated(s, c.local.mark)

LEMMA AttachFaithful ==
  ASSUME NEW s, GoodView(s), NEW b, Bounded(s, b), Faithful(b)
  PROVE  AttachedFaithful(s, Attached(b), b)
<1> DEFINE mark  == MergeMark(b.local.mark, Last(b.core).mark)
           daily == MergeDaily(b.local.daily, Last(b.play))
           c == Attached(b)
<1>1. Shape(b) /\ Last(b.core) \in Range(b.core) /\ Last(b.play) \in Dailies /\ b.local \in Memory
  BY Fields DEF Bounded
<1>2. b.local.mark \in Marked(b) /\ Last(b.core).mark \in Marked(b)
  BY <1>1 DEF Marked
<1>3. mark \in Mark /\ MergedFrom(s, mark, b.local.mark, Last(b.core).mark)
  BY <1>2, MergedFits
<1>4. daily = Last(b.play)
  <2>1. b.local.daily \in Dailies /\ (b.local.daily = Empty \/ b.local.daily = Last(b.play))
    BY <1>1 DEF Memory, Faithful
  <2> QED BY <1>1, <2>1, MergedSame
<1>5. b.local.mark.kind # "none" => Last(b.core).mark.kind # "none"
  BY DEF Faithful
<1>6. mark.kind # "none" => Last(b.core).mark.kind # "none"
  BY <1>5 DEF MergeMark
<1>7. ~ Outdated(s, Last(b.core).mark) => ~ Outdated(s, mark)
  BY <1>3, <1>5 DEF MergedFrom
<1>8. AttachedTo(c, b, mark, daily)
  BY <1>1, <1>3, AttachedIs
<1> HIDE DEF mark, daily, c
<1>9. AttachedFaithful(s, c, b)
  BY <1>4, <1>6, <1>7, <1>8 DEF AttachedTo, AttachedFaithful, Faithful, Lasts
<1> QED BY <1>9 DEF c

\* A choice is saved, earlier writes become durable, the online authority stops or starts anew.
Slimmed(c, b, o) == Lighter(c, b) /\ Faithful(c) /\ Lasts(c, b) /\ c.local = b.local /\ c.online = o

LEMMA SlimFaithful ==
  ASSUME NEW b, Shape(b), Faithful(b), NEW o, o = b.online \/ o \in {Gone, Fresh},
         NEW k, Chosen(k, b), NEW j, j = b.play \/ j = Durable(Last(b.play)),
         NEW c, c = [online |-> o, local |-> b.local, core |-> k, play |-> j]
  PROVE  Slimmed(c, b, o)
<1>1. b.local \in Memory /\ Last(b.core) \in Image /\ Last(b.play) \in Dailies
  BY Fields
<1>2. Lighter(c, b)
  BY <1>1, LighterBy
<1>3. c.online = o /\ c.local = b.local /\ c.core = k /\ c.play = j
  OBVIOUS
<1>4. Last(k).mark = Last(b.core).mark /\ Last(k).daily = Last(b.core).daily
  <2>1. CASE k = b.core
    BY <2>1
  <2>2. ASSUME NEW p \in {"online", "local"}, k = Durable([Last(b.core) EXCEPT !.pref = p])
        PROVE  Last(k).mark = Last(b.core).mark /\ Last(k).daily = Last(b.core).daily
    <3> DEFINE x == [Last(b.core) EXCEPT !.pref = p]
    <3>1. x \in Image /\ x.mark = Last(b.core).mark /\ x.daily = Last(b.core).daily
      BY <1>1 DEF Image
    <3> HIDE DEF x
    <3>2. Last(k) = x
      BY <2>2, <3>1, DurableIs DEF x
    <3> QED BY <3>1, <3>2
  <2> QED BY <2>1, <2>2 DEF Chosen
<1>5. Last(j) = Last(b.play)
  BY <1>1, DurableIs
<1>6. Lasts(c, b)
  BY <1>3, <1>4, <1>5 DEF Lasts
<1>7. o = b.online \/ (~ o.sink /\ o.daily = Empty /\ o.mark = NoMark)
  BY NothingIs
<1>8. Faithful(c)
  BY <1>3, <1>6, <1>7 DEF Faithful, Lasts
<1> QED BY <1>2, <1>3, <1>6, <1>8 DEF Slimmed
-----------------------------------------------------------------------------
(* What a batch brings to an authority that is ready for it. *)

\* The record after a batch has all it had, and all that was due.
LEMMA AfterBatchHas ==
  ASSUME NEW s, GoodView(s), NEW p \in Memory, MarkOK(s, p.mark), NEW batch, BatchOK(s, batch), day \in Days
  PROVE  /\ AfterBatch(p, batch) \in Dailies
         /\ \A d \in Days, r \in Request : AfterBatch(p, batch)[d][r] >= p.daily[d][r]
         /\ \A q \in Due(Fence(p.mark, batch), batch, day) : AfterBatch(p, batch)[day][q.id] >= q.tokens
<1> DEFINE old == p.daily
           rec == CreditOf(p, batch).record
           new == AfterBatch(p, batch)
           due == Due(Fence(p.mark, batch), batch, day)
<1>1. old \in Dailies /\ old[day] \in [Request -> Nat]
  BY DEF Memory, Dailies
<1>2. new \in Dailies
  BY CreditOfIs
<1>3. /\ rec \in [Request -> Nat] /\ due \subseteq batch.requests
      /\ \A q \in due : rec[q.id] = old[day][q.id] + q.tokens
      /\ \A r \in Request : (\A q \in due : q.id # r) => rec[r] = old[day][r]
  BY <1>1, CreditRecord DEF CreditOf
<1>4. \A q \in due : q.id \in Request /\ q.tokens \in Nat
  BY <1>3 DEF BatchOK, GoodView, Views, Closings
<1>5. new = [old EXCEPT ![day] = rec]
  BY DEF AfterBatch
<1> HIDE DEF old, rec, new, due
<1>6. new[day] = rec /\ \A d \in Days : d # day => new[d] = old[d]
  BY <1>1, <1>5 DEF Dailies
<1>7. \A r \in Request : rec[r] >= old[day][r]
  <2> SUFFICES ASSUME NEW r \in Request PROVE rec[r] >= old[day][r]
    OBVIOUS
  <2>1. old[day][r] \in Nat
    BY <1>1
  <2>2. CASE \E q \in due : q.id = r
    <3>1. PICK q \in due : q.id = r
      BY <2>2
    <3>2. rec[r] = old[day][r] + q.tokens /\ q.tokens \in Nat
      BY <1>3, <1>4, <3>1
    <3> QED BY <2>1, <3>2
  <2>3. CASE \A q \in due : q.id # r
    <3>1. rec[r] = old[day][r]
      BY <1>3, <2>3
    <3> QED BY <2>1, <3>1
  <2> QED BY <2>2, <2>3
<1>8. \A d \in Days, r \in Request : new[d][r] >= old[d][r]
  <2> SUFFICES ASSUME NEW d \in Days, NEW r \in Request PROVE new[d][r] >= old[d][r]
    OBVIOUS
  <2>1. CASE d = day
    BY <1>6, <1>7, <2>1
  <2>2. CASE d # day
    <3>1. new[d] = old[d] /\ old[d][r] \in Nat
      BY <1>1, <1>6, <2>2 DEF Dailies
    <3> QED BY <3>1
  <2> QED BY <2>1, <2>2
<1>9. \A q \in due : new[day][q.id] >= q.tokens
  <2> SUFFICES ASSUME NEW q \in due PROVE new[day][q.id] >= q.tokens
    OBVIOUS
  <2>1. rec[q.id] = old[day][q.id] + q.tokens /\ old[day][q.id] \in Nat /\ q.tokens \in Nat
    BY <1>1, <1>3, <1>4
  <2> QED BY <1>6, <2>1
<1> QED BY <1>2, <1>8, <1>9 DEF old, new, due

\* Every attempt of Z began after all that the watermark and the batch bar for good.
Awaited(s, m, batch, Z) ==
  /\ \A z \in Z : z \in Nat /\ z > s.live
  /\ Current(s, m) => \A z \in Z : z > m.base
  /\ batch.catchup => \A z \in Z : z > batch.through
  /\ batch.catchup \/ ~ Outdated(s, m)

\* So it is with the watermark the batch leaves, and what began in Z is due.
Takes(s, c, m, batch, today, Z) ==
  /\ Current(s, c) /\ \A z \in Z : z > c.base
  /\ \A q \in s.requests : q.end > batch.through /\ (Current(s, m) => q.end > m.settled) => q.end > c.settled
  /\ \A q \in batch.requests :
       ~ batch.catchup /\ q.start \in Z /\ (Current(s, m) => q.end > m.settled) => q \in Due(Fence(m, batch), batch, today)

LEMMA CreditTakes ==
  ASSUME NEW s, GoodView(s), s.length <= MaxEvents, NEW m, Fits(s, m), NEW batch, BatchOK(s, batch),
         NEW today, NEW record, NEW Z, Awaited(s, m, batch, Z)
  PROVE  Takes(s, Credit(m, record, batch, today).mark, m, batch, today, Z)
<1> DEFINE c == Credit(m, record, batch, today).mark
           f == Fence(m, batch)
<1>1. MarkedBy(s, c, m, batch)
  BY CreditFits
<1>2. c.base = f.base
  BY CreditMark DEF Fits
<1>3. /\ s.live \in Nat /\ s.format \in {1, 2} /\ batch.through \in Nat /\ batch.live = s.live
      /\ batch.format = s.format /\ m.settled \in Nat /\ m.base \in Nat
      /\ m.kind # "offsets" => m.format = 0
  BY DEF GoodView, Views, BatchOK, Batches, Fits, MarkOK, Mark
<1>4. m.kind = "none" \/ Current(s, m) \/ batch.catchup
  BY DEF Awaited, Outdated
<1>5. f.settled = IF Current(s, m) THEN m.settled ELSE f.base
  <2>1. CASE Current(s, m)
    BY <1>3, <2>1 DEF Fence, Current
  <2>2. CASE ~ Current(s, m)
    <3>1. m.kind = "offsets" => m.format # batch.format
      BY <1>3, <2>2 DEF Current
    <3> QED BY <2>2, <3>1 DEF Fence
  <2> QED BY <2>1, <2>2
<1> HIDE DEF c, f
<1>6. Current(s, c)
  BY <1>1 DEF MarkedBy
<1>7. \A z \in Z : z \in Nat /\ z > c.base /\ c.base \in Nat
  <2> SUFFICES ASSUME NEW z \in Z PROVE z \in Nat /\ z > c.base /\ c.base \in Nat
    OBVIOUS
  <2>1. z \in Nat /\ z > s.live /\ (Current(s, m) => z > m.base) /\ (batch.catchup => z > batch.through)
    BY DEF Awaited
  <2>2. CASE Current(s, m)
    BY <1>1, <1>3, <2>1, <2>2 DEF MarkedBy
  <2>3. CASE ~ Current(s, m) /\ batch.catchup
    BY <1>1, <1>3, <2>1, <2>3 DEF MarkedBy
  <2>4. CASE ~ Current(s, m) /\ ~ batch.catchup
    <3>1. m.kind = "none"
      BY <1>4, <2>4
    <3> QED BY <1>1, <1>3, <2>1, <2>4, <3>1 DEF MarkedBy
  <2> QED BY <2>2, <2>3, <2>4
<1>8. ASSUME NEW q \in s.requests, q.end > batch.through, Current(s, m) => q.end > m.settled PROVE q.end > c.settled
  BY <1>1, <1>8 DEF MarkedBy
<1>9. ASSUME NEW q \in batch.requests, ~ batch.catchup, q.start \in Z, Current(s, m) => q.end > m.settled
      PROVE  q \in Due(f, batch, today)
  <2>1. q \in s.requests /\ q.start \in Nat /\ q.end \in Nat /\ q.start < q.end
    BY DEF BatchOK, GoodView, Views, Closings
  <2>2. q.start > f.base /\ f.base \in Nat
    BY <1>2, <1>7, <1>9
  <2>3. q.end > f.settled
    BY <1>5, <1>9, <2>1, <2>2
  <2> QED BY <1>9, <2>2, <2>3 DEF Due
<1> QED BY <1>6, <1>7, <1>8, <1>9 DEF Takes, c, f

Clear(s, b, Z)     == \A m \in Marked(b) : Current(s, m) => \A z \in Z : z > m.base
Unsettled(s, b, q) == \A m \in Marked(b) : Current(s, m) => q.end > m.settled

\* No watermark that a batch for this authority meets is of an older format.
Ready(s, b, slot) == ~ Outdated(s, Last(b.core).mark) /\ (slot = "local" => ~ Outdated(s, b.local.mark))

Counted(b, q) == \E d \in Days : Last(b.core).daily[d][q.id] >= q.tokens \/ Last(b.play)[d][q.id] >= q.tokens

Presence(c, b) ==
  /\ c.online.alive = b.online.alive /\ c.online.sink = b.online.sink
  /\ c.local.alive = b.local.alive /\ c.local.sink = b.local.sink

\* The authority writes, and is the only one to move the shared watermark.
Serves(b, slot) == IF slot = "online" THEN b.online.sink ELSE b.local.sink /\ ~ b.online.sink

CanTake(s, b, slot, batch, Z) ==
  /\ Bounded(s, b) /\ Faithful(b) /\ Serves(b, slot)
  /\ (\A z \in Z : z \in Nat /\ z > s.live) /\ Clear(s, b, Z)
  /\ batch.catchup => \A z \in Z : z > batch.through
  /\ batch.catchup \/ Ready(s, b, slot)

\* What one batch leaves of books that can take it.
Served(s, c, b, slot, batch, Z) ==
  /\ Bounded(s, c) /\ Faithful(c) /\ Presence(c, b) /\ Clear(s, c, Z) /\ Ready(s, c, slot)
  /\ \A q \in s.requests : q.end > batch.through /\ Unsettled(s, b, q) => Unsettled(s, c, q)
  /\ \A q \in batch.requests : ~ batch.catchup /\ q.start \in Z /\ Unsettled(s, b, q) => Counted(c, q)
  /\ \A q \in s.requests : Counted(b, q) => Counted(c, q)

LEMMA OnlineServed ==
  ASSUME NEW s, GoodView(s), s.length <= MaxEvents, day \in Days, NEW b, NEW batch, BatchOK(s, batch),
         NEW Z, CanTake(s, b, "online", batch, Z)
  PROVE  Served(s, ObserveOnline(b, batch), b, "online", batch, Z)
<1> DEFINE p == b.online
           m == p.mark
           mark == MarkAfter(p, batch)
           new == AfterBatch(p, batch)
           c == ObserveOnline(b, batch)
<1>1. Shape(b) /\ p \in Memory /\ b.online.sink /\ Last(b.core) \in Range(b.core)
  BY Fields DEF CanTake, Bounded, Serves
<1>2. /\ m \in Marked(b) /\ Fits(s, m) /\ MarkOK(s, m)
      /\ m = Last(b.core).mark /\ p.daily = Last(b.core).daily
  BY <1>1 DEF CanTake, Bounded, Marked, Fits, Faithful
<1>3. OnlineTakes(c, b, mark, new)
  BY <1>1, <1>2, ObserveOnlineIs
<1>4. Awaited(s, m, batch, Z)
  BY <1>2 DEF CanTake, Clear, Ready, Awaited
<1>5. Takes(s, mark, m, batch, day, Z)
  BY <1>2, <1>4, CreditTakes DEF MarkAfter, CreditOf
<1>6. /\ \A d \in Days, r \in Request : new[d][r] >= p.daily[d][r]
      /\ \A q \in Due(Fence(m, batch), batch, day) : new[day][q.id] >= q.tokens
      /\ new \in Dailies /\ p.daily \in Dailies
  BY <1>1, <1>2, AfterBatchHas DEF Memory
<1>7. Bounded(s, c)
  <2>1. Bounded(s, Observe(b, "online", batch))
    BY ObserveBounded DEF CanTake, Sides
  <2> QED BY <2>1 DEF Observe
<1> HIDE DEF mark, new, c
<1>8. /\ c.local = b.local /\ c.play = b.play /\ c.online.mark = mark /\ c.online.daily = new
      /\ c.online.sink = b.online.sink /\ c.online.alive = b.online.alive
      /\ \A x \in Range(c.core) : x \in Range(b.core) \/ x.mark = mark
      /\ Last(c.core).mark = mark /\ Last(c.core).daily = new
  BY <1>1, <1>3 DEF OnlineTakes
<1>9. \A x \in Marked(c) : x = mark \/ x \in Marked(b)
  BY <1>8 DEF Marked
<1>10. Presence(c, b)
  BY <1>8 DEF Presence
<1>11. Current(s, mark) /\ mark.kind # "none" /\ ~ Outdated(s, mark)
  BY <1>5 DEF Takes, Current, Outdated
<1>12. Faithful(c)
  BY <1>1, <1>8, <1>11 DEF CanTake, Faithful
<1>13. Clear(s, c, Z)
  BY <1>5, <1>9 DEF Clear, CanTake, Takes
<1>14. Ready(s, c, "online")
  BY <1>8, <1>11 DEF Ready
<1>15. \A q \in s.requests : q.end > batch.through /\ Unsettled(s, b, q) => Unsettled(s, c, q)
  BY <1>2, <1>5, <1>9 DEF Unsettled, Takes
<1>16. ASSUME NEW q \in batch.requests, ~ batch.catchup, q.start \in Z, Unsettled(s, b, q) PROVE Counted(c, q)
  <2>1. q \in Due(Fence(m, batch), batch, day)
    BY <1>2, <1>5, <1>16 DEF Unsettled, Takes
  <2> QED BY <1>6, <1>8, <2>1 DEF Counted
<1>17. ASSUME NEW q \in s.requests, Counted(b, q) PROVE Counted(c, q)
  <2>1. q.id \in Request /\ q.tokens \in Nat
    BY DEF GoodView, Views, Closings
  <2>2. PICK d \in Days : Last(b.core).daily[d][q.id] >= q.tokens \/ Last(b.play)[d][q.id] >= q.tokens
    BY <1>17 DEF Counted
  <2>3. CASE Last(b.play)[d][q.id] >= q.tokens
    BY <1>8, <2>3 DEF Counted
  <2>4. CASE Last(b.core).daily[d][q.id] >= q.tokens
    <3>1. new[d][q.id] >= p.daily[d][q.id] /\ p.daily[d][q.id] >= q.tokens
      BY <1>2, <1>6, <2>1, <2>4
    <3>2. new[d][q.id] \in Nat /\ p.daily[d][q.id] \in Nat
      BY <1>6, <2>1 DEF Dailies
    <3>3. new[d][q.id] >= q.tokens
      BY <2>1, <3>1, <3>2
    <3> QED BY <1>8, <3>3 DEF Counted
  <2> QED BY <2>2, <2>3, <2>4
<1> QED BY <1>7, <1>10, <1>12, <1>13, <1>14, <1>15, <1>16, <1>17 DEF Served, c

LEMMA LocalServed ==
  ASSUME NEW s, GoodView(s), s.length <= MaxEvents, day \in Days, NEW b, NEW batch, BatchOK(s, batch),
         NEW Z, CanTake(s, b, "local", batch, Z)
  PROVE  Served(s, ObserveLocal(b, batch), b, "local", batch, Z)
<1> DEFINE p == b.local
           m == p.mark
           mark == MarkAfter(p, batch)
           new == AfterBatch(p, batch)
           c == ObserveLocal(b, batch)
<1>1. Shape(b) /\ p \in Memory /\ b.local.sink /\ ~ b.online.sink
  BY Fields DEF CanTake, Bounded, Serves
<1>2. m \in Marked(b) /\ Fits(s, m) /\ MarkOK(s, m) /\ p.daily = Last(b.play)
  BY <1>1 DEF CanTake, Bounded, Marked, Fits, Faithful
<1>3. LocalTakes(c, b, mark, new)
  BY <1>1, <1>2, ObserveLocalIs
<1>4. Awaited(s, m, batch, Z)
  BY <1>2 DEF CanTake, Clear, Ready, Awaited
<1>5. Takes(s, mark, m, batch, day, Z)
  BY <1>2, <1>4, CreditTakes DEF MarkAfter, CreditOf
<1>6. /\ \A d \in Days, r \in Request : new[d][r] >= p.daily[d][r]
      /\ \A q \in Due(Fence(m, batch), batch, day) : new[day][q.id] >= q.tokens
      /\ new \in Dailies /\ p.daily \in Dailies
  BY <1>1, <1>2, AfterBatchHas DEF Memory
<1>7. Bounded(s, c)
  <2>1. Bounded(s, Observe(b, "local", batch))
    BY ObserveBounded DEF CanTake, Sides
  <2> QED BY <2>1 DEF Observe
<1> HIDE DEF mark, new, c
<1>8. /\ c.online = b.online /\ c.local.mark = mark /\ c.local.daily = new
      /\ c.local.sink = b.local.sink /\ c.local.alive = b.local.alive
      /\ \A x \in Range(c.core) : x \in Range(b.core) \/ x.mark = mark
      /\ Last(c.core).mark = mark /\ Last(c.core).daily = Last(b.core).daily /\ Last(c.play) = new
  BY <1>1, <1>3 DEF LocalTakes
<1>9. \A x \in Marked(c) : x = mark \/ x \in Marked(b)
  BY <1>8 DEF Marked
<1>10. Presence(c, b)
  BY <1>8 DEF Presence
<1>11. Current(s, mark) /\ mark.kind # "none" /\ ~ Outdated(s, mark)
  BY <1>5 DEF Takes, Current, Outdated
<1>12. Faithful(c)
  BY <1>1, <1>8, <1>11 DEF CanTake, Faithful
<1>13. Clear(s, c, Z)
  BY <1>5, <1>9 DEF Clear, CanTake, Takes
<1>14. Ready(s, c, "local")
  BY <1>8, <1>11 DEF Ready
<1>15. \A q \in s.requests : q.end > batch.through /\ Unsettled(s, b, q) => Unsettled(s, c, q)
  BY <1>2, <1>5, <1>9 DEF Unsettled, Takes
<1>16. ASSUME NEW q \in batch.requests, ~ batch.catchup, q.start \in Z, Unsettled(s, b, q) PROVE Counted(c, q)
  <2>1. q \in Due(Fence(m, batch), batch, day)
    BY <1>2, <1>5, <1>16 DEF Unsettled, Takes
  <2> QED BY <1>6, <1>8, <2>1 DEF Counted
<1>17. ASSUME NEW q \in s.requests, Counted(b, q) PROVE Counted(c, q)
  <2>1. q.id \in Request /\ q.tokens \in Nat
    BY DEF GoodView, Views, Closings
  <2>2. PICK d \in Days : Last(b.core).daily[d][q.id] >= q.tokens \/ Last(b.play)[d][q.id] >= q.tokens
    BY <1>17 DEF Counted
  <2>3. CASE Last(b.core).daily[d][q.id] >= q.tokens
    BY <1>8, <2>3 DEF Counted
  <2>4. CASE Last(b.play)[d][q.id] >= q.tokens
    <3>1. new[d][q.id] >= p.daily[d][q.id] /\ p.daily[d][q.id] >= q.tokens
      BY <1>2, <1>6, <2>1, <2>4
    <3>2. new[d][q.id] \in Nat /\ p.daily[d][q.id] \in Nat
      BY <1>6, <2>1 DEF Dailies
    <3>3. new[d][q.id] >= q.tokens
      BY <2>1, <3>1, <3>2
    <3> QED BY <1>8, <3>3 DEF Counted
  <2> QED BY <2>2, <2>3, <2>4
<1> QED BY <1>7, <1>10, <1>12, <1>13, <1>14, <1>15, <1>16, <1>17 DEF Served, c

LEMMA ObserveServed ==
  ASSUME NEW s, GoodView(s), s.length <= MaxEvents, day \in Days, NEW b, NEW batch, BatchOK(s, batch),
         NEW slot \in Sides, NEW Z, CanTake(s, b, slot, batch, Z)
  PROVE  Served(s, Observe(b, slot, batch), b, slot, batch, Z)
<1>1. CASE slot = "online"
  BY <1>1, OnlineServed DEF Observe
<1>2. CASE slot = "local"
  BY <1>2, LocalServed DEF Observe
<1> QED BY <1>1, <1>2 DEF Sides

\* A queue that will credit what it holds: Z is where the attempts to count began, E what was closed of them.
Awaits(s, b, queue, Z, E) ==
  /\ Clear(s, b, Z)
  /\ \A i \in DOMAIN queue : queue[i].catchup => i = 1 /\ \A z \in Z : z > queue[i].through
  /\ \A i \in DOMAIN queue : \A q \in E \cap queue[i].requests :
       Unsettled(s, b, q) /\ \A j \in 1 .. i - 1 : queue[j].through < q.end

LEMMA DrawsAwaits ==
  ASSUME NEW s, NEW b, NEW c, Draws(s, c, b), NEW queue, NEW Z, NEW E, Awaits(s, b, queue, Z, E)
  PROVE  Awaits(s, c, queue, Z, E)
<1>1. Clear(s, c, Z)
  BY DEF Awaits, Clear, Draws, From
<1>2. \A q : Unsettled(s, b, q) => Unsettled(s, c, q)
  BY DEF Unsettled, Draws, From
<1> QED BY <1>1, <1>2 DEF Awaits

CanTakeAll(s, b, slot, queue, Z, E) ==
  /\ queue \in Seq(Batches) /\ \A i \in DOMAIN queue : BatchOK(s, queue[i])
  /\ Bounded(s, b) /\ Faithful(b) /\ Serves(b, slot) /\ Awaits(s, b, queue, Z, E)
  /\ \A z \in Z : z \in Nat /\ z > s.live
  /\ \A q \in E : q \in s.requests /\ q.start \in Z
  /\ queue = <<>> \/ queue[1].catchup \/ Ready(s, b, slot)

\* What the queue leaves: all it held is counted, and what was counted still is.
ServedAll(s, c, b, slot, queue, Z, E) ==
  /\ Bounded(s, c) /\ Faithful(c) /\ Presence(c, b) /\ Clear(s, c, Z)
  /\ queue # <<>> \/ Ready(s, b, slot) => Ready(s, c, slot)
  /\ \A q \in E : Counted(b, q) \/ (\E i \in DOMAIN queue : q \in queue[i].requests) => Counted(c, q)

LEMMA DeliveredServed ==
  ASSUME NEW s, GoodView(s), s.length <= MaxEvents, day \in Days, NEW b, NEW slot \in Sides,
         NEW queue, NEW Z, NEW E, CanTakeAll(s, b, slot, queue, Z, E)
  PROVE  ServedAll(s, Delivered(b, slot, queue), b, slot, queue, Z, E)
<1> DEFINE N == Len(queue)
<1>1. N \in Nat /\ DOMAIN queue = 1 .. N /\ (N # 0 => queue # <<>>) /\ (queue # <<>> => N # 0)
  BY DEF CanTakeAll
<1> HIDE DEF N
<1>2. PICK G : IsFlow(b, slot, queue, N, G) /\ Delivered(b, slot, queue) = G[N]
  BY <1>1, DeliveredFlow
<1>3. G[0] = b /\ \A n \in 1 .. N : G[n] = Observe(G[n - 1], slot, queue[n])
  BY <1>2 DEF IsFlow
<1> DEFINE Good(n) ==
             /\ Bounded(s, G[n]) /\ Faithful(G[n]) /\ Presence(G[n], b) /\ Clear(s, G[n], Z)
             /\ n # 0 \/ Ready(s, b, slot) => Ready(s, G[n], slot)
             /\ \A i \in n + 1 .. N : \A q \in E \cap queue[i].requests : Unsettled(s, G[n], q)
             /\ \A q \in E : Counted(b, q) \/ (\E i \in 1 .. n : q \in queue[i].requests) => Counted(G[n], q)
           B == {n \in 0 .. N : ~ Good(n)}
<1>4. Good(0)
  <2>1. Presence(b, b)
    BY DEF Presence
  <2>2. \A i \in 1 .. N : \A q \in E \cap queue[i].requests : Unsettled(s, b, q)
    BY <1>1 DEF CanTakeAll, Awaits
  <2>3. 1 .. 0 = {} /\ 0 + 1 = 1
    OBVIOUS
  <2>4. Bounded(s, b) /\ Faithful(b) /\ Clear(s, b, Z)
    BY DEF CanTakeAll, Awaits
  <2> QED BY <1>3, <2>1, <2>2, <2>3, <2>4
<1>5. ASSUME NEW n \in 1 .. N, Good(n - 1) PROVE Good(n)
  <2> DEFINE a == G[n - 1]
             c == G[n]
             batch == queue[n]
             before == 1 .. n - 1
             after == n + 1 .. N
  <2>1. n \in DOMAIN queue /\ c = Observe(a, slot, batch) /\ BatchOK(s, batch)
        /\ (batch.catchup => n = 1 /\ \A z \in Z : z > batch.through)
    BY <1>1, <1>3 DEF CanTakeAll, Awaits
  <2>2. /\ Bounded(s, a) /\ Faithful(a) /\ Presence(a, b) /\ Clear(s, a, Z)
        /\ n # 1 \/ Ready(s, b, slot) => Ready(s, a, slot)
        /\ \A q \in E : Counted(b, q) \/ (\E i \in before : q \in queue[i].requests) => Counted(a, q)
    <3>1. n - 1 # 0 <=> n # 1
      OBVIOUS
    <3> QED BY <1>5, <3>1
  <2>3. n \in (n - 1) + 1 .. N /\ after \subseteq (n - 1) + 1 .. N
    OBVIOUS
  <2>4. (\A q \in E \cap batch.requests : Unsettled(s, a, q)) /\ \A i \in after : \A q \in E \cap queue[i].requests : Unsettled(s, a, q)
    BY <1>5, <2>3
  <2>5. batch.catchup \/ Ready(s, a, slot)
    <3> SUFFICES ASSUME n = 1, ~ batch.catchup PROVE Ready(s, b, slot)
      BY <2>2
    <3> QED BY <2>1 DEF CanTakeAll
  <2>6. \A i \in after : i \in DOMAIN queue /\ n \in 1 .. i - 1
    BY <1>1
  <2>7. 1 .. n = before \cup {n}
    OBVIOUS
  <2> HIDE DEF a, c, batch, before, after, Good, B
  <2>8. CanTake(s, a, slot, batch, Z)
    <3>1. Serves(a, slot)
      BY <2>2 DEF CanTakeAll, Serves, Presence
    <3>2. \A z \in Z : z \in Nat /\ z > s.live
      BY DEF CanTakeAll
    <3> QED BY <2>1, <2>2, <2>5, <3>1, <3>2 DEF CanTake
  <2>9. Served(s, c, a, slot, batch, Z)
    BY <2>1, <2>8, ObserveServed
  <2>10. Presence(c, b)
    BY <2>2, <2>9 DEF Served, Presence
  <2>11. ASSUME NEW i \in after, NEW q \in E \cap queue[i].requests PROVE Unsettled(s, c, q)
    <3>1. queue[n].through < q.end
      BY <2>6 DEF CanTakeAll, Awaits
    <3>2. q \in s.requests /\ q.end \in Nat /\ batch.through \in Nat
      BY <2>1 DEF CanTakeAll, GoodView, Views, Closings, BatchOK, Batches
    <3>3. q.end > batch.through
      BY <3>1, <3>2 DEF batch
    <3> QED BY <2>4, <2>9, <3>2, <3>3 DEF Served
  <2>12. ASSUME NEW q \in E, Counted(b, q) \/ (\E i \in 1 .. n : q \in queue[i].requests) PROVE Counted(c, q)
    <3>1. q \in s.requests /\ q.start \in Z
      BY DEF CanTakeAll
    <3>2. CASE Counted(a, q)
      BY <2>9, <3>1, <3>2 DEF Served
    <3>3. CASE ~ Counted(a, q)
      <4>1. q \in batch.requests
        BY <2>2, <2>7, <2>12, <3>3 DEF batch
      <4>2. ~ batch.catchup
        <5> SUFFICES ASSUME batch.catchup PROVE FALSE
          OBVIOUS
        <5>1. q.start > batch.through
          BY <2>1, <3>1
        <5>2. q.end <= batch.through /\ q.start < q.end /\ q.start \in Nat /\ q.end \in Nat /\ batch.through \in Nat
          BY <2>1, <3>1, <4>1 DEF BatchOK, Batches, GoodView, Views, Closings
        <5> QED BY <5>1, <5>2
      <4>3. Unsettled(s, a, q)
        BY <2>4, <4>1
      <4> QED BY <2>9, <3>1, <4>1, <4>2, <4>3 DEF Served
    <3> QED BY <3>2, <3>3
  <2>13. Bounded(s, c) /\ Faithful(c) /\ Clear(s, c, Z) /\ Ready(s, c, slot)
    BY <2>9 DEF Served
  <2> QED BY <2>10, <2>11, <2>12, <2>13 DEF Good, c, after
<1>6. B = {}
  <2> SUFFICES ASSUME NEW z \in B PROVE FALSE
    OBVIOUS
  <2>1. PICK m \in B : \A n \in B : m <= n
    <3>1. B \in SUBSET Nat
      OBVIOUS
    <3> HIDE DEF B
    <3> QED BY <3>1, LeastNumber
  <2> HIDE DEF Good
  <2>2. m # 0
    BY <1>4
  <2>3. m \in 1 .. N /\ m - 1 \in 0 .. N /\ m - 1 \notin B
    BY <1>1, <2>1, <2>2
  <2>4. Good(m - 1)
    BY <2>3
  <2> QED BY <1>5, <2>3, <2>4
<1>7. Good(N)
  <2>1. N \in 0 .. N
    BY <1>1
  <2> HIDE DEF Good
  <2> QED BY <1>6, <2>1
<1>8. /\ Bounded(s, G[N]) /\ Faithful(G[N]) /\ Presence(G[N], b) /\ Clear(s, G[N], Z)
      /\ queue # <<>> \/ Ready(s, b, slot) => Ready(s, G[N], slot)
      /\ \A q \in E : Counted(b, q) \/ (\E i \in 1 .. N : q \in queue[i].requests) => Counted(G[N], q)
  BY <1>1, <1>7
<1> QED BY <1>1, <1>2, <1>8 DEF ServedAll
-----------------------------------------------------------------------------
(* The bounds at every moment. *)

QueueOK(s, queue) == queue \in Seq(Batches) /\ \A i \in DOMAIN queue : BatchOK(s, queue[i])

Typed == Len(log) <= MaxEvents /\ Bounded(View, books) /\ QueueOK(View, pending)

LEMMA NothingQueued == \A s : QueueOK(s, <<>>)
<1>1. <<>> \in Seq(Batches) /\ DOMAIN <<>> = {}
  OBVIOUS
<1> QED BY <1>1 DEF QueueOK

LEMMA JoinedOK ==
  ASSUME NEW s, NEW x, QueueOK(s, x), NEW y, QueueOK(s, y)
  PROVE  QueueOK(s, x \o y)
<1> DEFINE z == x \o y
<1>1. x \in Seq(Batches) /\ y \in Seq(Batches)
  BY DEF QueueOK
<1>2. /\ Len(x) \in Nat /\ Len(y) \in Nat /\ DOMAIN x = 1 .. Len(x) /\ DOMAIN y = 1 .. Len(y)
      /\ z \in Seq(Batches) /\ DOMAIN z = 1 .. Len(x) + Len(y)
      /\ \A i \in 1 .. Len(x) + Len(y) : z[i] = IF i <= Len(x) THEN x[i] ELSE y[i - Len(x)]
  BY <1>1
<1> HIDE DEF z
<1>3. \A i \in DOMAIN z : BatchOK(s, z[i])
  <2> SUFFICES ASSUME NEW i \in DOMAIN z PROVE BatchOK(s, z[i])
    OBVIOUS
  <2>1. \/ i \in DOMAIN x /\ z[i] = x[i]
        \/ i - Len(x) \in DOMAIN y /\ z[i] = y[i - Len(x)]
    BY <1>2
  <2> QED BY <2>1 DEF QueueOK
<1>4. QueueOK(s, z)
  BY <1>2, <1>3 DEF QueueOK
<1> QED BY <1>4 DEF z

\* The log grows: its bounds only widen.
LEMMA ExtendedBounded ==
  ASSUME NEW s, GoodView(s), NEW t, Extended(t, s)
  PROVE  /\ \A m : (Current(t, m) <=> Current(s, m)) /\ (Outdated(t, m) <=> Outdated(s, m))
         /\ \A b : Bounded(s, b) => Bounded(t, b)
         /\ \A queue : QueueOK(s, queue) => QueueOK(t, queue)
<1>1. /\ t.format = s.format /\ t.live = s.live /\ t.length = s.length + 1 /\ s.requests \subseteq t.requests
      /\ s.length \in Nat
  BY DEF Extended, GoodView, Views
<1>2. \A m : (Current(t, m) <=> Current(s, m)) /\ (Outdated(t, m) <=> Outdated(s, m))
  BY <1>1 DEF Current, Outdated
<1>3. ASSUME NEW m, Fits(s, m) PROVE Fits(t, m)
  <2>1. MarkOK(t, m) /\ m \in Marks /\ m.base \in Nat /\ m.settled \in Nat
    BY <1>1, <1>3 DEF Fits, MarkOK, Mark
  <2>2. Current(t, m) => m.base <= s.length /\ m.settled <= s.length
    BY <1>2, <1>3 DEF Fits
  <2>3. Current(t, m) => m.base <= t.length /\ m.settled <= t.length
    BY <1>1, <2>1, <2>2
  <2> QED BY <2>1, <2>3 DEF Fits
<1>4. ASSUME NEW x, BatchOK(s, x) PROVE BatchOK(t, x)
  <2>1. x.through \in Nat
    BY <1>4 DEF BatchOK, Batches
  <2>2. x.through <= t.length
    BY <1>1, <1>4, <2>1 DEF BatchOK
  <2> QED BY <1>1, <1>4, <2>2 DEF BatchOK
<1> QED BY <1>2, <1>3, <1>4 DEF Bounded, QueueOK

\* The books change, and the queue waits, or goes to the authority in the slot.
LEMMA WaitingTyped ==
  ASSUME LogSound, Typed, UNCHANGED <<log, format, borrowed, live, pending>>,
         NEW b, Draws(View, b, books), books' = b
  PROVE  Typed'
<1>1. View' = View
  BY DEF View, Requests
<1> QED BY <1>1, DrawsBounded DEF Typed

LEMMA FlushedTyped ==
  ASSUME LogSound, Typed, UNCHANGED <<log, format, borrowed, live>>,
         NEW b, Draws(View, b, books), NEW slot \in Sides, books' = Flushed(b, slot), pending' = <<>>
  PROVE  Typed'
<1>1. View' = View /\ GoodView(View) /\ View.length <= MaxEvents /\ day \in Days
  BY ViewGood, ViewIs DEF View, Requests, Typed, LogSound
<1>2. Bounded(View, b)
  BY DrawsBounded
<1>3. Bounded(View, books')
  BY <1>1, <1>2, DeliveredBounded DEF Flushed, Typed, QueueOK
<1> QED BY <1>1, <1>3, NothingQueued DEF Typed

LEMMA DeliverTyped ==
  ASSUME LogSound, Control, NEW t, t = View', GoodView(t), t.length <= MaxEvents, Len(log') = t.length,
         Bounded(t, books), QueueOK(t, pending), NEW batches, QueueOK(t, batches), Deliver(batches)
  PROVE  Typed'
<1>1. CASE Held
  <2>1. pending' = pending \o batches /\ books' = books
    BY <1>1 DEF Deliver
  <2>2. QueueOK(t, pending \o batches)
    BY JoinedOK
  <2> QED BY <2>1, <2>2 DEF Typed
<1>2. CASE ~ Held
  <2>1. pending' = pending /\ books' = Delivered(books, mode.slot, batches) /\ mode.slot \in Sides /\ day \in Days
    BY <1>2 DEF Deliver, Control, Modes, LogSound
  <2>2. Bounded(t, books')
    BY <2>1, DeliveredBounded DEF QueueOK
  <2> QED BY <2>1, <2>2 DEF Typed
<1> QED BY <1>1, <1>2
-----------------------------------------------------------------------------
(* What makes the counting certain, for one view of the session. *)

\* The queue and the books, for the authority that is or will be in use: Z and E as in Awaits.
Lively(s, b, queue, slot, on, up, Z, E) ==
  /\ Awaits(s, b, queue, Z, E)
  /\ \A z \in Z : z \in Nat /\ z > s.live
  /\ \A q \in E : q \in s.requests /\ q.start \in Z
  /\ on \/ queue = <<>>
  /\ on => (queue # <<>> /\ queue[1].catchup) \/ (up /\ Ready(s, b, slot))
  /\ \A q \in E : (\E i \in DOMAIN queue : q \in queue[i].requests) \/ (up /\ Counted(b, q))

\* It does not end with books drawn from those ...
LEMMA LivelyDraws ==
  ASSUME NEW s, NEW b, NEW queue, NEW slot, NEW on, NEW up, NEW Z, NEW E,
         Lively(s, b, queue, slot, on, up, Z, E),
         NEW c, Draws(s, c, b), Lasts(c, b), NEW win, up /\ Ready(s, b, slot) => Ready(s, c, win)
  PROVE  Lively(s, c, queue, win, on, up, Z, E)
<1>1. Awaits(s, c, queue, Z, E)
  BY DrawsAwaits DEF Lively
<1>2. \A q : Counted(b, q) => Counted(c, q)
  BY DEF Counted, Lasts
<1> QED BY <1>1, <1>2 DEF Lively

\* ... nor when the queue is delivered.
LEMMA LivelyServed ==
  ASSUME NEW s, GoodView(s), s.length <= MaxEvents, day \in Days, NEW b, Bounded(s, b), Faithful(b),
         NEW queue, QueueOK(s, queue), NEW slot \in Sides, Serves(b, slot),
         NEW on, NEW up, NEW Z, NEW E, Lively(s, b, queue, slot, on, up, Z, E)
  PROVE  LET c == Delivered(b, slot, queue)
         IN  /\ Bounded(s, c) /\ Faithful(c) /\ Presence(c, b)
             /\ Lively(s, c, <<>>, slot, on, TRUE, Z, E)
<1> DEFINE c == Delivered(b, slot, queue)
<1>1. CanTakeAll(s, b, slot, queue, Z, E)
  BY DEF CanTakeAll, QueueOK, Lively
<1>2. ServedAll(s, c, b, slot, queue, Z, E)
  BY <1>1, DeliveredServed
<1> HIDE DEF c
<1>3. DOMAIN <<>> = {}
  OBVIOUS
<1>4. Awaits(s, c, <<>>, Z, E)
  BY <1>2, <1>3 DEF Awaits, ServedAll
<1>5. on => Ready(s, c, slot)
  BY <1>2 DEF ServedAll, Lively
<1>6. \A q \in E : Counted(c, q)
  BY <1>2 DEF ServedAll, Lively
<1>7. Lively(s, c, <<>>, slot, on, TRUE, Z, E)
  BY <1>4, <1>5, <1>6 DEF Lively
<1>8. Bounded(s, c) /\ Faithful(c) /\ Presence(c, b)
  BY <1>2 DEF ServedAll
<1> QED BY <1>7, <1>8 DEF c
-----------------------------------------------------------------------------
(* What makes the counting certain, at every moment. *)

\* Where the attempts to be counted began, and those that closed with tokens.
Attempts   == {q.start : q \in {p \in Requests : p.id \in owed}} \cup (IF Ongoing.id \in owed THEN {Ongoing.at} ELSE {})
Chargeable == {q \in Requests : q.id \in owed}
Winner     == IF LocalWins THEN "local" ELSE "online"

\* Who writes: the authority in the slot and the next one, never both to the watermark.
Manned ==
  IF booted
  THEN /\ storage = "open"
       /\ (books.online.alive => books.online.sink) /\ (books.local.alive => books.local.sink)
       /\ mode.slot = "online" => books.online.sink
       /\ LocalWins => books.local.sink
       /\ mode.slot = "local" => ~ books.online.sink
  ELSE /\ ~ books.local.alive
       /\ IF storage = "identity" THEN mode.slot = "online" /\ books.online.sink ELSE ~ books.online.sink

Observing == watching \in {"off", "unlisted", "on"} /\ (owed # {} => watching = "on")

Lives ==
  /\ Observing
  /\ Lively(View, books, pending, Winner, watching = "on", booted, Attempts, Chargeable)

Live    == Faithful(books) /\ Manned /\ Lives
LiveInv == Typed /\ (~ memoryOnly => Live)

LEMMA WinnerIs == Winner \in Sides
BY DEF Winner, Sides

\* The books change, and the queue goes to the authority in the slot.
LEMMA FlushedLive ==
  ASSUME LogSound, Control, Typed, Lives, UNCHANGED <<log, format, borrowed, live, watching, owed>>,
         NEW b, Draws(View, b, books), Lasts(b, books), Faithful(b), NEW slot \in Sides, Serves(b, slot),
         b.online.alive => b.online.sink, b.local.alive => b.local.sink,
         booted /\ Ready(View, books, Winner) => Ready(View, b, slot),
         books' = Flushed(b, slot), pending' = <<>>, mode'.slot = slot, change' = NoChange, booted', storage' = "open"
  PROVE  Typed' /\ Live'
<1> DEFINE s == View
           on == watching = "on"
           Z == Attempts
           E == Chargeable
<1>1. GoodView(s) /\ s.length <= MaxEvents /\ day \in Days /\ Bounded(s, b) /\ QueueOK(s, pending)
  BY ViewGood, ViewIs, DrawsBounded DEF Typed, LogSound
<1>2. View' = View /\ Attempts' = Attempts /\ Chargeable' = Chargeable
  BY DEF View, Requests, Ongoing, Attempts, Chargeable
<1>3. Lively(s, books, pending, Winner, on, booted, Z, E) /\ Observing
  BY DEF Lives
<1> HIDE DEF s, Z, E, on
<1>4. Lively(s, b, pending, slot, on, booted, Z, E)
  BY <1>3, LivelyDraws DEF s
<1>5. /\ Bounded(s, books') /\ Faithful(books') /\ Presence(books', b)
      /\ Lively(s, books', <<>>, slot, on, TRUE, Z, E)
  BY <1>1, <1>4, LivelyServed DEF Flushed
<1>6. Winner' = slot /\ (LocalWins' => slot = "local")
  <2>1. NoChange # [to |-> "local", pc |-> "commit"]
    BY DEF NoChange
  <2> QED BY <2>1 DEF Winner, LocalWins, Sides
<1>7. Lively(View', books', pending', Winner', watching' = "on", booted', Attempts', Chargeable')
  BY <1>2, <1>5, <1>6 DEF s, Z, E, on
<1>8. Lives'
  BY <1>3, <1>7 DEF Lives, Observing
<1>9. Manned'
  BY <1>5, <1>6 DEF Manned, Presence, Serves
<1>10. Typed'
  <2>1. QueueOK(View', pending')
    BY NothingQueued
  <2> QED BY <1>1, <1>2, <1>5, <2>1 DEF Typed, s
<1> QED BY <1>5, <1>8, <1>9, <1>10 DEF Live

\* The books change, and the queue waits.
LEMMA WaitingLive ==
  ASSUME LogSound, Typed, Lives, UNCHANGED <<log, format, borrowed, live, watching, owed, pending, booted>>,
         NEW b, Draws(View, b, books), Lasts(b, books), Faithful(b), books' = b, Manned',
         booted /\ Ready(View, books, Winner) => Ready(View, b, Winner')
  PROVE  Typed' /\ Live'
<1>1. View' = View /\ Attempts' = Attempts /\ Chargeable' = Chargeable
  BY DEF View, Requests, Ongoing, Attempts, Chargeable
<1>2. Lively(View, books, pending, Winner, watching = "on", booted, Attempts, Chargeable) /\ Observing
  BY DEF Lives
<1>3. Lively(View, b, pending, Winner', watching = "on", booted, Attempts, Chargeable)
  BY <1>2, LivelyDraws
<1>4. Lives'
  BY <1>1, <1>2, <1>3 DEF Lives, Observing
<1>5. Typed'
  BY WaitingTyped
<1> QED BY <1>4, <1>5 DEF Live

\* A report waits, or reaches the authority in the slot.
LEMMA DeliverLive ==
  ASSUME LogSound, Control, Faithful(books), Manned, UNCHANGED <<mode, change, storage, booted>>,
         NEW t, t = View', GoodView(t), t.length <= MaxEvents, Len(log') = t.length,
         Bounded(t, books), QueueOK(t, pending), NEW batches, QueueOK(t, batches), Deliver(batches),
         Observing',
         Lively(t, books, pending \o batches, Winner, watching' = "on", booted, Attempts', Chargeable')
  PROVE  Typed' /\ Live'
<1> DEFINE on == watching' = "on"
           Z == Attempts'
           E == Chargeable'
<1>1. Winner' = Winner /\ LocalWins' = LocalWins
  BY DEF Winner, LocalWins
<1>2. Typed'
  BY DeliverTyped
<1>3. CASE Held
  <2>1. pending' = pending \o batches /\ books' = books
    BY <1>3 DEF Deliver
  <2>2. Lives'
    BY <1>1, <2>1 DEF Lives
  <2>3. Manned'
    BY <1>1, <2>1 DEF Manned
  <2> QED BY <1>2, <2>1, <2>2, <2>3 DEF Live
<1>4. CASE ~ Held
  <2>1. /\ pending = <<>> /\ pending' = <<>> /\ booted /\ change.to = "none"
        /\ books' = Delivered(books, mode.slot, batches)
    BY <1>4 DEF Deliver, Control, Held
  <2>2. mode.slot \in Sides /\ day \in Days
    BY DEF Control, Modes, LogSound
  <2>3. Winner = mode.slot /\ Serves(books, mode.slot)
    <3>1. change # [to |-> "local", pc |-> "commit"]
      BY <2>1
    <3> QED BY <2>1, <2>2, <3>1 DEF Winner, LocalWins, Serves, Sides, Manned
  <2>4. pending \o batches = batches
    BY <2>1 DEF QueueOK
  <2> HIDE DEF on, Z, E
  <2>5. Lively(t, books, batches, mode.slot, on, booted, Z, E)
    BY <2>3, <2>4 DEF on, Z, E
  <2>6. /\ Faithful(books') /\ Presence(books', books)
        /\ Lively(t, books', <<>>, mode.slot, on, TRUE, Z, E)
    BY <2>1, <2>2, <2>3, <2>5, LivelyServed
  <2>7. Lives'
    BY <1>1, <2>1, <2>3, <2>6 DEF Lives, on, Z, E
  <2>8. Manned'
    BY <1>1, <2>1, <2>6 DEF Manned, Presence
  <2> QED BY <1>2, <2>6, <2>7, <2>8 DEF Live
<1> QED BY <1>3, <1>4
-----------------------------------------------------------------------------
(* Every step keeps the counting certain. *)

LEMMA SameDraws ==
  ASSUME NEW s, NEW b, Bounded(s, b)
  PROVE  Draws(s, b, b) /\ Lasts(b, b)
<1>1. Shape(b)
  BY DEF Bounded
<1> QED BY <1>1, DrawsBy DEF Lasts

\* The books and the queue stay, whatever is asked of the authorities.
LEMMA AskingLive ==
  ASSUME LogSound, Typed, UNCHANGED <<log, format, borrowed, live, watching, owed, pending, booted, books, mode, storage>>,
         LocalWins' = LocalWins
  PROVE  Typed' /\ (Live => Live')
<1>1. Draws(View, books, books) /\ Lasts(books, books)
  BY SameDraws DEF Typed
<1>2. Typed'
  BY <1>1, WaitingTyped
<1>3. ASSUME Live PROVE Live'
  <2>1. Lives /\ Manned /\ Faithful(books)
    BY <1>3 DEF Live
  <2>2. Manned' /\ Winner' = Winner
    BY <2>1 DEF Manned, Winner
  <2> QED BY <1>1, <2>1, <2>2, WaitingLive
<1> QED BY <1>2, <1>3

LEMMA OpenCoreLive == ASSUME LogSound, Control, Typed, OpenCore PROVE Typed' /\ (Live => Live')
<1>1. storage = "closed" /\ UNCHANGED <<log, format, borrowed, live, watching, owed, booted, change, pending>>
  BY DEF OpenCore, session, ghosts
<1>2. GoodView(View) /\ Bounded(View, books) /\ Shape(books)
  BY ViewGood DEF Typed, Bounded
<1>3. Live => Faithful(books) /\ Manned /\ Lives /\ ~ booted /\ ~ books.online.sink /\ ~ books.local.alive
  BY <1>1 DEF Live, Manned
<1>4. CASE Last(books.core).pref = "online"
  <2>1. mode' = [selected |-> "online", slot |-> "online"] /\ books' = Hydrate(books) /\ storage' = "identity"
    BY <1>4 DEF OpenCore
  <2>2. Draws(View, Hydrate(books), books)
    BY <1>2, HydrateDraws
  <2>3. Typed'
    BY <1>1, <2>1, <2>2, WaitingTyped
  <2>4. ASSUME Live PROVE Live'
    <3>1. HydratedFaithful(Hydrate(books), books)
      BY <1>2, <1>3, <2>4, HydrateFaithful
    <3>2. Manned'
      BY <1>1, <1>3, <2>1, <2>4, <3>1 DEF Manned, HydratedFaithful
    <3> QED BY <1>1, <1>3, <2>1, <2>2, <2>4, <3>1, <3>2, WaitingLive DEF HydratedFaithful
  <2> QED BY <2>3, <2>4
<1>5. CASE Last(books.core).pref # "online"
  <2>1. mode' = [mode EXCEPT !.selected = "local"] /\ books' = books /\ storage' = "local"
    BY <1>5 DEF OpenCore
  <2>2. Draws(View, books, books) /\ Lasts(books, books)
    BY <1>2, SameDraws
  <2>3. Typed'
    BY <1>1, <2>1, <2>2, WaitingTyped
  <2>4. ASSUME Live PROVE Live'
    <3>1. Manned'
      BY <1>1, <1>3, <2>1, <2>4 DEF Manned
    <3> QED BY <1>1, <1>3, <2>1, <2>2, <2>4, <3>1, WaitingLive
  <2> QED BY <2>3, <2>4
<1> QED BY <1>4, <1>5

LEMMA ResolveLive == ASSUME LogSound, Control, Typed, ResolveIdentity PROVE Typed' /\ (Live => Live')
<1>1. /\ storage = "identity" /\ UNCHANGED <<log, format, borrowed, live, watching, owed, mode, change>>
      /\ books' = Flushed(books, mode.slot) /\ pending' = <<>> /\ booted' /\ storage' = "open"
  BY DEF ResolveIdentity, Boot, session, ghosts
<1>2. change' = NoChange /\ mode.slot \in Sides
  BY <1>1 DEF Control, Modes
<1>3. Draws(View, books, books) /\ Lasts(books, books)
  BY SameDraws DEF Typed
<1>4. Typed'
  BY <1>1, <1>2, <1>3, FlushedTyped
<1>5. ASSUME Live PROVE Live'
  <2>1. Lives /\ Faithful(books) /\ ~ booted /\ mode.slot = "online" /\ books.online.sink /\ ~ books.local.alive
    BY <1>1, <1>5 DEF Live, Manned
  <2>2. Serves(books, mode.slot)
    BY <2>1 DEF Serves
  <2> QED BY <1>1, <1>2, <1>3, <2>1, <2>2, FlushedLive
<1> QED BY <1>4, <1>5

LEMMA OpenLocalLive == ASSUME LogSound, Control, Typed, OpenLocal PROVE Typed' /\ (Live => Live')
<1> DEFINE a == Attached(books)
           c == [a EXCEPT !.online = Gone]
<1>1. /\ storage = "local" /\ UNCHANGED <<log, format, borrowed, live, watching, owed, change>>
      /\ books' = Flushed(c, "local") /\ pending' = <<>> /\ booted' /\ mode' = [mode EXCEPT !.slot = "local"]
      /\ storage' = "open"
  BY DEF OpenLocal, Boot, session, ghosts
<1>2. change' = NoChange
  BY <1>1 DEF Control
<1>3. GoodView(View) /\ Bounded(View, books)
  BY ViewGood DEF Typed
<1>4. Draws(View, a, books) /\ (Faithful(books) => AttachedFaithful(View, a, books))
  BY <1>3, AttachedDraws, AttachFaithful
<1> HIDE DEF a
<1>5. Bounded(View, a) /\ Shape(a) /\ a.local \in Memory
  BY <1>4, DrawsBounded, Fields DEF Draws
<1>6. c = [online |-> Gone, local |-> a.local, core |-> a.core, play |-> a.play]
  BY <1>5, Fields
<1> HIDE DEF c
<1>7. Chosen(a.core, a)
  BY DEF Chosen
<1>8. Lighter(c, a)
  BY <1>5, <1>6, <1>7, LighterBy
<1>9. Draws(View, c, books)
  BY <1>4, <1>5, <1>8, LighterDraws, DrawsOn
<1>10. "local" \in Sides /\ mode'.slot = "local"
  BY <1>1 DEF Control, Modes, Sides
<1>11. Typed'
  BY <1>1, <1>9, <1>10, FlushedTyped
<1>12. ASSUME Live PROVE Live'
  <2>1. Lives /\ Faithful(books) /\ ~ booted
    BY <1>1, <1>12 DEF Live, Manned
  <2>2. Faithful(a) /\ Lasts(a, books) /\ a.local.alive /\ a.local.sink
    BY <1>4, <2>1 DEF AttachedFaithful
  <2>3. Slimmed(c, a, Gone)
    BY <1>5, <1>6, <1>7, <2>2, SlimFaithful
  <2>4. Faithful(c) /\ Lasts(c, books) /\ c.local.alive /\ c.local.sink /\ ~ c.online.alive /\ ~ c.online.sink
    BY <2>2, <2>3, NothingIs DEF Slimmed, Lasts, Gone
  <2>5. Serves(c, "local")
    BY <2>4 DEF Serves
  <2> QED BY <1>1, <1>2, <1>9, <1>10, <2>1, <2>4, <2>5, FlushedLive
<1> QED BY <1>11, <1>12

LEMMA KeepModeLive == ASSUME LogSound, Control, Typed, KeepMode PROVE Typed' /\ (Live => Live')
<1> DEFINE c == [books EXCEPT !.core = SaveChoice(mode.slot)]
           k == SaveChoice(mode.slot)
<1>1. UNCHANGED <<log, format, borrowed, live, watching, owed, pending, mode, change, booted, storage>> /\ books' = c
  BY DEF KeepMode, session, startup, ghosts
<1>2. Bounded(View, books) /\ Shape(books) /\ mode.slot \in {"online", "local"}
  BY DEF Typed, Bounded, Control, Modes, Sides
<1>3. /\ books = [online |-> books.online, local |-> books.local, core |-> books.core, play |-> books.play]
      /\ books.local \in Memory
  BY <1>2, Fields
<1>4. Chosen(k, books)
  BY <1>2 DEF Chosen, SaveChoice
<1> HIDE DEF k
<1>5. c = [online |-> books.online, local |-> books.local, core |-> k, play |-> books.play]
  BY <1>3 DEF k
<1> HIDE DEF c
<1>6. Lighter(c, books)
  BY <1>2, <1>3, <1>4, <1>5, LighterBy
<1>7. Draws(View, c, books)
  BY <1>2, <1>6, LighterDraws
<1>8. Typed'
  BY <1>1, <1>7, WaitingTyped
<1>9. ASSUME Live PROVE Live'
  <2>1. Lives /\ Manned /\ Faithful(books)
    BY <1>9 DEF Live
  <2>2. Slimmed(c, books, books.online)
    BY <1>2, <1>4, <1>5, <2>1, SlimFaithful
  <2>3. Faithful(c) /\ Lasts(c, books) /\ c.local = books.local /\ c.online = books.online
    BY <2>2 DEF Slimmed
  <2>4. Winner' = Winner /\ LocalWins' = LocalWins
    BY <1>1 DEF Winner, LocalWins
  <2>5. Manned'
    BY <1>1, <2>1, <2>3, <2>4 DEF Manned
  <2>6. Ready(View, books, Winner) => Ready(View, c, Winner')
    BY <2>3, <2>4 DEF Ready, Lasts
  <2> QED BY <1>1, <1>7, <2>1, <2>3, <2>5, <2>6, WaitingLive
<1> QED BY <1>8, <1>9

LEMMA BarrierLive == ASSUME LogSound, Control, Typed, Barrier PROVE Typed' /\ (Live => Live')
<1> DEFINE k == SaveChoice(mode.selected)
           j == IF books.local.sink THEN Durable(Last(books.play)) ELSE books.play
           c == [books EXCEPT !.core = SaveChoice(mode.selected),
                              !.play = IF books.local.sink THEN Durable(Last(@)) ELSE @]
<1>1. UNCHANGED <<log, format, borrowed, live, watching, owed, pending, mode, booted, storage>> /\ books' = c
      /\ change.pc = "barrier" /\ change' = [change EXCEPT !.pc = "prepare"]
  BY DEF Barrier, session, startup, ghosts
<1>2. Bounded(View, books) /\ Shape(books) /\ mode.selected \in {"online", "local"}
  BY DEF Typed, Bounded, Control, Modes, Sides
<1>3. /\ books = [online |-> books.online, local |-> books.local, core |-> books.core, play |-> books.play]
      /\ books.local \in Memory
  BY <1>2, Fields
<1>4. Chosen(k, books) /\ (j = books.play \/ j = Durable(Last(books.play)))
  BY <1>2 DEF Chosen, SaveChoice
<1>5. c = [online |-> books.online, local |-> books.local, core |-> k, play |-> j]
  <2> HIDE DEF k
  <2>1. c = [[books EXCEPT !.core = k] EXCEPT !.play = j]
    BY <1>3 DEF k
  <2> HIDE DEF j, c
  <2>2. [books EXCEPT !.core = k] = [online |-> books.online, local |-> books.local, core |-> k, play |-> books.play]
    BY <1>3
  <2> QED BY <2>1, <2>2
<1> HIDE DEF c, k, j
<1>6. Lighter(c, books)
  BY <1>2, <1>3, <1>4, <1>5, LighterBy
<1>7. Draws(View, c, books)
  BY <1>2, <1>6, LighterDraws
<1>8. Typed'
  BY <1>1, <1>7, WaitingTyped
<1>9. ASSUME Live PROVE Live'
  <2>1. Lives /\ Manned /\ Faithful(books)
    BY <1>9 DEF Live
  <2>2. Slimmed(c, books, books.online)
    BY <1>2, <1>4, <1>5, <2>1, SlimFaithful
  <2>3. Faithful(c) /\ Lasts(c, books) /\ c.local = books.local /\ c.online = books.online
    BY <2>2 DEF Slimmed
  <2>4. Winner' = Winner /\ LocalWins' = LocalWins
    <3>1. change'.pc = "prepare"
      BY <1>1 DEF Control
    <3> QED BY <1>1, <3>1 DEF Winner, LocalWins
  <2>5. Manned'
    BY <1>1, <2>1, <2>3, <2>4 DEF Manned
  <2>6. Ready(View, books, Winner) => Ready(View, c, Winner')
    BY <2>3, <2>4 DEF Ready, Lasts
  <2> QED BY <1>1, <1>7, <2>1, <2>3, <2>5, <2>6, WaitingLive
<1> QED BY <1>8, <1>9

LEMMA AskChangeLive ==
  ASSUME LogSound, Control, Typed, NEW p \in {"online", "local"}, AskChange(p)
  PROVE  Typed' /\ (Live => Live')
<1>1. UNCHANGED <<log, format, borrowed, live, watching, owed, pending, mode, booted, books, storage>>
      /\ change = NoChange /\ change' = [to |-> p, pc |-> "barrier"]
  BY DEF AskChange, session, startup, ghosts
<1>2. LocalWins' = LocalWins
  BY <1>1 DEF LocalWins, NoChange
<1> QED BY <1>1, <1>2, AskingLive

LEMMA PrepareOnlineLive == ASSUME LogSound, Control, Typed, PrepareOnline PROVE Typed' /\ (Live => Live')
<1>1. UNCHANGED <<log, format, borrowed, live, watching, owed, pending, mode, booted, books, storage>>
      /\ change.to = "online" /\ change' = [change EXCEPT !.pc = "commit"]
  BY DEF PrepareOnline, session, startup, ghosts
<1>2. change'.to = "online"
  BY <1>1 DEF Control
<1>3. LocalWins' = LocalWins
  BY <1>1, <1>2 DEF LocalWins
<1> QED BY <1>1, <1>3, AskingLive

LEMMA PrepareLocalLive == ASSUME LogSound, Control, Typed, PrepareLocal PROVE Typed' /\ (Live => Live')
<1> DEFINE c == Attached(books)
<1>1. UNCHANGED <<log, format, borrowed, live, watching, owed, pending, mode, booted, storage>> /\ books' = c
      /\ change.pc = "prepare" /\ change.to = "local" /\ change' = [change EXCEPT !.pc = "commit"]
  BY DEF PrepareLocal, session, startup, ghosts
<1>2. GoodView(View) /\ Bounded(View, books)
  BY ViewGood DEF Typed
<1>3. Draws(View, c, books) /\ (Faithful(books) => AttachedFaithful(View, c, books))
  BY <1>2, AttachedDraws, AttachFaithful
<1> HIDE DEF c
<1>4. Typed'
  BY <1>1, <1>3, WaitingTyped
<1>5. ASSUME Live PROVE Live'
  <2>1. Lives /\ Manned /\ Faithful(books)
    BY <1>5 DEF Live
  <2>2. AttachedFaithful(View, c, books)
    BY <1>3, <2>1
  <2>3. booted
    <3>1. change # NoChange
      BY <1>1 DEF NoChange
    <3> QED BY <3>1 DEF Control
  <2>4. Manned'
    BY <1>1, <2>1, <2>2, <2>3 DEF Manned, AttachedFaithful
  <2>5. Ready(View, books, Winner) => Ready(View, c, Winner')
    BY <2>2 DEF Ready, AttachedFaithful, Lasts
  <2> QED BY <1>1, <1>3, <2>1, <2>2, <2>4, <2>5, WaitingLive DEF AttachedFaithful
<1> QED BY <1>4, <1>5

LEMMA AbortLive == ASSUME LogSound, Control, Typed, AbortChange PROVE Typed' /\ (Live => Live')
<1>1. /\ UNCHANGED <<log, format, borrowed, live, watching, owed, storage, booted, mode>>
      /\ change.pc \in {"barrier", "prepare", "commit"} /\ change' = NoChange
      /\ books' = Flushed(books, mode.slot) /\ pending' = <<>>
  BY DEF AbortChange, Settle, session, startup, ghosts
<1>2. mode.slot \in Sides /\ booted /\ storage = "open"
  <2>1. change # NoChange
    BY <1>1 DEF NoChange
  <2> QED BY <2>1 DEF Control, Modes
<1>3. Draws(View, books, books) /\ Lasts(books, books)
  BY SameDraws DEF Typed
<1>4. Typed'
  BY <1>1, <1>2, <1>3, FlushedTyped
<1>5. ASSUME Live PROVE Live'
  <2>1. Lives /\ Manned /\ Faithful(books)
    BY <1>5 DEF Live
  <2>2. Serves(books, mode.slot)
    BY <1>2, <2>1 DEF Serves, Manned, LocalWins, Sides
  <2>3. Ready(View, books, Winner) => Ready(View, books, mode.slot)
    BY DEF Ready, Winner, LocalWins
  <2>4. (books.online.alive => books.online.sink) /\ (books.local.alive => books.local.sink)
    BY <1>2, <2>1 DEF Manned
  <2> QED BY <1>1, <1>2, <1>3, <2>1, <2>2, <2>3, <2>4, FlushedLive
<1> QED BY <1>4, <1>5

LEMMA CommitLocalLive == ASSUME LogSound, Control, Typed, CommitLocal PROVE Typed' /\ (Live => Live')
<1> DEFINE k == SaveChoice("local")
           c == [books EXCEPT !.core = SaveChoice("local"), !.online = Gone]
<1>1. /\ UNCHANGED <<log, format, borrowed, live, watching, owed, storage, booted>>
      /\ change = [to |-> "local", pc |-> "commit"] /\ change' = NoChange
      /\ mode' = [selected |-> "local", slot |-> "local"] /\ mode'.slot = "local"
      /\ books' = Flushed(c, "local") /\ pending' = <<>>
  BY DEF CommitLocal, Settle, session, startup, ghosts
<1>2. Bounded(View, books) /\ Shape(books)
  BY DEF Typed, Bounded
<1>3. /\ books = [online |-> books.online, local |-> books.local, core |-> books.core, play |-> books.play]
      /\ books.local \in Memory
  BY <1>2, Fields
<1>4. Chosen(k, books)
  BY DEF Chosen, SaveChoice
<1> HIDE DEF k
<1>5. c = [online |-> Gone, local |-> books.local, core |-> k, play |-> books.play]
  <2> DEFINE o == Gone
  <2>1. c = [[books EXCEPT !.core = k] EXCEPT !.online = o]
    BY <1>3 DEF k
  <2> HIDE DEF c, o
  <2>2. [books EXCEPT !.core = k] = [online |-> books.online, local |-> books.local, core |-> k, play |-> books.play]
    BY <1>3
  <2>3. c = [online |-> o, local |-> books.local, core |-> k, play |-> books.play]
    BY <2>1, <2>2
  <2> QED BY <2>3 DEF o
<1> HIDE DEF c
<1>6. Lighter(c, books)
  BY <1>2, <1>3, <1>4, <1>5, LighterBy
<1>7. Draws(View, c, books)
  BY <1>2, <1>6, LighterDraws
<1>8. booted /\ storage = "open" /\ "local" \in Sides
  <2>1. change # NoChange
    <3>1. change.to # NoChange.to
      BY <1>1 DEF NoChange
    <3> QED BY <3>1
  <2> QED BY <2>1 DEF Control, Sides
<1>9. Typed'
  BY <1>1, <1>7, <1>8, FlushedTyped
<1>10. ASSUME Live PROVE Live'
  <2>1. Lives /\ Manned /\ Faithful(books)
    BY <1>10 DEF Live
  <2>2. Slimmed(c, books, Gone)
    BY <1>2, <1>4, <1>5, <2>1, SlimFaithful
  <2>3. /\ Faithful(c) /\ Lasts(c, books) /\ c.local = books.local /\ ~ c.online.sink /\ ~ c.online.alive
    BY <2>2 DEF Slimmed, Gone
  <2>4. LocalWins /\ Winner = "local"
    BY <1>1 DEF Winner, LocalWins
  <2>5. Serves(c, "local") /\ c.local.sink
    BY <1>8, <2>1, <2>3, <2>4 DEF Serves, Manned
  <2>6. Ready(View, books, Winner) => Ready(View, c, "local")
    BY <2>3, <2>4 DEF Ready, Lasts
  <2> QED BY <1>1, <1>7, <1>8, <2>1, <2>3, <2>5, <2>6, FlushedLive
<1> QED BY <1>9, <1>10

LEMMA CommitOnlineLive == ASSUME LogSound, Control, Typed, CommitOnline PROVE Typed' /\ (Live => Live')
<1> DEFINE a == [books EXCEPT !.online = Fresh]
           h == Hydrate(a)
           c == [h EXCEPT !.core = Durable([Last(@) EXCEPT !.pref = "online"])]
           k == Durable([Last(h.core) EXCEPT !.pref = "online"])
<1>1. /\ UNCHANGED <<log, format, borrowed, live, watching, owed, storage, booted>>
      /\ change = [to |-> "online", pc |-> "commit"] /\ change' = NoChange
      /\ mode' = [selected |-> "online", slot |-> "online"] /\ mode'.slot = "online"
      /\ books' = Flushed(c, "online") /\ pending' = <<>>
  BY DEF CommitOnline, Settle, session, startup, ghosts
<1>2. GoodView(View) /\ Bounded(View, books) /\ Shape(books)
  BY ViewGood DEF Typed, Bounded
<1>3. /\ books = [online |-> books.online, local |-> books.local, core |-> books.core, play |-> books.play]
      /\ books.local \in Memory
  BY <1>2, Fields
<1>4. a = [online |-> Fresh, local |-> books.local, core |-> books.core, play |-> books.play]
  BY <1>3
<1> HIDE DEF a
<1>5. Chosen(books.core, books)
  BY DEF Chosen
<1>6. Lighter(a, books)
  BY <1>2, <1>3, <1>4, <1>5, LighterBy
<1>7. Draws(View, a, books) /\ Bounded(View, a) /\ Shape(a)
  BY <1>2, <1>6, LighterDraws, DrawsBounded DEF Draws
<1>8. Draws(View, h, a)
  BY <1>2, <1>7, HydrateDraws
<1> HIDE DEF h
<1>9. Bounded(View, h) /\ Shape(h)
  BY <1>8, DrawsBounded DEF Draws
<1>10. h = [online |-> h.online, local |-> h.local, core |-> h.core, play |-> h.play] /\ h.local \in Memory
  BY <1>9, Fields
<1>11. Chosen(k, h)
  BY DEF Chosen
<1>12. c = [online |-> h.online, local |-> h.local, core |-> k, play |-> h.play]
  BY <1>10
<1> HIDE DEF c, k
<1>13. Lighter(c, h)
  BY <1>9, <1>10, <1>11, <1>12, LighterBy
<1>14. Draws(View, c, h)
  BY <1>9, <1>13, LighterDraws
<1>15. Draws(View, c, books)
  <2>1. Draws(View, h, books)
    BY <1>7, <1>8, DrawsOn
  <2> QED BY <1>14, <2>1, DrawsOn
<1>16. booted /\ storage = "open" /\ "online" \in Sides
  <2>1. change # NoChange
    <3>1. change.to # NoChange.to
      BY <1>1 DEF NoChange
    <3> QED BY <3>1
  <2> QED BY <2>1 DEF Control, Sides
<1>17. Typed'
  BY <1>1, <1>15, <1>16, FlushedTyped
<1>18. ASSUME Live PROVE Live'
  <2>1. Lives /\ Manned /\ Faithful(books)
    BY <1>18 DEF Live
  <2>2. Slimmed(a, books, Fresh)
    BY <1>2, <1>4, <1>5, <2>1, SlimFaithful
  <2>3. Faithful(a) /\ Lasts(a, books) /\ a.local = books.local /\ ~ a.online.sink
    BY <2>2, NothingIs DEF Slimmed
  <2>4. HydratedFaithful(h, a)
    BY <1>7, <2>3, HydrateFaithful DEF h
  <2>5. Faithful(h) /\ Lasts(h, a) /\ h.local = a.local /\ h.online.sink
    BY <2>4 DEF HydratedFaithful
  <2>6. Slimmed(c, h, h.online)
    BY <1>9, <1>11, <1>12, <2>5, SlimFaithful
  <2>7. Faithful(c) /\ Lasts(c, books) /\ c.local = books.local /\ c.online.sink
    BY <2>3, <2>5, <2>6 DEF Slimmed, Lasts
  <2>8. Serves(c, "online") /\ (c.local.alive => c.local.sink)
    BY <1>16, <2>1, <2>7 DEF Serves, Manned
  <2>9. Ready(View, books, Winner) => Ready(View, c, "online")
    BY <2>7 DEF Ready, Lasts
  <2> QED BY <1>1, <1>15, <1>16, <2>1, <2>7, <2>8, <2>9, FlushedLive
<1> QED BY <1>17, <1>18

LEMMA GiveUpTyped ==
  ASSUME LogSound, Control, Typed, NEW failed \in BOOLEAN, GiveUp(failed)
  PROVE  Typed'
<1> DEFINE c == IF Default = "online" THEN [books EXCEPT !.online = Fresh] ELSE [books EXCEPT !.local.alive = TRUE]
<1>1. UNCHANGED <<log, format, borrowed, live>> /\ books' = Flushed(c, Default) /\ pending' = <<>>
  BY DEF GiveUp, Boot, session
<1>2. Bounded(View, books) /\ Shape(books) /\ Default \in Sides
  BY UsageConstants DEF Typed, Bounded, Sides
<1>3. Lighter(c, books)
  BY <1>2, GivenUp
<1> HIDE DEF c
<1>4. Draws(View, c, books)
  BY <1>2, <1>3, LighterDraws
<1> QED BY <1>1, <1>2, <1>4, FlushedTyped

\* A batch of requests the log of the view holds.
LEMMA BatchIs ==
  ASSUME NEW s, GoodView(s), s.live = live, s.format = format,
         NEW through \in Nat, live <= through, through <= s.length, NEW R \in SUBSET s.requests,
         \A q \in R : q.end <= through, NEW catchup \in BOOLEAN
  PROVE  LET x == Batch(through, R, catchup)
         IN  BatchOK(s, x) /\ x.requests = R /\ x.through = through /\ x.catchup = catchup
<1> DEFINE x == Batch(through, R, catchup)
<1>1. live \in Nat /\ format \in {1, 2} /\ R \in SUBSET Closings
  BY DEF GoodView, Views
<1>2. /\ x.through = through /\ x.requests = R /\ x.live = s.live /\ x.format = s.format /\ x.catchup = catchup
      /\ x \in Batches
  BY <1>1 DEF Batch, Batches
<1> HIDE DEF x
<1>3. BatchOK(s, x)
  BY <1>2 DEF BatchOK
<1> QED BY <1>2, <1>3 DEF x

LEMMA OneQueued ==
  ASSUME NEW s, NEW x, BatchOK(s, x)
  PROVE  QueueOK(s, <<x>>) /\ DOMAIN <<x>> = {1} /\ <<x>>[1] = x
<1>1. x \in Batches
  BY DEF BatchOK
<1>2. <<x>> \in Seq(Batches) /\ DOMAIN <<x>> = {1} /\ <<x>>[1] = x
  BY <1>1
<1> QED BY <1>2 DEF QueueOK

LEMMA AttachLive ==
  ASSUME LogSound, Control, Typed, NEW listed \in BOOLEAN, Attach(listed)
  PROVE  Typed' /\ (Live => Live')
<1>1. /\ watching = "off" /\ watching' = IF listed THEN "on" ELSE "unlisted"
      /\ UNCHANGED <<day, log, format, borrowed, live, mode, storage, booted, change, owed>>
  BY DEF Attach, session, startup, ghosts
<1>2. View' = View /\ GoodView(View) /\ pending = <<>>
  BY <1>1, ViewGood DEF View, Requests, Control
<1>3. /\ Bounded(View, books) /\ QueueOK(View, pending) /\ View.length <= MaxEvents /\ Len(log') = View.length
      /\ View.live = live /\ View.format = format /\ View.requests = Requests
  BY <1>1, ViewIs DEF Typed
<1>4. Attempts' = Attempts /\ Chargeable' = Chargeable /\ Winner' = Winner /\ LocalWins' = LocalWins
  BY <1>1 DEF Attempts, Chargeable, Requests, Ongoing, Winner, LocalWins
<1>5. Live => Lives /\ Manned /\ Faithful(books) /\ owed = {}
  BY <1>1 DEF Live, Lives, Observing
<1>6. CASE ~ listed
  <2>1. UNCHANGED <<books, pending>> /\ watching' = "unlisted"
    BY <1>1, <1>6 DEF Attach
  <2>2. Typed'
    BY <1>2, <1>3, <2>1 DEF Typed
  <2>3. ASSUME Live PROVE Live'
    <3>1. Lively(View, books, pending, Winner, FALSE, booted, Attempts, Chargeable)
      BY <1>1, <1>2, <1>5, <2>3 DEF Lives, Lively
    <3>2. Lives'
      BY <1>1, <1>2, <1>4, <1>5, <2>1, <2>3, <3>1 DEF Lives, Observing
    <3>3. Manned'
      BY <1>1, <1>4, <1>5, <2>1, <2>3 DEF Manned
    <3> QED BY <1>5, <2>1, <2>3, <3>2, <3>3 DEF Live
  <2> QED BY <2>2, <2>3
<1>7. CASE listed
  <2> DEFINE yes == TRUE
             x == Batch(Len(log), Requests, yes)
             batches == <<x>>
  <2>1. Deliver(batches) /\ watching' = "on"
    BY <1>1, <1>7 DEF Attach, Requests
  <2>2. Len(log) \in Nat /\ live <= Len(log) /\ Len(log) = View.length /\ \A q \in Requests : q.end <= Len(log)
    BY <1>2, <1>3, ViewIs DEF GoodView, Views
  <2> HIDE DEF yes
  <2>3. yes \in BOOLEAN
    BY DEF yes
  <2>4. BatchOK(View, x) /\ x.catchup = yes
    BY <1>2, <1>3, <2>2, <2>3, BatchIs
  <2> HIDE DEF x
  <2>5. QueueOK(View, batches) /\ DOMAIN batches = {1} /\ batches[1] = x
    BY <2>4, OneQueued
  <2>6. batches # <<>>
    OBVIOUS
  <2> HIDE DEF batches
  <2>7. Typed'
    BY <1>2, <1>3, <2>1, <2>5, DeliverTyped
  <2>8. ASSUME Live PROVE Live'
    <3>1. Attempts' = {} /\ Chargeable' = {}
      BY <1>4, <1>5, <2>8 DEF Attempts, Chargeable
    <3>2. pending \o batches = batches
      BY <1>2, <2>5 DEF QueueOK
    <3>3. Awaits(View, books, batches, {}, {})
      BY <2>5 DEF Awaits, Clear
    <3>4. Lively(View, books, batches, Winner, yes, booted, {}, {})
      BY <2>4, <2>5, <2>6, <3>3 DEF Lively, yes
    <3>5. Lively(View, books, pending \o batches, Winner, watching' = "on", booted, Attempts', Chargeable')
      BY <2>1, <3>1, <3>2, <3>4 DEF yes
    <3>6. Faithful(books) /\ Manned /\ Observing'
      BY <1>1, <1>5, <2>1, <2>8 DEF Observing
    <3> QED BY <1>1, <1>2, <1>3, <2>1, <2>5, <3>5, <3>6, DeliverLive
  <2> QED BY <2>7, <2>8
<1> QED BY <1>6, <1>7
-----------------------------------------------------------------------------
(* The log grows, and the observer reports. *)

\* What a report joins to the queue: X and F are Z and E after the event.
Brings(s, t, queue, batches, on, now, X, F) ==
  /\ QueueOK(t, batches)
  /\ \A q \in F : q \in t.requests /\ q.start \in X
  /\ \A j \in DOMAIN batches : batches[j].catchup => queue = <<>> /\ j = 1 /\ \A z \in X : z > batches[j].through
  /\ \A j \in DOMAIN batches : \A q \in F \cap batches[j].requests :
       q \notin s.requests /\ \A k \in 1 .. j - 1 : batches[k].through < q.end
  /\ \A q \in F : q \in s.requests \/ \E j \in DOMAIN batches : q \in batches[j].requests
  /\ now => on \/ (queue = <<>> /\ batches # <<>> /\ batches[1].catchup)
  /\ now \/ (queue = <<>> /\ batches = <<>>)

LEMMA LivelyJoined ==
  ASSUME NEW s, GoodView(s), NEW t, GoodView(t), Extended(t, s), NEW b, Bounded(s, b), NEW queue, QueueOK(s, queue),
         NEW slot, NEW on, NEW up, NEW Z, NEW E, Lively(s, b, queue, slot, on, up, Z, E),
         NEW batches, NEW now, NEW X, X \subseteq Z \cup {t.length}, NEW F, \A q \in F : q \in s.requests => q \in E,
         Brings(s, t, queue, batches, on, now, X, F)
  PROVE  Lively(t, b, queue \o batches, slot, now, up, X, F)
<1> DEFINE z == queue \o batches
           M == Len(queue)
           N == Len(batches)
<1>1. /\ M \in Nat /\ N \in Nat /\ DOMAIN queue = 1 .. M /\ DOMAIN batches = 1 .. N /\ DOMAIN z = 1 .. M + N
      /\ \A i \in 1 .. M + N : z[i] = IF i <= M THEN queue[i] ELSE batches[i - M]
      /\ (queue # <<>> => M # 0) /\ (queue = <<>> => M = 0) /\ (batches # <<>> => N # 0) /\ (z = <<>> => M + N = 0)
    BY DEF Brings, QueueOK
<1>2. /\ s.length \in Nat /\ s.live \in Nat /\ t.length = s.length + 1 /\ t.live = s.live /\ s.live <= s.length
      /\ \A q \in t.requests : q \notin s.requests => q.end = t.length
      /\ s.requests \subseteq t.requests
  BY DEF Extended, GoodView, Views
<1>3. \A m : (Current(t, m) <=> Current(s, m)) /\ (Outdated(t, m) <=> Outdated(s, m))
  BY ExtendedBounded
<1>4. \A m \in Marked(b) : Current(s, m) => m.base \in Nat /\ m.settled \in Nat /\ m.base < t.length /\ m.settled < t.length
  <2> SUFFICES ASSUME NEW m \in Marked(b), Current(s, m)
               PROVE  m.base \in Nat /\ m.settled \in Nat /\ m.base < t.length /\ m.settled < t.length
    OBVIOUS
  <2>1. m \in Mark /\ m.base <= s.length /\ m.settled <= s.length
    BY DEF Bounded, Fits, MarkOK
  <2> QED BY <1>2, <2>1 DEF Mark
<1>5. \A i \in 1 .. M : /\ BatchOK(s, queue[i]) /\ queue[i].through \in Nat /\ queue[i].through < t.length
                        /\ queue[i].requests \subseteq s.requests
  <2> SUFFICES ASSUME NEW i \in 1 .. M
               PROVE  /\ BatchOK(s, queue[i]) /\ queue[i].through \in Nat /\ queue[i].through < t.length
                      /\ queue[i].requests \subseteq s.requests
    OBVIOUS
  <2>1. BatchOK(s, queue[i])
    BY <1>1 DEF QueueOK
  <2> QED BY <1>2, <2>1 DEF BatchOK, Batches
<1> HIDE DEF z, M, N
<1>6. Clear(t, b, X)
  <2> SUFFICES ASSUME NEW m \in Marked(b), Current(t, m), NEW x \in X PROVE x > m.base
    BY DEF Clear
  <2>1. CASE x \in Z
    BY <1>3, <2>1 DEF Lively, Awaits, Clear
  <2>2. CASE x = t.length
    BY <1>2, <1>3, <1>4, <2>2
  <2> QED BY <2>1, <2>2
<1>7. \A x \in X : x \in Nat /\ x > t.live
  <2> SUFFICES ASSUME NEW x \in X PROVE x \in Nat /\ x > t.live
    OBVIOUS
  <2>1. CASE x \in Z
    BY <1>2, <2>1 DEF Lively
  <2>2. CASE x = t.length
    BY <1>2, <2>2
  <2> QED BY <2>1, <2>2
<1>8. ASSUME NEW i \in DOMAIN z, z[i].catchup PROVE i = 1 /\ \A x \in X : x > z[i].through
  <2>1. CASE i \in 1 .. M
    <3>1. z[i] = queue[i] /\ i \in DOMAIN queue
      BY <1>1, <2>1
    <3>2. i = 1 /\ \A x \in Z : x > queue[i].through
      BY <1>8, <3>1 DEF Lively, Awaits
    <3>3. t.length > queue[i].through
      BY <1>2, <1>5, <2>1
    <3> QED BY <3>1, <3>2, <3>3
  <2>2. CASE i \notin 1 .. M
    <3>1. i - M \in DOMAIN batches /\ z[i] = batches[i - M] /\ i \in Nat
      BY <1>1, <2>2
    <3>2. queue = <<>> /\ i - M = 1 /\ \A x \in X : x > batches[i - M].through
      BY <1>8, <3>1 DEF Brings
    <3> QED BY <1>1, <3>1, <3>2
  <2> QED BY <2>1, <2>2
<1>9. ASSUME NEW i \in DOMAIN z, NEW q \in F \cap z[i].requests
      PROVE  Unsettled(t, b, q) /\ \A j \in 1 .. i - 1 : z[j].through < q.end
  <2>1. CASE i \in 1 .. M
    <3>1. z[i] = queue[i] /\ i \in DOMAIN queue /\ \A j \in 1 .. i - 1 : z[j] = queue[j]
      BY <1>1, <2>1
    <3>2. q \in E
      BY <1>5, <2>1, <3>1
    <3>3. Unsettled(s, b, q) /\ \A j \in 1 .. i - 1 : queue[j].through < q.end
      BY <3>1, <3>2 DEF Lively, Awaits
    <3> QED BY <1>3, <3>1, <3>3 DEF Unsettled
  <2>2. CASE i \notin 1 .. M
    <3>1. i - M \in DOMAIN batches /\ z[i] = batches[i - M] /\ i \in Nat
      BY <1>1, <2>2
    <3>2. q \notin s.requests /\ (\A k \in 1 .. (i - M) - 1 : batches[k].through < q.end) /\ q \in t.requests
      BY <3>1 DEF Brings
    <3>3. q.end = t.length
      BY <1>2, <3>2
    <3>4. Unsettled(t, b, q)
      BY <1>2, <1>3, <1>4, <3>3 DEF Unsettled
    <3>5. ASSUME NEW j \in 1 .. i - 1 PROVE z[j].through < q.end
      <4>1. CASE j <= M
        BY <1>1, <1>5, <3>3, <4>1
      <4>2. CASE ~ (j <= M)
        <5>1. z[j] = batches[j - M] /\ j - M \in 1 .. (i - M) - 1
          BY <1>1, <3>1, <4>2
        <5> QED BY <3>2, <5>1
      <4> QED BY <4>1, <4>2
    <3> QED BY <3>4, <3>5
  <2> QED BY <2>1, <2>2
<1>10. Awaits(t, b, z, X, F)
  BY <1>6, <1>8, <1>9 DEF Awaits
<1>11. now \/ z = <<>>
  <2>1. queue = <<>> /\ batches = <<>> => z = <<>>
    BY DEF z
  <2> QED BY <2>1 DEF Brings
<1>12. now => (z # <<>> /\ z[1].catchup) \/ (up /\ Ready(t, b, slot))
  <2>1. CASE queue = <<>> /\ batches # <<>> /\ batches[1].catchup
    <3>1. z = batches
      BY <2>1 DEF z, Brings, QueueOK
    <3> QED BY <2>1, <3>1
  <2>2. CASE queue # <<>> /\ queue[1].catchup
    <3>1. 1 \in 1 .. M /\ 1 \in 1 .. M + N
      BY <1>1, <2>2
    <3>2. z[1] = queue[1] /\ z # <<>>
      BY <1>1, <3>1
    <3> QED BY <2>2, <3>2
  <2>3. CASE up /\ Ready(s, b, slot)
    BY <1>3, <2>3 DEF Ready
  <2> QED BY <2>1, <2>2, <2>3 DEF Brings, Lively
<1>13. ASSUME NEW q \in F PROVE (\E i \in DOMAIN z : q \in z[i].requests) \/ (up /\ Counted(b, q))
  <2>1. CASE q \in s.requests
    <3>1. (\E i \in DOMAIN queue : q \in queue[i].requests) \/ (up /\ Counted(b, q))
      BY <2>1 DEF Lively
    <3>2. \A i \in DOMAIN queue : i \in DOMAIN z /\ z[i] = queue[i]
      BY <1>1
    <3> QED BY <3>1, <3>2
  <2>2. CASE q \notin s.requests
    <3>1. PICK j \in DOMAIN batches : q \in batches[j].requests
      BY <2>2 DEF Brings
    <3>2. j + M \in DOMAIN z /\ z[j + M] = batches[j]
      <4>1. j + M \in 1 .. M + N /\ ~ (j + M <= M) /\ (j + M) - M = j
        BY <1>1
      <4> QED BY <1>1, <4>1
    <3> QED BY <3>1, <3>2
  <2> QED BY <2>1, <2>2
<1>14. \A q \in F : q \in t.requests /\ q.start \in X
  BY DEF Brings
<1>15. Lively(t, b, z, slot, now, up, X, F)
  BY <1>7, <1>10, <1>11, <1>12, <1>13, <1>14 DEF Lively
<1> QED BY <1>15 DEF z

\* What the observer reports of the event that ends the log.
Reported(t, batches, closed) ==
  \/ /\ watching = "on" /\ closed # {}
     /\ \E x : batches = <<x>> /\ BatchOK(t, x) /\ x.requests = closed /\ ~ x.catchup
  \/ /\ watching = "unlisted"
     /\ \E x, y : /\ batches = <<x, y>> /\ BatchOK(t, x) /\ BatchOK(t, y)
                  /\ x.requests = {} /\ x.catchup /\ x.through = live
                  /\ y.requests = t.requests /\ ~ y.catchup
  \/ watching # "unlisted" /\ (watching = "on" => closed = {}) /\ batches = <<>>

LEMMA ReportsAre ==
  ASSUME LogSound, LogSound', UNCHANGED <<format, live>>
  PROVE  Reported(View', Reports(log'), {q \in Requests' : q.end = Len(log')}) /\ GoodView(View')
<1> DEFINE t == View'
           batches == Reports(log')
           closed == {q \in Requests' : q.end = Len(log')}
           no == FALSE
           yes == TRUE
<1>1. GoodView(t) /\ t.requests = Requests' /\ t.live = live /\ t.format = format /\ t.length = Len(log')
  <2>1. GoodView(View)'
    BY ViewGood, PTL
  <2> QED BY <2>1 DEF View
<1>2. /\ live \in Nat /\ Len(log') \in Nat /\ live <= Len(log') /\ t.requests \in SUBSET Closings
      /\ \A q \in t.requests : q.end <= Len(log')
  BY <1>1 DEF GoodView, Views
<1>3. no \in BOOLEAN /\ yes \in BOOLEAN
  OBVIOUS
<1>4. closed \in SUBSET t.requests /\ {} \in SUBSET t.requests /\ t.requests \in SUBSET t.requests
  BY <1>1
<1> HIDE DEF t, no, yes
<1>5. CASE watching = "on" /\ closed # {}
  <2> DEFINE x == Batch(Len(log'), closed, no)
  <2>1. batches = <<x>>
    BY <1>5 DEF Reports, Requests, no
  <2>2. \A q \in closed : q.end <= Len(log')
    BY <1>1, <1>2
  <2> HIDE DEF batches, closed
  <2>3. BatchOK(t, x) /\ x.requests = closed /\ x.catchup = no
    BY <1>1, <1>2, <1>3, <1>4, <2>2, BatchIs
  <2> HIDE DEF x
  <2>4. Reported(t, batches, closed)
    BY <1>5, <2>1, <2>3 DEF Reported, no
  <2> QED BY <1>1, <2>4 DEF t, batches, closed
<1>6. CASE watching = "unlisted"
  <2> DEFINE x == Batch(live, {}, yes)
             y == Batch(Len(log'), t.requests, no)
  <2>1. batches = <<x, y>>
    BY <1>1, <1>6 DEF Reports, Requests, no, yes
  <2> HIDE DEF batches, closed
  <2>2. BatchOK(t, x) /\ x.requests = {} /\ x.catchup = yes /\ x.through = live
    BY <1>1, <1>2, <1>3, <1>4, BatchIs
  <2>3. BatchOK(t, y) /\ y.requests = t.requests /\ y.catchup = no
    BY <1>1, <1>2, <1>3, <1>4, BatchIs
  <2> HIDE DEF x, y
  <2>4. Reported(t, batches, closed)
    BY <1>6, <2>1, <2>2, <2>3 DEF Reported, no, yes
  <2> QED BY <1>1, <2>4 DEF t, batches, closed
<1>7. CASE watching # "unlisted" /\ ~ (watching = "on" /\ closed # {})
  <2>1. batches = <<>>
    BY <1>7 DEF Reports, Requests
  <2> HIDE DEF batches, closed
  <2>2. Reported(t, batches, closed)
    BY <1>7, <2>1 DEF Reported
  <2> QED BY <1>1, <2>2 DEF t, batches, closed
<1> QED BY <1>5, <1>6, <1>7

LEMMA TwoQueued ==
  ASSUME NEW s, NEW x, BatchOK(s, x), NEW y, BatchOK(s, y)
  PROVE  QueueOK(s, <<x, y>>) /\ DOMAIN <<x, y>> = {1, 2} /\ <<x, y>>[1] = x /\ <<x, y>>[2] = y
<1>1. x \in Batches /\ y \in Batches
  BY DEF BatchOK
<1>2. <<x, y>> \in Seq(Batches) /\ DOMAIN <<x, y>> = {1, 2} /\ <<x, y>>[1] = x /\ <<x, y>>[2] = y
  BY <1>1
<1> QED BY <1>2 DEF QueueOK

LEMMA HappensLive ==
  ASSUME LogSound, LogSound', Grows, Control, Typed, NEW kind, NEW id, Happens(kind, id),
         Attempts' \subseteq Attempts \cup {Len(log')}, \A q \in Chargeable' : q \in Requests => q \in Chargeable,
         Live => Observing'
  PROVE  Typed' /\ (Live => Live')
<1> DEFINE s == View
           t == View'
           batches == Reports(log')
           closed == {q \in Requests' : q.end = Len(log')}
           on == watching = "on"
           now == watching' = "on"
           X == Attempts'
           F == Chargeable'
<1>1. /\ UNCHANGED <<format, borrowed, live, mode, storage, booted, change>> /\ Deliver(batches)
      /\ watching' = IF watching = "unlisted" THEN "on" ELSE watching
      /\ Len(log) < MaxEvents
  BY DEF Happens, startup
<1>2. GoodView(s) /\ GoodView(t) /\ Reported(t, batches, closed) /\ Extended(t, s)
  BY <1>1, ViewGood, ReportsAre, GrowsExtended
<1>3. /\ t.requests = Requests' /\ s.requests = Requests /\ t.length = Len(log') /\ s.length = Len(log)
      /\ s.length \in Nat /\ t.length = s.length + 1 /\ s.live = live /\ t.live = live /\ live <= s.length /\ live \in Nat
  BY <1>1, <1>2 DEF Extended, View, GoodView, Views
<1>4. t.length <= MaxEvents
  BY <1>1, <1>3, UsageConstants
<1>5. Bounded(s, books) /\ QueueOK(s, pending) /\ Bounded(t, books) /\ QueueOK(t, pending)
  BY <1>2, ExtendedBounded DEF Typed
<1>6. \A q \in F : q \in t.requests /\ q.start \in X
  BY <1>3 DEF Chargeable, Attempts
<1>7. \A q \in t.requests : q \notin s.requests => q.end = t.length
  BY <1>2 DEF Extended
<1>8. \A q \in closed : q \notin s.requests /\ q.end = t.length
  BY <1>2, <1>3 DEF GoodView, Views, Closings
<1>9. \A q \in t.requests : q \notin s.requests => q \in closed
  BY <1>3, <1>7
<1>10. watching # "on" => pending = <<>>
  BY DEF Control
<1>11. Live => Lively(s, books, pending, Winner, on, booted, Attempts, Chargeable) /\ Observing
  BY DEF Live, Lives
<1>12. Live /\ watching # "on" => Attempts = {} /\ Chargeable = {}
  BY <1>11 DEF Observing, Attempts, Chargeable
<1>13. Live /\ watching # "on" /\ watching # "unlisted" => F = {}
  BY <1>1 DEF Observing, Chargeable
<1>14. X \subseteq Attempts \cup {t.length} /\ \A q \in F : q \in s.requests => q \in Chargeable
  BY <1>3
<1> HIDE DEF s, t, batches, closed, X, F
<1>15. QueueOK(t, batches) /\ (Live => Brings(s, t, pending, batches, on, now, X, F))
  <2>1. CASE /\ watching = "on" /\ closed # {}
             /\ \E x : batches = <<x>> /\ BatchOK(t, x) /\ x.requests = closed /\ ~ x.catchup
    <3>1. PICK x : batches = <<x>> /\ BatchOK(t, x) /\ x.requests = closed /\ ~ x.catchup
      BY <2>1
    <3>2. QueueOK(t, batches) /\ DOMAIN batches = {1} /\ batches[1] = x
      BY <3>1, OneQueued
    <3>3. \A q \in F : q \in s.requests \/ \E j \in DOMAIN batches : q \in batches[j].requests
      BY <1>6, <1>9, <3>1, <3>2
    <3>4. \A j \in DOMAIN batches : \A q \in F \cap batches[j].requests :
             q \notin s.requests /\ \A k \in 1 .. j - 1 : batches[k].through < q.end
      BY <1>8, <3>1, <3>2
    <3>5. \A j \in DOMAIN batches : ~ batches[j].catchup
      BY <3>1, <3>2
    <3> QED BY <1>1, <1>6, <2>1, <3>2, <3>3, <3>4, <3>5 DEF Brings
  <2>2. CASE /\ watching = "unlisted"
             /\ \E x, y : /\ batches = <<x, y>> /\ BatchOK(t, x) /\ BatchOK(t, y)
                          /\ x.requests = {} /\ x.catchup /\ x.through = live
                          /\ y.requests = t.requests /\ ~ y.catchup
    <3>1. PICK x, y : /\ batches = <<x, y>> /\ BatchOK(t, x) /\ BatchOK(t, y)
                      /\ x.requests = {} /\ x.catchup /\ x.through = live
                      /\ y.requests = t.requests /\ ~ y.catchup
      BY <2>2
    <3>2. QueueOK(t, batches) /\ DOMAIN batches = {1, 2} /\ batches[1] = x /\ batches[2] = y
      BY <3>1, TwoQueued
    <3>3. batches # <<>>
      BY <3>1
    <3>4. ASSUME Live PROVE Brings(s, t, pending, batches, on, now, X, F)
      <4>1. pending = <<>> /\ Attempts = {} /\ Chargeable = {} /\ watching' = "on"
        BY <1>1, <1>10, <1>12, <2>2, <3>4
      <4>2. \A z \in X : z > live
        BY <1>3, <1>14, <4>1
      <4>3. \A q \in F : q \notin s.requests /\ q.end = t.length
        BY <1>6, <1>7, <1>14, <4>1
      <4>4. \A q \in F : q \in batches[2].requests
        BY <1>6, <3>1, <3>2
      <4>5. \A j \in DOMAIN batches : \A q \in F \cap batches[j].requests :
               q \notin s.requests /\ \A k \in 1 .. j - 1 : batches[k].through < q.end
        BY <1>3, <3>1, <3>2, <4>3
      <4>6. \A j \in DOMAIN batches : batches[j].catchup => j = 1 /\ \A z \in X : z > batches[j].through
        BY <3>1, <3>2, <4>2
      <4> QED BY <1>6, <3>1, <3>2, <3>3, <4>1, <4>4, <4>5, <4>6 DEF Brings
    <3> QED BY <3>2, <3>4
  <2>3. CASE watching # "unlisted" /\ (watching = "on" => closed = {}) /\ batches = <<>>
    <3>1. QueueOK(t, batches) /\ DOMAIN batches = {}
      BY <2>3, NothingQueued
    <3>2. ASSUME Live PROVE Brings(s, t, pending, batches, on, now, X, F)
      <4>1. \A q \in F : q \in s.requests
        BY <1>6, <1>9, <1>13, <2>3, <3>2
      <4> QED BY <1>1, <1>6, <1>10, <2>3, <3>1, <4>1 DEF Brings
    <3> QED BY <3>1, <3>2
  <2> QED BY <1>2, <2>1, <2>2, <2>3 DEF Reported
<1>16. t = View' /\ Len(log') = t.length
  BY <1>3 DEF t
<1>17. Typed'
  BY <1>1, <1>2, <1>4, <1>5, <1>15, <1>16, DeliverTyped
<1>18. ASSUME Live PROVE Live'
  <2>1. Lively(t, books, pending \o batches, Winner, now, booted, X, F)
    BY <1>2, <1>5, <1>11, <1>14, <1>15, <1>18, LivelyJoined
  <2>2. Lively(t, books, pending \o batches, Winner, watching' = "on", booted, Attempts', Chargeable')
    BY <2>1 DEF X, F
  <2>3. Faithful(books) /\ Manned /\ Observing'
    BY <1>18 DEF Live
  <2> QED BY <1>1, <1>2, <1>4, <1>5, <1>15, <1>16, <2>2, <2>3, DeliverLive
<1> QED BY <1>17, <1>18

LEMMA BeginLive == ASSUME LogSound, Control, Typed, BeginRequest PROVE Typed' /\ (Live => Live')
<1>1. LogSound' /\ Grows
  BY BeginSound
<1> DEFINE e == [kind |-> "start", id |-> Begun + 1, day |-> day]
<1>2. /\ log \in Seq(Event) /\ day \in Days /\ Begun \in Nat /\ Begun + 1 <= MaxRequests
      /\ SettlerOK(Settled(log), Len(log), Begun)
  BY UsageConstants DEF LogSound, BeginRequest
<1>3. /\ log' = Append(log, e) /\ Happens("start", Begun + 1)
      /\ owed' = IF watching = "off" THEN owed ELSE owed \cup {Begun + 1}
      /\ watching' = IF watching = "unlisted" THEN "on" ELSE watching
  BY DEF BeginRequest, Happens
<1>4. e \in Event /\ e.kind = "start" /\ e.id = Begun + 1
  BY <1>2, UsageConstants DEF Event
<1> HIDE DEF e
<1>5. Settled(log') = Consume(Settled(log), Len(log) + 1, e) /\ Len(log') = Len(log) + 1 /\ Len(log) \in Nat
  BY <1>2, <1>3, <1>4, SettledAppend
<1>6. Requests' = Requests /\ Ongoing' = [id |-> Begun + 1, at |-> Len(log) + 1, sample |-> NoSample]
  <2> DEFINE c == Consume(Settled(log), Len(log) + 1, e)
  <2>1. /\ c.requests = Settled(log).requests
        /\ c.open = [id |-> Begun + 1, at |-> Len(log) + 1, sample |-> NoSample]
    BY <1>2, <1>4, <1>5, ConsumeStart
  <2> HIDE DEF c
  <2>2. Settled(log') = c
    BY <1>5 DEF c
  <2> QED BY <2>1, <2>2 DEF Requests, Ongoing
<1>7. \A q \in Requests : q.id # Begun + 1
  <2>1. \A q \in Requests : q.id <= Begun /\ q.id \in Nat
    BY <1>2, UsageConstants DEF SettlerOK, Record, Requests, Request
  <2> QED BY <1>2, <2>1
<1>8. Chargeable' = Chargeable
  BY <1>3, <1>6, <1>7 DEF Chargeable
<1>9. Attempts' \subseteq Attempts \cup {Len(log')}
  <2>1. \A q \in Requests : q.id \in owed' => q.id \in owed
    BY <1>3, <1>7
  <2>2. Ongoing'.at = Len(log')
    BY <1>5, <1>6
  <2> QED BY <1>6, <2>1, <2>2 DEF Attempts
<1>10. Live => Observing'
  BY <1>3 DEF Live, Lives, Observing
<1> QED BY <1>1, <1>3, <1>8, <1>9, <1>10, HappensLive

LEMMA GoOnLive ==
  ASSUME LogSound, Control, Typed, NEW kind \in {"sample", "final", "unreadable", "end"}, GoOn(kind)
  PROVE  Typed' /\ (Live => Live')
<1>1. LogSound' /\ Grows
  BY GoOnSound
<1> DEFINE e == [kind |-> kind, id |-> Ongoing.id, day |-> day]
<1>2. /\ log \in Seq(Event) /\ day \in Days /\ Begun \in Nat /\ Begun <= MaxRequests
      /\ SettlerOK(Settled(log), Len(log), Begun) /\ Ongoing # Closed
  BY DEF LogSound, GoOn, Ongoing
<1>3. /\ log' = Append(log, e) /\ owed' = owed /\ Happens(kind, Ongoing.id)
      /\ watching' = IF watching = "unlisted" THEN "on" ELSE watching
  BY DEF GoOn, Happens, Ongoing
<1>4. e \in Event /\ e.kind # "start"
  <2>1. Ongoing.id \in 1 .. Begun
    BY <1>2 DEF SettlerOK, Ongoing
  <2>2. Ongoing.id \in 0 .. MaxRequests
    BY <1>2, <2>1, UsageConstants
  <2> QED BY <1>2, <2>2 DEF Event
<1> HIDE DEF e
<1>5. Settled(log') = Consume(Settled(log), Len(log) + 1, e) /\ Len(log') = Len(log) + 1 /\ Len(log) \in Nat
  BY <1>2, <1>3, <1>4, SettledAppend
<1>6. Longer(Settled(log), Settled(log'), Len(log))
  BY <1>2, <1>4, <1>5, ConsumeOther
<1>7. /\ \A q \in Requests' \ Requests : q.id = Ongoing.id /\ q.start = Ongoing.at
      /\ Ongoing' = Closed \/ (Ongoing'.id = Ongoing.id /\ Ongoing'.at = Ongoing.at)
  BY <1>6 DEF Longer, Requests, Ongoing
<1>8. \A q \in Chargeable' : q \in Requests => q \in Chargeable
  BY <1>3 DEF Chargeable
<1>9. Attempts' \subseteq Attempts \cup {Len(log')}
  <2>1. 0 \notin owed
    BY DEF LogSound
  <2>2. Closed.id = 0
    BY DEF Closed
  <2>3. Ongoing.id \in owed => Ongoing.at \in Attempts
    BY DEF Attempts
  <2>4. \A q \in Requests' : q.id \in owed => q.start \in Attempts
    <3>1. \A q \in Requests : q.id \in owed => q.start \in Attempts
      BY DEF Attempts
    <3> QED BY <1>7, <2>3, <3>1
  <2>5. Ongoing'.id \in owed => Ongoing'.at \in Attempts
    BY <1>7, <2>1, <2>2, <2>3
  <2>6. Attempts' \subseteq {q.start : q \in {p \in Requests' : p.id \in owed}} \cup (IF Ongoing'.id \in owed THEN {Ongoing'.at} ELSE {})
    BY <1>3 DEF Attempts
  <2> HIDE DEF Attempts
  <2> QED BY <2>4, <2>5, <2>6
<1>10. Live => Observing'
  BY <1>3 DEF Live, Lives, Observing
<1> QED BY <1>1, <1>3, <1>8, <1>9, <1>10, HappensLive
-----------------------------------------------------------------------------
(* The books a process finds, and the end of a process. *)

\* A process that has just begun: the domains hold one image each, and the memory nothing.
Starting ==
  /\ Len(log) <= MaxEvents
  /\ \E x \in Image, y \in Dailies : Fits(View, x.mark) /\ books = AtStart(<<x>>, <<y>>)
  /\ pending = <<>> /\ watching = "off" /\ owed = {} /\ ~ booted /\ storage = "closed"

LEMMA StartingLive == ASSUME LogSound, Starting PROVE Typed /\ Live
<1> DEFINE s == View
           c == books
<1>1. PICK x \in Image, y \in Dailies : Fits(View, x.mark) /\ books = AtStart(<<x>>, <<y>>)
  BY DEF Starting
<1> DEFINE k == <<x>>
           j == <<y>>
<1>2. /\ k \in Seq(Image) /\ k # <<>> /\ Last(k) = x /\ Range(k) = {x}
      /\ j \in Seq(Dailies) /\ j # <<>> /\ Last(j) = y
  BY DurableIs DEF Durable
<1> HIDE DEF k, j
<1>3. c = [online |-> IF Default = "online" THEN Fresh ELSE Gone, local |-> Gone, core |-> k, play |-> j]
  BY <1>1 DEF AtStart, k, j
<1> HIDE DEF c
<1>4. (c.online = Fresh \/ c.online = Gone) /\ c.local = Gone /\ c.core = k /\ c.play = j
  BY <1>3
<1>5. Shape(c)
  BY <1>2, <1>3, <1>4, NothingIs DEF Shape, Shelves
<1>6. /\ c.online.mark = NoMark /\ c.online.daily = Empty /\ ~ c.online.sink
      /\ c.local.mark = NoMark /\ c.local.daily = Empty /\ ~ c.local.sink /\ NoMark.kind = "none"
  BY <1>4, NothingIs
<1>7. ~ c.local.alive
  BY <1>4 DEF Gone
<1>8. \A m \in Marked(c) : Fits(s, m)
  BY <1>1, <1>2, <1>4, <1>6, NoMarkFits DEF Marked
<1>9. Bounded(s, c) /\ Faithful(c)
  BY <1>5, <1>6, <1>8 DEF Bounded, Faithful
<1>10. QueueOK(s, pending) /\ DOMAIN pending = {} /\ pending = <<>>
  BY NothingQueued DEF Starting
<1>11. Typed
  BY <1>9, <1>10 DEF Typed, Starting, c
<1>12. Manned
  BY <1>6, <1>7 DEF Manned, Starting, c
<1>13. Attempts = {} /\ Chargeable = {} /\ watching # "on" /\ Observing
  BY DEF Attempts, Chargeable, Starting, Observing
<1>14. Awaits(s, books, pending, {}, {})
  BY <1>10 DEF Awaits, Clear
<1>15. Lives
  BY <1>10, <1>13, <1>14 DEF Lives, Lively
<1> QED BY <1>9, <1>11, <1>12, <1>15 DEF Live, c

LEMMA InitLive == ASSUME Init, LogSound PROVE Typed /\ Live
<1>1. PICK l \in {<<>>, Parent}, mark \in {NoMark, Legacy}, pref \in {"online", "local"} :
        log = l /\ books = AtStart(<<[mark |-> mark, daily |-> Empty, pref |-> pref]>>, <<Empty>>)
  BY DEF Init
<1> DEFINE x == [mark |-> mark, daily |-> Empty, pref |-> pref]
<1>2. mark \in Mark /\ mark.kind # "offsets" /\ mark.format = 0 /\ mark \in Marks
  BY NothingIs DEF NoMark, Legacy, Mark, Marks
<1>3. x \in Image /\ x.mark = mark
  BY <1>2, NothingIs DEF Image
<1>4. Fits(View, mark)
  BY <1>2 DEF Fits, MarkOK, Current
<1>5. Len(log) <= MaxEvents
  <2>1. Len(l) = 0 \/ Len(l) = 2
    BY DEF Parent
  <2> QED BY <1>1, <2>1, UsageConstants
<1> HIDE DEF x
<1>6. Fits(View, x.mark) /\ books = AtStart(<<x>>, <<Empty>>)
  BY <1>1, <1>3, <1>4 DEF x
<1>7. Starting
  BY <1>3, <1>5, <1>6, NothingIs DEF Starting, Init
<1> QED BY <1>7, StartingLive

LEMMA RestartLive ==
  ASSUME LogSound, LogSound', Kept, live' = Len(log'), Typed,
         NEW i \in DOMAIN books.core, NEW j \in DOMAIN books.play, NEW renumber \in BOOLEAN,
         Restart(i, j, renumber)
  PROVE  Typed' /\ Live'
<1> DEFINE s == View
           t == View'
           x == books.core[i]
           y == books.play[j]
           m == x.mark
<1>1. /\ books' = AtStart(<<x>>, <<y>>) /\ UNCHANGED borrowed
      /\ pending' = <<>> /\ watching' = "off" /\ owed' = {} /\ ~ booted' /\ storage' = "closed"
      /\ renumber => Len(log) \in 1 .. MaxEvents - 1
      /\ format' = IF renumber THEN 2 ELSE format
  BY DEF Restart
<1>2. GoodView(s) /\ GoodView(t) /\ t.requests = Requests' /\ s.requests = Requests
  <2>1. GoodView(View)'
    BY ViewGood, PTL
  <2>2. (View.requests = Requests)'
    BY ViewIs, PTL
  <2> QED BY <2>1, <2>2, ViewGood, ViewIs
<1>3. /\ t.format = format' /\ t.live = live' /\ t.length = Len(log') /\ t.borrowed = borrowed'
      /\ s.format = format /\ s.length = Len(log) /\ Len(log) \in Nat
  BY <1>2 DEF View, GoodView, Views
<1>4. Restarted(t, s)
  BY <1>1, <1>2, <1>3, ViewIs DEF Restarted, Kept
<1>5. x \in Image /\ y \in Dailies /\ Fits(s, m)
  <2>1. Shape(books) /\ \A n \in Marked(books) : Fits(View, n)
    BY DEF Typed, Bounded
  <2>2. x \in Range(books.core) /\ y \in Range(books.play)
    BY DEF Range
  <2>3. x.mark \in Marked(books)
    BY <2>2 DEF Marked
  <2> QED BY <2>1, <2>2, <2>3, Fields
<1> HIDE DEF x, y, s, t
<1>6. MarkOK(s, m) /\ m \in Marks /\ MarkOK(t, m)
  <2>1. MarkOK(s, m) /\ m \in Marks
    BY <1>5 DEF Fits
  <2> HIDE DEF m
  <2> QED BY <1>2, <1>4, <2>1, RestartedSame
<1>7. ASSUME log' = log, format' = format PROVE Fits(t, m) /\ Len(log') <= MaxEvents
  <2>1. Fits(t, m)
    BY <1>3, <1>5, <1>6, <1>7 DEF Fits, Current
  <2>2. Len(log') <= MaxEvents
    BY <1>7 DEF Typed
  <2> QED BY <2>1, <2>2
<1>8. ASSUME format = 1, format' = 2, Len(log') = Len(log) + 1 PROVE Fits(t, m) /\ Len(log') <= MaxEvents
  <2>1. renumber
    BY <1>1, <1>8
  <2>2. Len(log') <= MaxEvents
    BY <1>1, <1>3, <1>8, <2>1, UsageConstants
  <2>3. ~ Current(t, m)
    BY <1>3, <1>6, <1>8 DEF MarkOK, Current
  <2>4. Fits(t, m)
    BY <1>6, <2>3 DEF Fits
  <2> QED BY <2>2, <2>4
<1>9. Fits(t, m) /\ Len(log') <= MaxEvents
  BY <1>7, <1>8 DEF Kept
<1>10. Starting'
  BY <1>1, <1>5, <1>9 DEF Starting, t
<1>11. (Typed /\ Live)'
  BY <1>10, StartingLive, PTL
<1> QED BY <1>11

\* The steps that change neither the session nor the books.
LEMMA StillLive ==
  ASSUME Typed,
         UNCHANGED <<log, format, borrowed, live, books, pending, mode, change, watching, booted, storage, owed>>
  PROVE  Typed' /\ (Live => Live')
<1>1. /\ View' = View /\ Winner' = Winner /\ LocalWins' = LocalWins
      /\ Attempts' = Attempts /\ Chargeable' = Chargeable
  BY DEF View, Requests, Winner, LocalWins, Attempts, Chargeable, Ongoing
<1>2. Typed'
  BY <1>1 DEF Typed
<1>3. Live => Faithful(books)' /\ Manned' /\ Lives'
  BY <1>1 DEF Live, Manned, Lives, Observing
<1> QED BY <1>2, <1>3 DEF Live

LEMMA LiveStep ==
  ASSUME LogSound, Control, LiveInv, [Next]_vars
  PROVE  LiveInv'
<1>1. Typed /\ (~ memoryOnly => Live) /\ day \in Days
  BY DEF LiveInv, LogSound
<1>2. CASE BeginRequest
  <2>1. memoryOnly' = memoryOnly
    BY <1>2 DEF BeginRequest, Happens
  <2> QED BY <1>1, <1>2, <2>1, BeginLive DEF LiveInv
<1>3. ASSUME NEW kind \in {"sample", "final", "unreadable", "end"}, GoOn(kind) PROVE LiveInv'
  <2>1. memoryOnly' = memoryOnly
    BY <1>3 DEF GoOn, Happens
  <2> QED BY <1>1, <1>3, <2>1, GoOnLive DEF LiveInv
<1>4. ASSUME NEW listed \in BOOLEAN, Attach(listed) PROVE LiveInv'
  <2>1. memoryOnly' = memoryOnly
    BY <1>4 DEF Attach, ghosts
  <2> QED BY <1>1, <1>4, <2>1, AttachLive DEF LiveInv
<1>5. CASE OpenCore \/ ResolveIdentity \/ OpenLocal
  <2>1. memoryOnly' = memoryOnly
    BY <1>5 DEF OpenCore, ResolveIdentity, OpenLocal, ghosts
  <2> QED BY <1>1, <1>5, <2>1, OpenCoreLive, ResolveLive, OpenLocalLive DEF LiveInv
<1>6. ASSUME NEW failed \in BOOLEAN, GiveUp(failed) PROVE LiveInv'
  <2>1. memoryOnly'
    BY <1>6 DEF GiveUp
  <2> QED BY <1>1, <1>6, <2>1, GiveUpTyped DEF LiveInv
<1>7. CASE Change
  <2>1. memoryOnly' = memoryOnly
    BY <1>7 DEF Change, KeepMode, AskChange, Barrier, PrepareLocal, PrepareOnline, CommitLocal, CommitOnline,
                AbortChange, ghosts
  <2>2. Typed' /\ (Live => Live')
    BY <1>1, <1>7, KeepModeLive, AskChangeLive, BarrierLive, PrepareLocalLive, PrepareOnlineLive, CommitLocalLive,
       CommitOnlineLive, AbortLive DEF Change
  <2> QED BY <1>1, <2>1, <2>2 DEF LiveInv
<1>8. CASE Midnight \/ UNCHANGED vars
  <2>1. UNCHANGED <<log, format, borrowed, live, books, pending, mode, change, watching, booted, storage, owed>>
        /\ memoryOnly' = memoryOnly
    BY <1>8 DEF Midnight, vars, session, ghosts, startup
  <2> QED BY <1>1, <2>1, StillLive DEF LiveInv
<1>9. CASE End
  <2>1. PICK i \in DOMAIN books.core, j \in DOMAIN books.play, renumber \in BOOLEAN : Restart(i, j, renumber)
    BY <1>9 DEF End
  <2>2. LogSound' /\ Kept /\ live' = Len(log')
    BY <2>1, RestartSound
  <2> QED BY <1>1, <2>1, <2>2, RestartLive DEF LiveInv
<1> QED BY <1>2, <1>3, <1>4, <1>5, <1>6, <1>7, <1>8, <1>9 DEF Next, Observation, Start

\* At every moment no watermark reaches past the log; and until a process gives up on its
\* storage, an authority that writes remembers what its domain holds, the queue's first
\* batch or the watermark fences all that was there before, and every request begun under
\* observation that has closed is in the domains or in the queue (index.ts:189-229,
\* usage-projection.ts:73-98).
THEOREM LiveAlways == Spec => [](OnceInv /\ LiveInv)
<1>1. Init => OnceInv /\ LiveInv
  BY OnceInit, InitLive DEF OnceInv, LiveInv
<1>2. OnceInv /\ LiveInv /\ [Next]_vars => (OnceInv /\ LiveInv)'
  BY OnceStep, LiveStep DEF OnceInv
<1> QED BY <1>1, <1>2, PTL DEF Spec

LEMMA LiveBooked == OnceInv /\ LiveInv => LiveCounted
<1> SUFFICES ASSUME OnceInv, LiveInv, ~ memoryOnly, NEW r \in owed PROVE Booked(r) >= Billed(r) \/ Waiting(r)
  BY DEF LiveCounted
<1>1. LogSound /\ Shape(books) /\ Faithful(books) /\ Manned /\ QueueOK(View, pending)
  BY DEF OnceInv, LiveInv, Live, Typed, Bounded
<1>2. r \in Request /\ ~ (r <= borrowed)
  BY <1>1, UsageConstants DEF LogSound, Request
<1>3. Billed(r) = TokensOf(Requests, r)
  BY <1>2 DEF Billed, Requests
<1>4. Requests \in SUBSET Closings /\ \A p, q \in Requests : p.id = q.id => p = q
  BY <1>1, ViewGood, ViewIs DEF GoodView, Views
<1>5. \A q \in Requests : q.tokens \in {1, 2}
  BY <1>4 DEF Closings
<1> DEFINE f == Cell(r)
<1>6. \A x \in Cells : f[x] = Daily(x[1])[x[2]][r] /\ f[x] \in Nat
  <2> SUFFICES ASSUME NEW x \in Cells PROVE f[x] = Daily(x[1])[x[2]][r] /\ f[x] \in Nat
    OBVIOUS
  <2>1. x[1] \in {"online", "local"} /\ x[2] \in Days /\ f[x] = Daily(x[1])[x[2]][r]
    BY DEF Cells, Cell
  <2> QED BY <1>1, <1>2, <2>1, DailyIn DEF Dailies
<1>7. Booked(r) = SumFunctionOnSet(f, Cells)
  BY <1>2, BookedIs
<1> HIDE DEF f
<1>8. CASE \A q \in Requests : q.id # r
  <2>1. Billed(r) = 0
    BY <1>3, <1>4, <1>5, <1>8, TokensOne
  <2>2. SumFunctionOnSet(f, Cells) \in Nat
    BY <1>6, CellsFinite, SumType
  <2> QED BY <1>7, <2>1, <2>2
<1>9. CASE \E q \in Requests : q.id = r
  <2>1. PICK q \in Requests : q.id = r
    BY <1>9
  <2>2. q \in Chargeable
    BY <2>1 DEF Chargeable
  <2>3. Billed(r) = q.tokens
    BY <1>3, <1>4, <1>5, <2>1, TokensOne
  <2>4. (\E i \in DOMAIN pending : q \in pending[i].requests) \/ (booted /\ Counted(books, q))
    BY <2>2 DEF LiveInv, Live, Lives, Lively
  <2>5. CASE \E i \in DOMAIN pending : q \in pending[i].requests
    <3>1. PICK i \in DOMAIN pending : q \in pending[i].requests
      BY <2>5
    <3> DEFINE R == pending[i].requests
    <3>2. R \subseteq Requests
      BY <1>1, ViewIs DEF QueueOK, BatchOK
    <3>3. q \in R
      BY <3>1
    <3> HIDE DEF R
    <3>4. TokensOf(R, r) = q.tokens
      <4>1. (\A p \in R : p.tokens \in {1, 2}) /\ \A p, o \in R : p.id = o.id => p = o
        BY <1>4, <1>5, <3>2
      <4> QED BY <2>1, <3>3, <4>1, TokensOne
    <3>5. TokensOf(R, r) > 0
      BY <1>5, <2>1, <3>4
    <3>6. Waiting(r)
      BY <3>5 DEF Waiting, R
    <3> QED BY <3>6
  <2>6. CASE booted /\ Counted(books, q)
    <3>1. Daily("online") = Last(books.core).daily /\ Daily("local") = Last(books.play)
      BY <1>1, <2>6 DEF Daily, Faithful, Manned
    <3>2. PICK a \in {"online", "local"}, d \in Days : Daily(a)[d][r] >= q.tokens
      BY <2>1, <2>6, <3>1 DEF Counted
    <3> DEFINE x == <<a, d>>
    <3>3. x \in Cells /\ x[1] = a /\ x[2] = d
      BY DEF Cells
    <3> HIDE DEF x
    <3>4. f[x] >= q.tokens
      BY <1>6, <3>2, <3>3
    <3>5. f[x] <= SumFunctionOnSet(f, Cells) /\ SumFunctionOnSet(f, Cells) \in Nat
      BY <1>6, <3>3, CellsFinite, TermAtMostSum, SumType
    <3>6. f[x] \in Nat /\ q.tokens \in Nat
      BY <1>5, <1>6, <2>1, <3>3
    <3> QED BY <1>7, <2>3, <3>4, <3>5, <3>6
  <2> QED BY <2>4, <2>5, <2>6
<1> QED BY <1>8, <1>9

\* LiveCounted: a request begun under observation is in the books, or in the queue, as
\* soon as it closes, through every change of authority that succeeds or fails, every
\* report, midnight and start; unless the Host gave up on its storage
\* (index.ts:189-229, usage-projection.ts:73-98).
THEOREM NothingLost == Spec => []LiveCounted
BY LiveAlways, LiveBooked, PTL
-----------------------------------------------------------------------------
(* The shape of the state, and who may be in the slot. *)

\* A report changes what an authority remembers, not whether it lives.
LEMMA DeliveredAlive ==
  ASSUME NEW s, GoodView(s), s.length <= MaxEvents, day \in Days, NEW b, Bounded(s, b), NEW slot \in Sides,
         NEW batches, QueueOK(s, batches)
  PROVE  Delivered(b, slot, batches).online.alive = b.online.alive
<1> DEFINE N == Len(batches)
<1>1. N \in Nat /\ DOMAIN batches = 1 .. N
  BY DEF QueueOK
<1> HIDE DEF N
<1>2. PICK G : IsFlow(b, slot, batches, N, G) /\ Delivered(b, slot, batches) = G[N]
  BY <1>1, DeliveredFlow
<1> DEFINE Good(n) == Bounded(s, G[n]) /\ G[n].online.alive = b.online.alive
           B == {n \in 0 .. N : ~ Good(n)}
<1>3. Good(0)
  BY <1>2 DEF IsFlow
<1>4. ASSUME NEW n \in 1 .. N, Good(n - 1) PROVE Good(n)
  <2> DEFINE a == G[n - 1]
             batch == batches[n]
  <2>1. G[n] = Observe(a, slot, batch) /\ BatchOK(s, batch) /\ Bounded(s, a) /\ a.online.alive = b.online.alive
    BY <1>1, <1>2, <1>4 DEF IsFlow, QueueOK
  <2> HIDE DEF a, batch
  <2>2. Bounded(s, Observe(a, slot, batch))
    BY <2>1, ObserveBounded
  <2>3. Shape(a) /\ MarkOK(s, a.online.mark) /\ MarkOK(s, a.local.mark)
    <3>1. a.online.mark \in Marked(a) /\ a.local.mark \in Marked(a)
      BY DEF Marked
    <3> QED BY <2>1, <3>1 DEF Bounded, Fits
  <2>4. ObserveOnline(a, batch).online.alive = a.online.alive
    BY <2>1, <2>3, ObserveOnlineIs DEF OnlineTakes
  <2>5. ObserveLocal(a, batch).online = a.online
    BY <2>1, <2>3, ObserveLocalIs DEF LocalTakes
  <2>6. Observe(a, slot, batch).online.alive = a.online.alive
    BY <2>4, <2>5 DEF Observe
  <2> QED BY <2>1, <2>2, <2>6
<1> HIDE DEF Good
<1>5. B = {}
  <2> SUFFICES ASSUME NEW z \in B PROVE FALSE
    OBVIOUS
  <2>1. PICK m \in B : \A n \in B : m <= n
    <3>1. B \in SUBSET Nat
      OBVIOUS
    <3> HIDE DEF B
    <3> QED BY <3>1, LeastNumber
  <2>2. m # 0
    BY <1>3
  <2>3. m \in 1 .. N /\ m - 1 \in 0 .. N /\ m - 1 \notin B
    BY <1>1, <2>1, <2>2
  <2> QED BY <1>4, <2>1, <2>3
<1>6. Good(N)
  <2>1. N \in 0 .. N
    BY <1>1
  <2> QED BY <1>5, <2>1
<1> QED BY <1>2, <1>6 DEF Good

LEMMA FlushedAlive ==
  ASSUME LogSound, Typed, NEW b, Draws(View, b, books), NEW slot \in Sides
  PROVE  Flushed(b, slot).online.alive = b.online.alive
<1>1. GoodView(View) /\ View.length <= MaxEvents /\ day \in Days /\ QueueOK(View, pending)
  BY ViewGood, ViewIs DEF View, Typed, LogSound
<1>2. Bounded(View, b)
  BY DrawsBounded
<1> QED BY <1>1, <1>2, DeliveredAlive DEF Flushed

\* The online authority lives from the moment it is in the slot of a Host that has
\* started, or that waits for the identity.
Seated ==
  /\ watching \in {"off", "unlisted", "on"}
  /\ storage \in {"closed", "local", "identity", "open", "failed"}
  /\ mode.slot = "online" /\ (booted \/ storage = "identity") => books.online.alive

\* The batches of a report, for the session it leaves.
LEMMA DeliverSeated ==
  ASSUME LogSound, Control, Seated, NEW t, GoodView(t), t.length <= MaxEvents, Bounded(t, books),
         NEW batches, QueueOK(t, batches), Deliver(batches), UNCHANGED <<mode, booted, storage>>,
         watching' \in {"off", "unlisted", "on"}
  PROVE  Seated'
<1>1. books'.online.alive = books.online.alive
  <2>1. mode.slot \in Sides /\ day \in Days
    BY DEF Control, Modes, LogSound
  <2> QED BY <2>1, DeliveredAlive DEF Deliver
<1> QED BY <1>1 DEF Seated

LEMMA HappensSeated ==
  ASSUME LogSound, LogSound', Grows, Control, Typed, Seated, NEW kind, NEW id, Happens(kind, id)
  PROVE  Seated'
<1> DEFINE t == View'
           batches == Reports(log')
<1>1. /\ UNCHANGED <<format, borrowed, live, mode, storage, booted>> /\ Deliver(batches)
      /\ watching' = IF watching = "unlisted" THEN "on" ELSE watching
      /\ Len(log) < MaxEvents
  BY DEF Happens, startup
<1>2. GoodView(View) /\ GoodView(t) /\ Reported(t, batches, {q \in Requests' : q.end = Len(log')}) /\ Extended(t, View)
  BY <1>1, ViewGood, ReportsAre, GrowsExtended
<1>3. t.length = View.length + 1 /\ View.length = Len(log) /\ View.length \in Nat
  BY <1>2 DEF Extended, View, GoodView, Views
<1>4. t.length <= MaxEvents /\ Bounded(t, books)
  BY <1>1, <1>2, <1>3, ExtendedBounded, UsageConstants DEF Typed
<1> HIDE DEF t, batches
<1>5. QueueOK(t, batches)
  BY <1>2, OneQueued, TwoQueued, NothingQueued DEF Reported
<1>6. watching' \in {"off", "unlisted", "on"}
  BY <1>1 DEF Seated
<1> QED BY <1>1, <1>2, <1>4, <1>5, <1>6, DeliverSeated

LEMMA AttachSeated ==
  ASSUME LogSound, Control, Typed, Seated, NEW listed \in BOOLEAN, Attach(listed)
  PROVE  Seated'
<1>1. watching' = (IF listed THEN "on" ELSE "unlisted") /\ UNCHANGED <<mode, storage, booted>>
  BY DEF Attach, startup
<1>2. CASE ~ listed
  <2>1. books' = books
    BY <1>2 DEF Attach
  <2> QED BY <1>1, <2>1 DEF Seated
<1>3. CASE listed
  <2> DEFINE yes == TRUE
             x == Batch(Len(log), Requests, yes)
  <2>1. Deliver(<<x>>)
    BY <1>3 DEF Attach, Requests
  <2>2. /\ GoodView(View) /\ View.length = Len(log) /\ View.live = live /\ View.format = format
        /\ View.requests = Requests /\ View.length <= MaxEvents /\ Bounded(View, books)
    BY ViewGood, ViewIs DEF Typed, View
  <2>3. Len(log) \in Nat /\ live <= Len(log) /\ \A q \in Requests : q.end <= Len(log)
    BY <2>2 DEF GoodView, Views
  <2>4. yes \in BOOLEAN
    OBVIOUS
  <2> HIDE DEF yes
  <2>5. BatchOK(View, x)
    BY <2>2, <2>3, <2>4, BatchIs
  <2> HIDE DEF x
  <2>6. QueueOK(View, <<x>>)
    BY <2>5, OneQueued
  <2> QED BY <1>1, <1>3, <2>1, <2>2, <2>6, DeliverSeated
<1> QED BY <1>2, <1>3

LEMMA HydrateAlive == ASSUME NEW b, Shape(b) PROVE Hydrate(b).online.alive
<1> DEFINE m == MergeMark(b.online.mark, Last(b.core).mark)
           d == MergeDaily(b.online.daily, Last(b.core).daily)
           o == [alive |-> TRUE, sink |-> TRUE, mark |-> m, daily |-> d]
           a == [b EXCEPT !.online = o]
<1>1. Hydrate(b) = PutDaily(PutMark(a, m), d)
  BY DEF Hydrate
<1>2. o.alive
  OBVIOUS
<1> HIDE DEF m, d, o
<1>3. a = [online |-> o, local |-> b.local, core |-> b.core, play |-> b.play]
  BY Fields
<1> HIDE DEF a
<1> DEFINE k == Put(a.core, [Last(a.core) EXCEPT !.mark = m])
           e == PutMark(a, m)
           j == Put(e.core, [Last(e.core) EXCEPT !.daily = d])
<1>4. e = [a EXCEPT !.core = k]
  BY <1>3 DEF PutMark
<1> HIDE DEF k
<1>5. PutDaily(e, d) = [e EXCEPT !.core = j]
  BY DEF PutDaily
<1> HIDE DEF e, j
<1>6. e = [online |-> o, local |-> b.local, core |-> k, play |-> b.play]
  BY <1>3, <1>4
<1>7. PutDaily(e, d).online = o
  BY <1>5, <1>6
<1> QED BY <1>1, <1>2, <1>7 DEF e

LEMMA StartSeated ==
  ASSUME LogSound, Control, Typed, Seated, OpenCore \/ ResolveIdentity \/ OpenLocal
  PROVE  Seated'
<1>1. Shape(books) /\ mode \in Modes
  BY DEF Typed, Bounded, Control
<1>2. CASE OpenCore
  <2>1. booted' = booted /\ watching' = watching
    BY <1>2 DEF OpenCore
  <2>2. CASE Last(books.core).pref = "online"
    <3>1. books' = Hydrate(books) /\ storage' = "identity"
      BY <1>2, <2>2 DEF OpenCore
    <3>2. books'.online.alive
      BY <1>1, <3>1, HydrateAlive
    <3> QED BY <2>1, <3>1, <3>2 DEF Seated
  <2>3. CASE Last(books.core).pref # "online"
    <3>1. books' = books /\ storage' = "local" /\ mode'.slot = mode.slot
      BY <1>1, <1>2, <2>3 DEF OpenCore, Modes
    <3> QED BY <2>1, <3>1 DEF Seated
  <2> QED BY <2>2, <2>3
<1>3. CASE ResolveIdentity
  <2>1. storage = "identity" /\ UNCHANGED <<mode, watching>> /\ books' = Flushed(books, mode.slot) /\ storage' = "open"
    BY <1>3 DEF ResolveIdentity, Boot
  <2>2. Draws(View, books, books) /\ mode.slot \in Sides
    BY <1>1, SameDraws DEF Typed, Modes
  <2>3. books'.online.alive = books.online.alive
    BY <2>1, <2>2, FlushedAlive
  <2> QED BY <2>1, <2>3 DEF Seated
<1>4. CASE OpenLocal
  <2>1. mode'.slot = "local" /\ storage' = "open" /\ watching' = watching
    BY <1>1, <1>4 DEF OpenLocal, Modes
  <2> QED BY <2>1 DEF Seated
<1> QED BY <1>2, <1>3, <1>4

LEMMA GiveUpSeated ==
  ASSUME LogSound, Control, Typed, Seated, NEW failed \in BOOLEAN, GiveUp(failed)
  PROVE  Seated'
<1> DEFINE c == IF Default = "online" THEN [books EXCEPT !.online = Fresh] ELSE [books EXCEPT !.local.alive = TRUE]
<1>1. /\ mode'.slot = Default /\ watching' = watching /\ storage' \in {storage, "failed"}
      /\ books' = Flushed(c, Default)
  BY DEF GiveUp, Boot
<1>2. Bounded(View, books) /\ Shape(books) /\ Default \in Sides
  BY UsageConstants DEF Typed, Bounded, Sides
<1>3. Default = "online" => c.online = Fresh
  BY <1>2, Fields
<1>4. Lighter(c, books)
  BY <1>2, GivenUp
<1> HIDE DEF c
<1>5. books'.online.alive = c.online.alive
  BY <1>1, <1>2, <1>4, LighterDraws, FlushedAlive
<1>6. Fresh.alive
  BY DEF Fresh, Gone
<1>7. Default = "online" => books'.online.alive
  BY <1>3, <1>5, <1>6
<1> QED BY <1>1, <1>7 DEF Seated

LEMMA CommitOnlineSeated ==
  ASSUME LogSound, Control, Typed, Seated, CommitOnline
  PROVE  Seated'
<1> DEFINE a == [books EXCEPT !.online = Fresh]
           h == Hydrate(a)
           c == [h EXCEPT !.core = Durable([Last(@) EXCEPT !.pref = "online"])]
           k == Durable([Last(h.core) EXCEPT !.pref = "online"])
<1>1. books' = Flushed(c, "online") /\ UNCHANGED <<watching, storage>>
  BY DEF CommitOnline, Settle, startup
<1>2. GoodView(View) /\ Bounded(View, books) /\ Shape(books)
  BY ViewGood DEF Typed, Bounded
<1>3. /\ books = [online |-> books.online, local |-> books.local, core |-> books.core, play |-> books.play]
      /\ books.local \in Memory
  BY <1>2, Fields
<1>4. a = [online |-> Fresh, local |-> books.local, core |-> books.core, play |-> books.play]
  BY <1>3
<1> HIDE DEF a
<1>5. Chosen(books.core, books)
  BY DEF Chosen
<1>6. Lighter(a, books)
  BY <1>2, <1>3, <1>4, <1>5, LighterBy
<1>7. Draws(View, a, books) /\ Bounded(View, a) /\ Shape(a)
  BY <1>2, <1>6, LighterDraws, DrawsBounded DEF Draws
<1>8. Draws(View, h, a) /\ h.online.alive
  BY <1>2, <1>7, HydrateDraws, HydrateAlive
<1> HIDE DEF h
<1>9. Bounded(View, h) /\ Shape(h)
  BY <1>8, DrawsBounded DEF Draws
<1>10. h = [online |-> h.online, local |-> h.local, core |-> h.core, play |-> h.play] /\ h.local \in Memory
  BY <1>9, Fields
<1>11. Chosen(k, h)
  BY DEF Chosen
<1>12. c = [online |-> h.online, local |-> h.local, core |-> k, play |-> h.play]
  BY <1>10
<1> HIDE DEF c, k
<1>13. Draws(View, c, h)
  BY <1>9, <1>10, <1>11, <1>12, LighterBy, LighterDraws
<1>14. Draws(View, c, books)
  <2>1. Draws(View, h, books)
    BY <1>7, <1>8, DrawsOn
  <2> QED BY <1>13, <2>1, DrawsOn
<1>15. books'.online.alive = c.online.alive
  BY <1>1, <1>14, FlushedAlive DEF Sides
<1>16. c.online.alive
  BY <1>8, <1>12
<1> QED BY <1>1, <1>15, <1>16 DEF Seated

LEMMA ChangeSeated ==
  ASSUME LogSound, Control, Typed, Seated, Change
  PROVE  Seated'
<1>1. /\ Shape(books) /\ mode \in Modes
      /\ books = [online |-> books.online, local |-> books.local, core |-> books.core, play |-> books.play]
  BY Fields DEF Typed, Bounded, Control
<1>2. UNCHANGED <<watching, storage, booted>>
  BY DEF Change, KeepMode, AskChange, Barrier, PrepareLocal, PrepareOnline, CommitLocal, CommitOnline, AbortChange,
         startup
<1>3. CASE KeepMode \/ Barrier
  <2>1. mode' = mode /\ books'.online = books.online
    BY <1>1, <1>3 DEF KeepMode, Barrier
  <2> QED BY <1>2, <2>1 DEF Seated
<1>4. CASE (\E p \in {"online", "local"} : AskChange(p)) \/ PrepareOnline
  <2>1. mode' = mode /\ books' = books
    BY <1>4 DEF AskChange, PrepareOnline
  <2> QED BY <1>2, <2>1 DEF Seated
<1>5. CASE PrepareLocal
  <2>1. mode' = mode /\ books'.online = books.online
    BY <1>1, <1>5 DEF PrepareLocal, Attached
  <2> QED BY <1>2, <2>1 DEF Seated
<1>6. CASE CommitLocal
  <2>1. mode'.slot = "local"
    BY <1>6 DEF CommitLocal
  <2> QED BY <1>2, <2>1 DEF Seated
<1>7. CASE AbortChange
  <2>1. mode' = mode /\ books' = Flushed(books, mode.slot) /\ mode.slot \in Sides
    BY <1>1, <1>7 DEF AbortChange, Settle, Modes
  <2>2. books'.online.alive = books.online.alive
    BY <2>1, SameDraws, FlushedAlive DEF Typed
  <2> QED BY <1>2, <2>1, <2>2 DEF Seated
<1> QED BY <1>3, <1>4, <1>5, <1>6, <1>7, CommitOnlineSeated DEF Change

LEMMA SeatedStep ==
  ASSUME LogSound, Control, Typed, Seated, [Next]_vars
  PROVE  Seated'
<1>1. CASE BeginRequest
  <2>1. Happens("start", Begun + 1) /\ LogSound' /\ Grows
    BY <1>1, BeginSound DEF BeginRequest
  <2> QED BY <2>1, HappensSeated
<1>2. ASSUME NEW kind \in {"sample", "final", "unreadable", "end"}, GoOn(kind) PROVE Seated'
  <2>1. Happens(kind, Settled(log).open.id) /\ LogSound' /\ Grows
    BY <1>2, GoOnSound DEF GoOn
  <2> QED BY <2>1, HappensSeated
<1>3. CASE Midnight \/ UNCHANGED vars
  <2>1. UNCHANGED <<watching, books, mode, storage, booted>>
    BY <1>3 DEF Midnight, vars, startup
  <2> QED BY <2>1 DEF Seated
<1>4. CASE End
  <2>1. storage' = "closed" /\ ~ booted' /\ watching' = "off"
    BY <1>4 DEF End, Restart
  <2> QED BY <2>1 DEF Seated
<1> QED BY <1>1, <1>2, <1>3, <1>4, AttachSeated, StartSeated, GiveUpSeated, ChangeSeated
      DEF Next, Observation, Start

\* TypeOK: every watermark and record is one that the code can build, the authority in the
\* slot of a Host that has started lives, and nothing is queued unless the Host starts or
\* changes authority (usage-ledger.ts:30-58, index.ts:130-146).
THEOREM TypeInvariant == Spec => []TypeOK
<1>1. Init => OnceInv /\ LiveInv /\ Seated
  <2> SUFFICES ASSUME Init PROVE OnceInv /\ LiveInv /\ Seated
    OBVIOUS
  <2>1. OnceInv /\ LiveInv
    BY OnceInit, InitLive DEF OnceInv, LiveInv
  <2> QED BY <2>1 DEF Init, Seated
<1>2. OnceInv /\ LiveInv /\ Seated /\ [Next]_vars => (OnceInv /\ LiveInv /\ Seated)'
  BY OnceStep, LiveStep, SeatedStep DEF OnceInv, LiveInv
<1>3. OnceInv /\ LiveInv /\ Seated => TypeOK
  <2> SUFFICES ASSUME OnceInv, LiveInv, Seated PROVE TypeOK
    OBVIOUS
  <2>1. LogSound /\ Control /\ Shape(books) /\ \A m \in Marked(books) : m \in Marks
    BY DEF OnceInv, LiveInv, Typed, Bounded, Fits
  <2>2. books.online \in Memory /\ books.local \in Memory /\ Range(books.core) \subseteq Image
    BY <2>1, Fields
  <2>3. /\ books.online.mark \in Marks /\ books.local.mark \in Marks
        /\ \A x \in Range(books.core) : x.mark \in Marks
    BY <2>1 DEF Marked
  <2>4. books.online \in Projections /\ books.local \in Projections
    BY <2>2, <2>3 DEF Memory, Projections, Dailies
  <2>5. \A x \in Range(books.core) : x.mark \in Marks /\ x.pref \in {"online", "local"}
    BY <2>2, <2>3 DEF Image
  <2> QED BY <2>1, <2>4, <2>5 DEF TypeOK, LogSound, Control, Seated
<1> QED BY <1>1, <1>2, <1>3, PTL DEF Spec
=============================================================================
