------------------------ MODULE LocalAuthorityProofs ------------------------
(***************************************************************************)
(* Theorems about the offline authority, for every number of requests,     *)
(* dates, cases and sticks, every length of a period, and any number of    *)
(* crashes and starts.  The local domain is a chain of images, so what is  *)
(* shown of the rows is shown of every image a crash may leave.            *)
(***************************************************************************)
EXTENDS LocalAuthority, SumTheorems, SequenceTheorems

(* What the tables hold. *)

Votes    == {v \in [votes : Nat, voters : Nat] : v.voters <= v.votes}
Requests == Request \cup {"legacy"}
Spending == {r \in [case : Case, status : {"accepted", "rejected"}, spent : Nat] :
               r.status = "accepted" => r.spent \in 1 .. MaxCount}
DayRow   == {a \in [votes : Nat, voters : Nat, cases : Nat \ {0}, version : Nat] : a.voters <= a.votes}
SealRow  == {a \in [votes : Nat, voters : Nat, covered : SUBSET Days, version : Nat] : a.voters <= a.votes}
Periods  == {PeriodOf(d) : d \in Days}

\* Finite maps from keys of K to values of V.
Map(K, V) == {f \in UNION {[S -> V] : S \in SUBSET K} : IsFiniteSet(DOMAIN f)}

Tables ==
  [daily : Map(Days, Nat), ledger : Map(Days, Nat), agg : Map(Case, Votes),
   receipt : Map(Requests, Spending), index : Map(Days, 0 .. Cases - 1),
   days : Map(Days, DayRow), periods : Map(Periods, SealRow), migrated : Map({1}, {TRUE})]

\* A period covers days of its own.
Keyed(periods) == \A p \in DOMAIN periods : \A d \in periods[p].covered : PeriodOf(d) = p

Rows == {x \in Tables : Keyed(x.periods)}

LEMMA Numbers ==
  /\ Cases \in Nat \ {0} /\ Span \in Nat \ {0} /\ MaxCount \in Nat \ {0} /\ LastDay \in Nat \ {0}
  /\ Starter \in Nat /\ MaxEarned \in Nat /\ MaxActs \in Nat
BY LocalAssumption
-----------------------------------------------------------------------------
(* Maps. *)

LEMMA MapParts ==
  ASSUME NEW K, NEW V, NEW f
  PROVE  f \in Map(K, V) <=> /\ DOMAIN f \subseteq K /\ IsFiniteSet(DOMAIN f)
                             /\ f \in [DOMAIN f -> V]
BY DEF Map

LEMMA MapValues ==
  ASSUME NEW K, NEW V, NEW f \in Map(K, V)
  PROVE  DOMAIN f \subseteq K /\ IsFiniteSet(DOMAIN f) /\ \A k \in DOMAIN f : k \in K /\ f[k] \in V
BY DEF Map

LEMMA MapOf ==
  ASSUME NEW K, NEW V, NEW S, S \subseteq K, IsFiniteSet(S), NEW f,
         f = [k \in S |-> f[k]], \A k \in S : f[k] \in V
  PROVE  f \in Map(K, V) /\ DOMAIN f = S
<1>1. f \in [S -> V]
  OBVIOUS
<1> QED BY <1>1 DEF Map

LEMMA NoMap ==
  ASSUME NEW K, NEW V
  PROVE  <<>> \in Map(K, V) /\ DOMAIN <<>> = {}
<1>1. <<>> \in Seq(V) /\ DOMAIN <<>> = {}
  OBVIOUS
<1>2. <<>> \in [{} -> V]
  OBVIOUS
<1> QED BY <1>1, <1>2, FS_EmptySet DEF Map

LEMMA WithParts ==
  ASSUME NEW K, NEW V, NEW f \in Map(K, V), NEW k \in K, NEW v \in V
  PROVE  /\ With(f, k, v) \in Map(K, V)
         /\ DOMAIN With(f, k, v) = DOMAIN f \cup {k}
         /\ With(f, k, v)[k] = v
         /\ \A j \in DOMAIN f : j # k => With(f, k, v)[j] = f[j]
<1>1. DOMAIN f \subseteq K /\ IsFiniteSet(DOMAIN f) /\ \A j \in DOMAIN f : f[j] \in V
  BY MapValues
<1>2. IsFiniteSet(DOMAIN f \cup {k})
  BY <1>1, FS_AddElement
<1> DEFINE g == With(f, k, v)
<1>3. /\ DOMAIN g = DOMAIN f \cup {k} /\ g = [j \in DOMAIN f \cup {k} |-> g[j]]
      /\ \A j \in DOMAIN f \cup {k} : g[j] = IF j = k THEN v ELSE f[j]
  BY DEF With
<1>4. \A j \in DOMAIN f \cup {k} : g[j] \in V
  BY <1>1, <1>3
<1>5. DOMAIN f \cup {k} \subseteq K
  BY <1>1
<1> HIDE DEF g
<1>6. g \in Map(K, V)
  BY <1>2, <1>3, <1>4, <1>5, MapOf
<1> QED BY <1>3, <1>6 DEF g

LEMMA OverParts ==
  ASSUME NEW K, NEW V, NEW f \in Map(K, V), NEW new \in Map(K, V)
  PROVE  /\ Over(new, f) \in Map(K, V)
         /\ DOMAIN Over(new, f) = DOMAIN new \cup DOMAIN f
         /\ \A j \in DOMAIN new : Over(new, f)[j] = new[j]
         /\ \A j \in DOMAIN f : j \notin DOMAIN new => Over(new, f)[j] = f[j]
<1>1. /\ DOMAIN f \subseteq K /\ IsFiniteSet(DOMAIN f) /\ \A j \in DOMAIN f : f[j] \in V
      /\ DOMAIN new \subseteq K /\ IsFiniteSet(DOMAIN new) /\ \A j \in DOMAIN new : new[j] \in V
  BY MapValues
<1>2. IsFiniteSet(DOMAIN new \cup DOMAIN f)
  BY <1>1, FS_Union
<1> DEFINE g == Over(new, f)
           S == DOMAIN new \cup DOMAIN f
<1>3. /\ DOMAIN g = S /\ g = [j \in S |-> g[j]]
      /\ \A j \in S : g[j] = IF j \in DOMAIN new THEN new[j] ELSE f[j]
  BY DEF Over
<1>4. \A j \in S : g[j] \in V
  BY <1>1, <1>3
<1>5. S \subseteq K
  BY <1>1
<1> HIDE DEF g
<1>6. g \in Map(K, V)
  BY <1>2, <1>3, <1>4, <1>5, MapOf
<1> QED BY <1>3, <1>6 DEF g

LEMMA GetParts ==
  ASSUME NEW K, NEW V, NEW f \in Map(K, V), NEW k, NEW default \in V
  PROVE  Get(f, k, default) \in V
BY MapValues DEF Get

\* What a write leaves of a lookup.
LEMMA GetWith ==
  ASSUME NEW f, NEW k, NEW v
  PROVE  \A j, e : Get(With(f, k, v), j, e) = IF j = k THEN v ELSE Get(f, j, e)
BY DEF Get, With
-----------------------------------------------------------------------------
(* Rows. *)

LEMMA RowsParts ==
  ASSUME NEW x \in Rows
  PROVE  /\ x.daily \in Map(Days, Nat) /\ x.ledger \in Map(Days, Nat)
         /\ x.agg \in Map(Case, Votes) /\ x.receipt \in Map(Requests, Spending)
         /\ x.index \in Map(Days, 0 .. Cases - 1) /\ x.days \in Map(Days, DayRow)
         /\ x.periods \in Map(Periods, SealRow) /\ x.migrated \in Map({1}, {TRUE})
         /\ Keyed(x.periods)
BY DEF Rows, Tables

\* A table takes rows of its kind.
LEMMA RowsWith ==
  ASSUME NEW x \in Rows
  PROVE  /\ \A m \in Map(Days, Nat) : [x EXCEPT !["daily"] = m] \in Rows
         /\ \A m \in Map(Days, Nat) : [x EXCEPT !["ledger"] = m] \in Rows
         /\ \A m \in Map(Case, Votes) : [x EXCEPT !["agg"] = m] \in Rows
         /\ \A m \in Map(Requests, Spending) : [x EXCEPT !["receipt"] = m] \in Rows
         /\ \A m \in Map(Days, 0 .. Cases - 1) : [x EXCEPT !["index"] = m] \in Rows
         /\ \A m \in Map(Days, DayRow) : [x EXCEPT !["days"] = m] \in Rows
         /\ \A m \in Map(Periods, SealRow) : Keyed(m) => [x EXCEPT !["periods"] = m] \in Rows
         /\ \A m \in Map({1}, {TRUE}) : [x EXCEPT !["migrated"] = m] \in Rows
BY DEF Rows, Tables

TableNames == {"daily", "ledger", "agg", "receipt", "index", "days", "periods", "migrated"}

\* The fields of an updated row.
LEMMA RowsFields ==
  ASSUME NEW x \in Rows, NEW t \in TableNames, NEW m
  PROVE  /\ [x EXCEPT ![t] = m][t] = m
         /\ \A u \in TableNames : u # t => [x EXCEPT ![t] = m][u] = x[u]
<1>1. DOMAIN x = TableNames
  BY DEF Rows, Tables, TableNames
<1> QED BY <1>1

LEMMA EmptyRows ==
  /\ NoRows \in Rows /\ NoRows.migrated = <<>>
  /\ \A t \in TableNames : NoRows[t] = <<>>
<1>1. \A K, V : <<>> \in Map(K, V)
  BY NoMap
<1>2. Keyed(<<>>)
  BY NoMap DEF Keyed
<1>3. NoRows \in Tables
  BY <1>1 DEF NoRows, Tables
<1>4. NoRows \in Rows
  BY <1>2, <1>3 DEF Rows, NoRows
<1> QED BY <1>4 DEF NoRows, TableNames
-----------------------------------------------------------------------------
(* What a process holds, and the pair [host, chain] that a handler passes on. *)

HostShape ==
  [rows : Rows, ready : BOOLEAN, sink : BOOLEAN, date : 0 .. LastDay, case : 0 .. Cases - 1,
   open : Votes, spent : Nat, version : Nat, refund : Nat]

\* A process with a storage has a last image to write on.
States == {s \in [host : HostShape, chain : Seq(Rows)] : s.host.sink => Len(s.chain) > 0}

LEMMA HostParts ==
  ASSUME NEW h \in HostShape
  PROVE  /\ h.rows \in Rows /\ h.ready \in BOOLEAN /\ h.sink \in BOOLEAN
         /\ h.date \in 0 .. LastDay /\ h.case \in 0 .. Cases - 1 /\ h.open \in Votes
         /\ h.spent \in Nat /\ h.version \in Nat /\ h.refund \in Nat
BY DEF HostShape

LEMMA StateParts ==
  ASSUME NEW s \in States
  PROVE  /\ s.host \in HostShape /\ s.chain \in Seq(Rows)
         /\ s.host.sink => Len(s.chain) > 0 /\ Last(s.chain) \in Rows
BY DEF States, Last

LEMMA StateOf ==
  ASSUME NEW h \in HostShape, NEW c \in Seq(Rows), h.sink => Len(c) > 0
  PROVE  [host |-> h, chain |-> c] \in States
BY DEF States

\* "g" is "h" with other rows.
Beside(g, h) ==
  /\ g.ready = h.ready /\ g.sink = h.sink /\ g.date = h.date /\ g.case = h.case
  /\ g.open = h.open /\ g.spent = h.spent /\ g.version = h.version /\ g.refund = h.refund

LEMMA HostWithRows ==
  ASSUME NEW h \in HostShape, NEW x \in Rows
  PROVE  /\ [h EXCEPT !.rows = x] \in HostShape
         /\ [h EXCEPT !.rows = x].rows = x
         /\ Beside([h EXCEPT !.rows = x], h)
BY DEF HostShape, Beside

\* A table takes keys of K and values of V.
Kind(t, K, V) ==
  /\ t \in TableNames
  /\ \A x \in Rows : x[t] \in Map(K, V) /\ \A m \in Map(K, V) : [x EXCEPT ![t] = m] \in Rows

LEMMA Kinds ==
  /\ Kind("daily", Days, Nat) /\ Kind("ledger", Days, Nat) /\ Kind("agg", Case, Votes)
  /\ Kind("receipt", Requests, Spending) /\ Kind("index", Days, 0 .. Cases - 1)
  /\ Kind("days", Days, DayRow) /\ Kind("migrated", {1}, {TRUE})
BY RowsParts, RowsWith DEF Kind, TableNames

\* A row put into an image.
Put(x, t, k, v) == [x EXCEPT ![t] = With(x[t], k, v)]

LEMMA PutOK ==
  ASSUME NEW x \in Rows, NEW t, NEW K, NEW V, Kind(t, K, V), NEW k \in K, NEW v \in V
  PROVE  /\ Put(x, t, k, v) \in Rows
         /\ Put(x, t, k, v)[t] = With(x[t], k, v)
         /\ \A u \in TableNames : u # t => Put(x, t, k, v)[u] = x[u]
<1>1. x[t] \in Map(K, V) /\ t \in TableNames
  BY DEF Kind
<1>2. With(x[t], k, v) \in Map(K, V)
  BY <1>1, WithParts
<1> DEFINE m == With(x[t], k, v)
<1>3. [x EXCEPT ![t] = m] \in Rows
  BY <1>2 DEF Kind
<1>4. [x EXCEPT ![t] = m][t] = m /\ \A u \in TableNames : u # t => [x EXCEPT ![t] = m][u] = x[u]
  BY <1>1, RowsFields
<1> QED BY <1>3, <1>4 DEF Put

LEMMA WriteOK ==
  ASSUME NEW s \in States, NEW t, NEW K, NEW V, Kind(t, K, V), NEW k \in K, NEW v \in V
  PROVE  /\ Write(s, t, k, v) \in States
         /\ Write(s, t, k, v).host.rows = Put(s.host.rows, t, k, v)
         /\ Beside(Write(s, t, k, v).host, s.host)
         /\ ~ s.host.sink => Write(s, t, k, v).chain = s.chain
         /\ s.host.sink => Write(s, t, k, v).chain = Append(s.chain, Put(Last(s.chain), t, k, v))
<1> DEFINE h == [s.host EXCEPT !.rows = Put(s.host.rows, t, k, v)]
           c == IF s.host.sink THEN Append(s.chain, Put(Last(s.chain), t, k, v)) ELSE s.chain
<1>1. s.host \in HostShape /\ s.chain \in Seq(Rows) /\ s.host.rows \in Rows
      /\ (s.host.sink => Len(s.chain) > 0 /\ Last(s.chain) \in Rows)
  BY StateParts, HostParts
<1>2. Put(s.host.rows, t, k, v) \in Rows
      /\ (s.host.sink => Put(Last(s.chain), t, k, v) \in Rows)
  BY <1>1, PutOK
<1>3. h \in HostShape /\ h.rows = Put(s.host.rows, t, k, v) /\ Beside(h, s.host)
  BY <1>1, <1>2, HostWithRows
<1>4. c \in Seq(Rows) /\ (s.host.sink => Len(c) > 0)
  BY <1>1, <1>2
<1>5. Write(s, t, k, v) = [host |-> h, chain |-> c]
  BY <1>1 DEF Write, Put, HostShape
<1> HIDE DEF h
<1>6. [host |-> h, chain |-> c] \in States
  BY <1>3, <1>4, StateOf DEF Beside
<1> QED BY <1>3, <1>5, <1>6
-----------------------------------------------------------------------------
(* Many rows at once. *)

PutAll(x, t, new) == [x EXCEPT ![t] = Over(new, x[t])]
Part(new, S)      == [k \in S |-> new[k]]

\* The images that a crash may leave of many rows put one after the other.
Partials(x, t, new) == {PutAll(x, t, Part(new, S)) : S \in SUBSET DOMAIN new}

\* Whichever of the new rows are put into an image, it stays one.
Takes(t, new) == \A x \in Rows : \A S \in SUBSET DOMAIN new : PutAll(x, t, Part(new, S)) \in Rows

\* The images of "c" and after them some of X.
Extends(longer, c, X) ==
  \A i \in DOMAIN longer : (i \in DOMAIN c /\ longer[i] = c[i]) \/ longer[i] \in X

LEMMA PartParts ==
  ASSUME NEW K, NEW V, NEW new \in Map(K, V), NEW S \in SUBSET DOMAIN new
  PROVE  /\ Part(new, S) \in Map(K, V) /\ DOMAIN Part(new, S) = S
         /\ \A k \in S : Part(new, S)[k] = new[k]
<1>1. S \subseteq K /\ IsFiniteSet(S) /\ \A k \in S : new[k] \in V
  BY MapValues, FS_Subset
<1> DEFINE f == Part(new, S)
<1>2. f = [k \in S |-> f[k]] /\ \A k \in S : f[k] = new[k]
  BY DEF Part
<1> HIDE DEF f
<1>3. f \in Map(K, V) /\ DOMAIN f = S
  BY <1>1, <1>2, MapOf
<1> QED BY <1>2, <1>3 DEF f

LEMMA WholePart ==
  ASSUME NEW K, NEW V, NEW new \in Map(K, V)
  PROVE  Part(new, DOMAIN new) = new
BY MapParts DEF Part

LEMMA PutAllParts ==
  ASSUME NEW x \in Rows, NEW t \in TableNames, NEW new
  PROVE  /\ PutAll(x, t, new)[t] = Over(new, x[t])
         /\ \A u \in TableNames : u # t => PutAll(x, t, new)[u] = x[u]
BY RowsFields DEF PutAll

LEMMA TakesDays ==
  ASSUME NEW new \in Map(Days, DayRow)
  PROVE  Takes("days", new)
<1> SUFFICES ASSUME NEW x \in Rows, NEW S \in SUBSET DOMAIN new
             PROVE  PutAll(x, "days", Part(new, S)) \in Rows
  BY DEF Takes
<1> DEFINE m == Over(Part(new, S), x.days)
<1>1. x.days \in Map(Days, DayRow) /\ Part(new, S) \in Map(Days, DayRow)
  BY RowsParts, PartParts
<1>2. m \in Map(Days, DayRow)
  BY <1>1, OverParts
<1>3. [x EXCEPT !["days"] = m] \in Rows
  BY <1>2, RowsWith
<1> QED BY <1>3 DEF PutAll

LEMMA TakesPeriods ==
  ASSUME NEW new \in Map(Periods, SealRow), Keyed(new)
  PROVE  Takes("periods", new)
<1> SUFFICES ASSUME NEW x \in Rows, NEW S \in SUBSET DOMAIN new
             PROVE  PutAll(x, "periods", Part(new, S)) \in Rows
  BY DEF Takes
<1> DEFINE m == Over(Part(new, S), x.periods)
<1>1. x.periods \in Map(Periods, SealRow) /\ Part(new, S) \in Map(Periods, SealRow)
      /\ Keyed(x.periods)
  BY RowsParts, PartParts
<1>2. m \in Map(Periods, SealRow)
  BY <1>1, OverParts
<1>3. /\ DOMAIN m = S \cup DOMAIN x.periods
      /\ \A p \in S : m[p] = new[p]
      /\ \A p \in DOMAIN x.periods : p \notin S => m[p] = x.periods[p]
  <2> DEFINE f == Part(new, S)
  <2>1. DOMAIN f = S /\ \A p \in S : f[p] = new[p]
    BY DEF Part
  <2>2. /\ DOMAIN m = DOMAIN f \cup DOMAIN x.periods
        /\ \A j \in DOMAIN f : m[j] = f[j]
        /\ \A j \in DOMAIN x.periods : j \notin DOMAIN f => m[j] = x.periods[j]
    BY DEF Over
  <2> HIDE DEF f, m
  <2> QED BY <2>1, <2>2
<1> HIDE DEF m
<1>4. Keyed(m)
  BY <1>1, <1>3 DEF Keyed
<1>5. [x EXCEPT !["periods"] = m] \in Rows
  BY <1>2, <1>4, RowsWith
<1> QED BY <1>5 DEF PutAll, m

LEMMA PutNothing ==
  ASSUME NEW x \in Rows, NEW t \in TableNames, NEW K, NEW V, NEW new \in Map(K, V),
         x[t] \in Map(K, V), DOMAIN new = {}
  PROVE  PutAll(x, t, new) = x
<1>1. x[t] = [k \in DOMAIN x[t] |-> x[t][k]]
  BY MapParts
<1>2. Over(new, x[t]) = x[t]
  BY <1>1 DEF Over
<1>3. x \in Tables
  BY DEF Rows
<1> QED BY <1>2, <1>3 DEF PutAll, Tables

LEMMA WriteRowsOK ==
  ASSUME NEW s \in States, NEW t \in TableNames, NEW K, NEW V, NEW new \in Map(K, V),
         \A x \in Rows : x[t] \in Map(K, V), Takes(t, new)
  PROVE  /\ WriteRows(s, t, new) \in States
         /\ WriteRows(s, t, new).host.rows = PutAll(s.host.rows, t, new)
         /\ Beside(WriteRows(s, t, new).host, s.host)
         /\ ~ s.host.sink => WriteRows(s, t, new).chain = s.chain
         /\ s.host.sink =>
              /\ Extends(WriteRows(s, t, new).chain, s.chain, Partials(Last(s.chain), t, new))
              /\ Last(WriteRows(s, t, new).chain) = PutAll(Last(s.chain), t, new)
<1> DEFINE n == Cardinality(DOMAIN new)
           last == Last(s.chain)
           first(i) == {k \in DOMAIN new : Cardinality({j \in DOMAIN new : j <= k}) <= i}
           tail == [i \in 1 .. n |-> PutAll(last, t, Part(new, first(i)))]
           h == [s.host EXCEPT !.rows = PutAll(s.host.rows, t, new)]
           c == IF s.host.sink THEN s.chain \o tail ELSE s.chain
<1>1. s.host \in HostShape /\ s.chain \in Seq(Rows) /\ s.host.rows \in Rows
      /\ (s.host.sink => Len(s.chain) > 0 /\ last \in Rows)
  BY StateParts, HostParts
<1>2. IsFiniteSet(DOMAIN new) /\ n \in Nat /\ (n = 0 => DOMAIN new = {})
  BY MapValues, FS_CardinalityType, FS_EmptySet
<1>3. \A i \in 1 .. n : first(i) \in SUBSET DOMAIN new
  OBVIOUS
<1>4. PutAll(s.host.rows, t, new) \in Rows
  <2>1. Part(new, DOMAIN new) = new
    BY WholePart
  <2> QED BY <1>1, <2>1 DEF Takes
<1>5. h \in HostShape /\ h.rows = PutAll(s.host.rows, t, new) /\ Beside(h, s.host)
  BY <1>1, <1>4, HostWithRows
<1>6. s.host.sink => \A i \in 1 .. n : PutAll(last, t, Part(new, first(i))) \in Rows
  BY <1>1, <1>3 DEF Takes
<1>7. s.host.sink => tail \in Seq(Rows) /\ Len(tail) = n /\ DOMAIN tail = 1 .. n
  <2> SUFFICES ASSUME s.host.sink PROVE tail \in Seq(Rows) /\ Len(tail) = n /\ DOMAIN tail = 1 .. n
    OBVIOUS
  <2>1. tail \in [1 .. n -> Rows]
    BY <1>6
  <2> HIDE DEF tail, n
  <2> QED BY <1>2, <2>1
<1>8. WriteRows(s, t, new) = [host |-> h, chain |-> c]
  BY <1>1 DEF WriteRows, FirstRows, PutAll, Part, HostShape
<1>9. c \in Seq(Rows) /\ (s.host.sink => Len(c) > 0)
  <2> HIDE DEF tail
  <2> QED BY <1>1, <1>2, <1>7
<1>10. [host |-> h, chain |-> c] \in States
  <2> HIDE DEF h, c
  <2> QED BY <1>5, <1>9, StateOf DEF Beside
<1>11. ASSUME s.host.sink
       PROVE  /\ Extends(c, s.chain, Partials(last, t, new))
              /\ Last(c) = PutAll(last, t, new)
  <2>1. tail \in Seq(Rows) /\ Len(tail) = n /\ c = s.chain \o tail
        /\ \A i \in 1 .. n : tail[i] = PutAll(last, t, Part(new, first(i)))
    BY <1>7, <1>11
  <2>2. \A i \in 1 .. n : tail[i] \in Partials(last, t, new)
    BY <1>3, <2>1 DEF Partials
  <2>3. n > 0 => tail[n] = PutAll(last, t, new)
    <3> SUFFICES ASSUME n > 0 PROVE tail[n] = PutAll(last, t, new)
      OBVIOUS
    <3>1. \A S \in SUBSET DOMAIN new : Cardinality(S) <= n
      BY <1>2, FS_Subset
    <3>2. first(n) = DOMAIN new
      BY <3>1
    <3>3. Part(new, DOMAIN new) = new
      BY WholePart
    <3> QED BY <1>2, <2>1, <3>2, <3>3
  <2>4. n = 0 => PutAll(last, t, new) = last
    BY <1>1, <1>2, <1>11, PutNothing
  <2> DEFINE X == Partials(last, t, new)
             full == PutAll(last, t, new)
             m == Len(s.chain)
  <2> HIDE DEF tail, X, full, first, n, c
  <2>5. /\ m \in Nat /\ m > 0 /\ n \in Nat /\ Len(c) = m + n /\ DOMAIN c = 1 .. m + n
        /\ DOMAIN s.chain = 1 .. m
        /\ \A i \in 1 .. m : c[i] = s.chain[i]
        /\ \A i \in m + 1 .. m + n : c[i] = tail[i - m]
    <3>1. m \in Nat /\ m > 0 /\ n \in Nat /\ DOMAIN s.chain = 1 .. m
      BY <1>1, <1>2, <1>11
    <3>a. s.chain \in Seq(Rows) /\ tail \in Seq(Rows) /\ c = s.chain \o tail /\ Len(tail) = n
      BY <1>1, <2>1
    <3>b. c \in Seq(Rows) /\ Len(c) = m + n
      BY <3>a, ConcatProperties
    <3>2. Len(c) = m + n /\ DOMAIN c = 1 .. m + n
      BY <3>b
    <3>3. \A i \in 1 .. m + n : c[i] = IF i <= m THEN s.chain[i] ELSE tail[i - m]
      BY <1>1, <2>1, <3>1
    <3> QED BY <3>1, <3>2, <3>3
  <2>6. \A i \in m + 1 .. m + n : i - m \in 1 .. n
    BY <2>5
  <2>7. Extends(c, s.chain, X)
    BY <2>2, <2>5, <2>6 DEF Extends, X
  <2>8. Last(c) = full
    <3>1. CASE n = 0
      <4>1. Last(c) = s.chain[m]
        BY <2>5, <3>1 DEF Last
      <4> QED BY <2>4, <3>1, <4>1 DEF Last, full
    <3>2. CASE n > 0
      <4>1. m + n \in m + 1 .. m + n /\ m + n - m = n
        BY <2>5, <3>2
      <4>2. Last(c) = tail[n]
        BY <2>5, <4>1 DEF Last
      <4> QED BY <2>3, <3>2, <4>2 DEF full
    <3> QED BY <2>5, <3>1, <3>2
  <2> QED BY <2>7, <2>8 DEF X, full
<1> HIDE DEF h, c
<1>12. ~ s.host.sink => c = s.chain
  BY DEF c
<1> QED BY <1>5, <1>8, <1>10, <1>11, <1>12
-----------------------------------------------------------------------------
(* The archives. *)

LEMMA DatesOK ==
  ASSUME NEW x \in Rows
  PROVE  /\ DatesIn(x) \subseteq Days /\ IsFiniteSet(DatesIn(x))
         /\ \A d : CasesOn(x, d) \subseteq DOMAIN x.agg /\ IsFiniteSet(CasesOn(x, d))
         /\ \A d : CasesOn(x, d) # {} <=> d \in DatesIn(x)
         /\ \A c \in DOMAIN x.agg : x.agg[c] \in Votes /\ c \in Case /\ c[1] \in Days
<1>1. /\ DOMAIN x.agg \subseteq Case /\ IsFiniteSet(DOMAIN x.agg)
      /\ \A c \in DOMAIN x.agg : x.agg[c] \in Votes
  BY RowsParts, MapValues
<1>2. \A c \in Case : c[1] \in Days
  BY DEF Case
<1>3. IsFiniteSet(DatesIn(x))
  <2> DEFINE f == [c \in DOMAIN x.agg |-> c[1]]
  <2>1. DatesIn(x) = {f[c] : c \in DOMAIN x.agg}
    BY DEF DatesIn
  <2> HIDE DEF f
  <2> QED BY <1>1, <2>1, FiniteImage
<1>4. \A d : CasesOn(x, d) \subseteq DOMAIN x.agg
  BY DEF CasesOn
<1>5. \A d : IsFiniteSet(CasesOn(x, d))
  BY <1>1, <1>4, FS_Subset
<1> QED BY <1>1, <1>2, <1>3, <1>4, <1>5 DEF DatesIn, CasesOn

LEMMA VoteParts ==
  ASSUME NEW v \in Votes
  PROVE  v.votes \in Nat /\ v.voters \in Nat /\ v.voters <= v.votes
BY DEF Votes

LEMMA TotalOK ==
  ASSUME NEW x \in Rows, NEW d
  PROVE  /\ VotesOn(x, d) \in Nat /\ Total(x, "voters", d) \in Nat
         /\ Total(x, "voters", d) <= VotesOn(x, d)
<1> DEFINE f == [c \in DOMAIN x.agg |-> x.agg[c]["voters"]]
           h == [c \in DOMAIN x.agg |-> x.agg[c]["votes"]]
           S == CasesOn(x, d)
<1>1. IsFiniteSet(S) /\ \A c \in S : f[c] \in Nat /\ h[c] \in Nat /\ f[c] <= h[c]
  BY DatesOK, VoteParts
<1>2. Total(x, "voters", d) = SumFunctionOnSet(f, S) /\ VotesOn(x, d) = SumFunctionOnSet(h, S)
  BY DEF Total, VotesOn
<1> HIDE DEF f, h, S
<1>3. SumFunctionOnSet(f, S) \in Nat /\ SumFunctionOnSet(h, S) \in Nat
  BY <1>1, SumType
<1>4. SumFunctionOnSet(f, S) <= SumFunctionOnSet(h, S)
  <2>1. \A c \in S : f[c] \in Int /\ h[c] \in Int /\ f[c] <= h[c]
    BY <1>1
  <2> QED BY <1>1, <2>1, SumAtMost
<1> QED BY <1>2, <1>3, <1>4

\* A past day with a case has an archive that its schema takes.
LEMMA DayRowOK ==
  ASSUME NEW x \in Rows, NEW d \in DatesIn(x), NEW version \in Nat
  PROVE  FinalizeLocalDay(x, d, version) \in DayRow
<1>1. Cardinality(CasesOn(x, d)) \in Nat \ {0}
  BY DatesOK, FS_CardinalityType, FS_EmptySet
<1> QED BY <1>1, TotalOK DEF FinalizeLocalDay, DayRow

LEMMA PeriodOfDay == \A d \in Days : PeriodOf(d) \in Nat /\ PeriodOf(d) \in Periods
BY Numbers DEF Days, PeriodOf, Periods

DayVotes(x) == [d \in DOMAIN x.days |-> x.days[d].votes]

LEMMA CoveredOK ==
  ASSUME NEW x \in Rows, NEW p
  PROVE  /\ Covered(x, p) \subseteq DOMAIN x.days /\ IsFiniteSet(Covered(x, p))
         /\ Covered(x, p) \in SUBSET Days
         /\ \A d \in Covered(x, p) : PeriodOf(d) = p
         /\ \A d \in DOMAIN x.days : x.days[d] \in DayRow /\ d \in Days
         /\ SumFunctionOnSet(DayVotes(x), Covered(x, p)) \in Nat
<1>1. DOMAIN x.days \subseteq Days /\ IsFiniteSet(DOMAIN x.days)
      /\ \A d \in DOMAIN x.days : x.days[d] \in DayRow
  BY RowsParts, MapValues
<1>2. Covered(x, p) \subseteq DOMAIN x.days /\ \A d \in Covered(x, p) : PeriodOf(d) = p
  BY DEF Covered
<1>3. IsFiniteSet(Covered(x, p))
  BY <1>1, <1>2, FS_Subset
<1>4. \A d \in Covered(x, p) : DayVotes(x)[d] \in Nat
  BY <1>1, <1>2 DEF DayVotes, DayRow
<1>5. SumFunctionOnSet(DayVotes(x), Covered(x, p)) \in Nat
  BY <1>3, <1>4, SumType
<1> QED BY <1>1, <1>2, <1>3, <1>5

\* So has a period with an archived day.
LEMMA SealRowOK ==
  ASSUME NEW x \in Rows, NEW p, Covered(x, p) # {}, NEW version \in Nat
  PROVE  FinalizePeriod(x, p, version) \in SealRow
<1> DEFINE S == Covered(x, p)
           f == [d \in DOMAIN x.days |-> x.days[d].voters]
           V == {f[d] : d \in S}
<1>1. /\ S \subseteq DOMAIN x.days /\ IsFiniteSet(S) /\ S \in SUBSET Days /\ S # {}
      /\ \A d \in S : x.days[d] \in DayRow
      /\ SumFunctionOnSet(DayVotes(x), S) \in Nat
  BY CoveredOK
<1>2. \A d \in S : f[d] \in Nat /\ DayVotes(x)[d] \in Nat /\ f[d] <= DayVotes(x)[d]
  BY <1>1 DEF DayVotes, DayRow
<1>3. {x.days[d].voters : d \in S} = V
  BY <1>1
<1> HIDE DEF f, S
<1>4. IsFiniteSet(V) /\ V # {} /\ \A n \in V : n \in Int
  BY <1>1, <1>2, FiniteImage
<1>5. PICK d \in S : Max(V) = f[d]
  <2> HIDE DEF V
  <2>1. Max(V) \in V
    BY <1>4, MaxIn
  <2> QED BY <2>1 DEF V
<1>6. DayVotes(x)[d] <= SumFunctionOnSet(DayVotes(x), S)
  BY <1>1, <1>2, TermAtMostSum
<1>7. Max(V) \in Nat /\ Max(V) <= SumFunctionOnSet(DayVotes(x), S)
  BY <1>1, <1>2, <1>5, <1>6
<1>8. FinalizePeriod(x, p, version) =
        [votes |-> SumFunctionOnSet(DayVotes(x), S), voters |-> Max(V), covered |-> S, version |-> version]
  BY <1>3 DEF FinalizePeriod, DayVotes, S
<1> HIDE DEF V
<1> QED BY <1>1, <1>7, <1>8 DEF SealRow

NewDays(x, next, v)    == [d \in Unarchived(x, next) |-> FinalizeLocalDay(x, d, v)]
NewPeriods(x, next, v) == [p \in Unsealed(x, next) |-> FinalizePeriod(x, p, v)]

LEMMA NewDaysOK ==
  ASSUME NEW x \in Rows, NEW next, NEW v \in Nat
  PROVE  NewDays(x, next, v) \in Map(Days, DayRow) /\ DOMAIN NewDays(x, next, v) = Unarchived(x, next)
<1>1. Unarchived(x, next) \subseteq DatesIn(x) /\ Unarchived(x, next) \subseteq Days
      /\ IsFiniteSet(Unarchived(x, next))
  BY DatesOK, FS_Subset DEF Unarchived
<1> DEFINE f == NewDays(x, next, v)
<1>2. f = [d \in Unarchived(x, next) |-> f[d]]
      /\ \A d \in Unarchived(x, next) : f[d] = FinalizeLocalDay(x, d, v)
  BY DEF NewDays
<1>3. \A d \in Unarchived(x, next) : f[d] \in DayRow
  BY <1>1, <1>2, DayRowOK
<1> HIDE DEF f
<1> QED BY <1>1, <1>2, <1>3, MapOf DEF f

LEMMA PeriodParts ==
  ASSUME NEW x, NEW p, NEW v
  PROVE  /\ FinalizePeriod(x, p, v).covered = Covered(x, p)
         /\ FinalizePeriod(x, p, v).votes = SumFunctionOnSet(DayVotes(x), Covered(x, p))
BY DEF FinalizePeriod, DayVotes

LEMMA NewPeriodsOK ==
  ASSUME NEW x \in Rows, NEW next, NEW v \in Nat
  PROVE  /\ NewPeriods(x, next, v) \in Map(Periods, SealRow) /\ Keyed(NewPeriods(x, next, v))
         /\ DOMAIN NewPeriods(x, next, v) = Unsealed(x, next)
<1>1. DOMAIN x.days \subseteq Days /\ IsFiniteSet(DOMAIN x.days)
  BY RowsParts, MapValues
<1> DEFINE f == [d \in DOMAIN x.days |-> PeriodOf(d)]
           S == {f[d] : d \in DOMAIN x.days}
           g == NewPeriods(x, next, v)
<1>2. S = {PeriodOf(d) : d \in DOMAIN x.days}
  OBVIOUS
<1>3. IsFiniteSet(S)
  <2> HIDE DEF f
  <2> QED BY <1>1, FiniteImage
<1>4. Unsealed(x, next) \subseteq S
  BY <1>2 DEF Unsealed
<1>5. IsFiniteSet(Unsealed(x, next))
  <2> HIDE DEF S
  <2> QED BY <1>3, <1>4, FS_Subset
<1>6. \A p \in Unsealed(x, next) : Covered(x, p) # {} /\ p \in Periods
  BY <1>1, PeriodOfDay DEF Unsealed, Covered
<1>7. g = [p \in Unsealed(x, next) |-> g[p]]
      /\ \A p \in Unsealed(x, next) : g[p] = FinalizePeriod(x, p, v)
  BY DEF NewPeriods
<1> HIDE DEF g, S, f
<1>8. \A p \in Unsealed(x, next) : g[p] \in SealRow
  BY <1>6, <1>7, SealRowOK
<1>9. Unsealed(x, next) \subseteq Periods
  BY <1>6
<1>10. g \in Map(Periods, SealRow) /\ DOMAIN g = Unsealed(x, next)
  BY <1>5, <1>7, <1>8, <1>9, MapOf
<1>11. \A p \in Unsealed(x, next) : g[p].covered = Covered(x, p)
  BY <1>7, PeriodParts
<1>12. Keyed(g)
  BY <1>10, <1>11, CoveredOK DEF Keyed
<1> QED BY <1>10, <1>12 DEF g

\* The tables that the archives do not touch.
Lasting == {"daily", "ledger", "agg", "receipt", "index", "migrated"}
Kept(x, y, names) == \A t \in names : x[t] = y[t]

LEMMA FinalizeDaysOK ==
  ASSUME NEW s \in States, NEW next, NEW v \in Nat
  PROVE  LET t   == FinalizeDays(s, next, v)
             new == NewDays(s.host.rows, next, v)
         IN  /\ t \in States /\ Beside(t.host, s.host)
             /\ t.host.rows = PutAll(s.host.rows, "days", new)
             /\ ~ s.host.sink => t.chain = s.chain
             /\ s.host.sink =>
                  /\ Extends(t.chain, s.chain, Partials(Last(s.chain), "days", new))
                  /\ Last(t.chain) = PutAll(Last(s.chain), "days", new)
<1> DEFINE new == NewDays(s.host.rows, next, v)
<1>1. s.host.rows \in Rows
  BY StateParts, HostParts
<1>2. new \in Map(Days, DayRow)
  BY <1>1, NewDaysOK
<1>3. FinalizeDays(s, next, v) = WriteRows(s, "days", new)
  BY DEF FinalizeDays, NewDays
<1> HIDE DEF new
<1>4. Takes("days", new) /\ "days" \in TableNames /\ \A x \in Rows : x["days"] \in Map(Days, DayRow)
  BY <1>2, TakesDays, RowsParts DEF TableNames
<1>5. /\ WriteRows(s, "days", new) \in States
      /\ WriteRows(s, "days", new).host.rows = PutAll(s.host.rows, "days", new)
      /\ Beside(WriteRows(s, "days", new).host, s.host)
      /\ ~ s.host.sink => WriteRows(s, "days", new).chain = s.chain
      /\ s.host.sink =>
           /\ Extends(WriteRows(s, "days", new).chain, s.chain, Partials(Last(s.chain), "days", new))
           /\ Last(WriteRows(s, "days", new).chain) = PutAll(Last(s.chain), "days", new)
  BY <1>2, <1>4, WriteRowsOK
<1> QED BY <1>3, <1>5 DEF new

LEMMA FinalizePeriodsOK ==
  ASSUME NEW s \in States, NEW next, NEW v \in Nat
  PROVE  LET t   == FinalizeCompletedPeriods(s, next, v)
             new == NewPeriods(s.host.rows, next, v)
         IN  /\ t \in States /\ Beside(t.host, s.host)
             /\ t.host.rows = PutAll(s.host.rows, "periods", new)
             /\ ~ s.host.sink => t.chain = s.chain
             /\ s.host.sink =>
                  /\ Extends(t.chain, s.chain, Partials(Last(s.chain), "periods", new))
                  /\ Last(t.chain) = PutAll(Last(s.chain), "periods", new)
<1> DEFINE new == NewPeriods(s.host.rows, next, v)
<1>1. s.host.rows \in Rows
  BY StateParts, HostParts
<1>2. new \in Map(Periods, SealRow) /\ Keyed(new)
  BY <1>1, NewPeriodsOK
<1>3. FinalizeCompletedPeriods(s, next, v) = WriteRows(s, "periods", new)
  BY DEF FinalizeCompletedPeriods, NewPeriods
<1> HIDE DEF new
<1>4. Takes("periods", new) /\ "periods" \in TableNames
      /\ \A x \in Rows : x["periods"] \in Map(Periods, SealRow)
  BY <1>2, TakesPeriods, RowsParts DEF TableNames
<1>5. /\ WriteRows(s, "periods", new) \in States
      /\ WriteRows(s, "periods", new).host.rows = PutAll(s.host.rows, "periods", new)
      /\ Beside(WriteRows(s, "periods", new).host, s.host)
      /\ ~ s.host.sink => WriteRows(s, "periods", new).chain = s.chain
      /\ s.host.sink =>
           /\ Extends(WriteRows(s, "periods", new).chain, s.chain, Partials(Last(s.chain), "periods", new))
           /\ Last(WriteRows(s, "periods", new).chain) = PutAll(Last(s.chain), "periods", new)
  BY <1>2, <1>4, WriteRowsOK
<1> QED BY <1>3, <1>5 DEF new
-----------------------------------------------------------------------------
(* The rotation, stage by stage. *)

\* "g" is "h" with other rows and another version.
Aside(g, h) ==
  /\ g.ready = h.ready /\ g.sink = h.sink /\ g.date = h.date /\ g.case = h.case
  /\ g.open = h.open /\ g.spent = h.spent /\ g.refund = h.refund

LEMMA FinalizeOK ==
  ASSUME NEW s \in States, NEW next, NEW v \in Nat
  PROVE  LET t == FinalizeCompletedPeriods(FinalizeDays(s, next, v), next, v)
         IN  /\ Finalize(s, next, v) \in States
             /\ Finalize(s, next, v).chain = t.chain /\ Finalize(s, next, v).host.rows = t.host.rows
             /\ Aside(Finalize(s, next, v).host, s.host)
             /\ Kept(Finalize(s, next, v).host.rows, s.host.rows, Lasting)
<1> DEFINE u == FinalizeDays(s, next, v)
           t == FinalizeCompletedPeriods(u, next, v)
           f == Finalize(s, next, v)
           w == [t EXCEPT !.host.version = v]
<1>1. u \in States /\ Beside(u.host, s.host)
      /\ u.host.rows = PutAll(s.host.rows, "days", NewDays(s.host.rows, next, v))
  BY FinalizeDaysOK
<1> HIDE DEF u
<1>2. t \in States /\ Beside(t.host, u.host)
      /\ t.host.rows = PutAll(u.host.rows, "periods", NewPeriods(u.host.rows, next, v))
  BY <1>1, FinalizePeriodsOK
<1>3. f = IF t = s THEN s ELSE w
  BY DEF Finalize, Versioned, u
<1> HIDE DEF t, f
<1>4. /\ t.host \in HostShape /\ t.chain \in Seq(Rows) /\ t = [host |-> t.host, chain |-> t.chain]
      /\ s.host.rows \in Rows /\ u.host.rows \in Rows
  BY <1>1, <1>2, StateParts, HostParts DEF States
<1>5. w.host = [t.host EXCEPT !.version = v] /\ w.chain = t.chain /\ w = [host |-> w.host, chain |-> w.chain]
  BY <1>4
<1>6. /\ [t.host EXCEPT !.version = v] \in HostShape
      /\ [t.host EXCEPT !.version = v].rows = t.host.rows
      /\ Aside([t.host EXCEPT !.version = v], t.host)
  BY <1>4 DEF HostShape, Aside
<1>7. w \in States
  <2>1. w.host.sink => Len(w.chain) > 0
    BY <1>2, <1>5, <1>6, StateParts DEF Aside
  <2> HIDE DEF w
  <2> QED BY <1>4, <1>5, <1>6, <2>1 DEF States
<1>8. Aside(t.host, s.host)
  BY <1>1, <1>2 DEF Beside, Aside
<1>9. Kept(t.host.rows, s.host.rows, Lasting)
  <2>1. \A n \in TableNames : n # "days" => u.host.rows[n] = s.host.rows[n]
    BY <1>1, <1>4, PutAllParts DEF TableNames
  <2>2. \A n \in TableNames : n # "periods" => t.host.rows[n] = u.host.rows[n]
    BY <1>2, <1>4, PutAllParts DEF TableNames
  <2> QED BY <2>1, <2>2 DEF Kept, Lasting, TableNames
<1> HIDE DEF w
<1>10. /\ f \in States /\ f.chain = t.chain /\ f.host.rows = t.host.rows
       /\ Aside(f.host, s.host) /\ Kept(f.host.rows, s.host.rows, Lasting)
  <2>1. CASE t = s
    BY <1>2, <1>3, <1>8, <1>9, <2>1
  <2>2. CASE t # s
    <3>1. f = w
      BY <1>3, <2>2
    <3>2. Aside(w.host, s.host)
      BY <1>5, <1>6, <1>8 DEF Aside
    <3> QED BY <1>5, <1>6, <1>7, <1>9, <3>1, <3>2
  <2> QED BY <2>1, <2>2
<1> QED BY <1>10 DEF t, f, u

\* "g" is "h" on another date.
Redated(g, h) ==
  /\ g.ready = h.ready /\ g.sink = h.sink /\ g.case = h.case
  /\ g.open = h.open /\ g.spent = h.spent /\ g.refund = h.refund

LEMMA DatedOK ==
  ASSUME NEW s \in States, day \in Days
  PROVE  LET v == s.host.version + 1
             t == FinalizeCompletedPeriods(FinalizeDays(s, day, v), day, v)
         IN  /\ v \in Nat
             /\ Dated(s) \in States /\ Dated(s).host.date = day
             /\ Dated(s).chain = t.chain /\ Dated(s).host.rows = t.host.rows
             /\ Redated(Dated(s).host, s.host)
             /\ Kept(Dated(s).host.rows, s.host.rows, Lasting)
<1> DEFINE v == s.host.version + 1
           f == Finalize(s, day, v)
           h == [f.host EXCEPT !.date = day]
<1>1. v \in Nat
  BY StateParts, HostParts
<1>2. /\ f \in States /\ Aside(f.host, s.host) /\ Kept(f.host.rows, s.host.rows, Lasting)
      /\ f.chain = FinalizeCompletedPeriods(FinalizeDays(s, day, v), day, v).chain
      /\ f.host.rows = FinalizeCompletedPeriods(FinalizeDays(s, day, v), day, v).host.rows
  BY <1>1, FinalizeOK
<1>3. Dated(s) = [f EXCEPT !.host.date = day]
  BY DEF Dated
<1> HIDE DEF f
<1>4. f.host \in HostShape /\ f.chain \in Seq(Rows) /\ (f.host.sink => Len(f.chain) > 0)
      /\ f = [host |-> f.host, chain |-> f.chain]
  BY <1>2, StateParts DEF States
<1>5. Dated(s) = [host |-> h, chain |-> f.chain]
  BY <1>3, <1>4
<1>6. h \in HostShape /\ h.date = day /\ h.rows = f.host.rows /\ Redated(h, f.host)
  BY <1>4 DEF HostShape, Redated, Days
<1> HIDE DEF h
<1>7. [host |-> h, chain |-> f.chain] \in States
  BY <1>4, <1>6, StateOf DEF Redated
<1>8. Redated(h, s.host)
  BY <1>2, <1>6 DEF Redated, Aside
<1> HIDE DEF v
<1> QED BY <1>1, <1>2, <1>5, <1>6, <1>7, <1>8 DEF v

LEMMA CaseOf ==
  ASSUME NEW d \in Days, NEW i \in 0 .. Cases - 1
  PROVE  <<d, i>> \in Case
BY DEF Case

LEMMA ParkedOK ==
  ASSUME NEW s \in States, s.host.date \in Days
  PROVE  /\ Active(s) \in Case /\ Active(s) = <<s.host.date, s.host.case>>
         /\ Parked(s) \in States /\ Beside(Parked(s).host, s.host)
         /\ Parked(s).host.rows = Put(s.host.rows, "agg", Active(s), s.host.open)
         /\ ~ s.host.sink => Parked(s).chain = s.chain
         /\ s.host.sink =>
              Parked(s).chain = Append(s.chain, Put(Last(s.chain), "agg", Active(s), s.host.open))
<1>1. s.host.open \in Votes /\ s.host.case \in 0 .. Cases - 1
  BY StateParts, HostParts
<1>2. Active(s) \in Case
  BY <1>1, CaseOf DEF Active
<1> QED BY <1>1, <1>2, Kinds, WriteOK DEF Parked, Active

LEMMA ClosedOK ==
  ASSUME NEW s \in States, day \in Days
  PROVE  /\ Closed(s) \in States /\ Beside(Closed(s).host, s.host)
         /\ Kept(Closed(s).host.rows, s.host.rows, TableNames \ {"agg"})
         /\ ~ s.host.sink => Closed(s).chain = s.chain
<1>1. CASE s.host.date \in 1 .. day - 1
  <2>1. s.host.date \in Days /\ s.host.rows \in Rows /\ s.host.open \in Votes
    BY <1>1, StateParts, HostParts DEF Days
  <2>2. Closed(s) = Parked(s)
    BY <1>1 DEF Closed
  <2>3. Active(s) \in Case /\ Closed(s).host.rows = Put(s.host.rows, "agg", Active(s), s.host.open)
        /\ Closed(s) \in States /\ Beside(Closed(s).host, s.host)
        /\ (~ s.host.sink => Closed(s).chain = s.chain)
    BY <2>1, <2>2, ParkedOK
  <2>4. Kept(Put(s.host.rows, "agg", Active(s), s.host.open), s.host.rows, TableNames \ {"agg"})
    BY <2>1, <2>3, PutOK, Kinds DEF Kept
  <2> QED BY <2>3, <2>4
<1>2. CASE s.host.date \notin 1 .. day - 1
  BY <1>2 DEF Closed, Beside, Kept
<1> QED BY <1>1, <1>2

LEMMA NoVotesOK == NoVotes \in Votes
BY DEF NoVotes, Votes

\* "g" is "h" with another case open.
LEMMA OpenCaseOK ==
  ASSUME NEW s \in States, NEW i \in 0 .. Cases - 1
  PROVE  LET t == OpenCase(s, i)
         IN  /\ t \in States /\ t.chain = s.chain /\ t.host.rows = s.host.rows
             /\ t.host.case = i
             /\ t.host.open = Get(s.host.rows.agg, <<s.host.date, i>>, NoVotes)
             /\ t.host.ready = s.host.ready /\ t.host.sink = s.host.sink /\ t.host.date = s.host.date
             /\ t.host.spent = s.host.spent /\ t.host.version = s.host.version
             /\ t.host.refund = s.host.refund
<1> DEFINE o == Get(s.host.rows.agg, <<s.host.date, i>>, NoVotes)
           h == [s.host EXCEPT !.case = i, !.open = o]
<1>1. s.host \in HostShape /\ s.chain \in Seq(Rows) /\ (s.host.sink => Len(s.chain) > 0)
      /\ s = [host |-> s.host, chain |-> s.chain] /\ s.host.rows \in Rows
  BY StateParts, HostParts DEF States
<1>2. o \in Votes
  BY <1>1, RowsParts, NoVotesOK, GetParts
<1> HIDE DEF o
<1>3. /\ h \in HostShape /\ h.rows = s.host.rows /\ h.case = i /\ h.open = o
      /\ h.ready = s.host.ready /\ h.sink = s.host.sink /\ h.date = s.host.date
      /\ h.spent = s.host.spent /\ h.version = s.host.version /\ h.refund = s.host.refund
  BY <1>1, <1>2 DEF HostShape
<1>4. OpenCase(s, i) = [host |-> h, chain |-> s.chain]
  <2> DEFINE s1 == [s EXCEPT !.host.case = i]
  <2>1. s1.host = [s.host EXCEPT !.case = i] /\ s1.chain = s.chain
        /\ s1 = [host |-> s1.host, chain |-> s1.chain]
    BY <1>1
  <2>2. s1.host.rows = s.host.rows /\ Active(s1) = <<s.host.date, i>>
    BY <1>1, <2>1 DEF HostShape, Active
  <2>3. OpenCase(s, i) = [s1 EXCEPT !.host.open = Get(s1.host.rows.agg, Active(s1), NoVotes)]
    BY DEF OpenCase, Opening
  <2> HIDE DEF s1
  <2>4. OpenCase(s, i) = [s1 EXCEPT !.host.open = o]
    BY <2>2, <2>3 DEF o
  <2>5. [s1 EXCEPT !.host.open = o] = [host |-> [s1.host EXCEPT !.open = o], chain |-> s1.chain]
    BY <2>1
  <2>6. [s1.host EXCEPT !.open = o] = h
    BY <1>1, <2>1 DEF HostShape
  <2> QED BY <2>1, <2>4, <2>5, <2>6
<1> HIDE DEF h
<1>5. [host |-> h, chain |-> s.chain] \in States
  BY <1>1, <1>3, StateOf
<1> QED BY <1>3, <1>4, <1>5 DEF o

LEMMA IndexPut ==
  ASSUME NEW x \in Rows, NEW d \in Days, NEW i \in 0 .. Cases - 1
  PROVE  /\ Put(x, "index", d, i) \in Rows
         /\ Put(x, "index", d, i).index = With(x.index, d, i)
         /\ Kept(Put(x, "index", d, i), x, TableNames \ {"index"})
<1> DEFINE V == 0 .. Cases - 1
<1>1. Kind("index", Days, V)
  BY Kinds
<1> HIDE DEF V
<1>2. i \in V
  BY DEF V
<1>3. /\ Put(x, "index", d, i) \in Rows
      /\ Put(x, "index", d, i)["index"] = With(x["index"], d, i)
      /\ \A u \in TableNames : u # "index" => Put(x, "index", d, i)[u] = x[u]
  BY <1>1, <1>2, PutOK
<1> QED BY <1>3 DEF Kept

LEMMA IndexedOK ==
  ASSUME NEW s \in States, NEW d \in Days, NEW i \in 0 .. Cases - 1
  PROVE  LET t == Write(s, "index", d, i)
         IN  /\ t \in States /\ Beside(t.host, s.host)
             /\ t.host.rows = Put(s.host.rows, "index", d, i)
             /\ ~ s.host.sink => t.chain = s.chain
             /\ s.host.sink => t.chain = Append(s.chain, Put(Last(s.chain), "index", d, i))
<1> DEFINE V == 0 .. Cases - 1
<1>1. Kind("index", Days, V)
  BY Kinds
<1> HIDE DEF V
<1>2. i \in V
  BY DEF V
<1> QED BY <1>1, <1>2, WriteOK

LEMMA ReopenedOK ==
  ASSUME NEW s \in States, day \in Days, s.host.date = day, NEW i \in 0 .. Cases - 1
  PROVE  LET o == Get(s.host.rows.agg, <<day, i>>, NoVotes)
             t == Reopened(s, i)
         IN  /\ o \in Votes /\ <<day, i>> \in Case
             /\ t \in States /\ t.host.date = day /\ t.host.case = i /\ t.host.open = o
             /\ t.host.ready = s.host.ready /\ t.host.sink = s.host.sink
             /\ t.host.spent = s.host.spent /\ t.host.refund = s.host.refund
             /\ t.host.rows = Put(Put(s.host.rows, "index", day, i), "agg", <<day, i>>, o)
             /\ ~ s.host.sink => t.chain = s.chain
             /\ s.host.sink =>
                  t.chain = Append(Append(s.chain, Put(Last(s.chain), "index", day, i)),
                                   Put(Put(Last(s.chain), "index", day, i), "agg", <<day, i>>, o))
             /\ Kept(t.host.rows, s.host.rows, TableNames \ {"index", "agg"})
             /\ t.host.rows.index = With(s.host.rows.index, day, i)
<1> DEFINE o == Get(s.host.rows.agg, <<day, i>>, NoVotes)
           w == Write(s, "index", day, i)
           c == OpenCase(w, i)
           t == Parked(c)
<1>1. /\ w \in States /\ Beside(w.host, s.host)
      /\ w.host.rows = Put(s.host.rows, "index", day, i)
      /\ ~ s.host.sink => w.chain = s.chain
      /\ s.host.sink => w.chain = Append(s.chain, Put(Last(s.chain), "index", day, i))
  BY IndexedOK
<1> HIDE DEF w
<1>2. s.host.rows \in Rows
  BY StateParts, HostParts
<1>3. Put(s.host.rows, "index", day, i) \in Rows
      /\ Kept(w.host.rows, s.host.rows, TableNames \ {"index"})
      /\ w.host.rows.index = With(s.host.rows.index, day, i)
  <2>1. /\ Put(s.host.rows, "index", day, i) \in Rows
        /\ Put(s.host.rows, "index", day, i).index = With(s.host.rows.index, day, i)
        /\ Kept(Put(s.host.rows, "index", day, i), s.host.rows, TableNames \ {"index"})
    BY <1>2, IndexPut
  <2> QED BY <1>1, <2>1
<1>4. w.host.rows.agg = s.host.rows.agg /\ w.host.date = day
  BY <1>1, <1>3 DEF Kept, TableNames, Beside
<1>5. /\ c \in States /\ c.chain = w.chain /\ c.host.rows = w.host.rows
      /\ c.host.case = i /\ c.host.open = o
      /\ c.host.ready = s.host.ready /\ c.host.sink = s.host.sink /\ c.host.date = day
      /\ c.host.spent = s.host.spent /\ c.host.refund = s.host.refund
  BY <1>1, <1>4, OpenCaseOK DEF Beside
<1> HIDE DEF c, o
<1>6. o \in Votes /\ <<day, i>> \in Case
  BY <1>2, RowsParts, NoVotesOK, GetParts, CaseOf DEF o
<1>7. Active(c) = <<day, i>>
  BY <1>5 DEF Active
<1>8. /\ t \in States /\ Beside(t.host, c.host)
      /\ t.host.rows = Put(c.host.rows, "agg", <<day, i>>, o)
      /\ ~ c.host.sink => t.chain = c.chain
      /\ c.host.sink => t.chain = Append(c.chain, Put(Last(c.chain), "agg", <<day, i>>, o))
  BY <1>5, <1>7, ParkedOK
<1>9. Kept(t.host.rows, w.host.rows, TableNames \ {"agg"})
  BY <1>1, <1>3, <1>5, <1>6, <1>8, PutOK, Kinds DEF Kept
<1>10. s.host.sink => Last(w.chain) = Put(Last(s.chain), "index", day, i)
  <2> SUFFICES ASSUME s.host.sink PROVE Last(w.chain) = Put(Last(s.chain), "index", day, i)
    OBVIOUS
  <2>1. s.chain \in Seq(Rows) /\ Last(s.chain) \in Rows
    BY StateParts
  <2>2. Put(Last(s.chain), "index", day, i) \in Rows
    BY <2>1, IndexPut
  <2> QED BY <1>1, <2>1, <2>2 DEF Last
<1>11. t = Reopened(s, i)
  BY DEF Reopened, w, c
<1> HIDE DEF t
<1>12. Kept(t.host.rows, s.host.rows, TableNames \ {"index", "agg"})
       /\ t.host.rows.index = With(s.host.rows.index, day, i)
  BY <1>3, <1>9 DEF Kept, TableNames
<1>13. ~ s.host.sink => t.chain = s.chain
  BY <1>1, <1>5, <1>8
<1>14. s.host.sink =>
         t.chain = Append(Append(s.chain, Put(Last(s.chain), "index", day, i)),
                          Put(Put(Last(s.chain), "index", day, i), "agg", <<day, i>>, o))
  BY <1>1, <1>5, <1>8, <1>10
<1> QED BY <1>1, <1>5, <1>6, <1>8, <1>11, <1>12, <1>13, <1>14 DEF Beside, o

LEMMA HydratedOK ==
  ASSUME NEW s \in States, day \in Days
  PROVE  LET t == Hydrated(s)
         IN  /\ t \in States /\ t.chain = s.chain /\ t.host.rows = s.host.rows
             /\ t.host.spent = Get(s.host.rows.ledger, day, 0) /\ t.host.spent \in Nat
             /\ t.host.ready = s.host.ready /\ t.host.sink = s.host.sink
             /\ t.host.date = s.host.date /\ t.host.case = s.host.case
             /\ t.host.open = s.host.open /\ t.host.refund = s.host.refund
<1> DEFINE n == Get(s.host.rows.ledger, day, 0)
           h == [s.host EXCEPT !.spent = n]
<1>1. s.host \in HostShape /\ s.chain \in Seq(Rows) /\ (s.host.sink => Len(s.chain) > 0)
      /\ s = [host |-> s.host, chain |-> s.chain] /\ s.host.rows \in Rows
  BY StateParts, HostParts DEF States
<1>2. n \in Nat
  BY <1>1, RowsParts, GetParts
<1>3. Hydrated(s) = [s EXCEPT !.host.spent = n]
  BY DEF Hydrated
<1> HIDE DEF n
<1>4. Hydrated(s) = [host |-> h, chain |-> s.chain]
  BY <1>1, <1>3
<1>5. /\ h \in HostShape /\ h.rows = s.host.rows /\ h.spent = n
      /\ h.ready = s.host.ready /\ h.sink = s.host.sink /\ h.date = s.host.date
      /\ h.case = s.host.case /\ h.open = s.host.open /\ h.refund = s.host.refund
  BY <1>1, <1>2 DEF HostShape
<1> HIDE DEF h
<1>6. [host |-> h, chain |-> s.chain] \in States
  BY <1>1, <1>5, StateOf
<1> QED BY <1>2, <1>4, <1>5, <1>6 DEF n

LEMMA EarnedOK ==
  ASSUME NEW s \in States
  PROVE  Earned(s) \in Nat
BY StateParts, HostParts, RowsParts, GetParts DEF Earned

LEMMA LedgerPut ==
  ASSUME NEW x \in Rows, NEW d \in Days, NEW n \in Nat
  PROVE  /\ Put(x, "ledger", d, n) \in Rows
         /\ Put(x, "ledger", d, n).ledger = With(x.ledger, d, n)
         /\ Kept(Put(x, "ledger", d, n), x, TableNames \ {"ledger"})
BY PutOK, Kinds DEF Kept

\* What the guard leaves: nothing when it does not fire.
LEMMA GuardedOK ==
  ASSUME NEW s \in States, day \in Days, s.host.date = day
  PROVE  LET t == Guarded(s)
             e == Earned(s)
         IN  /\ t \in States
             /\ s.host.spent <= e => t = s
             /\ s.host.spent > e =>
                  /\ t.host.spent = e /\ t.host.refund = s.host.refund + s.host.spent - e
                  /\ t.host.rows = Put(s.host.rows, "ledger", day, e)
                  /\ ~ s.host.sink => t.chain = s.chain
                  /\ s.host.sink => t.chain = Append(s.chain, Put(Last(s.chain), "ledger", day, e))
             /\ t.host.spent <= e
             /\ t.host.ready = s.host.ready /\ t.host.sink = s.host.sink
             /\ t.host.date = s.host.date /\ t.host.case = s.host.case
             /\ t.host.open = s.host.open
             /\ Kept(t.host.rows, s.host.rows, TableNames \ {"ledger"})
<1> DEFINE e == Earned(s)
           k == s.host.refund + s.host.spent - e
           h == [s.host EXCEPT !.spent = e, !.refund = k]
           u == [host |-> h, chain |-> s.chain]
           t == Guarded(s)
<1>1. s.host \in HostShape /\ s.chain \in Seq(Rows) /\ (s.host.sink => Len(s.chain) > 0)
      /\ s = [host |-> s.host, chain |-> s.chain] /\ s.host.rows \in Rows
      /\ e \in Nat /\ s.host.spent \in Nat /\ s.host.refund \in Nat
  BY StateParts, HostParts, EarnedOK DEF States
<1>2. CASE s.host.spent <= e
  <2>1. t = s
    BY <1>2 DEF Guarded
  <2> QED BY <1>1, <1>2, <2>1 DEF Kept
<1>3. CASE s.host.spent > e
  <2>1. [s EXCEPT !.host.spent = e, !.host.refund = @ + s.host.spent - e] = u
    <3> HIDE DEF e
    <3> DEFINE s1 == [s EXCEPT !.host.spent = e]
    <3>1. s1.host = [s.host EXCEPT !.spent = e] /\ s1.chain = s.chain
          /\ s1 = [host |-> s1.host, chain |-> s1.chain]
      BY <1>1
    <3>2. s1.host.refund = s.host.refund
      BY <1>1, <3>1 DEF HostShape
    <3>3. [s EXCEPT !.host.spent = e, !.host.refund = @ + s.host.spent - e]
            = [s1 EXCEPT !.host.refund = @ + s.host.spent - e]
      BY <1>1
    <3> HIDE DEF s1
    <3>4. [s1 EXCEPT !.host.refund = @ + s.host.spent - e]
            = [host |-> [s1.host EXCEPT !.refund = s1.host.refund + s.host.spent - e], chain |-> s1.chain]
      BY <3>1
    <3>5. [s1.host EXCEPT !.refund = k] = h
      BY <1>1, <3>1 DEF HostShape
    <3> QED BY <3>1, <3>2, <3>3, <3>4, <3>5
  <2>2. t = Write([s EXCEPT !.host.spent = e, !.host.refund = @ + s.host.spent - e], "ledger", day, e)
    <3>1. ~ (s.host.spent <= e)
      BY <1>1, <1>3
    <3> QED BY <3>1 DEF Guarded
  <2>3. t = Write(u, "ledger", day, e)
    BY <2>1, <2>2
  <2> HIDE DEF e
  <2>4. k \in Nat
    BY <1>1, <1>3
  <2> HIDE DEF k
  <2>5. /\ h \in HostShape /\ h.rows = s.host.rows /\ h.spent = e /\ h.refund = k
        /\ h.ready = s.host.ready /\ h.sink = s.host.sink /\ h.date = s.host.date
        /\ h.case = s.host.case /\ h.open = s.host.open
    BY <1>1, <2>4 DEF HostShape
  <2> HIDE DEF h
  <2>6. u \in States
    BY <1>1, <2>5, StateOf
  <2>7. u.host = h /\ u.chain = s.chain
    OBVIOUS
  <2> HIDE DEF u, t
  <2>8. /\ t \in States /\ Beside(t.host, u.host)
        /\ t.host.rows = Put(u.host.rows, "ledger", day, e)
        /\ ~ u.host.sink => t.chain = u.chain
        /\ u.host.sink => t.chain = Append(u.chain, Put(Last(u.chain), "ledger", day, e))
    BY <1>1, <2>3, <2>6, Kinds, WriteOK
  <2>9. Kept(Put(s.host.rows, "ledger", day, e), s.host.rows, TableNames \ {"ledger"})
    BY <1>1, LedgerPut
  <2>10. e <= e
    BY <1>1
  <2>11. /\ t.host.spent = e /\ t.host.refund = k /\ t.host.rows = Put(s.host.rows, "ledger", day, e)
         /\ ~ s.host.sink => t.chain = s.chain
         /\ s.host.sink => t.chain = Append(s.chain, Put(Last(s.chain), "ledger", day, e))
         /\ t.host.ready = s.host.ready /\ t.host.sink = s.host.sink
         /\ t.host.date = s.host.date /\ t.host.case = s.host.case /\ t.host.open = s.host.open
    BY <2>5, <2>7, <2>8 DEF Beside
  <2>12. ~ (s.host.spent <= e)
    BY <1>1, <1>3
  <2> QED BY <2>8, <2>9, <2>10, <2>11, <2>12 DEF e, k, t
<1> QED BY <1>1, <1>2, <1>3

\* The stages of a rotation, by name.
Stage1(s) == Closed(s)
Stage2(s) == Dated(Stage1(s))
Stage3(s) == Reopened(Stage2(s), Get(Stage2(s).host.rows.index, day, 0))
Stage4(s) == Hydrated(Stage3(s))

LEMMA RotatedStages ==
  ASSUME NEW s, s.host.date # day
  PROVE  Rotated(s) = Guarded(Stage4(s))
BY DEF Rotated, Rotate, Stage1, Stage2, Stage3, Stage4

LEMMA StagesOK ==
  ASSUME NEW s \in States, day \in Days
  PROVE  /\ Stage1(s) \in States /\ Stage2(s) \in States /\ Stage3(s) \in States
         /\ Stage4(s) \in States /\ Stage2(s).host.date = day /\ Stage4(s).host.date = day
         /\ Get(Stage2(s).host.rows.index, day, 0) \in 0 .. Cases - 1
         /\ Stage4(s).host.ready = s.host.ready /\ Stage4(s).host.sink = s.host.sink
         /\ Stage4(s).host.refund = s.host.refund
         /\ Stage4(s).host.spent = Get(Stage4(s).host.rows.ledger, day, 0)
         /\ ~ s.host.sink => Stage4(s).chain = s.chain
         /\ Kept(Stage4(s).host.rows, s.host.rows, {"daily", "ledger", "receipt", "migrated"})
<1> DEFINE s1 == Stage1(s)
           s2 == Stage2(s)
           i  == Get(s2.host.rows.index, day, 0)
           s3 == Stage3(s)
           s4 == Stage4(s)
<1>1. /\ s1 \in States /\ Beside(s1.host, s.host)
      /\ Kept(s1.host.rows, s.host.rows, TableNames \ {"agg"})
      /\ ~ s.host.sink => s1.chain = s.chain
  BY ClosedOK DEF Stage1
<1>2. /\ s2 \in States /\ s2.host.date = day /\ Redated(s2.host, s1.host)
      /\ Kept(s2.host.rows, s1.host.rows, Lasting)
      /\ ~ s1.host.sink => s2.chain = s1.chain
  <2> HIDE DEF s1
  <2> DEFINE v == s1.host.version + 1
             u == FinalizeDays(s1, day, v)
             t == FinalizeCompletedPeriods(u, day, v)
  <2>1. /\ v \in Nat /\ Dated(s1) \in States /\ Dated(s1).host.date = day
        /\ Redated(Dated(s1).host, s1.host) /\ Kept(Dated(s1).host.rows, s1.host.rows, Lasting)
        /\ Dated(s1).chain = t.chain
    BY <1>1, DatedOK
  <2> HIDE DEF v
  <2>2. u \in States /\ Beside(u.host, s1.host) /\ (~ s1.host.sink => u.chain = s1.chain)
    BY <1>1, <2>1, FinalizeDaysOK
  <2> HIDE DEF u
  <2>3. ~ u.host.sink => t.chain = u.chain
    BY <2>1, <2>2, FinalizePeriodsOK
  <2>4. s2 = Dated(s1)
    BY DEF Stage2, s1
  <2> QED BY <2>1, <2>2, <2>3, <2>4 DEF Beside
<1>3. i \in 0 .. Cases - 1
  <2> HIDE DEF s2
  <2> DEFINE V == 0 .. Cases - 1
  <2>1. s2.host.rows.index \in Map(Days, V)
    BY <1>2, StateParts, HostParts, RowsParts
  <2>2. 0 \in V
    BY Numbers
  <2> HIDE DEF V
  <2>3. i \in V
    BY <2>1, <2>2, GetParts
  <2> QED BY <2>3 DEF V
<1>4. /\ s3 \in States /\ s3.host.date = day
      /\ s3.host.ready = s2.host.ready /\ s3.host.sink = s2.host.sink
      /\ s3.host.refund = s2.host.refund
      /\ ~ s2.host.sink => s3.chain = s2.chain
      /\ Kept(s3.host.rows, s2.host.rows, TableNames \ {"index", "agg"})
  <2>1. s3 = Reopened(s2, i)
    BY DEF Stage3
  <2> HIDE DEF s2, s3, i
  <2> QED BY <1>2, <1>3, <2>1, ReopenedOK
<1>5. /\ s4 \in States /\ s4.chain = s3.chain /\ s4.host.rows = s3.host.rows
      /\ s4.host.spent = Get(s3.host.rows.ledger, day, 0)
      /\ s4.host.ready = s3.host.ready /\ s4.host.sink = s3.host.sink
      /\ s4.host.date = s3.host.date /\ s4.host.refund = s3.host.refund
  <2>1. s4 = Hydrated(s3)
    BY DEF Stage4
  <2> HIDE DEF s3, s4
  <2> QED BY <1>4, <2>1, HydratedOK
<1> HIDE DEF s1, s2, s3, s4, i
<1>6. Kept(s4.host.rows, s.host.rows, {"daily", "ledger", "receipt", "migrated"})
  BY <1>1, <1>2, <1>4, <1>5 DEF Kept, Lasting, TableNames
<1>7. s4.host.ready = s.host.ready /\ s4.host.sink = s.host.sink /\ s4.host.refund = s.host.refund
      /\ (~ s.host.sink => s4.chain = s.chain)
  BY <1>1, <1>2, <1>4, <1>5 DEF Beside, Redated
<1> QED BY <1>1, <1>2, <1>3, <1>4, <1>5, <1>6, <1>7 DEF s1, s2, s3, s4, i

\* What holds of a process between two handlers.
HostOK(h) ==
  /\ h \in HostShape
  /\ h.sink => h.ready
  /\ ~ h.ready => DOMAIN h.rows.ledger = {} /\ DOMAIN h.rows.daily = {}
  /\ h.spent <= Get(h.rows.daily, h.date, 0) + Starter

\* A rotation makes it hold again, whatever is left of an earlier date.
LEMMA RotatedOK ==
  ASSUME NEW s \in States, day \in Days, s.host.sink => s.host.ready,
         ~ s.host.ready => DOMAIN s.host.rows.ledger = {} /\ DOMAIN s.host.rows.daily = {},
         s.host.date = day => s.host.spent <= Get(s.host.rows.daily, day, 0) + Starter
  PROVE  LET t == Rotated(s)
         IN  /\ t \in States /\ HostOK(t.host) /\ t.host.date = day
             /\ t.host.ready = s.host.ready /\ t.host.sink = s.host.sink
             /\ ~ s.host.sink => t.chain = s.chain
             /\ Kept(t.host.rows, s.host.rows, {"daily", "receipt", "migrated"})
             /\ DOMAIN s.host.rows.ledger = {} => t.host.refund = s.host.refund
<1> DEFINE t == Rotated(s)
<1>1. CASE s.host.date = day
  <2>1. t = s
    BY <1>1 DEF Rotated
  <2>2. HostOK(s.host)
    BY <1>1, StateParts DEF HostOK
  <2> QED BY <1>1, <2>1, <2>2 DEF Kept
<1>2. CASE s.host.date # day
  <2> DEFINE u == Stage4(s)
  <2>1. /\ u \in States /\ u.host.date = day
        /\ u.host.ready = s.host.ready /\ u.host.sink = s.host.sink
        /\ u.host.refund = s.host.refund
        /\ u.host.spent = Get(u.host.rows.ledger, day, 0)
        /\ ~ s.host.sink => u.chain = s.chain
        /\ Kept(u.host.rows, s.host.rows, {"daily", "ledger", "receipt", "migrated"})
    BY StagesOK
  <2>2. t = Guarded(u)
    BY <1>2, RotatedStages
  <2> HIDE DEF t, u
  <2> DEFINE e == Earned(u)
  <2>3. /\ t \in States
        /\ u.host.spent <= e => t = u
        /\ u.host.spent > e => /\ t.host.refund = u.host.refund + u.host.spent - e
                               /\ ~ u.host.sink => t.chain = u.chain
        /\ t.host.spent <= e
        /\ t.host.ready = u.host.ready /\ t.host.sink = u.host.sink
        /\ t.host.date = u.host.date
        /\ Kept(t.host.rows, u.host.rows, TableNames \ {"ledger"})
    BY <2>1, <2>2, GuardedOK
  <2>4. e \in Nat /\ u.host.spent \in Nat /\ t.host.spent \in Nat /\ t.host \in HostShape
    BY <2>1, <2>3, EarnedOK, StateParts, HostParts
  <2>5. e = Get(u.host.rows.daily, day, 0) /\ t.host.rows.daily = u.host.rows.daily
        /\ u.host.rows.daily = s.host.rows.daily /\ u.host.rows.ledger = s.host.rows.ledger
    BY <2>1, <2>3 DEF Earned, Kept, TableNames
  <2> HIDE DEF e
  <2>6. t.host.spent <= Get(t.host.rows.daily, t.host.date, 0) + Starter
    BY <2>1, <2>3, <2>4, <2>5, Numbers
  <2>7. DOMAIN s.host.rows.ledger = {} => t = u
    BY <2>1, <2>3, <2>4, <2>5 DEF Get
  <2>8. HostOK(t.host)
    BY <2>1, <2>3, <2>4, <2>5, <2>6, <2>7 DEF HostOK
  <2>9. Kept(t.host.rows, s.host.rows, {"daily", "receipt", "migrated"})
    BY <2>1, <2>3 DEF Kept, TableNames
  <2>10. ~ s.host.sink => t.chain = s.chain
    BY <2>1, <2>3, <2>4
  <2> QED BY <2>1, <2>3, <2>7, <2>8, <2>9, <2>10 DEF t
<1> QED BY <1>1, <1>2
-----------------------------------------------------------------------------
(* The handlers: what they keep of the types. *)

Typed ==
  /\ day \in Days /\ faults \subseteq {"crash", "late"} /\ refunded \in [Days -> Nat]
  /\ HostOK(host) /\ host.refund = 0 /\ host.date \in 1 .. day
  /\ chain \in Seq(Rows) /\ Len(chain) > 0

\* What a handler passes on.
Passed(s, d) == s \in States /\ HostOK(s.host) /\ s.host.date = d /\ Len(s.chain) > 0

LEMMA HereOK ==
  ASSUME Typed
  PROVE  [host |-> host, chain |-> chain] \in States
BY StateOf DEF Typed, HostOK

LEMMA NowOK ==
  ASSUME Typed, NEW s \in Now
  PROVE  /\ Passed(s, day) /\ s.host.ready = host.ready /\ s.host.sink = host.sink
         /\ ~ host.sink => s.chain = chain
<1> DEFINE u == [host |-> host, chain |-> chain]
<1>1. s = Rotated(u)
  BY DEF Now
<1>2. u \in States /\ u.host = host /\ u.chain = chain
  BY HereOK
<1> HIDE DEF u
<1>3. /\ u.host.sink => u.host.ready
      /\ ~ u.host.ready => DOMAIN u.host.rows.ledger = {} /\ DOMAIN u.host.rows.daily = {}
      /\ u.host.date = day => u.host.spent <= Get(u.host.rows.daily, day, 0) + Starter
      /\ day \in Days /\ Len(chain) > 0
  BY <1>2 DEF Typed, HostOK
<1>4. /\ s \in States /\ HostOK(s.host) /\ s.host.date = day
      /\ s.host.ready = u.host.ready /\ s.host.sink = u.host.sink
      /\ ~ u.host.sink => s.chain = u.chain
  BY <1>1, <1>2, <1>3, RotatedOK
<1>5. Len(s.chain) > 0
  BY <1>2, <1>3, <1>4, StateParts
<1> QED BY <1>2, <1>4, <1>5 DEF Passed

LEMMA BecomesTyped ==
  ASSUME Typed, NEW s, Passed(s, day), Becomes(s), day' = day, faults' \subseteq {"crash", "late"}
  PROVE  Typed'
<1>1. s.host \in HostShape /\ s.chain \in Seq(Rows) /\ s.host.refund \in Nat
  BY StateParts, HostParts DEF Passed
<1>2. HostOK([s.host EXCEPT !.refund = 0]) /\ [s.host EXCEPT !.refund = 0].refund = 0
      /\ [s.host EXCEPT !.refund = 0].date = s.host.date
  BY <1>1 DEF HostOK, HostShape, Passed
<1>3. HostOK(host') /\ host'.refund = 0 /\ host'.date = day /\ chain' = s.chain
  BY <1>2 DEF Becomes, Passed
<1>4. refunded' \in [Days -> Nat]
  <2>1. refunded' = [refunded EXCEPT ![day] = @ + s.host.refund]
    BY DEF Becomes
  <2>2. refunded \in [Days -> Nat] /\ day \in Days
    BY DEF Typed
  <2>3. refunded[day] + s.host.refund \in Nat
    BY <1>1, <2>2
  <2> QED BY <2>1, <2>2, <2>3
<1>5. day' \in Days /\ host'.date \in 1 .. day'
  BY <1>3 DEF Typed, Days
<1> QED BY <1>1, <1>3, <1>4, <1>5 DEF Typed, Passed

\* A row written while the game is ready, that leaves the day's sticks alone or adds to them.
LEMMA WrittenOK ==
  ASSUME NEW s, day \in Days, Passed(s, day), s.host.ready, NEW t, NEW K, NEW V, Kind(t, K, V),
         NEW k \in K, NEW v \in V,
         s.host.spent <= Get(Put(s.host.rows, t, k, v).daily, day, 0) + Starter
  PROVE  Passed(Write(s, t, k, v), day)
<1>1. s \in States /\ HostOK(s.host) /\ s.host.date = day /\ Len(s.chain) > 0
  BY DEF Passed
<1> DEFINE u == Write(s, t, k, v)
<1>2. /\ u \in States /\ u.host.rows = Put(s.host.rows, t, k, v) /\ Beside(u.host, s.host)
      /\ ~ s.host.sink => u.chain = s.chain
  BY <1>1, WriteOK
<1> HIDE DEF u
<1>3. Len(u.chain) > 0
  BY <1>1, <1>2, StateParts DEF Beside
<1>4. u.host.ready /\ u.host.date = day /\ u.host.spent = s.host.spent /\ u.host \in HostShape
  BY <1>1, <1>2, StateParts DEF Beside
<1>5. HostOK(u.host)
  BY <1>2, <1>4 DEF HostOK
<1> QED BY <1>2, <1>3, <1>4, <1>5 DEF Passed, u

LEMMA CreditTyped ==
  ASSUME Typed, Credit
  PROVE  Typed'
<1>1. PICK s \in Now : Earned(s) < MaxEarned /\ Becomes(Write(s, "daily", day, Earned(s) + 1))
  BY DEF Credit
<1>2. Passed(s, day) /\ s.host.ready /\ day \in Days
  BY NowOK DEF Credit, Typed
<1>3. Earned(s) \in Nat /\ Earned(s) = Get(s.host.rows.daily, day, 0) /\ s.host.rows \in Rows
      /\ s.host.spent \in Nat /\ s.host.spent <= Earned(s) + Starter
  BY <1>2, EarnedOK, StateParts, HostParts DEF Passed, Earned, HostOK
<1>4. Put(s.host.rows, "daily", day, Earned(s) + 1).daily = With(s.host.rows.daily, day, Earned(s) + 1)
  <2>1. Earned(s) + 1 \in Nat
    BY <1>3
  <2>2. Put(s.host.rows, "daily", day, Earned(s) + 1)["daily"]
          = With(s.host.rows["daily"], day, Earned(s) + 1)
    BY <1>2, <1>3, <2>1, Kinds, PutOK
  <2> QED BY <2>2
<1>5. Get(Put(s.host.rows, "daily", day, Earned(s) + 1).daily, day, 0) = Earned(s) + 1
  BY <1>4, GetWith
<1>6. Passed(Write(s, "daily", day, Earned(s) + 1), day)
  <2>1. s.host.spent <= Earned(s) + 1 + Starter
    BY <1>3, Numbers
  <2> QED BY <1>2, <1>3, <1>5, <2>1, Kinds, WrittenOK
<1> QED BY <1>1, <1>6, BecomesTyped DEF Credit, Typed

LEMMA LookTyped ==
  ASSUME Typed, Look
  PROVE  Typed'
BY NowOK, BecomesTyped DEF Look, Typed

\* The three images of an accepted vote.
Ledgered(x, d, n)                 == Put(x, "ledger", d, n)
Tallied(x, d, n, c, o)            == Put(Ledgered(x, d, n), "agg", c, o)
Answered(x, d, n, c, o, r, found) == Put(Tallied(x, d, n, c, o), "receipt", r, found)

LEMMA AnsweredParts ==
  ASSUME NEW x \in Rows, NEW d \in Days, NEW n \in Nat, NEW c \in Case, NEW o \in Votes,
         NEW r \in Requests, NEW found \in Spending
  PROVE  /\ Ledgered(x, d, n) \in Rows /\ Tallied(x, d, n, c, o) \in Rows
         /\ Answered(x, d, n, c, o, r, found) \in Rows
         /\ Ledgered(x, d, n).ledger = With(x.ledger, d, n)
         /\ Kept(Ledgered(x, d, n), x, TableNames \ {"ledger"})
         /\ Tallied(x, d, n, c, o).agg = With(x.agg, c, o)
         /\ Kept(Tallied(x, d, n, c, o), Ledgered(x, d, n), TableNames \ {"agg"})
         /\ Answered(x, d, n, c, o, r, found).receipt = With(x.receipt, r, found)
         /\ Kept(Answered(x, d, n, c, o, r, found), Tallied(x, d, n, c, o), TableNames \ {"receipt"})
<1> DEFINE y == Ledgered(x, d, n)
           z == Tallied(x, d, n, c, o)
           w == Answered(x, d, n, c, o, r, found)
<1>1. y \in Rows /\ y.ledger = With(x.ledger, d, n) /\ Kept(y, x, TableNames \ {"ledger"})
  BY LedgerPut DEF Ledgered
<1>2. z = Put(y, "agg", c, o)
  BY DEF Tallied
<1>3. w = Put(z, "receipt", r, found)
  BY DEF Answered
<1> HIDE DEF y, z, w
<1>4. z \in Rows /\ z["agg"] = With(y["agg"], c, o)
      /\ \A u \in TableNames : u # "agg" => z[u] = y[u]
  BY <1>1, <1>2, Kinds, PutOK
<1>5. w \in Rows /\ w["receipt"] = With(z["receipt"], r, found)
      /\ \A u \in TableNames : u # "receipt" => w[u] = z[u]
  BY <1>3, <1>4, Kinds, PutOK
<1>6. Kept(z, y, TableNames \ {"agg"}) /\ Kept(w, z, TableNames \ {"receipt"})
  BY <1>4, <1>5 DEF Kept
<1>7. y.agg = x.agg /\ z.receipt = x.receipt
  BY <1>1, <1>6 DEF Kept, TableNames
<1> QED BY <1>1, <1>4, <1>5, <1>6, <1>7 DEF y, z, w

LEMMA RecordedOK ==
  ASSUME NEW s \in States, day \in Days, s.host.date = day, NEW r \in Requests, NEW found \in Spending
  PROVE  LET n == s.host.spent
             c == Active(s)
             o == s.host.open
             t == Recorded(s, r, found)
         IN  /\ c = <<day, s.host.case>> /\ c \in Case /\ n \in Nat /\ o \in Votes
             /\ t \in States /\ Beside(t.host, s.host)
             /\ t.host.rows = Answered(s.host.rows, day, n, c, o, r, found)
             /\ ~ s.host.sink => t.chain = s.chain
             /\ s.host.sink =>
                  t.chain = Append(Append(Append(s.chain, Ledgered(Last(s.chain), day, n)),
                                          Tallied(Last(s.chain), day, n, c, o)),
                                   Answered(Last(s.chain), day, n, c, o, r, found))
<1> DEFINE n == s.host.spent
           c == Active(s)
           o == s.host.open
           u == Write(s, "ledger", day, n)
           w == Parked(u)
           t == Write(w, "receipt", r, found)
<1>1. n \in Nat /\ o \in Votes /\ c = <<day, s.host.case>> /\ s.host.case \in 0 .. Cases - 1
      /\ s.host.rows \in Rows /\ s.chain \in Seq(Rows)
      /\ (s.host.sink => Len(s.chain) > 0 /\ Last(s.chain) \in Rows)
  BY StateParts, HostParts DEF Active
<1>2. c \in Case
  BY <1>1, CaseOf
<1>3. t = Recorded(s, r, found)
  BY DEF Recorded
<1>4. /\ u \in States /\ u.host.rows = Ledgered(s.host.rows, day, n) /\ Beside(u.host, s.host)
      /\ ~ s.host.sink => u.chain = s.chain
      /\ s.host.sink => u.chain = Append(s.chain, Ledgered(Last(s.chain), day, n))
  BY <1>1, Kinds, WriteOK DEF Ledgered
<1> HIDE DEF n, o, u
<1>5. u.host.date = day /\ u.host.open = o /\ Active(u) = c
  BY <1>4 DEF Beside, Active, o, c
<1>6. /\ w \in States /\ Beside(w.host, u.host)
      /\ w.host.rows = Put(u.host.rows, "agg", c, o)
      /\ ~ u.host.sink => w.chain = u.chain
      /\ u.host.sink => w.chain = Append(u.chain, Put(Last(u.chain), "agg", c, o))
  BY <1>4, <1>5, ParkedOK
<1> HIDE DEF c, w
<1>7. /\ t \in States /\ t.host.rows = Put(w.host.rows, "receipt", r, found) /\ Beside(t.host, w.host)
      /\ ~ w.host.sink => t.chain = w.chain
      /\ w.host.sink => t.chain = Append(w.chain, Put(Last(w.chain), "receipt", r, found))
  BY <1>6, Kinds, WriteOK
<1> HIDE DEF t
<1>8. Beside(t.host, s.host) /\ u.host.sink = s.host.sink /\ w.host.sink = s.host.sink
  BY <1>4, <1>6, <1>7 DEF Beside
<1>9. t.host.rows = Answered(s.host.rows, day, n, c, o, r, found)
  BY <1>4, <1>6, <1>7 DEF Answered, Tallied
<1>10. ASSUME s.host.sink
       PROVE  t.chain = Append(Append(Append(s.chain, Ledgered(Last(s.chain), day, n)),
                                      Tallied(Last(s.chain), day, n, c, o)),
                               Answered(Last(s.chain), day, n, c, o, r, found))
  <2> DEFINE last == Last(s.chain)
             a == Ledgered(last, day, n)
             b == Tallied(last, day, n, c, o)
  <2>1. last \in Rows /\ s.chain \in Seq(Rows)
    BY <1>1, <1>10
  <2> HIDE DEF last
  <2>2. a \in Rows /\ b \in Rows
    BY <1>1, <1>2, <2>1, AnsweredParts
  <2>3. u.chain = Append(s.chain, a)
    BY <1>4, <1>10 DEF last
  <2>4. b = Put(a, "agg", c, o) /\ Answered(last, day, n, c, o, r, found) = Put(b, "receipt", r, found)
    BY DEF Tallied, Answered
  <2> HIDE DEF a, b
  <2>5. Last(u.chain) = a
    BY <2>1, <2>2, <2>3 DEF Last
  <2>6. w.chain = Append(Append(s.chain, a), b)
    BY <1>6, <1>8, <1>10, <2>3, <2>4, <2>5
  <2>7. Last(w.chain) = b
    BY <2>1, <2>2, <2>6 DEF Last
  <2>8. t.chain = Append(Append(Append(s.chain, a), b), Answered(last, day, n, c, o, r, found))
    BY <1>7, <1>8, <1>10, <2>4, <2>6, <2>7
  <2> QED BY <2>8 DEF last, a, b
<1>11. ~ s.host.sink => t.chain = s.chain
  BY <1>4, <1>6, <1>7, <1>8
<1> QED BY <1>1, <1>2, <1>3, <1>7, <1>8, <1>9, <1>10, <1>11 DEF n, c, o

\* An accepted vote raises the case's votes by what it spends, and its voters by one at most.
LEMMA CountedOK ==
  ASSUME NEW s \in States, NEW n \in Nat \ {0}
  PROVE  LET t == Counted(s, n)
         IN  /\ t \in States /\ t.chain = s.chain /\ t.host.rows = s.host.rows
             /\ t.host.spent = s.host.spent + n /\ t.host.open.votes = s.host.open.votes + n
             /\ t.host.ready = s.host.ready /\ t.host.sink = s.host.sink
             /\ t.host.date = s.host.date /\ t.host.case = s.host.case
             /\ t.host.refund = s.host.refund
<1> DEFINE a == IF FirstVote(s) THEN 1 ELSE 0
           o == [votes |-> s.host.open.votes + n, voters |-> s.host.open.voters + a]
           h == [s.host EXCEPT !.spent = s.host.spent + n, !.open = o]
<1>1. s.host \in HostShape /\ s.chain \in Seq(Rows) /\ (s.host.sink => Len(s.chain) > 0)
      /\ s = [host |-> s.host, chain |-> s.chain] /\ s.host.open \in Votes /\ s.host.spent \in Nat
  BY StateParts, HostParts DEF States
<1>2. a \in 0 .. 1
  OBVIOUS
<1>3. /\ s.host.open = [votes |-> s.host.open.votes, voters |-> s.host.open.voters]
      /\ s.host.open.votes \in Nat /\ s.host.open.voters \in Nat /\ s.host.open.voters <= s.host.open.votes
      /\ s.host.spent + n \in Nat
  BY <1>1 DEF Votes
<1>4. o \in Votes
  BY <1>2, <1>3 DEF Votes
<1>5. Counted(s, n) = [host |-> h, chain |-> s.chain]
  <2> DEFINE p  == s.host.spent + n
             v  == s.host.open.votes + n
             w  == s.host.open.voters + a
             s1 == [s EXCEPT !.host.spent = p]
             s2 == [s1 EXCEPT !.host.open.votes = v]
             o2 == [s.host.open EXCEPT !.votes = v]
  <2>1. Counted(s, n) = [s EXCEPT !.host.spent = p, !.host.open.votes = v, !.host.open.voters = w]
    <3>1. Counted(s, n) = [s EXCEPT !.host.spent = @ + n, !.host.open.votes = @ + n,
                                    !.host.open.voters = @ + a]
      BY DEF Counted
    <3> HIDE DEF a
    <3> QED BY <1>1, <1>3, <3>1 DEF HostShape
  <2> HIDE DEF p, v, w
  <2>2. Counted(s, n) = [s2 EXCEPT !.host.open.voters = w]
    BY <2>1
  <2>3. s1.host = [s.host EXCEPT !.spent = p] /\ s1.chain = s.chain
        /\ s1 = [host |-> s1.host, chain |-> s1.chain]
    BY <1>1
  <2>4. s1.host.open = s.host.open
    BY <1>1, <2>3 DEF HostShape
  <2> HIDE DEF s1
  <2>5. s2.host = [s1.host EXCEPT !.open = o2] /\ s2.chain = s.chain
        /\ s2 = [host |-> s2.host, chain |-> s2.chain]
    BY <2>3, <2>4
  <2>6. s2.host.open = o2
    BY <1>1, <2>3, <2>5 DEF HostShape
  <2> HIDE DEF s2
  <2>7. Counted(s, n) = [host |-> [s2.host EXCEPT !.open = [o2 EXCEPT !.voters = w]], chain |-> s.chain]
    <3> HIDE DEF o2
    <3> QED BY <2>2, <2>5, <2>6
  <2>8. o2 = [votes |-> v, voters |-> s.host.open.voters]
    BY <1>3
  <2>9. [o2 EXCEPT !.voters = w] = [votes |-> v, voters |-> w]
    <3> HIDE DEF o2
    <3> QED BY <2>8
  <2> HIDE DEF o2
  <2>10. [s2.host EXCEPT !.open = [votes |-> v, voters |-> w]]
          = [s.host EXCEPT !.spent = p, !.open = [votes |-> v, voters |-> w]]
    BY <1>1, <2>3, <2>5 DEF HostShape
  <2> QED BY <2>7, <2>9, <2>10 DEF p, v, w
<1>6. o.votes = s.host.open.votes + n
  OBVIOUS
<1> DEFINE p == s.host.spent + n
<1>7. /\ h \in HostShape /\ h.rows = s.host.rows /\ h.spent = p /\ h.open = o
      /\ h.ready = s.host.ready /\ h.sink = s.host.sink /\ h.date = s.host.date
      /\ h.case = s.host.case /\ h.refund = s.host.refund
  <2>1. h = [s.host EXCEPT !.spent = p, !.open = o] /\ p \in Nat
    BY <1>3
  <2> HIDE DEF h, p, o
  <2> QED BY <1>1, <1>4, <2>1 DEF HostShape
<1> HIDE DEF h, o
<1>8. [host |-> h, chain |-> s.chain] \in States
  BY <1>1, <1>7, StateOf
<1> QED BY <1>5, <1>6, <1>7, <1>8

LEMMA LeastOfThree ==
  ASSUME NEW a \in Int, NEW b \in Int, NEW c \in Int
  PROVE  LET m == Min({a, b, c}) IN m \in {a, b, c} /\ m <= a /\ m <= b /\ m <= c
<1>1. \E m \in {a, b, c} : \A n \in {a, b, c} : m <= n
  <2>1. CASE a <= b /\ a <= c
    BY <2>1
  <2>2. CASE b <= a /\ b <= c
    BY <2>2
  <2>3. CASE c <= a /\ c <= b
    BY <2>3
  <2> QED BY <2>1, <2>2, <2>3
<1> QED BY <1>1 DEF Min

LEMMA IntentOK ==
  ASSUME NEW s \in States, s.host.date \in Days, NEW intent \in Intent(s)
  PROVE  intent.case \in Case /\ intent.count \in 1 .. MaxCount
<1>1. Active(s) \in Case
  BY ParkedOK
<1>2. DOMAIN s.host.rows.agg \subseteq Case
  BY StateParts, HostParts, RowsParts, MapValues
<1> QED BY <1>1, <1>2 DEF Intent

\* What a vote spends is covered by the balance.
LEMMA SpendOK ==
  ASSUME NEW s, Passed(s, day), day \in Days, NEW intent \in Intent(s),
         NEW available \in 1 .. MaxCount, Balance(s) > 0
  PROVE  LET n == Spend(intent.count, Balance(s), available)
         IN  /\ n \in 1 .. MaxCount /\ n \in Nat \ {0}
             /\ s.host.spent + n <= Get(s.host.rows.daily, day, 0) + Starter
<1>1. /\ s \in States /\ s.host.spent \in Nat /\ Earned(s) \in Nat /\ Starter \in Nat /\ MaxCount \in Nat
      /\ Earned(s) = Get(s.host.rows.daily, day, 0)
  BY StateParts, HostParts, EarnedOK, Numbers DEF Passed, Earned
<1>2. intent.count \in 1 .. MaxCount
  BY <1>1, IntentOK DEF Passed
<1> DEFINE b == Balance(s)
           m == Min({intent.count, b, available})
<1>3. b \in Int /\ b = Earned(s) + Starter - s.host.spent /\ b > 0
  BY <1>1 DEF Balance
<1> HIDE DEF b
<1>4. m \in {intent.count, b, available} /\ m <= intent.count /\ m <= b /\ m <= available
  <2>1. intent.count \in Int /\ available \in Int
    BY <1>1, <1>2
  <2> QED BY <1>3, <2>1, LeastOfThree
<1>5. m = Spend(intent.count, Balance(s), available)
  BY DEF Spend, b
<1> HIDE DEF m
<1> QED BY <1>1, <1>2, <1>3, <1>4, <1>5

LEMMA ReceiptOK ==
  ASSUME NEW s, Passed(s, day), day \in Days, NEW intent \in Intent(s), NEW n \in Nat
  PROVE  /\ Receipt(intent, "rejected", n) \in Spending
         /\ n \in 1 .. MaxCount => Receipt(intent, "accepted", n) \in Spending
         /\ \A status : LET found == Receipt(intent, status, n)
                        IN found.case = intent.case /\ found.spent = n /\ found.status = status
<1>1. intent.case \in Case
  BY IntentOK DEF Passed
<1> QED BY <1>1 DEF Receipt, Spending

LEMMA RefuseOK ==
  ASSUME NEW s, Passed(s, day), day \in Days, s.host.ready, NEW r \in Requests,
         NEW intent \in Intent(s)
  PROVE  /\ Receipt(intent, "rejected", 0) \in Spending
         /\ Passed(Write(s, "receipt", r, Receipt(intent, "rejected", 0)), day)
<1> DEFINE found == Receipt(intent, "rejected", 0)
<1>1. found \in Spending
  BY ReceiptOK
<1>2. s.host.rows \in Rows
  BY StateParts, HostParts DEF Passed
<1> HIDE DEF found
<1>3. Put(s.host.rows, "receipt", r, found)["daily"] = s.host.rows["daily"]
  BY <1>1, <1>2, Kinds, PutOK DEF TableNames
<1>4. s.host.spent <= Get(Put(s.host.rows, "receipt", r, found).daily, day, 0) + Starter
  BY <1>3 DEF Passed, HostOK
<1>5. Passed(Write(s, "receipt", r, found), day)
  BY <1>1, <1>4, Kinds, WrittenOK
<1> QED BY <1>1, <1>5 DEF found

LEMMA AcceptOK ==
  ASSUME NEW s, Passed(s, day), day \in Days, s.host.ready, NEW r \in Requests,
         NEW intent \in Intent(s), NEW n \in 1 .. MaxCount, n \in Nat \ {0},
         s.host.spent + n <= Get(s.host.rows.daily, day, 0) + Starter
  PROVE  LET found == Receipt(intent, "accepted", n)
         IN  /\ found \in Spending
             /\ Counted(s, n) \in States
             /\ Passed(Recorded(Counted(s, n), r, found), day)
<1> DEFINE found == Receipt(intent, "accepted", n)
           u == Counted(s, n)
           t == Recorded(u, r, found)
<1>1. found \in Spending
  BY ReceiptOK
<1>2. s \in States /\ HostOK(s.host) /\ s.host.date = day /\ Len(s.chain) > 0 /\ s.host.rows \in Rows
      /\ s.host.spent \in Nat
  BY StateParts, HostParts DEF Passed
<1>3. /\ u \in States /\ u.chain = s.chain /\ u.host.rows = s.host.rows
      /\ u.host.spent = s.host.spent + n
      /\ u.host.ready /\ u.host.sink = s.host.sink /\ u.host.date = day
  BY <1>2, CountedOK
<1> HIDE DEF found, u
<1> DEFINE k == u.host.spent
           c == Active(u)
           o == u.host.open
<1>4. /\ c \in Case /\ k \in Nat /\ o \in Votes
      /\ t \in States /\ Beside(t.host, u.host)
      /\ t.host.rows = Answered(u.host.rows, day, k, c, o, r, found)
      /\ ~ u.host.sink => t.chain = u.chain
  BY <1>1, <1>3, RecordedOK
<1> HIDE DEF t, k, c, o
<1>5. t.host.rows.daily = s.host.rows.daily
  <2> DEFINE x == s.host.rows
             y == Ledgered(x, day, k)
             z == Tallied(x, day, k, c, o)
             w == Answered(x, day, k, c, o, r, found)
  <2>1. Kept(y, x, TableNames \ {"ledger"}) /\ Kept(z, y, TableNames \ {"agg"})
        /\ Kept(w, z, TableNames \ {"receipt"})
    BY <1>1, <1>2, <1>4, AnsweredParts
  <2>2. t.host.rows = w
    BY <1>3, <1>4
  <2> HIDE DEF y, z, w
  <2> QED BY <2>1, <2>2 DEF Kept, TableNames
<1>6. t.host \in HostShape /\ t.host.ready /\ t.host.date = day /\ t.host.sink = s.host.sink
      /\ t.host.spent = s.host.spent + n
  BY <1>3, <1>4, StateParts DEF Beside
<1>7. HostOK(t.host)
  BY <1>5, <1>6 DEF HostOK
<1>8. Len(t.chain) > 0
  BY <1>2, <1>3, <1>4, <1>6, StateParts
<1> QED BY <1>1, <1>3, <1>4, <1>6, <1>7, <1>8 DEF Passed, found, u, t

LEMMA VoteTyped ==
  ASSUME Typed, NEW r \in Request, Vote(r)
  PROVE  Typed'
<1>a. PICK s \in Now : \E intent \in Intent(s) :
        Refuse(s, r, intent) \/ \E available \in 1 .. MaxCount : Accept(s, r, intent, available)
  BY DEF Vote
<1>1. PICK intent \in Intent(s) :
        Refuse(s, r, intent) \/ \E available \in 1 .. MaxCount : Accept(s, r, intent, available)
  BY <1>a
<1>2. Passed(s, day) /\ s.host.ready /\ day \in Days /\ r \in Requests
  BY NowOK DEF Vote, Typed, Requests
<1>3. day' = day /\ faults' \subseteq {"crash", "late"}
  BY DEF Vote, Typed
<1>4. CASE Refuse(s, r, intent)
  BY <1>2, <1>3, <1>4, RefuseOK, BecomesTyped DEF Refuse
<1>5. ASSUME NEW available \in 1 .. MaxCount, Accept(s, r, intent, available)
      PROVE  Typed'
  <2> DEFINE n == Spend(intent.count, Balance(s), available)
  <2>1. /\ intent.case = Active(s) /\ Balance(s) > 0
        /\ Becomes(Recorded(Counted(s, n), r, Receipt(intent, "accepted", n)))
    BY <1>5 DEF Accept
  <2>2. n \in 1 .. MaxCount /\ n \in Nat \ {0}
        /\ s.host.spent + n <= Get(s.host.rows.daily, day, 0) + Starter
    BY <1>2, <2>1, SpendOK
  <2> HIDE DEF n
  <2>3. Passed(Recorded(Counted(s, n), r, Receipt(intent, "accepted", n)), day)
    BY <1>2, <2>2, AcceptOK
  <2> QED BY <1>3, <2>1, <2>3, BecomesTyped
<1> QED BY <1>1, <1>4, <1>5

\* The next case of the day is opened.
LEMMA CycledOK ==
  ASSUME NEW s, Passed(s, day), day \in Days, s.host.ready, NEW i \in 0 .. Cases - 1
  PROVE  Passed(Cycled(s, i), day)
<1> DEFINE u == Parked(s)
           w == Write(u, "index", day, i)
           t == OpenCase(w, i)
<1>1. s \in States /\ HostOK(s.host) /\ s.host.date = day /\ Len(s.chain) > 0 /\ s.host.rows \in Rows
      /\ s.host.open \in Votes
  BY StateParts, HostParts DEF Passed
<1>2. /\ Active(s) \in Case /\ u \in States /\ Beside(u.host, s.host)
      /\ u.host.rows = Put(s.host.rows, "agg", Active(s), s.host.open)
      /\ ~ s.host.sink => u.chain = s.chain
  BY <1>1, ParkedOK
<1> HIDE DEF u
<1>3. u.host.rows["daily"] = s.host.rows["daily"] /\ u.host.rows \in Rows
  BY <1>1, <1>2, Kinds, PutOK DEF TableNames
<1>4. /\ w \in States /\ Beside(w.host, u.host)
      /\ w.host.rows = Put(u.host.rows, "index", day, i)
      /\ ~ u.host.sink => w.chain = u.chain
  BY <1>2, IndexedOK
<1>5. w.host.rows.daily = u.host.rows.daily
  BY <1>3, <1>4, IndexPut DEF Kept, TableNames
<1> HIDE DEF w
<1>6. /\ t \in States /\ t.chain = w.chain /\ t.host.rows = w.host.rows
      /\ t.host.ready = w.host.ready /\ t.host.sink = w.host.sink /\ t.host.date = w.host.date
      /\ t.host.spent = w.host.spent
  BY <1>4, OpenCaseOK
<1>7. t = Cycled(s, i)
  BY DEF Cycled, u, w
<1> HIDE DEF t
<1>8. t.host.ready /\ t.host.date = day /\ t.host.sink = s.host.sink /\ t.host.spent = s.host.spent
      /\ u.host.sink = s.host.sink /\ w.host.sink = s.host.sink
  BY <1>1, <1>2, <1>4, <1>6 DEF Beside
<1>9. HostOK(t.host)
  BY <1>1, <1>3, <1>5, <1>6, <1>8, StateParts DEF HostOK
<1>10. Len(t.chain) > 0
  BY <1>1, <1>2, <1>4, <1>6, <1>8, StateParts
<1> QED BY <1>6, <1>7, <1>8, <1>9, <1>10 DEF Passed

LEMMA CycleTyped ==
  ASSUME Typed, CycleLocalCase
  PROVE  Typed'
<1>1. PICK s \in Now : Becomes(Cycled(s, (s.host.case + 1) % Cases))
  BY DEF CycleLocalCase
<1>2. Passed(s, day) /\ s.host.ready /\ day \in Days
  BY NowOK DEF CycleLocalCase, Typed
<1>3. (s.host.case + 1) % Cases \in 0 .. Cases - 1
  <2>1. s.host.case \in Nat
    BY <1>2, StateParts, HostParts, Numbers DEF Passed
  <2> QED BY <2>1, Numbers
<1>4. Passed(Cycled(s, (s.host.case + 1) % Cases), day)
  BY <1>2, <1>3, CycledOK
<1> QED BY <1>1, <1>4, BecomesTyped DEF CycleLocalCase, Typed

LEMMA MidnightTyped ==
  ASSUME Typed, Midnight
  PROVE  Typed'
BY Numbers DEF Typed, Midnight, Days
-----------------------------------------------------------------------------
(* Storage. *)

LEMMA MaxOfTwo ==
  ASSUME NEW a \in Nat, NEW b \in Nat
  PROVE  Max({a, b}) \in Nat /\ Max({a, b}) >= a /\ Max({a, b}) >= b /\ Max({a, b}) \in {a, b}
<1>1. \E m \in {a, b} : \A n \in {a, b} : m >= n
  <2>1. CASE a <= b
    BY <2>1
  <2>2. CASE b <= a
    BY <2>2
  <2> QED BY <2>1, <2>2
<1> QED BY <1>1 DEF Max

LEMMA MergedOK ==
  ASSUME NEW f \in Map(Days, Nat), NEW g \in Map(Days, Nat)
  PROVE  Merged(f, g) \in Map(Days, Nat)
<1> DEFINE S == DOMAIN f \cup DOMAIN g
           m == Merged(f, g)
<1>1. S \subseteq Days /\ IsFiniteSet(S)
  BY MapValues, FS_Union
<1>2. \A d : Get(f, d, 0) \in Nat /\ Get(g, d, 0) \in Nat
  BY GetParts
<1>3. m = [d \in S |-> m[d]] /\ \A d \in S : m[d] = Max({Get(f, d, 0), Get(g, d, 0)})
  BY DEF Merged
<1> HIDE DEF m, S
<1>4. ASSUME NEW d \in S PROVE m[d] \in Nat
  <2> DEFINE a == Get(f, d, 0)
             b == Get(g, d, 0)
  <2>1. a \in Nat /\ b \in Nat
    BY <1>2
  <2>2. m[d] = Max({a, b})
    BY <1>3
  <2> HIDE DEF a, b
  <2> QED BY <2>1, <2>2, MaxOfTwo
<1>5. m \in Map(Days, Nat)
  BY <1>1, <1>3, <1>4, MapOf
<1> QED BY <1>5 DEF m

LEMMA VersionOK ==
  ASSUME NEW x \in Rows
  PROVE  Max({0} \cup Versions(x)) \in Nat
<1> DEFINE f == [d \in DOMAIN x.days |-> x.days[d].version]
           g == [p \in DOMAIN x.periods |-> x.periods[p].version]
           F == {f[d] : d \in DOMAIN x.days}
           G == {g[p] : p \in DOMAIN x.periods}
           V == {0} \cup Versions(x)
<1>1. /\ IsFiniteSet(DOMAIN x.days) /\ \A d \in DOMAIN x.days : x.days[d] \in DayRow
      /\ IsFiniteSet(DOMAIN x.periods) /\ \A p \in DOMAIN x.periods : x.periods[p] \in SealRow
  BY RowsParts, MapValues
<1>2. (\A d \in DOMAIN x.days : f[d] \in Nat) /\ (\A p \in DOMAIN x.periods : g[p] \in Nat)
  BY <1>1 DEF DayRow, SealRow
<1>3. V = {0} \cup (F \cup G)
  BY DEF Versions
<1> HIDE DEF f, g, V
<1>4. IsFiniteSet(F) /\ IsFiniteSet(G)
  BY <1>1, FiniteImage
<1>5. (\A n \in F : n \in Nat) /\ (\A n \in G : n \in Nat)
  BY <1>2
<1> HIDE DEF F, G
<1>6. IsFiniteSet({0}) /\ IsFiniteSet(F \cup G)
  BY <1>4, FS_Singleton, FS_Union
<1>7. IsFiniteSet(V)
  BY <1>3, <1>6, FS_Union
<1>8. V # {} /\ \A n \in V : n \in Nat
  BY <1>3, <1>5
<1>9. Max(V) \in V
  <2>1. \A n \in V : n \in Int
    BY <1>8
  <2> QED BY <1>7, <1>8, <2>1, MaxIn
<1> QED BY <1>8, <1>9 DEF V

LEMMA LegacyOK ==
  /\ LegacyRows \in Rows /\ 1 \in Days /\ <<1, 0>> \in Case
  /\ LegacyRows.ledger = [d \in {1} |-> 1]
  /\ LegacyRows.agg = [c \in {<<1, 0>>} |-> [votes |-> 1, voters |-> 1]]
  /\ LegacyRows.receipt = [r \in {"legacy"} |-> [case |-> <<1, 0>>, status |-> "accepted", spent |-> 1]]
  /\ LegacyRows.daily = [d \in {1} |-> 1]
  /\ Kept(LegacyRows, NoRows, {"index", "days", "periods", "migrated"})
<1>1. 1 \in Days /\ 0 \in 0 .. Cases - 1 /\ <<1, 0>> \in Case
  BY Numbers DEF Days, Case
<1>a. /\ {1} \subseteq Days /\ IsFiniteSet({1}) /\ {<<1, 0>>} \subseteq Case /\ IsFiniteSet({<<1, 0>>})
      /\ {"legacy"} \subseteq Requests /\ IsFiniteSet({"legacy"})
  BY <1>1, FS_Singleton DEF Requests
<1> DEFINE l == [d \in {1} |-> 1]
           a == [c \in {<<1, 0>>} |-> [votes |-> 1, voters |-> 1]]
           r == [k \in {"legacy"} |-> [case |-> <<1, 0>>, status |-> "accepted", spent |-> 1]]
<1>2. l \in Map(Days, Nat)
  <2> DEFINE S == {1}
  <2>1. l = [d \in S |-> l[d]] /\ \A d \in S : l[d] \in Nat
    OBVIOUS
  <2>2. S \subseteq Days /\ IsFiniteSet(S)
    BY <1>a
  <2> HIDE DEF l, S
  <2> QED BY <2>1, <2>2, MapOf
<1>3. a \in Map(Case, Votes)
  <2> DEFINE S == {<<1, 0>>}
  <2>1. a = [c \in S |-> a[c]] /\ \A c \in S : a[c] \in Votes
    BY DEF Votes
  <2>2. S \subseteq Case /\ IsFiniteSet(S)
    BY <1>a
  <2> HIDE DEF a, S
  <2> QED BY <2>1, <2>2, MapOf
<1>4. r \in Map(Requests, Spending)
  <2>1. r = [k \in {"legacy"} |-> r[k]] /\ \A k \in {"legacy"} : r[k] \in Spending
    BY <1>1, Numbers DEF Spending
  <2> HIDE DEF r
  <2> QED BY <1>a, <2>1, MapOf
<1>5. \A K, V : <<>> \in Map(K, V)
  BY NoMap
<1>6. Keyed(<<>>)
  BY NoMap DEF Keyed
<1>7. LegacyRows = [daily |-> l, ledger |-> l, agg |-> a, receipt |-> r, index |-> <<>>,
                    days |-> <<>>, periods |-> <<>>, migrated |-> <<>>]
  <2>1. LegacyRows = [NoRows EXCEPT !.ledger = l, !.agg = a, !.receipt = r, !.daily = l]
    BY DEF LegacyRows
  <2> HIDE DEF l, a, r
  <2> QED BY <2>1 DEF NoRows
<1> HIDE DEF l, a, r
<1>8. LegacyRows \in Rows
  BY <1>2, <1>3, <1>4, <1>5, <1>6, <1>7 DEF Rows, Tables
<1>9. Kept(LegacyRows, NoRows, {"index", "days", "periods", "migrated"})
  BY <1>7 DEF Kept, NoRows
<1> QED BY <1>1, <1>7, <1>8, <1>9 DEF l, a, r

\* A table copied, and the mark that ends the copy.
Copied(x, t) == [x EXCEPT ![t] = Over(x[t], LegacyRows[t])]
Marked(x)    == [x EXCEPT !["migrated"] = [m \in {1} |-> TRUE]]

LEMMA CopiedOK ==
  ASSUME NEW x \in Rows, NEW t, NEW K, NEW V, Kind(t, K, V)
  PROVE  /\ Copied(x, t) \in Rows /\ Copied(x, t)[t] = Over(x[t], LegacyRows[t])
         /\ \A u \in TableNames : u # t => Copied(x, t)[u] = x[u]
<1>1. t \in TableNames /\ x[t] \in Map(K, V) /\ LegacyRows[t] \in Map(K, V)
  BY LegacyOK DEF Kind
<1> DEFINE m == Over(x[t], LegacyRows[t])
<1>2. m \in Map(K, V)
  BY <1>1, OverParts
<1>3. [x EXCEPT ![t] = m] \in Rows
  BY <1>2 DEF Kind
<1>4. [x EXCEPT ![t] = m][t] = m /\ \A u \in TableNames : u # t => [x EXCEPT ![t] = m][u] = x[u]
  BY <1>1, RowsFields
<1> QED BY <1>3, <1>4 DEF Copied

LEMMA MarkedOK ==
  ASSUME NEW x \in Rows
  PROVE  /\ Marked(x) \in Rows /\ Marked(x).migrated # <<>>
         /\ Kept(Marked(x), x, TableNames \ {"migrated"})
<1> DEFINE m == [m \in {1} |-> TRUE]
<1>1. m \in Map({1}, {TRUE}) /\ DOMAIN m = {1}
  <2> DEFINE S == {1}
             T == {TRUE}
  <2>1. m = [k \in S |-> m[k]] /\ (\A k \in S : m[k] \in T) /\ IsFiniteSet(S)
    BY FS_Singleton
  <2> HIDE DEF m, S, T
  <2>2. m \in Map(S, T) /\ DOMAIN m = S
    BY <2>1, MapOf
  <2> QED BY <2>2 DEF S, T
<1>2. m # <<>>
  BY <1>1, NoMap
<1> HIDE DEF m
<1>3. [x EXCEPT !["migrated"] = m] \in Rows
  BY <1>1, RowsWith
<1>4. [x EXCEPT !["migrated"] = m]["migrated"] = m
      /\ \A u \in TableNames : u # "migrated" => [x EXCEPT !["migrated"] = m][u] = x[u]
  BY RowsFields DEF TableNames
<1>5. Marked(x) = [x EXCEPT !["migrated"] = m]
  BY DEF Marked, m
<1> QED BY <1>2, <1>3, <1>4, <1>5 DEF Kept

\* The five images of the copy.
Moved1(x) == Copied(x, "ledger")
Moved2(x) == Copied(Moved1(x), "agg")
Moved3(x) == Copied(Moved2(x), "receipt")
Moved4(x) == Copied(Moved3(x), "daily")
Moved5(x) == Marked(Moved4(x))

LEMMA MovedOK ==
  ASSUME NEW x \in Rows
  PROVE  /\ Moved1(x) \in Rows /\ Moved2(x) \in Rows /\ Moved3(x) \in Rows /\ Moved4(x) \in Rows
         /\ Moved5(x) \in Rows /\ Moved5(x).migrated # <<>>
         /\ Moved1(x).ledger = Over(x.ledger, LegacyRows.ledger)
         /\ Kept(Moved1(x), x, TableNames \ {"ledger"})
         /\ Moved2(x).agg = Over(x.agg, LegacyRows.agg)
         /\ Kept(Moved2(x), Moved1(x), TableNames \ {"agg"})
         /\ Moved3(x).receipt = Over(x.receipt, LegacyRows.receipt)
         /\ Kept(Moved3(x), Moved2(x), TableNames \ {"receipt"})
         /\ Moved4(x).daily = Over(x.daily, LegacyRows.daily)
         /\ Kept(Moved4(x), Moved3(x), TableNames \ {"daily"})
         /\ Kept(Moved5(x), Moved4(x), TableNames \ {"migrated"})
<1>1. Moved1(x) \in Rows /\ Moved1(x)["ledger"] = Over(x["ledger"], LegacyRows["ledger"])
      /\ \A u \in TableNames : u # "ledger" => Moved1(x)[u] = x[u]
  BY Kinds, CopiedOK DEF Moved1
<1>2. Moved2(x) \in Rows /\ Moved2(x)["agg"] = Over(Moved1(x)["agg"], LegacyRows["agg"])
      /\ \A u \in TableNames : u # "agg" => Moved2(x)[u] = Moved1(x)[u]
  BY <1>1, Kinds, CopiedOK DEF Moved2
<1>3. Moved3(x) \in Rows /\ Moved3(x)["receipt"] = Over(Moved2(x)["receipt"], LegacyRows["receipt"])
      /\ \A u \in TableNames : u # "receipt" => Moved3(x)[u] = Moved2(x)[u]
  BY <1>2, Kinds, CopiedOK DEF Moved3
<1>4. Moved4(x) \in Rows /\ Moved4(x)["daily"] = Over(Moved3(x)["daily"], LegacyRows["daily"])
      /\ \A u \in TableNames : u # "daily" => Moved4(x)[u] = Moved3(x)[u]
  BY <1>3, Kinds, CopiedOK DEF Moved4
<1>5. Moved5(x) \in Rows /\ Moved5(x).migrated # <<>> /\ Kept(Moved5(x), Moved4(x), TableNames \ {"migrated"})
  BY <1>4, MarkedOK DEF Moved5
<1> QED BY <1>1, <1>2, <1>3, <1>4, <1>5 DEF Kept, TableNames

LEMMA AppendOK ==
  ASSUME NEW c \in Seq(Rows), NEW x \in Rows
  PROVE  /\ Append(c, x) \in Seq(Rows) /\ Len(Append(c, x)) > 0 /\ Last(Append(c, x)) = x
         /\ \A i \in DOMAIN Append(c, x) : (i \in DOMAIN c /\ Append(c, x)[i] = c[i]) \/ Append(c, x)[i] = x
BY DEF Last

LEMMA CopyTableOK ==
  ASSUME NEW c \in Seq(Rows), Len(c) > 0
  PROVE  /\ \A t \in TableNames : CopyTable(c, t) = Append(c, Copied(Last(c), t))
         /\ Mark(c) = Append(c, Marked(Last(c)))
<1>1. Last(c) \in Rows
  BY DEF Last
<1>2. DOMAIN Last(c) = TableNames
  BY <1>1 DEF Rows, Tables, TableNames
<1> QED BY <1>2 DEF CopyTable, Copied, Mark, Marked, TableNames

LEMMA CopyStep ==
  ASSUME NEW c \in Seq(Rows), Len(c) > 0, NEW t \in TableNames, NEW z \in Rows, z = Copied(Last(c), t)
  PROVE  LET d == CopyTable(c, t)
         IN  d = Append(c, z) /\ d \in Seq(Rows) /\ Len(d) > 0 /\ Last(d) = z
<1>1. CopyTable(c, t) = Append(c, z)
  BY CopyTableOK
<1>2. Append(c, z) \in Seq(Rows) /\ Len(Append(c, z)) > 0 /\ Last(Append(c, z)) = z
  BY AppendOK
<1> QED BY <1>1, <1>2

LEMMA SplitOK ==
  ASSUME NEW c \in Seq(Rows), Len(c) > 0
  PROVE  LET x == Last(c)
         IN  /\ x \in Rows
             /\ Split(c) = Append(Append(Append(Append(Append(c, Moved1(x)), Moved2(x)),
                                                Moved3(x)), Moved4(x)), Moved5(x))
             /\ Split(c) \in Seq(Rows) /\ Len(Split(c)) > 0 /\ Last(Split(c)) = Moved5(x)
<1> DEFINE x == Last(c)
           c1 == CopyTable(c, "ledger")
           c2 == CopyTable(c1, "agg")
           c3 == CopyTable(c2, "receipt")
           c4 == CopyTable(c3, "daily")
<1>1. x \in Rows
  BY DEF Last
<1>2. /\ Moved1(x) \in Rows /\ Moved2(x) \in Rows /\ Moved3(x) \in Rows /\ Moved4(x) \in Rows
      /\ Moved5(x) \in Rows
  BY <1>1, MovedOK
<1>3. Split(c) = Mark(c4)
  BY DEF Split
<1>4. c1 = Append(c, Moved1(x)) /\ c1 \in Seq(Rows) /\ Len(c1) > 0 /\ Last(c1) = Moved1(x)
  <2>1. Moved1(x) = Copied(Last(c), "ledger") /\ "ledger" \in TableNames
    BY DEF Moved1, TableNames
  <2> QED BY <1>2, <2>1, CopyStep
<1> HIDE DEF c1, x
<1>5. c2 = Append(c1, Moved2(x)) /\ c2 \in Seq(Rows) /\ Len(c2) > 0 /\ Last(c2) = Moved2(x)
  <2>1. Moved2(x) = Copied(Last(c1), "agg") /\ "agg" \in TableNames
    BY <1>4 DEF Moved2, TableNames
  <2> QED BY <1>2, <1>4, <2>1, CopyStep
<1> HIDE DEF c2
<1>6. c3 = Append(c2, Moved3(x)) /\ c3 \in Seq(Rows) /\ Len(c3) > 0 /\ Last(c3) = Moved3(x)
  <2>1. Moved3(x) = Copied(Last(c2), "receipt") /\ "receipt" \in TableNames
    BY <1>5 DEF Moved3, TableNames
  <2> QED BY <1>2, <1>5, <2>1, CopyStep
<1> HIDE DEF c3
<1>7. c4 = Append(c3, Moved4(x)) /\ c4 \in Seq(Rows) /\ Len(c4) > 0 /\ Last(c4) = Moved4(x)
  <2>1. Moved4(x) = Copied(Last(c3), "daily") /\ "daily" \in TableNames
    BY <1>6 DEF Moved4, TableNames
  <2> QED BY <1>2, <1>6, <2>1, CopyStep
<1> HIDE DEF c4
<1>8. Mark(c4) = Append(c4, Moved5(x)) /\ Mark(c4) \in Seq(Rows) /\ Len(Mark(c4)) > 0
      /\ Last(Mark(c4)) = Moved5(x)
  <2>1. Mark(c4) = Append(c4, Marked(Last(c4)))
    BY <1>7, CopyTableOK
  <2>2. Marked(Last(c4)) = Moved5(x)
    BY <1>7 DEF Moved5
  <2>3. Mark(c4) = Append(c4, Moved5(x))
    BY <2>1, <2>2
  <2> DEFINE z == Moved5(x)
             e == Append(c4, z)
  <2>4. z \in Rows /\ c4 \in Seq(Rows)
    BY <1>2, <1>7
  <2> HIDE DEF z
  <2>5. e \in Seq(Rows) /\ Len(e) > 0 /\ Last(e) = z
    BY <2>4, AppendOK
  <2> HIDE DEF e
  <2> QED BY <2>3, <2>5 DEF e, z
<1> QED BY <1>1, <1>3, <1>4, <1>5, <1>6, <1>7, <1>8 DEF x

LEMMA OpenedOK ==
  ASSUME NEW c \in Seq(Rows), Len(c) > 0
  PROVE  /\ Opened(c) \in Seq(Rows) /\ Len(Opened(c)) > 0 /\ Last(Opened(c)) \in Rows
         /\ Last(Opened(c)).migrated # <<>>
<1>1. CASE Last(c).migrated = <<>>
  <2>1. Opened(c) = Split(c)
    BY <1>1 DEF Opened
  <2>2. Opened(c) \in Seq(Rows) /\ Len(Opened(c)) > 0 /\ Last(Opened(c)) = Moved5(Last(c)) /\ Last(c) \in Rows
    BY <2>1, SplitOK
  <2> QED BY <2>2, MovedOK
<1>2. CASE Last(c).migrated # <<>>
  BY <1>2 DEF Opened, Last
<1> QED BY <1>1, <1>2

LEMMA LoadedOK ==
  ASSUME Typed, NEW x \in Rows
  PROVE  /\ Loaded(x) \in Rows
         /\ Loaded(x).daily = Merged(host.rows.daily, x.daily)
         /\ Kept(Loaded(x), IF host.ready THEN host.rows ELSE x, TableNames \ {"daily"})
<1> DEFINE y == IF host.ready THEN host.rows ELSE x
           m == Merged(host.rows.daily, x.daily)
<1>1. host.rows \in Rows
  BY HostParts DEF Typed, HostOK
<1>2. m \in Map(Days, Nat)
  BY <1>1, RowsParts, MergedOK
<1>3. y \in Rows
  BY <1>1
<1>4. Loaded(x) = [y EXCEPT !.daily = m]
  BY DEF Loaded
<1> HIDE DEF y, m
<1>5. Loaded(x) = [y EXCEPT !["daily"] = m]
  BY <1>4
<1>6. [y EXCEPT !["daily"] = m] \in Rows
  BY <1>2, <1>3, RowsWith
<1>7. [y EXCEPT !["daily"] = m]["daily"] = m
      /\ \A u \in TableNames : u # "daily" => [y EXCEPT !["daily"] = m][u] = y[u]
  BY <1>3, RowsFields DEF TableNames
<1> QED BY <1>5, <1>6, <1>7 DEF Kept, y, m

LEMMA AttachedOK ==
  ASSUME Typed, NEW x \in Rows
  PROVE  /\ Attached(x) \in HostShape /\ Attached(x).rows = x /\ Attached(x).sink /\ Attached(x).ready
         /\ Attached(x).date = 0 /\ Attached(x).refund = 0
<1> DEFINE v == Max({0} \cup Versions(x))
<1>1. v \in Nat /\ host \in HostShape /\ host.refund = 0
  BY VersionOK DEF Typed, HostOK
<1>2. Attached(x) = [host EXCEPT !.rows = x, !.sink = TRUE, !.date = 0, !.ready = TRUE, !.version = v]
  BY DEF Attached
<1> HIDE DEF v
<1>3. 0 \in 0 .. LastDay
  BY Numbers
<1> QED BY <1>1, <1>2, <1>3 DEF HostShape

\* What attaches, before it is rotated.
Joined == [host |-> Attached(Loaded(Last(Opened(chain)))), chain |-> Opened(chain)]

LEMMA JoinedOK ==
  ASSUME Typed
  PROVE  LET c == Opened(chain)
             y == Loaded(Last(c))
         IN  /\ c \in Seq(Rows) /\ Len(c) > 0 /\ Last(c) \in Rows /\ Last(c).migrated # <<>>
             /\ y \in Rows /\ Joined \in States
             /\ Joined.chain = c /\ Joined.host.rows = y /\ Joined.host.sink /\ Joined.host.ready
             /\ Joined.host.date = 0 /\ Joined.host.refund = 0
<1> DEFINE c == Opened(chain)
           y == Loaded(Last(c))
<1>1. c \in Seq(Rows) /\ Len(c) > 0 /\ Last(c) \in Rows /\ Last(c).migrated # <<>>
  BY OpenedOK DEF Typed
<1>2. y \in Rows
  BY <1>1, LoadedOK
<1>3. Joined = [host |-> Attached(y), chain |-> c]
  BY DEF Joined
<1> HIDE DEF c, y
<1>4. /\ Attached(y) \in HostShape /\ Attached(y).rows = y /\ Attached(y).sink /\ Attached(y).ready
      /\ Attached(y).date = 0 /\ Attached(y).refund = 0
  BY <1>2, AttachedOK
<1>5. Joined \in States
  BY <1>1, <1>3, <1>4, StateOf
<1> QED BY <1>1, <1>2, <1>3, <1>4, <1>5 DEF c, y

LEMMA RejoinedOK ==
  ASSUME Typed
  PROVE  Passed(Rotated(Joined), day) /\ Rotated(Joined).host.sink
<1> DEFINE u == Joined
           t == Rotated(u)
<1>1. u \in States /\ u.host.sink /\ u.host.ready /\ u.host.date = 0
  BY JoinedOK
<1>2. day \in Days /\ day # 0
  BY DEF Typed, Days
<1> HIDE DEF u
<1>3. t \in States /\ HostOK(t.host) /\ t.host.date = day /\ t.host.sink
  BY <1>1, <1>2, RotatedOK
<1>4. Len(t.chain) > 0
  BY <1>3, StateParts
<1> QED BY <1>3, <1>4 DEF Passed, u

LEMMA AttachTyped ==
  ASSUME Typed, AttachPersistence
  PROVE  Typed'
<1>1. Becomes(Rotated(Joined)) /\ day' = day
  BY DEF AttachPersistence, Joined
<1>2. faults' \subseteq {"crash", "late"}
  BY DEF AttachPersistence, Typed
<1> QED BY <1>1, <1>2, RejoinedOK, BecomesTyped

LEMMA MemoryTyped ==
  ASSUME Typed, MarkReadyMemoryOnly
  PROVE  Typed'
<1> DEFINE h == [host EXCEPT !.ready = TRUE]
           s == [host |-> h, chain |-> chain]
<1>1. host \in HostShape /\ host.refund = 0 /\ HostOK(host) /\ chain \in Seq(Rows) /\ Len(chain) > 0
  BY DEF Typed, HostOK
<1>2. /\ h \in HostShape /\ h.ready /\ h.rows = host.rows /\ h.date = host.date /\ h.sink = host.sink
      /\ h.spent = host.spent /\ h.refund = 0
  BY <1>1 DEF HostShape
<1>3. Becomes(s) /\ day' = day /\ faults' = faults
  BY DEF MarkReadyMemoryOnly
<1>4. s.host = h /\ s.chain = chain
  OBVIOUS
<1> HIDE DEF h, s
<1>5. HostOK(h)
  BY <1>1, <1>2 DEF HostOK
<1>6. host' = [h EXCEPT !.refund = 0] /\ chain' = chain
      /\ refunded' = [refunded EXCEPT ![day] = @ + h.refund]
  BY <1>3, <1>4 DEF Becomes
<1>7. [h EXCEPT !.refund = 0] = h
  BY <1>2 DEF HostShape
<1>8. refunded' = refunded
  <2>1. refunded \in [Days -> Nat] /\ day \in Days
    BY DEF Typed
  <2> QED BY <1>2, <1>6, <2>1
<1> QED BY <1>1, <1>2, <1>3, <1>5, <1>6, <1>7, <1>8 DEF Typed

LEMMA NewHostOK ==
  /\ [host |-> NewHost, chain |-> <<>>] \in States
  /\ NewHost.rows = NoRows /\ ~ NewHost.sink /\ ~ NewHost.ready /\ NewHost.date = 0 /\ NewHost.refund = 0
  /\ DOMAIN NoRows.ledger = {} /\ DOMAIN NoRows.daily = {} /\ DOMAIN NoRows.agg = {}
<1>1. NewHost \in HostShape
  BY EmptyRows, NoVotesOK, Numbers DEF NewHost, HostShape
<1>2. ~ NewHost.sink
  BY DEF NewHost
<1>3. <<>> \in Seq(Rows)
  OBVIOUS
<1> QED BY <1>1, <1>2, <1>3, StateOf, NoMap DEF NewHost, NoRows

\* A process that has just started.
LEMMA ConstructedOK ==
  ASSUME day \in Days
  PROVE  HostOK(Constructed) /\ Constructed.date = day /\ Constructed.refund = 0
         /\ ~ Constructed.sink /\ ~ Constructed.ready
<1> DEFINE u == [host |-> NewHost, chain |-> <<>>]
<1>1. /\ u \in States /\ u.host.rows = NoRows /\ ~ u.host.sink /\ ~ u.host.ready
      /\ u.host.date = 0 /\ u.host.refund = 0
      /\ DOMAIN u.host.rows.ledger = {} /\ DOMAIN u.host.rows.daily = {}
  BY NewHostOK
<1>2. Constructed = Rotated(u).host
  BY DEF Constructed
<1> HIDE DEF u
<1>3. day # 0
  BY DEF Days
<1> QED BY <1>1, <1>2, <1>3, RotatedOK

LEMMA CrashTyped ==
  ASSUME Typed, NEW i \in DOMAIN chain, Crash(i)
  PROVE  Typed'
<1>1. chain[i] \in Rows
  BY DEF Typed
<1>2. chain' = <<chain[i]>> /\ host' = Constructed /\ day' = day /\ refunded' = refunded
      /\ faults' \subseteq {"crash", "late"}
  BY DEF Crash, Typed
<1>3. chain' \in Seq(Rows) /\ Len(chain') > 0
  BY <1>1, <1>2
<1>4. HostOK(host') /\ host'.date = day /\ host'.refund = 0
  BY <1>2, ConstructedOK DEF Typed
<1> QED BY <1>2, <1>3, <1>4 DEF Typed, Days

LEMMA InitTyped ==
  ASSUME Init
  PROVE  Typed
<1>1. day = 1 /\ day \in Days
  BY Numbers DEF Init, Days
<1>2. HostOK(host) /\ host.date = day /\ host.refund = 0
  BY <1>1, ConstructedOK DEF Init
<1>3. PICK m \in {<<>>, [m \in {1} |-> TRUE]} : chain = <<[NoRows EXCEPT !.migrated = m]>>
  BY DEF Init
<1>4. [NoRows EXCEPT !.migrated = m] \in Rows
  <2>1. CASE m = <<>>
    BY <2>1, EmptyRows DEF NoRows
  <2>2. CASE m = [m_1 \in {1} |-> TRUE]
    <3>1. Marked(NoRows) = [NoRows EXCEPT !.migrated = m]
      BY <2>2 DEF Marked
    <3> QED BY <3>1, EmptyRows, MarkedOK
  <2> QED BY <1>3, <2>1, <2>2
<1>5. chain \in Seq(Rows) /\ Len(chain) > 0
  BY <1>3, <1>4
<1>6. refunded \in [Days -> Nat] /\ faults \subseteq {"crash", "late"}
  BY DEF Init
<1> QED BY <1>1, <1>2, <1>5, <1>6 DEF Typed

LEMMA TypedStep ==
  ASSUME Typed, [Next]_vars
  PROVE  Typed'
<1>1. CASE UNCHANGED vars
  BY <1>1 DEF vars, Typed
<1>2. CASE Next
  BY <1>2, CreditTyped, LookTyped, CycleTyped, MidnightTyped, VoteTyped, AttachTyped, MemoryTyped,
     CrashTyped DEF Next
<1> QED BY <1>1, <1>2
-----------------------------------------------------------------------------
LEMMA TypedInvariant == Spec => []Typed
<1>1. Init => Typed
  BY InitTyped
<1>2. Typed /\ [Next]_vars => Typed'
  BY TypedStep
<1> QED BY <1>1, <1>2, PTL DEF Spec

LEMMA TypedShape ==
  ASSUME Typed
  PROVE  TypeOK
<1>1. host \in HostShape /\ day \in Days
  BY DEF Typed, HostOK
<1>2. /\ host.rows.agg \in Map(Case, Votes) /\ host.rows.index \in Map(Days, 0 .. Cases - 1)
      /\ host.case \in 0 .. Cases - 1 /\ host.spent \in Nat
  BY <1>1, HostParts, RowsParts
<1>3. DOMAIN host.rows.agg \subseteq Case /\ host.rows.agg \in [DOMAIN host.rows.agg -> Votes]
  BY <1>2, MapParts
<1>4. DOMAIN host.rows.index \subseteq Days
  <2> DEFINE V == 0 .. Cases - 1
  <2> HIDE DEF V
  <2>1. host.rows.index \in Map(Days, V)
    BY <1>2 DEF V
  <2> QED BY <2>1, MapValues
<1>5. Votes \subseteq [votes : Nat, voters : Nat]
  BY DEF Votes
<1>6. host.rows.agg \in [DOMAIN host.rows.agg -> [votes : Nat, voters : Nat]]
  BY <1>3, <1>5
<1>7. host.date \in 0 .. day
  BY DEF Typed, Days
<1> QED BY <1>2, <1>3, <1>4, <1>6, <1>7 DEF Typed, TypeOK

\* The shape of the state, whatever was lost, merged or rotated.
THEOREM TypeInvariant == Spec => []TypeOK
<1>1. Typed => TypeOK
  BY TypedShape
<1> QED BY <1>1, TypedInvariant, PTL

\* Every row that the process has queued is one that its schema takes.
LEMMA RowsRead ==
  ASSUME NEW x \in Rows
  PROVE  RowsAccepted(x)
<1>1. /\ x.daily \in Map(Days, Nat) /\ x.ledger \in Map(Days, Nat)
      /\ x.agg \in Map(Case, Votes) /\ x.receipt \in Map(Requests, Spending)
      /\ x.days \in Map(Days, DayRow)
      /\ x.periods \in Map(Periods, SealRow) /\ Keyed(x.periods)
  BY RowsParts
<1>2. CountsAccepted(x)
  <2>1. \A c \in DOMAIN x.agg : x.agg[c] \in Votes
    BY <1>1, MapValues
  <2>2. (\A d \in DOMAIN x.daily : x.daily[d] \in Nat) /\ (\A d \in DOMAIN x.ledger : x.ledger[d] \in Nat)
    BY <1>1, MapValues
  <2> QED BY <2>1, <2>2 DEF CountsAccepted, Votes
<1>3. \A r \in DOMAIN x.receipt : ReceiptAccepted(x.receipt[r])
  <2>1. \A r \in DOMAIN x.receipt : x.receipt[r] \in Spending
    BY <1>1, MapValues
  <2> QED BY <2>1 DEF Spending, ReceiptAccepted
<1>4. \A d \in DOMAIN x.index : x.index[d] \in Nat
  <2> DEFINE V == 0 .. Cases - 1
  <2>1. \A n \in V : n \in Nat
    BY Numbers
  <2>2. x.index \in Map(Days, V)
    BY RowsParts
  <2> HIDE DEF V
  <2>3. \A d \in DOMAIN x.index : x.index[d] \in V
    BY <2>2, MapValues
  <2> QED BY <2>1, <2>3
<1>5. \A d \in DOMAIN x.days : DayAccepted(x.days[d])
  <2>1. \A d \in DOMAIN x.days : x.days[d] \in DayRow
    BY <1>1, MapValues
  <2> QED BY <2>1 DEF DayRow, DayAccepted, ArchiveResult
<1>6. \A p \in DOMAIN x.periods : PeriodAccepted(p, x.periods[p])
  <2>1. \A p \in DOMAIN x.periods : x.periods[p] \in SealRow
    BY <1>1, MapValues
  <2> QED BY <1>1, <2>1 DEF SealRow, PeriodAccepted, ArchiveResult, Keyed
<1> QED BY <1>2, <1>3, <1>4, <1>5, <1>6 DEF RowsAccepted

\* A day's spend never passes what the day has earned, and a case has no more voters than votes.
LEMMA FrameRead ==
  ASSUME NEW g, HostOK(g)
  PROVE  StateAccepted(Frame(g.date, g))
<1> DEFINE e == Get(g.rows.daily, g.date, 0)
           w == Frame(g.date, g)
<1>1. g.open \in Votes /\ g.spent \in Nat /\ g.rows \in Rows
  BY HostParts DEF HostOK
<1>2. e \in Nat
  BY <1>1, RowsParts, GetParts
<1>3. g.open.votes \in Nat /\ g.open.voters \in Nat /\ g.open.voters <= g.open.votes
  BY <1>1, VoteParts
<1>4. g.spent <= e + Starter
  BY DEF HostOK
<1> DEFINE E == e + Starter
           frame == [up |-> g.open.votes, down |-> 0, voters |-> g.open.voters, tokens |-> E,
                 used |-> g.spent, remaining |-> E - g.spent, perStick |-> 1]
<1>5. w = frame
  BY ZenonT(20) DEF Frame
<1> HIDE DEF w, e, E
<1>6. DOMAIN w = {"up", "down", "voters", "tokens", "used", "remaining", "perStick"}
  BY <1>5
<1>7. E \in Nat /\ E - g.spent \in Nat /\ E \div 1 = E /\ g.spent <= E
  BY <1>1, <1>2, <1>4, Numbers DEF E
<1>8. \A f \in DOMAIN w \ {"policy"} : w[f] \in Nat
  BY <1>1, <1>3, <1>5, <1>6, <1>7
<1>9. KnownPolicy(w)
  BY <1>6 DEF KnownPolicy
<1>10. w.voters <= w.up + w.down /\ w.perStick > 0 /\ w.used <= w.tokens \div w.perStick
  BY <1>1, <1>3, <1>5, <1>7
<1> QED BY <1>8, <1>9, <1>10 DEF StateAccepted, w

\* Every frame the process can serve is one the browser reads, and every row it has queued
\* is one that the next start can open, whatever was lost, merged or rotated
\* (fake-service.ts:572-638, incense.ts:49-54, wire.ts:254-272, storage.ts:9-11).
THEOREM Readable == Spec => []StaysReadable
<1>1. Typed => StaysReadable
  <2> SUFFICES ASSUME Typed PROVE StaysReadable
    OBVIOUS
  <2>1. Last(chain) \in Rows
    BY DEF Typed, Last
  <2>2. HostOK(host)
    BY DEF Typed
  <2> QED BY <2>1, <2>2, FrameRead, RowsRead DEF StaysReadable
<1> QED BY <1>1, TypedInvariant, PTL
-----------------------------------------------------------------------------
(* The books: what a row adds to a day's receipts and votes. *)

Tally(agg, d)    == SumFunctionOnSet([c \in DOMAIN agg |-> agg[c].votes], {c \in DOMAIN agg : c[1] = d})
Slips(receipt, d) ==
  SumFunctionOnSet([r \in DOMAIN receipt |-> receipt[r].spent], {r \in DOMAIN receipt : receipt[r].case[1] = d})

LEMMA BooksOf ==
  ASSUME NEW x, NEW d
  PROVE  VotesOn(x, d) = Tally(x.agg, d) /\ Receipts(x, d) = Slips(x.receipt, d)
BY DEF VotesOn, Total, CasesOn, Tally, Receipts, Slips

LEMMA SlipsOK ==
  ASSUME NEW f \in Map(Requests, Spending), NEW d
  PROVE  /\ Slips(f, d) \in Nat
         /\ IsFiniteSet({r \in DOMAIN f : f[r].case[1] = d})
         /\ \A r \in DOMAIN f : f[r].spent \in Nat
<1> DEFINE S == {r \in DOMAIN f : f[r].case[1] = d}
           g == [r \in DOMAIN f |-> f[r].spent]
<1>1. IsFiniteSet(DOMAIN f) /\ \A r \in DOMAIN f : f[r] \in Spending
  BY MapValues
<1>2. S \subseteq DOMAIN f /\ \A r \in DOMAIN f : f[r].spent \in Nat
  BY <1>1 DEF Spending
<1>3. IsFiniteSet(S)
  <2> HIDE DEF S
  <2> QED BY <1>1, <1>2, FS_Subset
<1>4. \A r \in S : g[r] \in Nat
  BY <1>2
<1>5. Slips(f, d) = SumFunctionOnSet(g, S)
  BY DEF Slips
<1> HIDE DEF g, S
<1>6. Slips(f, d) \in Nat
  BY <1>3, <1>4, <1>5, SumType
<1> QED BY <1>2, <1>3, <1>6 DEF S

\* A new receipt adds what it spent to its day.
LEMMA SlipAdded ==
  ASSUME NEW f \in Map(Requests, Spending), NEW r \in Requests, r \notin DOMAIN f,
         NEW found \in Spending, NEW d
  PROVE  Slips(With(f, r, found), d) = Slips(f, d) + (IF found.case[1] = d THEN found.spent ELSE 0)
<1> DEFINE h == With(f, r, found)
           S == {k \in DOMAIN f : f[k].case[1] = d}
           T == {k \in DOMAIN h : h[k].case[1] = d}
           g == [k \in DOMAIN f |-> f[k].spent]
           e == [k \in DOMAIN h |-> h[k].spent]
<1>1. /\ h \in Map(Requests, Spending) /\ DOMAIN h = DOMAIN f \cup {r} /\ h[r] = found
      /\ \A k \in DOMAIN f : k # r => h[k] = f[k]
  <2> HIDE DEF S, T, g, e
  <2>1. h \in Map(Requests, Spending)
    BY WithParts
  <2> QED BY <2>1 DEF With
<1>2. IsFiniteSet(S) /\ \A k \in DOMAIN f : f[k].spent \in Nat
  BY SlipsOK
<1>3. Slips(f, d) = SumFunctionOnSet(g, S) /\ Slips(h, d) = SumFunctionOnSet(e, T)
  BY DEF Slips
<1>4. found.spent \in Nat
  BY DEF Spending
<1> HIDE DEF h
<1>5. /\ \A k \in S : g[k] \in Nat /\ g[k] = e[k]
      /\ r \notin S /\ e[r] = found.spent
      /\ T = IF found.case[1] = d THEN S \cup {r} ELSE S
  BY <1>1, <1>2
<1> HIDE DEF g, e, S, T
<1>6. SumFunctionOnSet(g, S) = SumFunctionOnSet(e, S)
  <2>1. \A k \in S : g[k] \in Int /\ g[k] = e[k]
    BY <1>5
  <2> QED BY <1>2, <2>1, SumSame
<1>7. CASE found.case[1] = d
  <2>1. \A k \in S \cup {r} : e[k] \in Int
    BY <1>4, <1>5
  <2>2. SumFunctionOnSet(e, S \cup {r}) = SumFunctionOnSet(e, S) + e[r]
    <3>1. IsFiniteSet(S) /\ r \notin S
      BY <1>2, <1>5
    <3> QED BY <2>1, <3>1, SumAdd
  <2>3. SumFunctionOnSet(e, T) = SumFunctionOnSet(e, S) + found.spent
    BY <1>5, <1>7, <2>2
  <2> QED BY <1>3, <1>6, <1>7, <2>3 DEF h
<1>8. CASE found.case[1] # d
  <2>1. SumFunctionOnSet(e, T) = SumFunctionOnSet(e, S)
    BY <1>5, <1>8
  <2>2. SumFunctionOnSet(g, S) \in Nat
    BY <1>2, <1>5, SumType
  <2> QED BY <1>3, <1>6, <1>8, <2>1, <2>2 DEF h
<1> QED BY <1>7, <1>8

LEMMA TallyOK ==
  ASSUME NEW f \in Map(Case, Votes), NEW d
  PROVE  /\ Tally(f, d) \in Nat
         /\ IsFiniteSet({c \in DOMAIN f : c[1] = d})
         /\ \A c \in DOMAIN f : f[c].votes \in Nat
<1> DEFINE S == {c \in DOMAIN f : c[1] = d}
           g == [c \in DOMAIN f |-> f[c].votes]
<1>1. IsFiniteSet(DOMAIN f) /\ \A c \in DOMAIN f : f[c] \in Votes
  BY MapValues
<1>2. S \subseteq DOMAIN f /\ \A c \in DOMAIN f : f[c].votes \in Nat
  BY <1>1, VoteParts
<1>3. IsFiniteSet(S)
  <2> HIDE DEF S
  <2> QED BY <1>1, <1>2, FS_Subset
<1>4. \A c \in S : g[c] \in Nat
  BY <1>2
<1>5. Tally(f, d) = SumFunctionOnSet(g, S)
  BY DEF Tally
<1> HIDE DEF g, S
<1>6. Tally(f, d) \in Nat
  BY <1>3, <1>4, <1>5, SumType
<1> QED BY <1>2, <1>3, <1>6 DEF S

\* A case written anew moves its day's votes by what it gained.
LEMMA TallyMoved ==
  ASSUME NEW f \in Map(Case, Votes), NEW c \in Case, NEW o \in Votes, NEW d
  PROVE  Tally(With(f, c, o), d)
           = Tally(f, d) + (IF c[1] = d THEN o.votes - Get(f, c, NoVotes).votes ELSE 0)
<1> DEFINE h == With(f, c, o)
           S == {k \in DOMAIN f : k[1] = d}
           T == {k \in DOMAIN h : k[1] = d}
           g == [k \in DOMAIN f |-> f[k].votes]
           e == [k \in DOMAIN h |-> h[k].votes]
           old == Get(f, c, NoVotes).votes
<1>1. /\ h \in Map(Case, Votes) /\ DOMAIN h = DOMAIN f \cup {c} /\ h[c] = o
      /\ \A k \in DOMAIN f : k # c => h[k] = f[k]
  <2> HIDE DEF S, T, g, e, old
  <2>1. h \in Map(Case, Votes)
    BY WithParts
  <2> QED BY <2>1 DEF With
<1>2. IsFiniteSet(S) /\ (\A k \in DOMAIN f : f[k].votes \in Nat) /\ Tally(f, d) \in Nat
  BY TallyOK
<1>3. Tally(f, d) = SumFunctionOnSet(g, S) /\ Tally(h, d) = SumFunctionOnSet(e, T)
  BY DEF Tally
<1>4. o.votes \in Nat
  BY VoteParts
<1>5. (c \in DOMAIN f => old = g[c]) /\ (c \notin DOMAIN f => old = 0)
  BY DEF Get, NoVotes
<1> HIDE DEF h, old
<1>6. /\ \A k \in S : g[k] \in Nat /\ e[k] \in Nat
      /\ \A k \in S \ {c} : g[k] = e[k]
      /\ e[c] = o.votes /\ T = (IF c[1] = d THEN S \cup {c} ELSE S)
      /\ (c \in S <=> c \in DOMAIN f /\ c[1] = d)
  BY <1>1, <1>2, <1>4
<1> HIDE DEF g, e, S, T
<1>7. CASE c[1] # d
  <2>1. \A k \in S : g[k] \in Int /\ g[k] = e[k]
    BY <1>6, <1>7
  <2>2. SumFunctionOnSet(g, S) = SumFunctionOnSet(e, S)
    BY <1>2, <2>1, SumSame
  <2>3. Tally(h, d) = Tally(f, d)
    BY <1>3, <1>6, <1>7, <2>2
  <2> QED BY <1>2, <1>7, <2>3 DEF h
<1>8. CASE c[1] = d /\ c \in DOMAIN f
  <2>1. c \in S /\ T = S
    BY <1>6, <1>8
  <2>2. \A k \in S : g[k] \in Int /\ e[k] \in Int
    BY <1>6
  <2>3. SumFunctionOnSet(e, S) = SumFunctionOnSet(g, S) + e[c] - g[c]
    <3>1. IsFiniteSet(S) /\ c \in S /\ \A k \in S \ {c} : g[k] = e[k]
      BY <1>2, <1>6, <2>1
    <3> QED BY <2>2, <3>1, SumChanged
  <2>4. Tally(h, d) = Tally(f, d) + o.votes - old
    BY <1>3, <1>5, <1>6, <1>8, <2>1, <2>3
  <2>5. old \in Nat
    BY <1>5, <1>6, <1>8, <2>1
  <2> QED BY <1>2, <1>4, <1>8, <2>4, <2>5 DEF h, old
<1>9. CASE c[1] = d /\ c \notin DOMAIN f
  <2>1. c \notin S /\ T = S \cup {c}
    BY <1>6, <1>9
  <2>2. \A k \in S : g[k] \in Int /\ g[k] = e[k]
    BY <1>6, <2>1
  <2>3. SumFunctionOnSet(g, S) = SumFunctionOnSet(e, S)
    BY <1>2, <2>2, SumSame
  <2>4. \A k \in S \cup {c} : e[k] \in Int
    BY <1>4, <1>6
  <2>5. SumFunctionOnSet(e, S \cup {c}) = SumFunctionOnSet(e, S) + e[c]
    BY <1>2, <2>1, <2>4, SumAdd
  <2>6. Tally(h, d) = Tally(f, d) + o.votes
    BY <1>3, <1>6, <2>1, <2>3, <2>5
  <2> QED BY <1>2, <1>4, <1>5, <1>9, <2>6 DEF h, old
<1> QED BY <1>7, <1>8, <1>9
-----------------------------------------------------------------------------
(* What holds of every image of the local domain, and what of the last one. *)

\* Receipts are backed by votes, and votes by sticks of the ledger or sticks given back.
Backed(x, gave) ==
  \A d \in Days : /\ Slips(x.receipt, d) <= Tally(x.agg, d)
                  /\ Tally(x.agg, d) <= Get(x.ledger, d, 0) + gave[d]

\* To the stick.
Balanced(x, gave) ==
  \A d \in Days : /\ Slips(x.receipt, d) = Tally(x.agg, d)
                  /\ Tally(x.agg, d) = Get(x.ledger, d, 0) + gave[d]

\* What is archived is over and archived right, and a sealed period leaves no date out.
Filed(x, now) ==
  /\ \A d \in DOMAIN x.days : d \in DatesIn(x) /\ d < now /\ x.days[d].votes = Tally(x.agg, d)
  /\ \A p \in DOMAIN x.periods :
       /\ EndOf(p) < now
       /\ x.periods[p].covered = Covered(x, p)
       /\ x.periods[p].votes = SumFunctionOnSet(DayVotes(x), Covered(x, p))
       /\ \A d \in DatesIn(x) : PeriodOf(d) = p => d \in DOMAIN x.days

Past(x, now) == {d \in DatesIn(x) : d < now}

\* Nothing that is over is left to archive.
Complete(x, now) ==
  /\ DOMAIN x.days = Past(x, now)
  /\ \A p \in DOMAIN x.periods : EndOf(p) < now
  /\ \A d \in DOMAIN x.days : EndOf(PeriodOf(d)) < now => PeriodOf(d) \in DOMAIN x.periods

\* The copy of what v0.8.1 left, at any of its steps.
Copying(x) ==
  /\ x.days = <<>> /\ x.periods = <<>>
  /\ x.ledger \in {<<>>, LegacyRows.ledger} /\ x.agg \in {<<>>, LegacyRows.agg}
  /\ x.receipt \in {<<>>, LegacyRows.receipt}
  /\ x.agg # <<>> => x.ledger # <<>>
  /\ x.receipt # <<>> => x.agg # <<>>

Image(x, gave, now) == Backed(x, gave) /\ Filed(x, now) /\ (x.migrated = <<>> => Copying(x))

Gifts == [Days -> Nat]

LEMMA PeriodEnds ==
  /\ \A d \in Days : d \in Nat /\ PeriodOf(d) \in Nat /\ d <= EndOf(PeriodOf(d)) /\ EndOf(PeriodOf(d)) \in Nat
  /\ \A p \in Periods : p \in Nat /\ EndOf(p) \in Nat
<1>1. ASSUME NEW d \in Days
      PROVE  d \in Nat /\ PeriodOf(d) \in Nat /\ d <= EndOf(PeriodOf(d)) /\ EndOf(PeriodOf(d)) \in Nat
  <2>1. d \in Nat /\ d - 1 \in Nat /\ Span \in Nat /\ Span > 0
    BY Numbers DEF Days
  <2> DEFINE q == (d - 1) \div Span
             r == (d - 1) % Span
  <2>2. q \in Nat /\ r \in Nat /\ r < Span /\ d - 1 = Span * q + r
    BY <2>1
  <2>3. (q + 1) * Span = Span * q + Span
    <3> HIDE DEF q
    <3> QED BY <2>1, <2>2
  <2>4. Span * q \in Nat
    <3> HIDE DEF q
    <3> QED BY <2>1, <2>2
  <2>5. PeriodOf(d) = q /\ EndOf(PeriodOf(d)) = (q + 1) * Span
    BY DEF PeriodOf, EndOf
  <2> HIDE DEF q, r
  <2> DEFINE m == Span * q
  <2> HIDE DEF m
  <2>6. d - 1 = m + r /\ EndOf(PeriodOf(d)) = m + Span /\ m \in Nat
    BY <2>2, <2>3, <2>4, <2>5 DEF m
  <2> QED BY <2>1, <2>2, <2>5, <2>6
<1> QED BY <1>1 DEF Periods

LEMMA Domains ==
  ASSUME NEW x \in Rows
  PROVE  /\ DOMAIN x.days \subseteq Days /\ DOMAIN x.periods \subseteq Periods
         /\ DatesIn(x) \subseteq Days
         /\ \A d : d \in DatesIn(x) <=> \E c \in DOMAIN x.agg : c[1] = d
<1>1. DOMAIN x.days \subseteq Days /\ DOMAIN x.periods \subseteq Periods
  BY RowsParts, MapValues
<1> QED BY <1>1, DatesOK DEF DatesIn

LEMMA BooksOK ==
  ASSUME NEW x \in Rows, NEW d
  PROVE  Slips(x.receipt, d) \in Nat /\ Tally(x.agg, d) \in Nat /\ Get(x.ledger, d, 0) \in Nat
BY RowsParts, SlipsOK, TallyOK, GetParts

\* More given back backs what was backed.
LEMMA BackedMore ==
  ASSUME NEW x \in Rows, NEW gave \in Gifts, NEW more \in Gifts, \A d \in Days : gave[d] <= more[d],
         Backed(x, gave)
  PROVE  Backed(x, more)
<1> SUFFICES ASSUME NEW d \in Days
             PROVE  /\ Slips(x.receipt, d) <= Tally(x.agg, d)
                    /\ Tally(x.agg, d) <= Get(x.ledger, d, 0) + more[d]
  BY DEF Backed
<1>1. /\ Slips(x.receipt, d) <= Tally(x.agg, d)
      /\ Tally(x.agg, d) <= Get(x.ledger, d, 0) + gave[d] /\ gave[d] <= more[d]
  BY DEF Backed
<1>2. gave[d] \in Nat /\ more[d] \in Nat
  BY DEF Gifts
<1> QED BY <1>1, <1>2, BooksOK

LEMMA FiledLater ==
  ASSUME NEW x \in Rows, NEW now \in Nat, NEW later \in Nat, now <= later, Filed(x, now)
  PROVE  Filed(x, later)
<1>1. \A d \in DOMAIN x.days : d \in Nat
  BY Domains, PeriodEnds
<1>2. \A p \in DOMAIN x.periods : EndOf(p) \in Nat
  BY Domains, PeriodEnds
<1> QED BY <1>1, <1>2 DEF Filed

LEMMA ImageLater ==
  ASSUME NEW x \in Rows, NEW gave \in Gifts, NEW more \in Gifts, \A d \in Days : gave[d] <= more[d],
         NEW now \in Nat, NEW later \in Nat, now <= later, Image(x, gave, now)
  PROVE  Image(x, more, later)
BY BackedMore, FiledLater DEF Image

Booked == {"ledger", "agg", "receipt", "days", "periods"}

\* The other tables do not matter.
LEMMA SameBooks ==
  ASSUME NEW x, NEW y, Kept(y, x, Booked)
  PROVE  /\ DatesIn(y) = DatesIn(x) /\ DayVotes(y) = DayVotes(x)
         /\ \A p : Covered(y, p) = Covered(x, p)
         /\ \A gave : (Backed(x, gave) => Backed(y, gave)) /\ (Balanced(x, gave) => Balanced(y, gave))
         /\ \A now : (Filed(x, now) => Filed(y, now)) /\ (Complete(x, now) => Complete(y, now))
<1>1. /\ y.ledger = x.ledger /\ y.agg = x.agg /\ y.receipt = x.receipt
      /\ y.days = x.days /\ y.periods = x.periods
  BY DEF Kept, Booked
<1>2. DatesIn(y) = DatesIn(x)
  BY <1>1 DEF DatesIn
<1>3. DayVotes(y) = DayVotes(x)
  BY <1>1 DEF DayVotes
<1>4. \A p : Covered(y, p) = Covered(x, p)
  BY <1>1 DEF Covered
<1>5. \A gave : Backed(x, gave) => Backed(y, gave)
  BY <1>1 DEF Backed
<1>6. \A gave : Balanced(x, gave) => Balanced(y, gave)
  BY <1>1 DEF Balanced
<1>7. \A now : Filed(x, now) => Filed(y, now)
  BY <1>1, <1>2, <1>3, <1>4 DEF Filed
<1>8. \A now : Complete(x, now) => Complete(y, now)
  BY <1>1, <1>2 DEF Complete, Past
<1> QED BY <1>2, <1>3, <1>4, <1>5, <1>6, <1>7, <1>8

\* A case written on a date that no archive covers yet.
LEMMA FiledAgg ==
  ASSUME NEW x \in Rows, NEW y \in Rows, NEW c \in Case, NEW o \in Votes,
         y.agg = With(x.agg, c, o), Kept(y, x, {"days", "periods"}),
         \A d \in DOMAIN x.days : Tally(y.agg, d) = Tally(x.agg, d),
         \A p \in DOMAIN x.periods : EndOf(p) < c[1],
         NEW now, Filed(x, now)
  PROVE  /\ Filed(y, now) /\ DatesIn(y) = DatesIn(x) \cup {c[1]}
         /\ \A at \in Nat : at <= c[1] /\ Complete(x, at) => Complete(y, at)
<1>1. y.days = x.days /\ y.periods = x.periods
  BY DEF Kept
<1>2. DOMAIN y.agg = DOMAIN x.agg \cup {c}
  BY DEF With
<1>3. DatesIn(y) = DatesIn(x) \cup {c[1]}
  BY <1>2 DEF DatesIn
<1>4. DayVotes(y) = DayVotes(x) /\ \A p : Covered(y, p) = Covered(x, p)
  BY <1>1 DEF DayVotes, Covered
<1>5. c[1] \in Days
  BY DEF Case
<1>6. \A p \in DOMAIN x.periods : PeriodOf(c[1]) # p
  <2> SUFFICES ASSUME PeriodOf(c[1]) \in DOMAIN x.periods PROVE FALSE
    OBVIOUS
  <2>1. EndOf(PeriodOf(c[1])) < c[1]
    OBVIOUS
  <2> QED BY <1>5, <2>1, PeriodEnds
<1>7. Filed(y, now)
  <2>1. \A d \in DOMAIN y.days : d \in DatesIn(y) /\ d < now /\ y.days[d].votes = Tally(y.agg, d)
    BY <1>1, <1>3 DEF Filed
  <2>2. \A p \in DOMAIN y.periods :
          /\ EndOf(p) < now
          /\ y.periods[p].covered = Covered(y, p)
          /\ y.periods[p].votes = SumFunctionOnSet(DayVotes(y), Covered(y, p))
          /\ \A d \in DatesIn(y) : PeriodOf(d) = p => d \in DOMAIN y.days
    BY <1>1, <1>3, <1>4, <1>6 DEF Filed
  <2> QED BY <2>1, <2>2 DEF Filed
<1>8. ASSUME NEW at \in Nat, at <= c[1], Complete(x, at)
      PROVE  Complete(y, at)
  <2>1. ~ (c[1] < at)
    BY <1>5, <1>8, PeriodEnds
  <2>2. Past(y, at) = Past(x, at)
    BY <1>3, <2>1 DEF Past
  <2> QED BY <1>1, <1>8, <2>2 DEF Complete
<1> QED BY <1>3, <1>7, <1>8

\* "g" is "f" with the rows S of "new".
Overlaid(g, f, new, S) ==
  /\ DOMAIN g = S \cup DOMAIN f
  /\ \A k \in S : g[k] = new[k]
  /\ \A k \in DOMAIN f : k \notin S => g[k] = f[k]

LEMMA OverPart ==
  ASSUME NEW f, NEW new, NEW S \in SUBSET DOMAIN new
  PROVE  Overlaid(Over(Part(new, S), f), f, new, S)
<1> DEFINE n == Part(new, S)
           g == Over(n, f)
<1>1. DOMAIN n = S /\ \A k \in S : n[k] = new[k]
  BY DEF Part
<1>2. /\ DOMAIN g = DOMAIN n \cup DOMAIN f
      /\ \A k \in DOMAIN n : g[k] = n[k]
      /\ \A k \in DOMAIN f : k \notin DOMAIN n => g[k] = f[k]
  BY DEF Over
<1> HIDE DEF n, g
<1>3. Overlaid(g, f, new, S)
  BY <1>1, <1>2 DEF Overlaid
<1> QED BY <1>3 DEF g, n

\* However many of the past days a crash lets through, those archived are right.
LEMMA DaysFiled ==
  ASSUME NEW x \in Rows, NEW now \in Nat, NEW v \in Nat, Filed(x, now),
         NEW S \in SUBSET Unarchived(x, now)
  PROVE  LET y == PutAll(x, "days", Part(NewDays(x, now, v), S))
         IN  /\ Filed(y, now) /\ Kept(y, x, TableNames \ {"days"})
             /\ DatesIn(y) = DatesIn(x)
             /\ S = Unarchived(x, now) => DOMAIN y.days = Past(x, now)
<1> DEFINE new == NewDays(x, now, v)
           y == PutAll(x, "days", Part(new, S))
<1>1. DOMAIN new = Unarchived(x, now) /\ \A d \in Unarchived(x, now) : new[d].votes = Tally(x.agg, d)
  <2>1. \A d \in Unarchived(x, now) : new[d] = FinalizeLocalDay(x, d, v)
    BY DEF NewDays
  <2>2. \A d : FinalizeLocalDay(x, d, v).votes = VotesOn(x, d)
    BY DEF FinalizeLocalDay
  <2>3. \A d \in Unarchived(x, now) : new[d].votes = VotesOn(x, d)
    BY <2>1, <2>2
  <2>4. DOMAIN new = Unarchived(x, now)
    BY DEF NewDays
  <2> HIDE DEF new
  <2> QED BY <2>3, <2>4, BooksOf
<1> HIDE DEF new
<1>2. y["days"] = Over(Part(new, S), x["days"]) /\ \A u \in TableNames : u # "days" => y[u] = x[u]
  BY PutAllParts DEF TableNames
<1> HIDE DEF y
<1>3. /\ DOMAIN y.days = S \cup DOMAIN x.days
      /\ \A d \in S : y.days[d] = new[d]
      /\ \A d \in DOMAIN x.days : d \notin S => y.days[d] = x.days[d]
  <2> DEFINE f == x.days
             g == Over(Part(new, S), f)
  <2>1. y.days = g /\ S \in SUBSET DOMAIN new
    BY <1>1, <1>2
  <2> HIDE DEF f
  <2>2. Overlaid(g, f, new, S)
    BY <2>1, OverPart
  <2> HIDE DEF g
  <2> QED BY <2>1, <2>2 DEF f, Overlaid
<1>4. Kept(y, x, TableNames \ {"days"}) /\ y.periods = x.periods /\ y.agg = x.agg
  BY <1>2 DEF Kept, TableNames
<1>5. DatesIn(y) = DatesIn(x)
  BY <1>4 DEF DatesIn
<1>6. \A d \in S : d \in DatesIn(x) /\ d < now /\ d \notin DOMAIN x.days
  BY DEF Unarchived
<1>7. \A d \in DOMAIN x.days : y.days[d] = x.days[d]
  BY <1>3, <1>6
<1>8. \A d \in DOMAIN y.days : d \in DatesIn(y) /\ d < now /\ y.days[d].votes = Tally(y.agg, d)
  <2>1. \A d \in DOMAIN x.days : d \in DatesIn(x) /\ d < now /\ x.days[d].votes = Tally(x.agg, d)
    BY DEF Filed
  <2>2. ASSUME NEW d \in S PROVE d \in DatesIn(y) /\ d < now /\ y.days[d].votes = Tally(y.agg, d)
    BY <1>1, <1>3, <1>4, <1>5, <1>6
  <2>3. ASSUME NEW d \in DOMAIN x.days
        PROVE  d \in DatesIn(y) /\ d < now /\ y.days[d].votes = Tally(y.agg, d)
    BY <1>4, <1>5, <1>7, <2>1
  <2> QED BY <1>3, <2>2, <2>3
<1>9. ASSUME NEW p \in DOMAIN y.periods
      PROVE  /\ EndOf(p) < now
             /\ y.periods[p].covered = Covered(y, p)
             /\ y.periods[p].votes = SumFunctionOnSet(DayVotes(y), Covered(y, p))
             /\ \A d \in DatesIn(y) : PeriodOf(d) = p => d \in DOMAIN y.days
  <2>1. /\ p \in DOMAIN x.periods /\ EndOf(p) < now
        /\ x.periods[p].covered = Covered(x, p)
        /\ x.periods[p].votes = SumFunctionOnSet(DayVotes(x), Covered(x, p))
        /\ \A d \in DatesIn(x) : PeriodOf(d) = p => d \in DOMAIN x.days
    BY <1>4 DEF Filed
  <2>2. \A d \in S : PeriodOf(d) # p
    BY <1>6, <2>1
  <2>3. Covered(y, p) = Covered(x, p)
    BY <1>3, <2>2 DEF Covered
  <2>4. SumFunctionOnSet(DayVotes(y), Covered(y, p)) = SumFunctionOnSet(DayVotes(x), Covered(x, p))
    <3>1. IsFiniteSet(Covered(x, p)) /\ \A d \in Covered(x, p) : d \in DOMAIN x.days /\ x.days[d] \in DayRow
      BY CoveredOK
    <3>2. \A d \in Covered(x, p) : DayVotes(x)[d] \in Int /\ DayVotes(x)[d] = DayVotes(y)[d]
      BY <1>3, <1>7, <3>1 DEF DayVotes, DayRow
    <3> QED BY <2>3, <3>1, <3>2, SumSame
  <2> QED BY <1>3, <1>4, <1>5, <2>1, <2>3, <2>4
<1>10. Filed(y, now)
  BY <1>8, <1>9 DEF Filed
<1>11. S = Unarchived(x, now) => DOMAIN y.days = Past(x, now)
  <2>1. \A d \in DOMAIN x.days : d \in DatesIn(x) /\ d < now
    BY DEF Filed
  <2> QED BY <1>3, <2>1 DEF Unarchived, Past
<1> QED BY <1>4, <1>5, <1>10, <1>11 DEF y, new

\* So are the periods sealed, once every past day is archived.
LEMMA PeriodsFiled ==
  ASSUME NEW x \in Rows, NEW now \in Nat, NEW v \in Nat, Filed(x, now),
         DOMAIN x.days = Past(x, now),
         NEW S \in SUBSET Unsealed(x, now)
  PROVE  LET y == PutAll(x, "periods", Part(NewPeriods(x, now, v), S))
         IN  /\ Filed(y, now) /\ Kept(y, x, TableNames \ {"periods"})
             /\ DatesIn(y) = DatesIn(x)
             /\ S = Unsealed(x, now) => Complete(y, now)
<1> DEFINE new == NewPeriods(x, now, v)
           y == PutAll(x, "periods", Part(new, S))
<1>1. /\ DOMAIN new = Unsealed(x, now)
      /\ \A p \in Unsealed(x, now) : /\ new[p].covered = Covered(x, p)
                                     /\ new[p].votes = SumFunctionOnSet(DayVotes(x), Covered(x, p))
  <2>1. \A p \in Unsealed(x, now) : new[p] = FinalizePeriod(x, p, v)
    BY DEF NewPeriods
  <2>2. DOMAIN new = Unsealed(x, now)
    BY DEF NewPeriods
  <2> HIDE DEF new
  <2> QED BY <2>1, <2>2, PeriodParts
<1> HIDE DEF new
<1>2. y["periods"] = Over(Part(new, S), x["periods"])
      /\ \A u \in TableNames : u # "periods" => y[u] = x[u]
  BY PutAllParts DEF TableNames
<1> HIDE DEF y
<1>3. /\ DOMAIN y.periods = S \cup DOMAIN x.periods
      /\ \A p \in S : y.periods[p] = new[p]
      /\ \A p \in DOMAIN x.periods : p \notin S => y.periods[p] = x.periods[p]
  <2> DEFINE f == x.periods
             g == Over(Part(new, S), f)
  <2>1. y.periods = g /\ S \in SUBSET DOMAIN new
    BY <1>1, <1>2
  <2> HIDE DEF f
  <2>2. Overlaid(g, f, new, S)
    BY <2>1, OverPart
  <2> HIDE DEF g
  <2> QED BY <2>1, <2>2 DEF f, Overlaid
<1>4. Kept(y, x, TableNames \ {"periods"}) /\ y.days = x.days /\ y.agg = x.agg
  BY <1>2 DEF Kept, TableNames
<1>5. DatesIn(y) = DatesIn(x) /\ DayVotes(y) = DayVotes(x) /\ \A p : Covered(y, p) = Covered(x, p)
  BY <1>4 DEF DatesIn, DayVotes, Covered
<1>6. \A p \in S : EndOf(p) < now
  BY DEF Unsealed
<1>7. \A d \in DOMAIN y.days : d \in DatesIn(y) /\ d < now /\ y.days[d].votes = Tally(y.agg, d)
  BY <1>4, <1>5 DEF Filed
<1>8. ASSUME NEW p \in DOMAIN y.periods
      PROVE  /\ EndOf(p) < now
             /\ y.periods[p].covered = Covered(y, p)
             /\ y.periods[p].votes = SumFunctionOnSet(DayVotes(y), Covered(y, p))
             /\ \A d \in DatesIn(y) : PeriodOf(d) = p => d \in DOMAIN y.days
  <2>1. CASE p \in S
    <3>1. \A d \in DatesIn(y) : PeriodOf(d) = p => d < now
      <4> SUFFICES ASSUME NEW d \in DatesIn(y), PeriodOf(d) = p PROVE d < now
        OBVIOUS
      <4>1. d \in Days
        BY <1>5, Domains
      <4>2. d \in Nat /\ d <= EndOf(p) /\ EndOf(p) \in Nat /\ EndOf(p) < now
        BY <1>6, <2>1, <4>1, PeriodEnds
      <4> QED BY <4>2
    <3>2. \A d \in DatesIn(y) : PeriodOf(d) = p => d \in DOMAIN y.days
      BY <1>4, <1>5, <3>1 DEF Past
    <3> QED BY <1>1, <1>3, <1>5, <1>6, <2>1, <3>2
  <2>2. CASE p \notin S
    <3>1. p \in DOMAIN x.periods /\ y.periods[p] = x.periods[p]
      BY <1>3, <2>2
    <3> QED BY <1>4, <1>5, <3>1 DEF Filed
  <2> QED BY <2>1, <2>2
<1>9. Filed(y, now)
  BY <1>7, <1>8 DEF Filed
<1>10. S = Unsealed(x, now) => Complete(y, now)
  <2> SUFFICES ASSUME S = Unsealed(x, now) PROVE Complete(y, now)
    OBVIOUS
  <2>1. \A d \in DOMAIN x.days : EndOf(PeriodOf(d)) < now => PeriodOf(d) \in S \cup DOMAIN x.periods
    BY DEF Unsealed
  <2> QED BY <1>3, <1>4, <1>5, <1>8, <2>1 DEF Complete, Past
<1> QED BY <1>4, <1>5, <1>9, <1>10 DEF y, new
-----------------------------------------------------------------------------
(* A process with its storage: the rows it holds are those of the last image. *)

Images(c) == {c[i] : i \in DOMAIN c}

LEMMA ImagesOf ==
  ASSUME NEW c \in Seq(Rows)
  PROVE  /\ Images(c) \subseteq Rows
         /\ Len(c) > 0 => Last(c) \in Images(c)
         /\ \A x \in Rows : Images(Append(c, x)) = Images(c) \cup {x}
<1>1. Images(c) \subseteq Rows
  BY DEF Images
<1>2. Len(c) > 0 => Last(c) \in Images(c)
  BY DEF Images, Last
<1>3. ASSUME NEW x \in Rows
      PROVE  Images(Append(c, x)) = Images(c) \cup {x}
  <2> DEFINE e == Append(c, x)
             n == Len(c)
  <2>1. /\ n \in Nat /\ DOMAIN c = 1 .. n /\ DOMAIN e = 1 .. n + 1
        /\ e[n + 1] = x /\ \A i \in 1 .. n : e[i] = c[i]
    OBVIOUS
  <2> HIDE DEF e, n
  <2>2. 1 .. n + 1 = (1 .. n) \cup {n + 1}
    BY <2>1
  <2>3. Images(e) = Images(c) \cup {x}
    BY <2>1, <2>2 DEF Images
  <2> QED BY <2>3 DEF e
<1> QED BY <1>1, <1>2, <1>3

LEMMA ImagesExtend ==
  ASSUME NEW longer, NEW c, NEW X, Extends(longer, c, X)
  PROVE  Images(longer) \subseteq Images(c) \cup X
BY DEF Extends, Images

\* Every image is sound, the last one to the stick when nothing was lost.
Shelf(s, gave, now, lost) ==
  /\ s \in States /\ s.host.sink
  /\ \A x \in Images(s.chain) : Image(x, gave, now)
  /\ s.host.rows = Last(s.chain) /\ s.host.rows.migrated # <<>>
  /\ lost = {} => Balanced(s.host.rows, gave)

\* The open case is the row of its case, and what is over is archived.
Held(s, gave, now, lost) ==
  /\ Shelf(s, gave, now, lost)
  /\ Complete(s.host.rows, s.host.date)
  /\ s.host.open = Get(s.host.rows.agg, <<s.host.date, s.host.case>>, NoVotes)

\* What the process has spent is the ledger of its date.
Firm(s, gave, now, lost) ==
  Held(s, gave, now, lost) /\ s.host.spent = Get(s.host.rows.ledger, s.host.date, 0)

LEMMA ShelfParts ==
  ASSUME NEW s, NEW gave, NEW now, NEW lost, Shelf(s, gave, now, lost)
  PROVE  /\ s \in States /\ s.host \in HostShape /\ s.chain \in Seq(Rows) /\ Len(s.chain) > 0
         /\ s.host.sink /\ s.host.rows \in Rows /\ s.host.rows = Last(s.chain)
         /\ s.host.rows.migrated # <<>>
         /\ Image(s.host.rows, gave, now) /\ Backed(s.host.rows, gave) /\ Filed(s.host.rows, now)
         /\ lost = {} => Balanced(s.host.rows, gave)
<1>1. s \in States /\ s.host.sink /\ s.host.rows = Last(s.chain) /\ s.host.rows.migrated # <<>>
      /\ (lost = {} => Balanced(s.host.rows, gave))
  BY DEF Shelf
<1>2. s.host \in HostShape /\ s.chain \in Seq(Rows) /\ Len(s.chain) > 0 /\ s.host.rows \in Rows
  BY <1>1, StateParts, HostParts
<1>3. s.host.rows \in Images(s.chain)
  BY <1>1, <1>2, ImagesOf
<1>4. Image(s.host.rows, gave, now)
  BY <1>3 DEF Shelf
<1> QED BY <1>1, <1>2, <1>4 DEF Image

\* One more image that is sound.
LEMMA ShelfAppend ==
  ASSUME NEW gave \in Gifts, NEW more \in Gifts, \A d \in Days : gave[d] <= more[d],
         NEW now \in Nat, NEW lost, NEW s, Shelf(s, gave, now, lost),
         NEW t \in States, NEW x \in Rows, t.host.sink, t.host.rows = x, t.chain = Append(s.chain, x),
         Backed(x, more), Filed(x, now), x.migrated # <<>>, lost = {} => Balanced(x, more)
  PROVE  Shelf(t, more, now, lost)
<1>1. s.chain \in Seq(Rows)
  BY ShelfParts
<1>2. Images(t.chain) = Images(s.chain) \cup {x} /\ Images(s.chain) \subseteq Rows
  BY <1>1, ImagesOf
<1>3. ASSUME NEW y \in Images(s.chain) PROVE Image(y, more, now)
  <2>1. y \in Rows /\ Image(y, gave, now) /\ now <= now
    BY <1>2 DEF Shelf
  <2> QED BY <2>1, ImageLater
<1>4. Image(x, more, now)
  BY DEF Image
<1>5. Last(t.chain) = x
  BY <1>1, AppendOK
<1> QED BY <1>2, <1>3, <1>4, <1>5 DEF Shelf

LEMMA ShelfWrite ==
  ASSUME NEW gave \in Gifts, NEW now \in Nat, NEW lost, NEW s, Shelf(s, gave, now, lost),
         NEW t, NEW K, NEW V, Kind(t, K, V), NEW k \in K, NEW v \in V,
         LET x == Put(s.host.rows, t, k, v)
         IN  Backed(x, gave) /\ Filed(x, now) /\ x.migrated # <<>> /\ (lost = {} => Balanced(x, gave))
  PROVE  Shelf(Write(s, t, k, v), gave, now, lost)
<1> DEFINE x == Put(s.host.rows, t, k, v)
           u == Write(s, t, k, v)
<1>1. s \in States /\ s.host.sink /\ s.host.rows = Last(s.chain) /\ s.host.rows \in Rows
  BY ShelfParts
<1>2. x \in Rows
  BY <1>1, PutOK
<1>3. u \in States /\ u.host.rows = x /\ u.host.sink /\ u.chain = Append(s.chain, x)
  BY <1>1, WriteOK DEF Beside
<1>4. Backed(x, gave) /\ Filed(x, now) /\ x.migrated # <<>> /\ (lost = {} => Balanced(x, gave))
  OBVIOUS
<1>5. \A d \in Days : gave[d] <= gave[d]
  BY DEF Gifts
<1> HIDE DEF x, u
<1> QED BY <1>2, <1>3, <1>4, <1>5, ShelfAppend DEF u

\* A case written as it is leaves the books alone.
LEMMA ParkedSame ==
  ASSUME NEW x \in Rows, NEW c \in Case, NEW gave, NEW now, Backed(x, gave), Filed(x, now),
         \A p \in DOMAIN x.periods : EndOf(p) < c[1]
  PROVE  LET o == Get(x.agg, c, NoVotes)
             y == Put(x, "agg", c, o)
         IN  /\ y \in Rows /\ y.agg = With(x.agg, c, o) /\ Kept(y, x, TableNames \ {"agg"})
             /\ Backed(y, gave) /\ Filed(y, now)
             /\ Balanced(x, gave) => Balanced(y, gave)
             /\ \A at \in Nat : at <= c[1] /\ Complete(x, at) => Complete(y, at)
<1> DEFINE o == Get(x.agg, c, NoVotes)
           y == Put(x, "agg", c, o)
<1>1. x.agg \in Map(Case, Votes)
  BY RowsParts
<1>2. o \in Votes
  BY <1>1, NoVotesOK, GetParts
<1> HIDE DEF o
<1>3. y \in Rows /\ y["agg"] = With(x["agg"], c, o) /\ \A u \in TableNames : u # "agg" => y[u] = x[u]
  BY <1>2, Kinds, PutOK
<1> HIDE DEF y
<1>4. y.agg = With(x.agg, c, o) /\ Kept(y, x, TableNames \ {"agg"})
  BY <1>3 DEF Kept
<1>5. \A d : Tally(y.agg, d) = Tally(x.agg, d)
  <2> SUFFICES ASSUME NEW d PROVE Tally(y.agg, d) = Tally(x.agg, d)
    OBVIOUS
  <2>1. Tally(y.agg, d) = Tally(x.agg, d) + (IF c[1] = d THEN o.votes - Get(x.agg, c, NoVotes).votes ELSE 0)
    BY <1>1, <1>2, <1>4, TallyMoved
  <2>2. o.votes - Get(x.agg, c, NoVotes).votes = 0
    BY <1>2, VoteParts DEF o
  <2>3. Tally(x.agg, d) \in Nat
    BY <1>1, TallyOK
  <2> QED BY <2>1, <2>2, <2>3
<1>6. y.ledger = x.ledger /\ y.receipt = x.receipt /\ Kept(y, x, {"days", "periods"})
  BY <1>4 DEF Kept, TableNames
<1>7. Backed(y, gave)
  BY <1>5, <1>6 DEF Backed
<1>8. Balanced(x, gave) => Balanced(y, gave)
  BY <1>5, <1>6 DEF Balanced
<1>9. Filed(y, now) /\ \A at \in Nat : at <= c[1] /\ Complete(x, at) => Complete(y, at)
  BY <1>2, <1>3, <1>4, <1>5, <1>6, FiledAgg
<1> QED BY <1>3, <1>4, <1>7, <1>8, <1>9 DEF y, o

\* The open case goes back to its row.
LEMMA ParkedFirm ==
  ASSUME NEW gave \in Gifts, NEW now \in Nat, NEW lost, NEW s, Held(s, gave, now, lost),
         s.host.date \in Days
  PROVE  /\ Held(Parked(s), gave, now, lost)
         /\ Kept(Parked(s).host.rows, s.host.rows, TableNames \ {"agg"})
         /\ Beside(Parked(s).host, s.host)
<1> DEFINE x == s.host.rows
           c == <<s.host.date, s.host.case>>
           o == Get(x.agg, c, NoVotes)
           y == Put(x, "agg", c, o)
           d == s.host.date
<1>1. Shelf(s, gave, now, lost) /\ Complete(x, d) /\ s.host.open = o
  BY DEF Held
<1>2. /\ s \in States /\ s.host \in HostShape /\ x \in Rows /\ Backed(x, gave) /\ Filed(x, now)
      /\ x.migrated # <<>> /\ (lost = {} => Balanced(x, gave))
  BY <1>1, ShelfParts
<1>3. c \in Case /\ c = Active(s) /\ Parked(s).host.rows = Put(x, "agg", Active(s), s.host.open)
      /\ Active(s) = c /\ Beside(Parked(s).host, s.host)
  BY <1>2, ParkedOK
<1>4. c[1] = d /\ \A p \in DOMAIN x.periods : EndOf(p) < c[1]
  BY <1>1 DEF Complete
<1>5. /\ y \in Rows /\ Kept(y, x, TableNames \ {"agg"})
      /\ Backed(y, gave) /\ Filed(y, now) /\ (Balanced(x, gave) => Balanced(y, gave))
      /\ \A at \in Nat : at <= c[1] /\ Complete(x, at) => Complete(y, at)
  <2> HIDE DEF x, c
  <2> QED BY <1>2, <1>3, <1>4, ParkedSame
<1>6. Complete(y, d)
  <2>1. d \in Nat /\ d <= d
    BY PeriodEnds
  <2> HIDE DEF y
  <2> QED BY <1>1, <1>4, <1>5, <2>1
<1>7. y.migrated # <<>>
  <2> HIDE DEF y
  <2> QED BY <1>2, <1>5 DEF Kept, TableNames
<1>8. Put(x, "agg", c, s.host.open) = y /\ s.host.open \in Votes
  BY <1>1, <1>2, HostParts
<1>9. Shelf(Write(s, "agg", c, s.host.open), gave, now, lost)
  <2> HIDE DEF y, o
  <2>1. LET z == Put(s.host.rows, "agg", c, s.host.open)
        IN  Backed(z, gave) /\ Filed(z, now) /\ z.migrated # <<>> /\ (lost = {} => Balanced(z, gave))
    BY <1>2, <1>5, <1>7, <1>8
  <2> HIDE DEF c
  <2> QED BY <1>1, <1>3, <1>8, <2>1, Kinds, ShelfWrite
<1>10. Parked(s) = Write(s, "agg", c, s.host.open)
  BY <1>3 DEF Parked
<1>11. Parked(s).host.rows = y /\ Get(y.agg, c, NoVotes) = o
  <2>1. y["agg"] = With(x["agg"], c, o)
    <3> HIDE DEF x, c
    <3> QED BY <1>1, <1>2, <1>3, <1>8, Kinds, PutOK
  <2>2. Get(With(x.agg, c, o), c, NoVotes) = o
    <3> HIDE DEF x, c, o
    <3> QED BY GetWith
  <2> HIDE DEF y
  <2> QED BY <1>3, <1>8, <2>1, <2>2
<1> HIDE DEF y, o, x
<1>12. Held(Parked(s), gave, now, lost)
  BY <1>1, <1>3, <1>6, <1>9, <1>10, <1>11 DEF Held, Beside
<1> QED BY <1>3, <1>5, <1>11, <1>12 DEF x

LEMMA ClosedFirm ==
  ASSUME NEW gave \in Gifts, NEW lost, NEW s, day \in Days, Shelf(s, gave, day, lost),
         s.host.date = 0 \/ Firm(s, gave, day, lost)
  PROVE  Shelf(Closed(s), gave, day, lost)
<1>1. CASE s.host.date \in 1 .. day - 1
  <2>1. s.host.date \in Days /\ s.host.date # 0 /\ day \in Nat
    BY <1>1, Numbers DEF Days
  <2>2. Shelf(Parked(s), gave, day, lost)
    BY <2>1, ParkedFirm DEF Firm, Held
  <2> QED BY <1>1, <2>2 DEF Closed
<1>2. CASE s.host.date \notin 1 .. day - 1
  BY <1>2 DEF Closed
<1> QED BY <1>1, <1>2

\* Many more images that are sound.
LEMMA ShelfMany ==
  ASSUME NEW gave, NEW now, NEW lost, NEW s, Shelf(s, gave, now, lost),
         NEW t \in States, t.host.sink, NEW X, Extends(t.chain, s.chain, X),
         \A x \in X : Image(x, gave, now),
         t.host.rows = Last(t.chain), t.host.rows.migrated # <<>>,
         lost = {} => Balanced(t.host.rows, gave)
  PROVE  Shelf(t, gave, now, lost)
<1>1. Images(t.chain) \subseteq Images(s.chain) \cup X
  BY ImagesExtend
<1>2. \A x \in Images(t.chain) : Image(x, gave, now)
  BY <1>1 DEF Shelf
<1> QED BY <1>2 DEF Shelf

LEMMA SameLedgers ==
  ASSUME NEW x, NEW y, Kept(y, x, {"ledger", "agg", "receipt"}), NEW gave
  PROVE  (Backed(x, gave) => Backed(y, gave)) /\ (Balanced(x, gave) => Balanced(y, gave))
<1>1. y.ledger = x.ledger /\ y.agg = x.agg /\ y.receipt = x.receipt
  BY DEF Kept
<1> QED BY <1>1 DEF Backed, Balanced

LEMMA DaysFirm ==
  ASSUME NEW gave, NEW now \in Nat, NEW lost, NEW s, Shelf(s, gave, now, lost), NEW v \in Nat
  PROVE  LET t == FinalizeDays(s, now, v)
         IN  /\ Shelf(t, gave, now, lost)
             /\ DOMAIN t.host.rows.days = Past(t.host.rows, now)
<1> DEFINE x == s.host.rows
           new == NewDays(x, now, v)
           t == FinalizeDays(s, now, v)
           X == Partials(x, "days", new)
<1>1. /\ s \in States /\ s.host.sink /\ x \in Rows /\ x = Last(s.chain) /\ x.migrated # <<>>
      /\ Backed(x, gave) /\ Filed(x, now) /\ (lost = {} => Balanced(x, gave))
  BY ShelfParts
<1>2. /\ t \in States /\ Beside(t.host, s.host)
      /\ t.host.rows = PutAll(x, "days", new)
      /\ Extends(t.chain, s.chain, X) /\ Last(t.chain) = PutAll(x, "days", new)
  BY <1>1, FinalizeDaysOK
<1>3. new \in Map(Days, DayRow) /\ DOMAIN new = Unarchived(x, now)
  BY <1>1, NewDaysOK
<1>4. ASSUME NEW S \in SUBSET Unarchived(x, now)
      PROVE  LET y == PutAll(x, "days", Part(new, S))
             IN  /\ Filed(y, now) /\ Backed(y, gave) /\ y.migrated # <<>>
                 /\ (lost = {} => Balanced(y, gave)) /\ DatesIn(y) = DatesIn(x)
                 /\ S = Unarchived(x, now) => DOMAIN y.days = Past(x, now)
  <2> DEFINE y == PutAll(x, "days", Part(new, S))
  <2>1. /\ Filed(y, now) /\ Kept(y, x, TableNames \ {"days"})
        /\ S = Unarchived(x, now) => DOMAIN y.days = Past(x, now)
    <3> HIDE DEF x
    <3>1. Filed(y, now)
      BY <1>1, DaysFiled
    <3>2. Kept(y, x, TableNames \ {"days"})
      BY <1>1, DaysFiled
    <3>3. S = Unarchived(x, now) => DOMAIN y.days = Past(x, now)
      BY <1>1, DaysFiled
    <3> QED BY <3>1, <3>2, <3>3
  <2> HIDE DEF y
  <2>2. Kept(y, x, {"ledger", "agg", "receipt"}) /\ y.migrated = x.migrated
    BY <2>1 DEF Kept, TableNames
  <2>3. Backed(y, gave) /\ (lost = {} => Balanced(y, gave))
    BY <1>1, <2>2, SameLedgers
  <2>4. DatesIn(y) = DatesIn(x)
    BY <2>2 DEF Kept, DatesIn
  <2> QED BY <1>1, <2>1, <2>2, <2>3, <2>4 DEF y
<1>5. Part(new, DOMAIN new) = new
  <2> HIDE DEF new
  <2> QED BY <1>3, WholePart
<1> HIDE DEF new, t
<1>6. \A y \in X : Image(y, gave, now)
  <2> SUFFICES ASSUME NEW y \in X PROVE Image(y, gave, now)
    OBVIOUS
  <2>1. PICK S \in SUBSET DOMAIN new : y = PutAll(x, "days", Part(new, S))
    BY DEF Partials
  <2>2. S \in SUBSET Unarchived(x, now)
    BY <1>3, <2>1
  <2>3. Filed(y, now) /\ Backed(y, gave) /\ y.migrated # <<>>
    BY <1>4, <2>1, <2>2
  <2> QED BY <2>3 DEF Image
<1>7. /\ t.host.rows.migrated # <<>> /\ (lost = {} => Balanced(t.host.rows, gave))
      /\ DatesIn(t.host.rows) = DatesIn(x)
      /\ DOMAIN t.host.rows.days = Past(x, now)
  <2> DEFINE U == Unarchived(x, now)
  <2>1. U \in SUBSET U
    OBVIOUS
  <2>2. t.host.rows = PutAll(x, "days", Part(new, U))
    BY <1>2, <1>3, <1>5
  <2> HIDE DEF U, x
  <2> QED BY <1>4, <2>1, <2>2 DEF U
<1> HIDE DEF X, x
<1>8. t.host.sink /\ t.host.rows = Last(t.chain)
  BY <1>1, <1>2 DEF Beside
<1>9. Shelf(t, gave, now, lost)
  BY <1>2, <1>6, <1>7, <1>8, ShelfMany
<1> QED BY <1>7, <1>9 DEF t, Past

LEMMA PeriodsFirm ==
  ASSUME NEW gave, NEW now \in Nat, NEW lost, NEW s, Shelf(s, gave, now, lost), NEW v \in Nat,
         DOMAIN s.host.rows.days = Past(s.host.rows, now)
  PROVE  LET t == FinalizeCompletedPeriods(s, now, v)
         IN  Shelf(t, gave, now, lost) /\ Complete(t.host.rows, now)
<1> DEFINE x == s.host.rows
           new == NewPeriods(x, now, v)
           t == FinalizeCompletedPeriods(s, now, v)
           X == Partials(x, "periods", new)
<1>1. /\ s \in States /\ s.host.sink /\ x \in Rows /\ x = Last(s.chain) /\ x.migrated # <<>>
      /\ Backed(x, gave) /\ Filed(x, now) /\ (lost = {} => Balanced(x, gave))
  BY ShelfParts
<1>2. /\ t \in States /\ Beside(t.host, s.host)
      /\ t.host.rows = PutAll(x, "periods", new)
      /\ Extends(t.chain, s.chain, X) /\ Last(t.chain) = PutAll(x, "periods", new)
  BY <1>1, FinalizePeriodsOK
<1>3. new \in Map(Periods, SealRow) /\ DOMAIN new = Unsealed(x, now)
  BY <1>1, NewPeriodsOK
<1>4. ASSUME NEW S \in SUBSET Unsealed(x, now)
      PROVE  LET y == PutAll(x, "periods", Part(new, S))
             IN  /\ Filed(y, now) /\ Backed(y, gave) /\ y.migrated # <<>>
                 /\ (lost = {} => Balanced(y, gave))
                 /\ S = Unsealed(x, now) => Complete(y, now)
  <2> DEFINE y == PutAll(x, "periods", Part(new, S))
  <2>1. /\ Filed(y, now) /\ Kept(y, x, TableNames \ {"periods"})
        /\ S = Unsealed(x, now) => Complete(y, now)
    <3>1. DOMAIN x.days = Past(x, now)
      OBVIOUS
    <3> HIDE DEF x
    <3> QED BY <1>1, <3>1, PeriodsFiled
  <2> HIDE DEF y
  <2>2. Kept(y, x, {"ledger", "agg", "receipt"}) /\ y.migrated = x.migrated
    BY <2>1 DEF Kept, TableNames
  <2>3. Backed(y, gave) /\ (lost = {} => Balanced(y, gave))
    BY <1>1, <2>2, SameLedgers
  <2> QED BY <1>1, <2>1, <2>2, <2>3 DEF y
<1>5. Part(new, DOMAIN new) = new
  <2> HIDE DEF new
  <2> QED BY <1>3, WholePart
<1> HIDE DEF new, t
<1>6. \A y \in X : Image(y, gave, now)
  <2> SUFFICES ASSUME NEW y \in X PROVE Image(y, gave, now)
    OBVIOUS
  <2>1. PICK S \in SUBSET DOMAIN new : y = PutAll(x, "periods", Part(new, S))
    BY DEF Partials
  <2>2. S \in SUBSET Unsealed(x, now)
    BY <1>3, <2>1
  <2>3. Filed(y, now) /\ Backed(y, gave) /\ y.migrated # <<>>
    BY <1>4, <2>1, <2>2
  <2> QED BY <2>3 DEF Image
<1>7. /\ t.host.rows.migrated # <<>> /\ (lost = {} => Balanced(t.host.rows, gave))
      /\ Complete(t.host.rows, now)
  <2> DEFINE U == Unsealed(x, now)
  <2>1. U \in SUBSET U
    OBVIOUS
  <2>2. t.host.rows = PutAll(x, "periods", Part(new, U))
    BY <1>2, <1>3, <1>5
  <2> HIDE DEF U, x
  <2> QED BY <1>4, <2>1, <2>2 DEF U
<1> HIDE DEF X, x
<1>8. t.host.sink /\ t.host.rows = Last(t.chain)
  BY <1>1, <1>2 DEF Beside
<1>9. Shelf(t, gave, now, lost)
  BY <1>2, <1>6, <1>7, <1>8, ShelfMany
<1> QED BY <1>7, <1>9 DEF t

LEMMA DatedFirm ==
  ASSUME NEW gave, NEW lost, NEW s, day \in Days, Shelf(s, gave, day, lost)
  PROVE  Shelf(Dated(s), gave, day, lost) /\ Complete(Dated(s).host.rows, day) /\ Dated(s).host.date = day
<1> DEFINE v == s.host.version + 1
           u == FinalizeDays(s, day, v)
           t == FinalizeCompletedPeriods(u, day, v)
<1>1. s \in States /\ s.host.sink
  BY ShelfParts
<1>2. /\ v \in Nat /\ Dated(s) \in States /\ Dated(s).host.date = day
      /\ Dated(s).chain = t.chain /\ Dated(s).host.rows = t.host.rows
      /\ Redated(Dated(s).host, s.host)
  BY <1>1, DatedOK
<1>3. day \in Nat
  BY DEF Days
<1> HIDE DEF v
<1>4. Shelf(u, gave, day, lost) /\ DOMAIN u.host.rows.days = Past(u.host.rows, day)
  BY <1>2, <1>3, DaysFirm
<1> HIDE DEF u
<1>5. Shelf(t, gave, day, lost) /\ Complete(t.host.rows, day)
  BY <1>2, <1>3, <1>4, PeriodsFirm
<1> HIDE DEF t
<1>6. Dated(s).host.sink
  BY <1>1, <1>2 DEF Redated
<1>7. Shelf(Dated(s), gave, day, lost)
  BY <1>2, <1>5, <1>6 DEF Shelf
<1> QED BY <1>2, <1>5, <1>7

\* A row of a table that keeps no books.
LEMMA ShelfBeside ==
  ASSUME NEW gave \in Gifts, NEW now \in Nat, NEW lost, NEW s, Shelf(s, gave, now, lost),
         NEW x \in Rows, Kept(x, s.host.rows, Booked \cup {"migrated"}),
         NEW t \in States, t.host.sink, t.host.rows = x, t.chain = Append(s.chain, x)
  PROVE  /\ Shelf(t, gave, now, lost)
         /\ \A at : Complete(s.host.rows, at) => Complete(x, at)
<1> DEFINE y == s.host.rows
<1>1. /\ y \in Rows /\ y.migrated # <<>> /\ Backed(y, gave) /\ Filed(y, now)
      /\ (lost = {} => Balanced(y, gave))
  BY ShelfParts
<1>2. Kept(x, y, Booked) /\ x.migrated = y.migrated
  BY DEF Kept
<1> HIDE DEF y
<1>3. /\ Backed(x, gave) /\ Filed(x, now) /\ (lost = {} => Balanced(x, gave))
      /\ \A at : Complete(y, at) => Complete(x, at)
  BY <1>1, <1>2, SameBooks
<1>4. x.migrated # <<>> /\ \A d \in Days : gave[d] <= gave[d]
  BY <1>1, <1>2 DEF Gifts
<1>5. Shelf(t, gave, now, lost)
  BY <1>3, <1>4, ShelfAppend
<1> QED BY <1>3, <1>5 DEF y

LEMMA IndexFirm ==
  ASSUME NEW gave \in Gifts, NEW now \in Nat, NEW lost, NEW s, Shelf(s, gave, now, lost),
         NEW d \in Days, NEW i \in 0 .. Cases - 1
  PROVE  LET t == Write(s, "index", d, i)
         IN  /\ Shelf(t, gave, now, lost) /\ Beside(t.host, s.host)
             /\ Kept(t.host.rows, s.host.rows, TableNames \ {"index"})
             /\ \A at : Complete(s.host.rows, at) => Complete(t.host.rows, at)
<1> DEFINE t == Write(s, "index", d, i)
           x == Put(s.host.rows, "index", d, i)
<1>1. s \in States /\ s.host.sink /\ s.host.rows \in Rows /\ s.host.rows = Last(s.chain)
  BY ShelfParts
<1>2. x \in Rows /\ Kept(x, s.host.rows, TableNames \ {"index"})
  BY <1>1, IndexPut
<1>3. t \in States /\ Beside(t.host, s.host) /\ t.host.rows = x /\ t.chain = Append(s.chain, x)
  BY <1>1, IndexedOK
<1> HIDE DEF t, x
<1>4. Kept(x, s.host.rows, Booked \cup {"migrated"}) /\ t.host.sink
  BY <1>1, <1>2, <1>3 DEF Kept, TableNames, Booked, Beside
<1>5. Shelf(t, gave, now, lost)
  BY <1>2, <1>3, <1>4, ShelfBeside
<1>6. \A at : Complete(s.host.rows, at) => Complete(x, at)
  <2>1. Kept(x, s.host.rows, Booked)
    BY <1>4 DEF Kept
  <2> QED BY <2>1, SameBooks
<1> QED BY <1>2, <1>3, <1>5, <1>6 DEF t

\* The case of the date is opened.
LEMMA OpenFirm ==
  ASSUME NEW gave, NEW now, NEW lost, NEW s, Shelf(s, gave, now, lost),
         Complete(s.host.rows, s.host.date), NEW i \in 0 .. Cases - 1
  PROVE  LET t == OpenCase(s, i)
         IN  /\ Held(t, gave, now, lost) /\ t.host.date = s.host.date /\ t.host.rows = s.host.rows
             /\ t.host.spent = s.host.spent
<1> DEFINE t == OpenCase(s, i)
<1>1. s \in States /\ s.host.sink
  BY ShelfParts
<1>2. /\ t \in States /\ t.chain = s.chain /\ t.host.rows = s.host.rows /\ t.host.case = i
      /\ t.host.open = Get(s.host.rows.agg, <<s.host.date, i>>, NoVotes)
      /\ t.host.sink = s.host.sink /\ t.host.date = s.host.date /\ t.host.spent = s.host.spent
  BY <1>1, OpenCaseOK
<1> HIDE DEF t
<1>3. Shelf(t, gave, now, lost)
  BY <1>1, <1>2 DEF Shelf
<1> QED BY <1>2, <1>3 DEF Held, t

LEMMA ReopenedFirm ==
  ASSUME NEW gave \in Gifts, NEW lost, day \in Days, NEW s, Shelf(s, gave, day, lost),
         Complete(s.host.rows, day), s.host.date = day, NEW i \in 0 .. Cases - 1
  PROVE  Held(Reopened(s, i), gave, day, lost) /\ Reopened(s, i).host.date = day
<1> DEFINE w == Write(s, "index", day, i)
           c == OpenCase(w, i)
           t == Parked(c)
<1>1. day \in Nat
  BY DEF Days
<1>2. Shelf(w, gave, day, lost) /\ w.host.date = day /\ Complete(w.host.rows, day)
  BY <1>1, IndexFirm DEF Beside
<1> HIDE DEF w
<1>3. Held(c, gave, day, lost) /\ c.host.date = day
  BY <1>2, OpenFirm
<1> HIDE DEF c
<1>4. Held(t, gave, day, lost) /\ Beside(t.host, c.host)
  BY <1>1, <1>3, ParkedFirm
<1>5. t = Reopened(s, i)
  BY DEF Reopened, c, w
<1> QED BY <1>3, <1>4, <1>5 DEF Beside

LEMMA HydratedFirm ==
  ASSUME NEW gave, NEW lost, day \in Days, NEW s, Held(s, gave, day, lost), s.host.date = day
  PROVE  Firm(Hydrated(s), gave, day, lost) /\ Hydrated(s).host.date = day
<1> DEFINE t == Hydrated(s)
<1>1. Shelf(s, gave, day, lost) /\ s \in States /\ s.host.sink
  BY ShelfParts DEF Held
<1>2. /\ t \in States /\ t.chain = s.chain /\ t.host.rows = s.host.rows
      /\ t.host.spent = Get(s.host.rows.ledger, day, 0)
      /\ t.host.sink = s.host.sink /\ t.host.date = s.host.date /\ t.host.case = s.host.case
      /\ t.host.open = s.host.open
  BY <1>1, HydratedOK
<1> HIDE DEF t
<1>3. Shelf(t, gave, day, lost)
  BY <1>1, <1>2 DEF Shelf
<1>4. Held(t, gave, day, lost)
  BY <1>2, <1>3 DEF Held
<1> QED BY <1>2, <1>4 DEF Firm, t

\* What was given back, once "n" more sticks of "d" are.
Given(gave, d, n) == [gave EXCEPT ![d] = @ + n]

LEMMA GivenOK ==
  ASSUME NEW gave \in Gifts, NEW d \in Days, NEW n \in Nat
  PROVE  /\ Given(gave, d, n) \in Gifts /\ Given(gave, d, n)[d] = gave[d] + n
         /\ \A e \in Days : gave[e] <= Given(gave, d, n)[e] /\ (e # d => Given(gave, d, n)[e] = gave[e])
         /\ n = 0 => Given(gave, d, n) = gave
<1>1. gave[d] \in Nat /\ gave[d] + n \in Nat
  BY DEF Gifts
<1> QED BY <1>1 DEF Given, Gifts

\* What the guard strikes from the ledger it counts as given back.
LEMMA GuardedFirm ==
  ASSUME NEW gave \in Gifts, NEW lost, day \in Days, NEW s, Firm(s, gave, day, lost),
         s.host.date = day, s.host.refund = 0
  PROVE  LET t == Guarded(s)
         IN  /\ t.host.refund \in Nat /\ t.host.date = day
             /\ Firm(t, Given(gave, day, t.host.refund), day, lost)
<1> DEFINE t == Guarded(s)
           e == Earned(s)
           x == s.host.rows
           y == Put(x, "ledger", day, e)
           more == Given(gave, day, t.host.refund)
<1>1. /\ s \in States /\ s.host.sink /\ x \in Rows /\ s.host \in HostShape /\ s.host.rows = Last(s.chain)
      /\ x.migrated # <<>> /\ Backed(x, gave) /\ Filed(x, day) /\ (lost = {} => Balanced(x, gave))
      /\ Complete(x, day) /\ s.host.spent = Get(x.ledger, day, 0)
      /\ s.host.open = Get(x.agg, <<day, s.host.case>>, NoVotes)
      /\ Shelf(s, gave, day, lost)
  BY ShelfParts DEF Firm, Held
<1>2. e \in Nat /\ s.host.spent \in Nat /\ day \in Nat
  BY <1>1, EarnedOK, HostParts DEF Days
<1>3. /\ t \in States /\ t.host.date = day
      /\ s.host.spent <= e => t = s
      /\ s.host.spent > e => /\ t.host.spent = e /\ t.host.refund = s.host.refund + s.host.spent - e
                             /\ t.host.rows = y
                             /\ t.chain = Append(s.chain, Put(Last(s.chain), "ledger", day, e))
      /\ t.host.sink /\ t.host.case = s.host.case /\ t.host.open = s.host.open
  BY <1>1, GuardedOK
<1>4. CASE s.host.spent <= e
  <2>1. t = s /\ more = gave
    BY <1>1, <1>3, <1>4, GivenOK
  <2> QED BY <2>1
<1>5. CASE s.host.spent > e
  <2> DEFINE n == s.host.spent - e
  <2>1. n \in Nat /\ t.host.refund = n /\ t.host.spent = e /\ t.host.rows = y /\ t.chain = Append(s.chain, y)
    BY <1>1, <1>2, <1>3, <1>5
  <2>2. y \in Rows /\ y.ledger = With(x.ledger, day, e) /\ Kept(y, x, TableNames \ {"ledger"})
    BY <1>1, <1>2, LedgerPut
  <2>3. /\ more \in Gifts /\ more[day] = gave[day] + n
        /\ \A d \in Days : gave[d] <= more[d] /\ (d # day => more[d] = gave[d])
    BY <2>1, GivenOK
  <2> HIDE DEF t, e, y, more, x
  <2>4. /\ y.agg = x.agg /\ y.receipt = x.receipt /\ y.migrated = x.migrated
        /\ y.days = x.days /\ y.periods = x.periods
    BY <2>2 DEF Kept, TableNames
  <2>5. \A d \in Days : Get(y.ledger, d, 0) + more[d] = Get(x.ledger, d, 0) + gave[d]
    <3> SUFFICES ASSUME NEW d \in Days
                 PROVE  Get(y.ledger, d, 0) + more[d] = Get(x.ledger, d, 0) + gave[d]
      OBVIOUS
    <3>1. Get(y.ledger, d, 0) = IF d = day THEN e ELSE Get(x.ledger, d, 0)
      BY <2>2, GetWith
    <3>2. gave[d] \in Nat
      BY DEF Gifts
    <3> QED BY <1>1, <1>2, <2>3, <3>1, <3>2
  <2>6. Backed(y, more) /\ (lost = {} => Balanced(y, more))
    <3>1. Backed(y, more)
      BY <1>1, <2>4, <2>5 DEF Backed
    <3>2. Balanced(x, gave) => Balanced(y, more)
      BY <2>4, <2>5 DEF Balanced
    <3> QED BY <1>1, <3>1, <3>2
  <2>7. DatesIn(y) = DatesIn(x) /\ DayVotes(y) = DayVotes(x) /\ \A p : Covered(y, p) = Covered(x, p)
    BY <2>4 DEF DatesIn, DayVotes, Covered
  <2>8. Filed(y, day) /\ Complete(y, day)
    <3>1. Filed(y, day)
      BY <1>1, <2>4, <2>7 DEF Filed
    <3>2. Complete(y, day)
      BY <1>1, <2>4, <2>7 DEF Complete, Past
    <3> QED BY <3>1, <3>2
  <2>9. Shelf(t, more, day, lost)
    BY <1>1, <1>2, <1>3, <2>1, <2>2, <2>3, <2>4, <2>6, <2>8, ShelfAppend
  <2>10. t.host.spent = Get(t.host.rows.ledger, day, 0)
    BY <2>1, <2>2, GetWith
  <2>11. t.host.open = Get(t.host.rows.agg, <<day, t.host.case>>, NoVotes)
    BY <1>1, <1>3, <2>1, <2>4
  <2>12. Firm(t, more, day, lost)
    BY <1>3, <2>1, <2>8, <2>9, <2>10, <2>11 DEF Firm, Held
  <2> QED BY <1>3, <2>1, <2>12 DEF more, t
<1> QED BY <1>2, <1>4, <1>5, <1>3, <1>1

\* A rotation keeps the shelf and makes the process firm.
LEMMA RotatedFirm ==
  ASSUME NEW gave \in Gifts, NEW lost, day \in Days, NEW s, Shelf(s, gave, day, lost),
         s.host.date = 0 \/ Firm(s, gave, day, lost), s.host.refund = 0
  PROVE  LET t == Rotated(s)
         IN  t.host.refund \in Nat /\ Firm(t, Given(gave, day, t.host.refund), day, lost)
<1>1. s \in States /\ day # 0
  BY ShelfParts DEF Days
<1>2. CASE s.host.date = day
  <2>1. Rotated(s) = s
    BY <1>2 DEF Rotated
  <2>2. Given(gave, day, 0) = gave
    BY GivenOK
  <2> QED BY <1>1, <1>2, <2>1, <2>2
<1>3. CASE s.host.date # day
  <2>1. Shelf(Stage1(s), gave, day, lost)
    BY ClosedFirm DEF Stage1
  <2>2. Shelf(Stage2(s), gave, day, lost) /\ Complete(Stage2(s).host.rows, day) /\ Stage2(s).host.date = day
    BY <2>1, DatedFirm DEF Stage2
  <2>3. /\ Get(Stage2(s).host.rows.index, day, 0) \in 0 .. Cases - 1
        /\ Stage4(s).host.refund = 0
    BY <1>1, StagesOK
  <2>4. Held(Stage3(s), gave, day, lost) /\ Stage3(s).host.date = day
    BY <2>2, <2>3, ReopenedFirm DEF Stage3
  <2>5. Firm(Stage4(s), gave, day, lost) /\ Stage4(s).host.date = day
    BY <2>4, HydratedFirm DEF Stage4
  <2> DEFINE u == Stage4(s)
             t == Guarded(u)
  <2> HIDE DEF u
  <2>6. t.host.refund \in Nat /\ Firm(t, Given(gave, day, t.host.refund), day, lost)
    BY <2>3, <2>5, GuardedFirm DEF u
  <2>7. Rotated(s) = t
    BY <1>3, RotatedStages DEF u
  <2> QED BY <2>6, <2>7
<1> QED BY <1>2, <1>3
-----------------------------------------------------------------------------
(* The handlers: what they keep of the books. *)

\* A process told the same of its rows is as firm.
LEMMA FirmAside ==
  ASSUME NEW gave, NEW now, NEW lost, NEW s, Firm(s, gave, now, lost),
         NEW t \in States, t.chain = s.chain, t.host.rows = s.host.rows, t.host.sink,
         t.host.date = s.host.date, t.host.case = s.host.case,
         t.host.open = s.host.open, t.host.spent = s.host.spent
  PROVE  Firm(t, gave, now, lost)
<1>1. Shelf(t, gave, now, lost)
  BY DEF Firm, Held, Shelf
<1>2. Held(t, gave, now, lost)
  BY <1>1 DEF Firm, Held
<1> QED BY <1>2 DEF Firm

\* A row of a table that keeps no books leaves the process firm.
LEMMA FirmBeside ==
  ASSUME NEW gave \in Gifts, NEW now \in Nat, NEW lost, NEW s, Firm(s, gave, now, lost),
         NEW x \in Rows, Kept(x, s.host.rows, Booked \cup {"migrated"}),
         NEW t \in States, t.host.rows = x, t.chain = Append(s.chain, x), Beside(t.host, s.host)
  PROVE  Firm(t, gave, now, lost)
<1>1. Shelf(s, gave, now, lost) /\ s.host.sink
  BY ShelfParts DEF Firm, Held
<1>2. t.host.sink
  BY <1>1 DEF Beside
<1>3. Shelf(t, gave, now, lost)
  BY <1>1, <1>2, ShelfBeside
<1>4. Kept(x, s.host.rows, Booked) /\ x.agg = s.host.rows.agg /\ x.ledger = s.host.rows.ledger
  BY DEF Kept, Booked
<1>5. Complete(x, s.host.date)
  BY <1>4, SameBooks DEF Firm, Held
<1>6. Held(t, gave, now, lost)
  BY <1>3, <1>4, <1>5 DEF Firm, Held, Beside
<1> QED BY <1>4, <1>6 DEF Firm, Beside

LEMMA CreditFirm ==
  ASSUME NEW gave \in Gifts, NEW now \in Nat, NEW lost, NEW s, Firm(s, gave, now, lost),
         NEW d \in Days, NEW e \in Nat
  PROVE  Firm(Write(s, "daily", d, e), gave, now, lost)
<1> DEFINE t == Write(s, "daily", d, e)
           x == Put(s.host.rows, "daily", d, e)
<1>1. s \in States /\ s.host.sink /\ s.host.rows \in Rows /\ s.host.rows = Last(s.chain)
  BY ShelfParts DEF Firm, Held
<1>2. x \in Rows /\ \A u \in TableNames : u # "daily" => x[u] = s.host.rows[u]
  BY <1>1, Kinds, PutOK
<1>3. t \in States /\ Beside(t.host, s.host) /\ t.host.rows = x /\ t.chain = Append(s.chain, x)
  BY <1>1, Kinds, WriteOK
<1> HIDE DEF t, x
<1>4. Kept(x, s.host.rows, Booked \cup {"migrated"})
  BY <1>2 DEF Kept, TableNames, Booked
<1> QED BY <1>2, <1>3, <1>4, FirmBeside DEF t

\* A refusal spends nothing.
LEMMA RefuseFirm ==
  ASSUME NEW gave \in Gifts, NEW now \in Nat, NEW lost, NEW s, Firm(s, gave, now, lost),
         NEW r \in Requests, r \notin DOMAIN s.host.rows.receipt,
         NEW found \in Spending, found.spent = 0
  PROVE  Firm(Write(s, "receipt", r, found), gave, now, lost)
<1> DEFINE t == Write(s, "receipt", r, found)
           x == s.host.rows
           y == Put(x, "receipt", r, found)
<1>1. /\ s \in States /\ s.host.sink /\ x \in Rows /\ x = Last(s.chain)
      /\ x.migrated # <<>> /\ Backed(x, gave) /\ Filed(x, now) /\ (lost = {} => Balanced(x, gave))
      /\ Shelf(s, gave, now, lost)
  BY ShelfParts DEF Firm, Held
<1>2. y \in Rows /\ y["receipt"] = With(x["receipt"], r, found)
      /\ \A u \in TableNames : u # "receipt" => y[u] = x[u]
  BY <1>1, Kinds, PutOK
<1>3. t \in States /\ Beside(t.host, s.host) /\ t.host.rows = y /\ t.chain = Append(s.chain, y)
  BY <1>1, Kinds, WriteOK
<1> HIDE DEF t, y, x
<1>4. /\ y.receipt = With(x.receipt, r, found) /\ y.agg = x.agg /\ y.ledger = x.ledger
      /\ y.days = x.days /\ y.periods = x.periods /\ y.migrated = x.migrated
  BY <1>2 DEF TableNames
<1>5. \A d \in Days : Slips(y.receipt, d) = Slips(x.receipt, d)
  <2> SUFFICES ASSUME NEW d \in Days PROVE Slips(y.receipt, d) = Slips(x.receipt, d)
    OBVIOUS
  <2>1. x.receipt \in Map(Requests, Spending) /\ r \notin DOMAIN x.receipt
    BY <1>1, RowsParts DEF x
  <2>2. Slips(With(x.receipt, r, found), d)
          = Slips(x.receipt, d) + (IF found.case[1] = d THEN found.spent ELSE 0)
    BY <2>1, SlipAdded
  <2>3. Slips(x.receipt, d) \in Nat
    BY <2>1, SlipsOK
  <2> QED BY <1>4, <2>2, <2>3
<1>6. Backed(y, gave) /\ (lost = {} => Balanced(y, gave))
  <2>1. Backed(y, gave)
    BY <1>1, <1>4, <1>5 DEF Backed
  <2>2. Balanced(x, gave) => Balanced(y, gave)
    BY <1>4, <1>5 DEF Balanced
  <2> QED BY <1>1, <2>1, <2>2
<1>7. DatesIn(y) = DatesIn(x) /\ DayVotes(y) = DayVotes(x) /\ \A p : Covered(y, p) = Covered(x, p)
  BY <1>4 DEF DatesIn, DayVotes, Covered
<1>8. Filed(y, now)
  BY <1>1, <1>4, <1>7 DEF Filed
<1>9. Complete(x, s.host.date) => Complete(y, s.host.date)
  BY <1>4, <1>7 DEF Complete, Past
<1>10. t.host.sink /\ \A d \in Days : gave[d] <= gave[d]
  BY <1>1, <1>3 DEF Beside, Gifts
<1>11. y.migrated # <<>>
  BY <1>1, <1>4
<1>12. Shelf(t, gave, now, lost)
  BY <1>1, <1>2, <1>3, <1>6, <1>8, <1>10, <1>11, ShelfAppend
<1>13. Held(t, gave, now, lost)
  BY <1>3, <1>4, <1>9, <1>12 DEF Firm, Held, Beside, x
<1>14. Firm(t, gave, now, lost)
  BY <1>3, <1>4, <1>13 DEF Firm, Beside, x
<1> QED BY <1>14 DEF t

LEMMA CycleFirm ==
  ASSUME NEW gave \in Gifts, NEW lost, day \in Days, NEW s, Firm(s, gave, day, lost),
         s.host.date = day, NEW i \in 0 .. Cases - 1
  PROVE  Firm(Cycled(s, i), gave, day, lost)
<1> DEFINE u == Parked(s)
           w == Write(u, "index", day, i)
           t == OpenCase(w, i)
<1>1. day \in Nat
  BY DEF Days
<1>2. Held(s, gave, day, lost) /\ s.host.spent = Get(s.host.rows.ledger, day, 0)
  BY DEF Firm
<1>3. Held(u, gave, day, lost) /\ Kept(u.host.rows, s.host.rows, TableNames \ {"agg"})
      /\ Beside(u.host, s.host)
  BY <1>1, <1>2, ParkedFirm
<1> HIDE DEF u
<1>4. Shelf(u, gave, day, lost) /\ Complete(u.host.rows, day)
  BY <1>3 DEF Held, Beside
<1>5. /\ Shelf(w, gave, day, lost) /\ Beside(w.host, u.host) /\ Complete(w.host.rows, day)
      /\ Kept(w.host.rows, u.host.rows, TableNames \ {"index"})
  BY <1>1, <1>4, IndexFirm
<1> HIDE DEF w
<1>6. w.host.date = day /\ w.host.spent = s.host.spent
  BY <1>3, <1>5 DEF Beside
<1>7. /\ Held(t, gave, day, lost) /\ t.host.date = w.host.date /\ t.host.rows = w.host.rows
      /\ t.host.spent = w.host.spent
  BY <1>5, <1>6, OpenFirm
<1> HIDE DEF t
<1>8. w.host.rows.ledger = s.host.rows.ledger
  BY <1>3, <1>5 DEF Kept, TableNames
<1>9. Firm(t, gave, day, lost)
  BY <1>2, <1>6, <1>7, <1>8 DEF Firm
<1> QED BY <1>9 DEF Cycled, t, w, u

\* Three sound images, of which the last is complete and, when nothing was lost, balanced.
Entered(a, b, z, gave, now, lost) ==
  /\ Image(a, gave, now) /\ Image(b, gave, now) /\ Image(z, gave, now)
  /\ z.migrated # <<>> /\ Complete(z, now)
  /\ lost = {} => Balanced(z, gave)

\* The three images of a vote: a stick more in the ledger, then votes more on the case, then
\* the receipt of as many.
LEMMA AnsweredBooks ==
  ASSUME NEW gave \in Gifts, NEW lost, day \in Days, NEW x \in Rows,
         x.migrated # <<>>, Backed(x, gave), Filed(x, day), lost = {} => Balanced(x, gave),
         Complete(x, day),
         NEW i \in 0 .. Cases - 1, NEW n \in Nat, NEW p \in Nat, p = Get(x.ledger, day, 0) + n,
         NEW o \in Votes, o.votes = Get(x.agg, <<day, i>>, NoVotes).votes + n,
         NEW r \in Requests, r \notin DOMAIN x.receipt,
         NEW found \in Spending, found.case = <<day, i>>, found.spent = n
  PROVE  Entered(Ledgered(x, day, p), Tallied(x, day, p, <<day, i>>, o),
                 Answered(x, day, p, <<day, i>>, o, r, found), gave, day, lost)
<1> DEFINE c == <<day, i>>
           a == Ledgered(x, day, p)
           b == Tallied(x, day, p, c, o)
           z == Answered(x, day, p, c, o, r, found)
<1>1. c \in Case /\ c[1] = day /\ day \in Nat
  BY CaseOf DEF Days
<1> HIDE DEF c
<1>2. /\ a \in Rows /\ b \in Rows /\ z \in Rows
      /\ a.ledger = With(x.ledger, day, p) /\ Kept(a, x, TableNames \ {"ledger"})
      /\ b.agg = With(x.agg, c, o) /\ Kept(b, a, TableNames \ {"agg"})
      /\ z.receipt = With(x.receipt, r, found) /\ Kept(z, b, TableNames \ {"receipt"})
  <2>1. a \in Rows /\ a.ledger = With(x.ledger, day, p) /\ Kept(a, x, TableNames \ {"ledger"})
    BY <1>1, AnsweredParts
  <2>2. b \in Rows
    BY <1>1, AnsweredParts
  <2>3. b.agg = With(x.agg, c, o)
    BY <1>1, AnsweredParts
  <2>4. Kept(b, a, TableNames \ {"agg"})
    BY <1>1, AnsweredParts
  <2>5. z \in Rows
    BY <1>1, AnsweredParts
  <2>6. z.receipt = With(x.receipt, r, found)
    BY <1>1, AnsweredParts
  <2>7. Kept(z, b, TableNames \ {"receipt"})
    BY <1>1, AnsweredParts
  <2> QED BY <2>1, <2>2, <2>3, <2>4, <2>5, <2>6, <2>7
<1> HIDE DEF a, b, z
<1>3. /\ a.agg = x.agg /\ a.receipt = x.receipt /\ a.days = x.days /\ a.periods = x.periods
      /\ a.migrated = x.migrated
      /\ b.ledger = a.ledger /\ b.receipt = x.receipt /\ b.days = x.days /\ b.periods = x.periods
      /\ b.migrated = x.migrated
      /\ z.ledger = a.ledger /\ z.agg = b.agg /\ z.days = x.days /\ z.periods = x.periods
      /\ z.migrated = x.migrated
  BY <1>2 DEF Kept, TableNames
<1>4. /\ x.receipt \in Map(Requests, Spending) /\ x.agg \in Map(Case, Votes)
  BY RowsParts
<1>5. \A d \in Days : /\ Get(a.ledger, d, 0) = Get(x.ledger, d, 0) + (IF d = day THEN n ELSE 0)
                      /\ Tally(b.agg, d) = Tally(x.agg, d) + (IF d = day THEN n ELSE 0)
                      /\ Slips(z.receipt, d) = Slips(x.receipt, d) + (IF d = day THEN n ELSE 0)
  <2> SUFFICES ASSUME NEW d \in Days
               PROVE  /\ Get(a.ledger, d, 0) = Get(x.ledger, d, 0) + (IF d = day THEN n ELSE 0)
                      /\ Tally(b.agg, d) = Tally(x.agg, d) + (IF d = day THEN n ELSE 0)
                      /\ Slips(z.receipt, d) = Slips(x.receipt, d) + (IF d = day THEN n ELSE 0)
    OBVIOUS
  <2>1. Get(a.ledger, d, 0) = IF d = day THEN p ELSE Get(x.ledger, d, 0)
    BY <1>2, GetWith
  <2>2. Get(x.ledger, d, 0) \in Nat
    BY BooksOK
  <2>3. Tally(With(x.agg, c, o), d)
          = Tally(x.agg, d) + (IF c[1] = d THEN o.votes - Get(x.agg, c, NoVotes).votes ELSE 0)
    BY <1>1, <1>4, TallyMoved
  <2>4. Tally(x.agg, d) \in Nat /\ Slips(x.receipt, d) \in Nat
    BY BooksOK
  <2>5. Get(x.agg, c, NoVotes).votes \in Nat
    <3>1. Get(x.agg, c, NoVotes) \in Votes
      BY <1>4, MapValues DEF Get, NoVotes, Votes
    <3> QED BY <3>1 DEF Votes
  <2>6. o.votes = Get(x.agg, c, NoVotes).votes + n
    BY DEF c
  <2>7. Slips(With(x.receipt, r, found), d)
          = Slips(x.receipt, d) + (IF found.case[1] = d THEN found.spent ELSE 0)
    BY <1>4, SlipAdded
  <2>8. found.case[1] = day /\ found.spent = n
    BY <1>1 DEF c
  <2>9. Get(a.ledger, d, 0) = Get(x.ledger, d, 0) + (IF d = day THEN n ELSE 0)
    BY <2>1, <2>2
  <2>10. Tally(b.agg, d) = Tally(x.agg, d) + (IF d = day THEN n ELSE 0)
    BY <1>1, <1>2, <2>3, <2>4, <2>5, <2>6
  <2>11. Slips(z.receipt, d) = Slips(x.receipt, d) + (IF d = day THEN n ELSE 0)
    BY <1>2, <2>4, <2>7, <2>8
  <2> QED BY <2>9, <2>10, <2>11
<1>6. \A d \in Days : /\ Slips(x.receipt, d) \in Nat /\ Tally(x.agg, d) \in Nat
                      /\ Get(x.ledger, d, 0) \in Nat /\ gave[d] \in Nat
  BY BooksOK DEF Gifts
<1>7. \A d \in Days : Slips(x.receipt, d) <= Tally(x.agg, d)
                      /\ Tally(x.agg, d) <= Get(x.ledger, d, 0) + gave[d]
  BY DEF Backed
<1>8. Backed(a, gave)
  <2>1. \A d \in Days : Slips(a.receipt, d) <= Tally(a.agg, d)
                      /\ Tally(a.agg, d) <= Get(a.ledger, d, 0) + gave[d]
    <3> SUFFICES ASSUME NEW d \in Days
                 PROVE  Slips(a.receipt, d) <= Tally(a.agg, d)
                        /\ Tally(a.agg, d) <= Get(a.ledger, d, 0) + gave[d]
      OBVIOUS
    <3>1. /\ Get(a.ledger, d, 0) = Get(x.ledger, d, 0) + (IF d = day THEN n ELSE 0)
          /\ Tally(b.agg, d) = Tally(x.agg, d) + (IF d = day THEN n ELSE 0)
      BY <1>5
    <3>2. /\ Slips(x.receipt, d) \in Nat /\ Tally(x.agg, d) \in Nat
          /\ Get(x.ledger, d, 0) \in Nat /\ gave[d] \in Nat
          /\ Slips(x.receipt, d) <= Tally(x.agg, d) /\ Tally(x.agg, d) <= Get(x.ledger, d, 0) + gave[d]
      BY <1>6, <1>7
    <3> QED BY <1>3, <3>1, <3>2
  <2> QED BY <2>1 DEF Backed
<1>9. Backed(b, gave)
  <2>1. \A d \in Days : Slips(b.receipt, d) <= Tally(b.agg, d)
                      /\ Tally(b.agg, d) <= Get(b.ledger, d, 0) + gave[d]
    <3> SUFFICES ASSUME NEW d \in Days
                 PROVE  Slips(b.receipt, d) <= Tally(b.agg, d)
                        /\ Tally(b.agg, d) <= Get(b.ledger, d, 0) + gave[d]
      OBVIOUS
    <3>1. /\ Get(a.ledger, d, 0) = Get(x.ledger, d, 0) + (IF d = day THEN n ELSE 0)
          /\ Tally(b.agg, d) = Tally(x.agg, d) + (IF d = day THEN n ELSE 0)
      BY <1>5
    <3>2. /\ Slips(x.receipt, d) \in Nat /\ Tally(x.agg, d) \in Nat
          /\ Get(x.ledger, d, 0) \in Nat /\ gave[d] \in Nat
          /\ Slips(x.receipt, d) <= Tally(x.agg, d) /\ Tally(x.agg, d) <= Get(x.ledger, d, 0) + gave[d]
      BY <1>6, <1>7
    <3> QED BY <1>3, <3>1, <3>2
  <2> QED BY <2>1 DEF Backed
<1>10. Backed(z, gave)
  <2>1. \A d \in Days : Slips(z.receipt, d) <= Tally(z.agg, d)
                      /\ Tally(z.agg, d) <= Get(z.ledger, d, 0) + gave[d]
    <3> SUFFICES ASSUME NEW d \in Days
                 PROVE  Slips(z.receipt, d) <= Tally(z.agg, d)
                        /\ Tally(z.agg, d) <= Get(z.ledger, d, 0) + gave[d]
      OBVIOUS
    <3>1. /\ Get(a.ledger, d, 0) = Get(x.ledger, d, 0) + (IF d = day THEN n ELSE 0)
          /\ Tally(b.agg, d) = Tally(x.agg, d) + (IF d = day THEN n ELSE 0)
          /\ Slips(z.receipt, d) = Slips(x.receipt, d) + (IF d = day THEN n ELSE 0)
      BY <1>5
    <3>2. /\ Slips(x.receipt, d) \in Nat /\ Tally(x.agg, d) \in Nat
          /\ Get(x.ledger, d, 0) \in Nat /\ gave[d] \in Nat
          /\ Slips(x.receipt, d) <= Tally(x.agg, d) /\ Tally(x.agg, d) <= Get(x.ledger, d, 0) + gave[d]
      BY <1>6, <1>7
    <3> QED BY <1>3, <3>1, <3>2
  <2> QED BY <2>1 DEF Backed
<1>11. Balanced(x, gave) => Balanced(z, gave)
  <2> SUFFICES ASSUME Balanced(x, gave) PROVE Balanced(z, gave)
    OBVIOUS
  <2>1. \A d \in Days : Slips(x.receipt, d) = Tally(x.agg, d)
                        /\ Tally(x.agg, d) = Get(x.ledger, d, 0) + gave[d]
    BY DEF Balanced
  <2> QED BY <1>3, <1>5, <1>6, <2>1 DEF Balanced
<1>12. Filed(a, day) /\ Complete(a, day)
  <2>1. DatesIn(a) = DatesIn(x) /\ DayVotes(a) = DayVotes(x) /\ \A q : Covered(a, q) = Covered(x, q)
    BY <1>3 DEF DatesIn, DayVotes, Covered
  <2>2. Filed(a, day)
    BY <1>3, <2>1 DEF Filed
  <2>3. Complete(a, day)
    BY <1>3, <2>1 DEF Complete, Past
  <2> QED BY <2>2, <2>3
<1>13. Filed(b, day) /\ Complete(b, day)
  <2>1. \A d \in DOMAIN a.days : d \in Days /\ d < day
    BY <1>2, <1>12, Domains DEF Filed
  <2>2. \A d \in DOMAIN a.days : Tally(b.agg, d) = Tally(a.agg, d)
    <3> SUFFICES ASSUME NEW d \in DOMAIN a.days PROVE Tally(b.agg, d) = Tally(a.agg, d)
      OBVIOUS
    <3>1. d \in Days /\ d # day
      BY <1>1, <2>1
    <3>2. Tally(b.agg, d) = Tally(x.agg, d) + 0 /\ Tally(x.agg, d) \in Nat
      BY <1>5, <1>6, <3>1
    <3> QED BY <1>3, <3>2
  <2>3. \A q \in DOMAIN a.periods : EndOf(q) < c[1]
    BY <1>1, <1>12 DEF Filed
  <2>4. b.agg = With(a.agg, c, o) /\ Kept(b, a, {"days", "periods"})
    BY <1>2, <1>3 DEF Kept
  <2>5. Filed(b, day) /\ \A at \in Nat : at <= c[1] /\ Complete(a, at) => Complete(b, at)
    BY <1>1, <1>2, <1>12, <2>2, <2>3, <2>4, FiledAgg
  <2> QED BY <1>1, <1>12, <2>5
<1>14. Filed(z, day) /\ Complete(z, day)
  <2>1. DatesIn(z) = DatesIn(b) /\ DayVotes(z) = DayVotes(b) /\ \A q : Covered(z, q) = Covered(b, q)
    BY <1>3 DEF DatesIn, DayVotes, Covered
  <2>2. Filed(z, day)
    BY <1>3, <1>13, <2>1 DEF Filed
  <2>3. Complete(z, day)
    BY <1>3, <1>13, <2>1 DEF Complete, Past
  <2> QED BY <2>2, <2>3
<1>15. a.migrated # <<>> /\ b.migrated # <<>> /\ z.migrated # <<>>
  BY <1>3
<1>16. Image(a, gave, day) /\ Image(b, gave, day) /\ Image(z, gave, day)
  BY <1>8, <1>9, <1>10, <1>12, <1>13, <1>14, <1>15 DEF Image
<1>17. Entered(a, b, z, gave, day, lost)
  BY <1>11, <1>14, <1>15, <1>16 DEF Entered
<1> QED BY <1>17 DEF a, b, z, c

\* Three images appended.
LEMMA ThreeMore ==
  ASSUME NEW c \in Seq(Rows), NEW a \in Rows, NEW b \in Rows, NEW z \in Rows
  PROVE  LET l == Append(Append(Append(c, a), b), z)
         IN  Images(l) = Images(c) \cup {a, b, z} /\ Last(l) = z
<1> DEFINE c1 == Append(c, a)
           c2 == Append(c1, b)
           c3 == Append(c2, z)
<1>1. c1 \in Seq(Rows) /\ Images(c1) = Images(c) \cup {a}
  BY AppendOK, ImagesOf
<1> HIDE DEF c1
<1>2. c2 \in Seq(Rows) /\ Images(c2) = Images(c1) \cup {b}
  BY <1>1, AppendOK, ImagesOf
<1> HIDE DEF c2
<1>3. Last(c3) = z /\ Images(c3) = Images(c2) \cup {z}
  BY <1>2, AppendOK, ImagesOf
<1> HIDE DEF c3
<1>4. Images(c3) = Images(c) \cup {a, b, z}
  BY <1>1, <1>2, <1>3
<1> QED BY <1>3, <1>4 DEF c3, c2, c1

LEMMA AcceptFirm ==
  ASSUME NEW gave \in Gifts, NEW lost, day \in Days, NEW s, Firm(s, gave, day, lost),
         s.host.date = day, NEW n \in Nat \ {0},
         NEW r \in Requests, r \notin DOMAIN s.host.rows.receipt,
         NEW found \in Spending, found.case = Active(s), found.spent = n
  PROVE  Firm(Recorded(Counted(s, n), r, found), gave, day, lost)
<1> DEFINE u == Counted(s, n)
           x == s.host.rows
           i == s.host.case
           t == Recorded(u, r, found)
<1>1. /\ s \in States /\ s.host \in HostShape /\ s.host.sink /\ x \in Rows /\ x = Last(s.chain)
      /\ s.chain \in Seq(Rows)
      /\ x.migrated # <<>> /\ Backed(x, gave) /\ Filed(x, day) /\ (lost = {} => Balanced(x, gave))
      /\ \A y \in Images(s.chain) : Image(y, gave, day)
      /\ Complete(x, day) /\ s.host.spent = Get(x.ledger, day, 0)
      /\ s.host.open = Get(x.agg, <<day, i>>, NoVotes)
  BY ShelfParts DEF Firm, Held, Shelf
<1>2. /\ u \in States /\ u.chain = s.chain /\ u.host.rows = x /\ u.host.spent = s.host.spent + n
      /\ u.host.open.votes = s.host.open.votes + n /\ u.host.sink
      /\ u.host.date = day /\ u.host.case = i
  BY <1>1, CountedOK
<1>3. i \in 0 .. Cases - 1 /\ Active(s) = <<day, i>>
  BY <1>1, HostParts DEF Active
<1> HIDE DEF u, x, i
<1> DEFINE p == u.host.spent
           c == Active(u)
           o == u.host.open
           a == Ledgered(x, day, p)
           b == Tallied(x, day, p, c, o)
           z == Answered(x, day, p, c, o, r, found)
<1>4. /\ c = <<day, i>> /\ c \in Case /\ p \in Nat /\ o \in Votes
      /\ t \in States /\ Beside(t.host, u.host) /\ t.host.rows = z
      /\ t.chain = Append(Append(Append(s.chain, a), b), z)
  <2>1. /\ c = <<day, u.host.case>> /\ c \in Case /\ p \in Nat /\ o \in Votes
        /\ t \in States /\ Beside(t.host, u.host)
    BY <1>2, RecordedOK
  <2>2. t.host.rows = Answered(u.host.rows, day, p, c, o, r, found)
    BY <1>2, RecordedOK
  <2>3. t.chain = Append(Append(Append(u.chain, Ledgered(Last(u.chain), day, p)),
                                Tallied(Last(u.chain), day, p, c, o)),
                         Answered(Last(u.chain), day, p, c, o, r, found))
    BY <1>2, RecordedOK
  <2> HIDE DEF t, p, c, o
  <2>4. Last(u.chain) = x
    BY <1>1, <1>2
  <2> QED BY <1>2, <2>1, <2>2, <2>3, <2>4
<1>5. p = Get(x.ledger, day, 0) + n /\ o.votes = Get(x.agg, <<day, i>>, NoVotes).votes + n
  BY <1>1, <1>2
<1>6. r \notin DOMAIN x.receipt /\ n \in Nat /\ found.case = <<day, i>>
  BY <1>3 DEF x
<1> HIDE DEF t, p, o, c
<1>7. /\ Image(a, gave, day) /\ Image(b, gave, day) /\ Image(z, gave, day)
      /\ z.migrated # <<>> /\ (lost = {} => Balanced(z, gave)) /\ Complete(z, day)
      /\ z.agg = With(x.agg, c, o) /\ z.ledger = With(x.ledger, day, p)
  <2> DEFINE k == <<day, i>>
  <2>1. c = k
    BY <1>4
  <2>2. Entered(a, Tallied(x, day, p, k, o), Answered(x, day, p, k, o, r, found), gave, day, lost)
    <3>1. /\ x \in Rows /\ x.migrated # <<>> /\ Backed(x, gave) /\ Filed(x, day)
          /\ (lost = {} => Balanced(x, gave)) /\ Complete(x, day)
      BY <1>1
    <3>2. i \in 0 .. Cases - 1 /\ n \in Nat /\ p \in Nat /\ p = Get(x.ledger, day, 0) + n
          /\ o \in Votes /\ o.votes = Get(x.agg, <<day, i>>, NoVotes).votes + n
      BY <1>3, <1>4, <1>5, <1>6
    <3>3. r \notin DOMAIN x.receipt /\ found.case = <<day, i>> /\ found.spent = n
      BY <1>6
    <3> QED BY <3>1, <3>2, <3>3, AnsweredBooks
  <2>3. Entered(a, b, z, gave, day, lost)
    BY <2>1, <2>2
  <2>4. Kept(a, x, TableNames \ {"ledger"}) /\ a.ledger = With(x.ledger, day, p)
    BY <1>1, <1>4, AnsweredParts
  <2>5. b.agg = With(x.agg, c, o)
    BY <1>1, <1>4, AnsweredParts
  <2>6. Kept(b, a, TableNames \ {"agg"})
    BY <1>1, <1>4, AnsweredParts
  <2>7. Kept(z, b, TableNames \ {"receipt"})
    BY <1>1, <1>4, AnsweredParts
  <2> HIDE DEF a, b, z
  <2>8. z.agg = With(x.agg, c, o) /\ z.ledger = With(x.ledger, day, p)
    BY <2>4, <2>5, <2>6, <2>7 DEF Kept, TableNames
  <2> QED BY <2>3, <2>8 DEF Entered
<1>8. a \in Rows /\ b \in Rows /\ z \in Rows
  BY <1>1, <1>4, AnsweredParts
<1> HIDE DEF a, b, z
<1>9. Images(t.chain) = Images(s.chain) \cup {a, b, z} /\ Last(t.chain) = z
  BY <1>1, <1>4, <1>8, ThreeMore
<1>10. \A y \in Images(t.chain) : Image(y, gave, day)
  BY <1>1, <1>7, <1>9
<1>11. t.host.sink /\ t.host.date = day /\ t.host.case = i /\ t.host.open = o /\ t.host.spent = p
  BY <1>2, <1>4 DEF Beside, p, o
<1>12. Shelf(t, gave, day, lost)
  BY <1>4, <1>7, <1>9, <1>10, <1>11 DEF Shelf
<1>13. Get(z.agg, c, NoVotes) = o /\ Get(z.ledger, day, 0) = p
  BY <1>7, GetWith
<1>14. Held(t, gave, day, lost)
  BY <1>4, <1>7, <1>11, <1>12, <1>13 DEF Held
<1>15. Firm(t, gave, day, lost)
  BY <1>4, <1>11, <1>13, <1>14 DEF Firm
<1> QED BY <1>15 DEF t, u
-----------------------------------------------------------------------------
(* The inductive invariant: whatever a crash or a start may still read is right. *)

Sound ==
  "late" \notin faults =>
    /\ \A x \in Images(chain) : Image(x, refunded, day)
    /\ host.sink => Firm([host |-> host, chain |-> chain], refunded, day, faults)
    /\ faults = {} /\ ~ host.ready => Balanced(Last(chain), refunded)

\* What no handler changes between its rotation and its end.
Steady(t, s) ==
  /\ t \in States
  /\ t.host.ready = s.host.ready /\ t.host.sink = s.host.sink /\ t.host.refund = s.host.refund
  /\ ~ s.host.sink => t.chain = s.chain

LEMMA NowFirm ==
  ASSUME Typed, Sound, "late" \notin faults, host.sink, NEW s \in Now
  PROVE  s.host.refund \in Nat /\ Firm(s, Given(refunded, day, s.host.refund), day, faults)
<1> DEFINE u == [host |-> host, chain |-> chain]
<1>1. Firm(u, refunded, day, faults) /\ u.host.refund = 0 /\ s = Rotated(u)
  BY DEF Sound, Typed, Now
<1>2. refunded \in Gifts /\ day \in Days
  BY DEF Typed, Gifts
<1> HIDE DEF u
<1>3. Shelf(u, refunded, day, faults)
  BY <1>1 DEF Firm, Held
<1> QED BY <1>1, <1>2, <1>3, RotatedFirm

\* A process that has not served yet gives nothing back.
LEMMA NowStill ==
  ASSUME Typed, ~ host.ready, NEW s \in Now
  PROVE  s.host.refund = 0
<1> DEFINE u == [host |-> host, chain |-> chain]
<1>1. s = Rotated(u) /\ u.host = host
  BY DEF Now
<1>2. u \in States
  BY HereOK
<1>3. /\ u.host.sink => u.host.ready
      /\ ~ u.host.ready => DOMAIN u.host.rows.ledger = {} /\ DOMAIN u.host.rows.daily = {}
      /\ u.host.date = day => u.host.spent <= Get(u.host.rows.daily, day, 0) + Starter
      /\ DOMAIN u.host.rows.ledger = {} /\ u.host.refund = 0
  BY <1>1 DEF Typed, HostOK
<1>4. day \in Days
  BY DEF Typed
<1> HIDE DEF u
<1> QED BY <1>1, <1>2, <1>3, <1>4, RotatedOK

LEMMA BecomesParts ==
  ASSUME Typed, NEW t \in States, Becomes(t)
  PROVE  LET r == [host |-> host, chain |-> chain]'
         IN  /\ r \in States /\ r.chain = t.chain /\ r.host = host' /\ chain' = t.chain
             /\ r.host.rows = t.host.rows /\ r.host.sink = t.host.sink /\ r.host.ready = t.host.ready
             /\ r.host.date = t.host.date /\ r.host.case = t.host.case
             /\ r.host.open = t.host.open /\ r.host.spent = t.host.spent
             /\ refunded' = Given(refunded, day, t.host.refund)
             /\ refunded \in Gifts /\ refunded' \in Gifts
             /\ \A d \in Days : refunded[d] <= refunded'[d]
             /\ t.host.refund = 0 => refunded' = refunded
<1> DEFINE h == [t.host EXCEPT !.refund = 0]
<1>1. t.host \in HostShape /\ t.chain \in Seq(Rows) /\ (t.host.sink => Len(t.chain) > 0)
      /\ t.host.refund \in Nat /\ refunded \in Gifts /\ day \in Days
  BY StateParts, HostParts DEF Typed, Gifts
<1>2. /\ h \in HostShape /\ h.rows = t.host.rows /\ h.sink = t.host.sink /\ h.ready = t.host.ready
      /\ h.date = t.host.date /\ h.case = t.host.case /\ h.open = t.host.open /\ h.spent = t.host.spent
  BY <1>1 DEF HostShape
<1>3. host' = h /\ chain' = t.chain /\ refunded' = [refunded EXCEPT ![day] = @ + t.host.refund]
  BY DEF Becomes
<1> HIDE DEF h
<1>4. refunded' = Given(refunded, day, t.host.refund)
  BY <1>3 DEF Given
<1>5. /\ Given(refunded, day, t.host.refund) \in Gifts
      /\ \A d \in Days : refunded[d] <= Given(refunded, day, t.host.refund)[d]
      /\ t.host.refund = 0 => Given(refunded, day, t.host.refund) = refunded
  BY <1>1, GivenOK
<1>6. [host |-> h, chain |-> t.chain] \in States
  BY <1>1, <1>2, StateOf
<1>7. [host |-> host, chain |-> chain]' = [host |-> h, chain |-> t.chain]
  BY <1>3
<1> QED BY <1>1, <1>2, <1>3, <1>4, <1>5, <1>6, <1>7

\* A handler that keeps the process firm keeps the invariant.
LEMMA StepSound ==
  ASSUME Typed, Sound, NEW s \in Now, NEW t, Steady(t, s), Becomes(t), day' = day, faults' = faults,
         \A gave \in Gifts : Firm(s, gave, day, faults) => Firm(t, gave, day, faults)
  PROVE  Sound'
<1> DEFINE r == [host |-> host, chain |-> chain]'
<1>1. t \in States /\ t.host.ready = s.host.ready /\ t.host.sink = s.host.sink
      /\ t.host.refund = s.host.refund /\ (~ s.host.sink => t.chain = s.chain)
  BY DEF Steady
<1>2. s.host.ready = host.ready /\ s.host.sink = host.sink /\ (~ host.sink => s.chain = chain)
  BY NowOK
<1>3. /\ r \in States /\ r.chain = t.chain /\ r.host = host' /\ chain' = t.chain
      /\ r.host.rows = t.host.rows /\ r.host.sink = t.host.sink /\ r.host.ready = t.host.ready
      /\ r.host.date = t.host.date /\ r.host.case = t.host.case
      /\ r.host.open = t.host.open /\ r.host.spent = t.host.spent
  BY <1>1, BecomesParts
<1>4. /\ refunded' = Given(refunded, day, t.host.refund)
      /\ refunded \in Gifts /\ refunded' \in Gifts
      /\ \A d \in Days : refunded[d] <= refunded'[d]
      /\ t.host.refund = 0 => refunded' = refunded
  BY <1>1, BecomesParts
<1>5. /\ chain \in Seq(Rows) /\ (host.sink => host.ready) /\ day \in Nat
  BY DEF Typed, HostOK, Days
<1> SUFFICES ASSUME "late" \notin faults
             PROVE  /\ \A x \in Images(chain') : Image(x, refunded', day)
                    /\ host'.sink => Firm(r, refunded', day, faults)
                    /\ faults = {} /\ ~ host'.ready => Balanced(Last(chain'), refunded')
  BY DEF Sound
<1> HIDE DEF r
<1>6. CASE host.sink
  <2>1. Firm(s, refunded', day, faults)
    BY <1>1, <1>4, <1>6, NowFirm
  <2>2. Firm(t, refunded', day, faults)
    BY <1>4, <2>1
  <2>3. Firm(r, refunded', day, faults)
    BY <1>1, <1>2, <1>3, <1>6, <2>2, FirmAside
  <2>4. \A x \in Images(chain') : Image(x, refunded', day)
    BY <1>3, <2>2 DEF Firm, Held, Shelf
  <2>5. host'.ready
    BY <1>1, <1>2, <1>3, <1>5, <1>6
  <2> QED BY <2>3, <2>4, <2>5
<1>7. CASE ~ host.sink
  <2>1. chain' = chain /\ ~ host'.sink /\ (~ host'.ready => ~ host.ready)
    BY <1>1, <1>2, <1>3, <1>7
  <2>2. \A x \in Images(chain') : Image(x, refunded', day)
    <3> SUFFICES ASSUME NEW x \in Images(chain) PROVE Image(x, refunded', day)
      BY <2>1
    <3>1. x \in Rows /\ Image(x, refunded, day) /\ day <= day
      BY <1>5, ImagesOf DEF Sound
    <3> QED BY <1>4, <1>5, <3>1, ImageLater
  <2>3. faults = {} /\ ~ host'.ready => Balanced(Last(chain'), refunded')
    <3> SUFFICES ASSUME faults = {}, ~ host'.ready PROVE Balanced(Last(chain'), refunded')
      OBVIOUS
    <3>1. ~ host.ready /\ Balanced(Last(chain), refunded)
      BY <2>1 DEF Sound
    <3>2. t.host.refund = 0
      BY <1>1, <3>1, NowStill
    <3> QED BY <1>4, <2>1, <3>1, <3>2
  <2> QED BY <2>1, <2>2, <2>3
<1> QED BY <1>6, <1>7

LEMMA WriteSteady ==
  ASSUME NEW s \in States, NEW t, NEW K, NEW V, Kind(t, K, V), NEW k \in K, NEW v \in V
  PROVE  Steady(Write(s, t, k, v), s)
BY WriteOK DEF Steady, Beside

LEMMA LookSound ==
  ASSUME Typed, Sound, Look
  PROVE  Sound'
<1>1. PICK s \in Now : Becomes(s)
  BY DEF Look
<1>2. Steady(s, s)
  BY NowOK DEF Steady, Passed
<1>3. day' = day /\ faults' = faults
  BY DEF Look
<1> QED BY <1>1, <1>2, <1>3, StepSound

LEMMA CreditSound ==
  ASSUME Typed, Sound, Credit
  PROVE  Sound'
<1>1. PICK s \in Now : Becomes(Write(s, "daily", day, Earned(s) + 1))
  BY DEF Credit
<1>2. s \in States /\ day \in Days /\ day \in Nat /\ Earned(s) + 1 \in Nat
  BY NowOK, EarnedOK DEF Passed, Typed, Days
<1> DEFINE e == Earned(s) + 1
           t == Write(s, "daily", day, e)
<1> HIDE DEF e
<1>3. Steady(t, s)
  BY <1>2, Kinds, WriteSteady DEF e
<1>4. \A gave \in Gifts : Firm(s, gave, day, faults) => Firm(t, gave, day, faults)
  BY <1>2, CreditFirm DEF e
<1>5. day' = day /\ faults' = faults /\ Becomes(t)
  BY <1>1 DEF Credit, e
<1> HIDE DEF t
<1> QED BY <1>3, <1>4, <1>5, StepSound

LEMMA CycledSteady ==
  ASSUME NEW s \in States, s.host.date \in Days, day \in Days, NEW i \in 0 .. Cases - 1
  PROVE  Steady(Cycled(s, i), s)
<1> DEFINE u == Parked(s)
           w == Write(u, "index", day, i)
           t == OpenCase(w, i)
<1>1. u \in States /\ Beside(u.host, s.host) /\ (~ s.host.sink => u.chain = s.chain)
  BY ParkedOK
<1> HIDE DEF u
<1>2. w \in States /\ Beside(w.host, u.host) /\ (~ u.host.sink => w.chain = u.chain)
  BY <1>1, IndexedOK
<1> HIDE DEF w
<1>3. /\ t \in States /\ t.chain = w.chain /\ t.host.ready = w.host.ready
      /\ t.host.sink = w.host.sink /\ t.host.refund = w.host.refund
  BY <1>2, OpenCaseOK
<1>4. t = Cycled(s, i)
  BY DEF Cycled, u, w
<1> HIDE DEF t
<1> QED BY <1>1, <1>2, <1>3, <1>4 DEF Steady, Beside

LEMMA CycleSound ==
  ASSUME Typed, Sound, CycleLocalCase
  PROVE  Sound'
<1>1. PICK s \in Now : Becomes(Cycled(s, (s.host.case + 1) % Cases))
  BY DEF CycleLocalCase
<1> DEFINE i == (s.host.case + 1) % Cases
           t == Cycled(s, i)
<1>2. s \in States /\ s.host.date = day /\ day \in Days
  BY NowOK DEF Passed, Typed
<1>3. i \in 0 .. Cases - 1
  <2>1. s.host.case \in Nat
    BY <1>2, StateParts, HostParts, Numbers
  <2> QED BY <2>1, Numbers
<1>4. day' = day /\ faults' = faults /\ Becomes(t)
  BY <1>1 DEF CycleLocalCase
<1> HIDE DEF i
<1>5. Steady(t, s)
  BY <1>2, <1>3, CycledSteady
<1>6. \A gave \in Gifts : Firm(s, gave, day, faults) => Firm(t, gave, day, faults)
  BY <1>2, <1>3, CycleFirm
<1> HIDE DEF t
<1> QED BY <1>4, <1>5, <1>6, StepSound

LEMMA RecordedSteady ==
  ASSUME NEW s \in States, day \in Days, s.host.date = day, NEW n \in Nat \ {0},
         NEW r \in Requests, NEW found \in Spending
  PROVE  Steady(Recorded(Counted(s, n), r, found), s)
<1> DEFINE u == Counted(s, n)
           t == Recorded(u, r, found)
<1>1. /\ u \in States /\ u.chain = s.chain /\ u.host.ready = s.host.ready /\ u.host.sink = s.host.sink
      /\ u.host.date = s.host.date /\ u.host.refund = s.host.refund
  BY CountedOK
<1> HIDE DEF u
<1>2. t \in States /\ Beside(t.host, u.host) /\ (~ u.host.sink => t.chain = u.chain)
  BY <1>1, RecordedOK
<1> HIDE DEF t
<1>3. Steady(t, s)
  BY <1>1, <1>2 DEF Steady, Beside
<1> QED BY <1>3 DEF t, u

LEMMA VoteSound ==
  ASSUME Typed, Sound, NEW r \in Request, Vote(r)
  PROVE  Sound'
<1>a. PICK s \in Now :
        /\ r \notin DOMAIN s.host.rows.receipt
        /\ \E intent \in Intent(s) :
             Refuse(s, r, intent) \/ \E available \in 1 .. MaxCount : Accept(s, r, intent, available)
  BY DEF Vote
<1>1. PICK intent \in Intent(s) :
        Refuse(s, r, intent) \/ \E available \in 1 .. MaxCount : Accept(s, r, intent, available)
  BY <1>a
<1>2. Passed(s, day) /\ s \in States /\ s.host.date = day /\ day \in Days /\ day \in Nat
      /\ r \in Requests /\ r \notin DOMAIN s.host.rows.receipt
  BY <1>a, NowOK DEF Passed, Typed, Requests, Days
<1>3. day' = day /\ faults' = faults
  BY DEF Vote
<1>4. CASE Refuse(s, r, intent)
  <2> DEFINE found == Receipt(intent, "rejected", 0)
             t == Write(s, "receipt", r, found)
  <2>1. found \in Spending /\ found.spent = 0
    BY <1>2, ReceiptOK
  <2>2. Becomes(t)
    BY <1>4 DEF Refuse
  <2> HIDE DEF found
  <2>3. Steady(t, s)
    BY <1>2, <2>1, Kinds, WriteSteady
  <2>4. \A gave \in Gifts : Firm(s, gave, day, faults) => Firm(t, gave, day, faults)
    BY <1>2, <2>1, RefuseFirm
  <2> HIDE DEF t
  <2> QED BY <1>3, <2>2, <2>3, <2>4, StepSound
<1>5. ASSUME NEW available \in 1 .. MaxCount, Accept(s, r, intent, available)
      PROVE  Sound'
  <2> DEFINE n == Spend(intent.count, Balance(s), available)
             found == Receipt(intent, "accepted", n)
             t == Recorded(Counted(s, n), r, found)
  <2>1. intent.case = Active(s) /\ Balance(s) > 0 /\ Becomes(t)
    BY <1>5 DEF Accept
  <2>2. n \in 1 .. MaxCount /\ n \in Nat \ {0} /\ n \in Nat
    BY <1>2, <2>1, SpendOK
  <2> HIDE DEF n
  <2>3. found \in Spending
    BY <1>2, <2>2, ReceiptOK
  <2>4. found.case = Active(s) /\ found.spent = n
    BY <2>1 DEF Receipt
  <2> HIDE DEF found
  <2>5. Steady(t, s)
    BY <1>2, <2>2, <2>3, RecordedSteady
  <2>6. \A gave \in Gifts : Firm(s, gave, day, faults) => Firm(t, gave, day, faults)
    BY <1>2, <2>2, <2>3, <2>4, AcceptFirm
  <2> HIDE DEF t
  <2> QED BY <1>3, <2>1, <2>5, <2>6, StepSound
<1> QED BY <1>1, <1>4, <1>5

LEMMA MidnightSound ==
  ASSUME Typed, Sound, Midnight
  PROVE  Sound'
<1>1. /\ day' = day + 1 /\ host' = host /\ chain' = chain /\ refunded' = refunded /\ faults' = faults
  BY DEF Midnight
<1>2. chain \in Seq(Rows) /\ refunded \in Gifts /\ day \in Nat /\ day' \in Nat /\ day <= day'
      /\ \A d \in Days : refunded[d] <= refunded[d]
  BY <1>1 DEF Typed, Gifts, Days
<1> SUFFICES ASSUME "late" \notin faults
             PROVE  /\ \A x \in Images(chain) : Image(x, refunded, day')
                    /\ host.sink => Firm([host |-> host, chain |-> chain], refunded, day', faults)
                    /\ faults = {} /\ ~ host.ready => Balanced(Last(chain), refunded)
  BY <1>1 DEF Sound
<1>3. \A x \in Images(chain) : Image(x, refunded, day')
  <2> SUFFICES ASSUME NEW x \in Images(chain) PROVE Image(x, refunded, day')
    OBVIOUS
  <2>1. x \in Rows /\ Image(x, refunded, day)
    BY <1>2, ImagesOf DEF Sound
  <2> QED BY <1>2, <2>1, ImageLater
<1>4. ASSUME host.sink
      PROVE  Firm([host |-> host, chain |-> chain], refunded, day', faults)
  <2> DEFINE u == [host |-> host, chain |-> chain]
  <2>1. Firm(u, refunded, day, faults) /\ u.chain = chain
    BY <1>4 DEF Sound
  <2> HIDE DEF u
  <2>2. Shelf(u, refunded, day', faults)
    BY <1>3, <2>1 DEF Firm, Held, Shelf
  <2>3. Firm(u, refunded, day', faults)
    BY <2>1, <2>2 DEF Firm, Held
  <2> QED BY <2>3 DEF u
<1>5. faults = {} /\ ~ host.ready => Balanced(Last(chain), refunded)
  BY DEF Sound
<1> QED BY <1>3, <1>4, <1>5

LEMMA MemorySound ==
  ASSUME Typed, Sound, MarkReadyMemoryOnly
  PROVE  Sound'
<1> DEFINE h == [host EXCEPT !.ready = TRUE]
           t == [host |-> h, chain |-> chain]
<1>1. host \in HostShape /\ host.refund = 0 /\ ~ host.sink /\ chain \in Seq(Rows) /\ day \in Days
      /\ refunded \in Gifts
  BY DEF Typed, HostOK, MarkReadyMemoryOnly, Gifts
<1>2. h \in HostShape /\ h.ready /\ ~ h.sink /\ h.refund = 0
  BY <1>1 DEF HostShape
<1>3. Becomes(t) /\ day' = day /\ faults' = faults
  BY DEF MarkReadyMemoryOnly
<1>4. t.host = h /\ t.chain = chain
  OBVIOUS
<1> HIDE DEF h
<1>5. t \in States
  BY <1>1, <1>2, StateOf
<1> HIDE DEF t
<1>6. /\ chain' = chain /\ host'.sink = t.host.sink /\ host'.ready = t.host.ready
      /\ t.host.refund = 0 => refunded' = refunded
  BY <1>4, <1>5, <1>3, BecomesParts
<1> QED BY <1>2, <1>3, <1>4, <1>6 DEF Sound

\* A crash leaves one image, that was sound already.
LEMMA CrashSound ==
  ASSUME Typed, Sound, NEW i \in DOMAIN chain, Crash(i)
  PROVE  Sound'
<1> DEFINE x == chain[i]
<1>1. chain' = <<x>> /\ host' = Constructed /\ day' = day /\ refunded' = refunded
      /\ faults' = IF host.sink /\ i = Len(chain) THEN faults ELSE faults \cup {"crash"}
  BY DEF Crash
<1>2. ~ host'.sink
  BY <1>1, ConstructedOK DEF Typed
<1>3. Images(<<x>>) = {x} /\ Last(<<x>>) = x /\ x \in Images(chain)
  BY DEF Images, Last
<1> SUFFICES ASSUME "late" \notin faults'
             PROVE  /\ \A y \in Images(<<x>>) : Image(y, refunded, day)
                    /\ faults' = {} => Balanced(Last(<<x>>), refunded)
  BY <1>1, <1>2 DEF Sound
<1>4. "late" \notin faults
  BY <1>1
<1>5. Image(x, refunded, day)
  BY <1>3, <1>4 DEF Sound
<1>6. ASSUME faults' = {} PROVE Balanced(x, refunded)
  <2>1. host.sink /\ i = Len(chain) /\ faults = {}
    BY <1>1, <1>6
  <2> DEFINE u == [host |-> host, chain |-> chain]
  <2>2. Firm(u, refunded, day, {}) /\ u.chain = chain
    BY <1>4, <2>1 DEF Sound
  <2> HIDE DEF u
  <2>3. u.host.rows = Last(chain) /\ Balanced(u.host.rows, refunded)
    BY <2>2 DEF Firm, Held, Shelf
  <2>4. Last(chain) = x
    BY <2>1 DEF Last
  <2> QED BY <2>3, <2>4
<1> QED BY <1>3, <1>5, <1>6
-----------------------------------------------------------------------------
(* What v0.8.1 left is one stick, one vote and one receipt of day 1. *)

LEMMA LegacyBooks ==
  ASSUME NEW d
  PROVE  /\ Get(LegacyRows.ledger, d, 0) = (IF d = 1 THEN 1 ELSE 0)
         /\ Tally(LegacyRows.agg, d) = (IF d = 1 THEN 1 ELSE 0)
         /\ Slips(LegacyRows.receipt, d) = (IF d = 1 THEN 1 ELSE 0)
         /\ Get(<<>>, d, 0) = 0 /\ Tally(<<>>, d) = 0 /\ Slips(<<>>, d) = 0
<1> DEFINE c == <<1, 0>>
           o == [votes |-> 1, voters |-> 1]
           found == [case |-> c, status |-> "accepted", spent |-> 1]
<1>1. c \in Case /\ o \in Votes /\ "legacy" \in Requests /\ found \in Spending /\ c[1] = 1
      /\ o.votes = 1 /\ found.case = c /\ found.spent = 1
  BY LegacyOK, Numbers DEF Votes, Spending, Requests
<1>2. <<>> \in Map(Case, Votes) /\ <<>> \in Map(Requests, Spending) /\ DOMAIN <<>> = {}
  BY NoMap
<1>3. Get(<<>>, d, 0) = 0 /\ Get(<<>>, c, NoVotes).votes = 0
  BY <1>2 DEF Get, NoVotes
<1>4. Tally(<<>>, d) = 0
  <2> DEFINE f == [k \in DOMAIN <<>> |-> <<>>[k].votes]
             S == {k \in DOMAIN <<>> : k[1] = d}
  <2>1. Tally(<<>>, d) = SumFunctionOnSet(f, S)
    BY DEF Tally
  <2>2. S = {}
    BY <1>2
  <2> HIDE DEF f, S
  <2> QED BY <2>1, <2>2, SumEmpty
<1>5. Slips(<<>>, d) = 0
  <2> DEFINE f == [k \in DOMAIN <<>> |-> <<>>[k].spent]
             S == {k \in DOMAIN <<>> : <<>>[k].case[1] = d}
  <2>1. Slips(<<>>, d) = SumFunctionOnSet(f, S)
    BY DEF Slips
  <2>2. S = {}
    BY <1>2
  <2> HIDE DEF f, S
  <2> QED BY <2>1, <2>2, SumEmpty
<1>6. /\ LegacyRows.agg = With(<<>>, c, o) /\ LegacyRows.receipt = With(<<>>, "legacy", found)
      /\ LegacyRows.ledger = [k \in {1} |-> 1]
  <2>1. LegacyRows.agg = [k \in {c} |-> o]
    BY LegacyOK
  <2>2. LegacyRows.receipt = [k \in {"legacy"} |-> found]
    BY LegacyOK
  <2> HIDE DEF c, o, found
  <2>3. With(<<>>, c, o) = [k \in {c} |-> o]
    BY <1>2 DEF With
  <2>4. With(<<>>, "legacy", found) = [k \in {"legacy"} |-> found]
    BY <1>2 DEF With
  <2> QED BY <2>1, <2>2, <2>3, <2>4, LegacyOK
<1> HIDE DEF c, o, found
<1>7. Get(LegacyRows.ledger, d, 0) = (IF d = 1 THEN 1 ELSE 0)
  BY <1>6 DEF Get
<1>8. Tally(LegacyRows.agg, d) = (IF d = 1 THEN 1 ELSE 0)
  <2>1. Tally(With(<<>>, c, o), d)
          = Tally(<<>>, d) + (IF c[1] = d THEN o.votes - Get(<<>>, c, NoVotes).votes ELSE 0)
    BY <1>1, <1>2, TallyMoved
  <2> QED BY <1>1, <1>3, <1>4, <1>6, <2>1
<1>9. Slips(LegacyRows.receipt, d) = (IF d = 1 THEN 1 ELSE 0)
  <2>1. Slips(With(<<>>, "legacy", found), d)
          = Slips(<<>>, d) + (IF found.case[1] = d THEN found.spent ELSE 0)
    BY <1>1, <1>2, SlipAdded
  <2> QED BY <1>1, <1>5, <1>6, <2>1
<1> QED BY <1>3, <1>4, <1>5, <1>7, <1>8, <1>9

\* Each step of the copy is backed, for it writes the ledger first and the receipt last.
LEMMA CopyingBacked ==
  ASSUME NEW x \in Rows, NEW gave \in Gifts, Copying(x)
  PROVE  /\ \A now : Image(x, gave, now)
         /\ Balanced(x, gave) => \A d \in Days : gave[d] = 0
<1>1. \A d \in Days : gave[d] \in Nat
  BY DEF Gifts
<1>2. \A d \in Days : /\ Get(x.ledger, d, 0) = (IF x.ledger # <<>> /\ d = 1 THEN 1 ELSE 0)
                      /\ Tally(x.agg, d) = (IF x.agg # <<>> /\ d = 1 THEN 1 ELSE 0)
                      /\ Slips(x.receipt, d) = (IF x.receipt # <<>> /\ d = 1 THEN 1 ELSE 0)
  <2> SUFFICES ASSUME NEW d \in Days
               PROVE  /\ Get(x.ledger, d, 0) = (IF x.ledger # <<>> /\ d = 1 THEN 1 ELSE 0)
                      /\ Tally(x.agg, d) = (IF x.agg # <<>> /\ d = 1 THEN 1 ELSE 0)
                      /\ Slips(x.receipt, d) = (IF x.receipt # <<>> /\ d = 1 THEN 1 ELSE 0)
    OBVIOUS
  <2>1. /\ x.ledger \in {<<>>, LegacyRows.ledger} /\ x.agg \in {<<>>, LegacyRows.agg}
        /\ x.receipt \in {<<>>, LegacyRows.receipt}
    BY DEF Copying
  <2>2. Get(x.ledger, d, 0) = (IF x.ledger # <<>> /\ d = 1 THEN 1 ELSE 0)
    BY <2>1, LegacyBooks
  <2>3. Tally(x.agg, d) = (IF x.agg # <<>> /\ d = 1 THEN 1 ELSE 0)
    BY <2>1, LegacyBooks
  <2>4. Slips(x.receipt, d) = (IF x.receipt # <<>> /\ d = 1 THEN 1 ELSE 0)
    BY <2>1, LegacyBooks
  <2> QED BY <2>2, <2>3, <2>4
<1>3. (x.agg # <<>> => x.ledger # <<>>) /\ (x.receipt # <<>> => x.agg # <<>>)
      /\ DOMAIN x.days = {} /\ DOMAIN x.periods = {}
  BY NoMap DEF Copying
<1>4. Backed(x, gave)
  BY <1>1, <1>2, <1>3 DEF Backed
<1>5. \A now : Filed(x, now)
  BY <1>3 DEF Filed
<1>6. ASSUME Balanced(x, gave), NEW d \in Days PROVE gave[d] = 0
  <2>1. Tally(x.agg, d) = Get(x.ledger, d, 0) + gave[d]
    BY <1>6 DEF Balanced
  <2> QED BY <1>1, <1>2, <1>3, <2>1
<1> QED BY <1>4, <1>5, <1>6 DEF Image

LEMMA InitSound ==
  ASSUME Init
  PROVE  Sound
<1>1. Typed
  BY InitTyped
<1>2. PICK m : chain = <<[NoRows EXCEPT !.migrated = m]>>
  BY DEF Init
<1> DEFINE x == [NoRows EXCEPT !.migrated = m]
<1>3. x \in Rows
  <2>1. chain \in Seq(Rows) /\ chain = <<x>>
    BY <1>1, <1>2 DEF Typed
  <2> HIDE DEF x
  <2> QED BY <2>1
<1>4. /\ x.ledger = <<>> /\ x.agg = <<>> /\ x.receipt = <<>> /\ x.days = <<>> /\ x.periods = <<>>
  BY DEF NoRows
<1>5. chain = <<x>> /\ ~ host.sink /\ refunded \in Gifts /\ \A d \in Days : refunded[d] = 0
  BY <1>1, <1>2, ConstructedOK DEF Init, Gifts, Typed
<1> HIDE DEF x
<1>6. Copying(x)
  BY <1>4 DEF Copying
<1>7. Image(x, refunded, day)
  BY <1>3, <1>5, <1>6, CopyingBacked
<1>8. Balanced(x, refunded)
  <2>1. \A d \in Days : Get(x.ledger, d, 0) = 0 /\ Tally(x.agg, d) = 0 /\ Slips(x.receipt, d) = 0
    BY <1>4, LegacyBooks
  <2> QED BY <1>5, <2>1 DEF Balanced
<1>9. Images(chain) = {x} /\ Last(chain) = x
  BY <1>5 DEF Images, Last
<1> QED BY <1>5, <1>7, <1>8, <1>9 DEF Sound

\* A table that is empty or copied already is copied.
LEMMA OverLegacy ==
  ASSUME NEW S, NEW l, l = [k \in S |-> l[k]], NEW f \in {<<>>, l}
  PROVE  Over(f, l) = l
<1>1. DOMAIN l = S /\ DOMAIN <<>> = {}
  BY NoMap
<1>2. CASE f = <<>>
  BY <1>1, <1>2 DEF Over
<1>3. CASE f = l
  BY <1>1, <1>3 DEF Over
<1> QED BY <1>2, <1>3

LEMMA MovedCopying ==
  ASSUME NEW x \in Rows, Copying(x)
  PROVE  /\ Copying(Moved1(x)) /\ Copying(Moved2(x)) /\ Copying(Moved3(x)) /\ Copying(Moved4(x))
         /\ Copying(Moved5(x))
         /\ Moved5(x).ledger = LegacyRows.ledger /\ Moved5(x).agg = LegacyRows.agg
         /\ Moved5(x).receipt = LegacyRows.receipt
<1> DEFINE a == Moved1(x)
           b == Moved2(x)
           c == Moved3(x)
           d == Moved4(x)
           e == Moved5(x)
           l == LegacyRows.ledger
           g == LegacyRows.agg
           p == LegacyRows.receipt
<1>1. /\ a.ledger = Over(x.ledger, l) /\ Kept(a, x, TableNames \ {"ledger"})
      /\ b.agg = Over(x.agg, g) /\ Kept(b, a, TableNames \ {"agg"})
      /\ c.receipt = Over(x.receipt, p) /\ Kept(c, b, TableNames \ {"receipt"})
      /\ Kept(d, c, TableNames \ {"daily"}) /\ Kept(e, d, TableNames \ {"migrated"})
  BY MovedOK
<1>2. x.ledger \in {<<>>, l} /\ x.agg \in {<<>>, g} /\ x.receipt \in {<<>>, p}
      /\ x.days = <<>> /\ x.periods = <<>>
      /\ (x.agg # <<>> => x.ledger # <<>>) /\ (x.receipt # <<>> => x.agg # <<>>)
  BY DEF Copying
<1>3. l = [k \in {1} |-> l[k]] /\ g = [k \in {<<1, 0>>} |-> g[k]] /\ p = [k \in {"legacy"} |-> p[k]]
  BY LegacyOK
<1>4. l # <<>> /\ g # <<>> /\ p # <<>>
  <2>1. DOMAIN l = {1} /\ DOMAIN g = {<<1, 0>>} /\ DOMAIN p = {"legacy"} /\ DOMAIN <<>> = {}
    BY LegacyOK, NoMap
  <2> HIDE DEF l, g, p
  <2> QED BY <2>1
<1> HIDE DEF l, g, p, a, b, c, d, e
<1>5. a.ledger = l /\ b.agg = g /\ c.receipt = p
  <2>1. a.ledger = l
    BY <1>1, <1>2, <1>3, OverLegacy
  <2>2. b.agg = g
    BY <1>1, <1>2, <1>3, OverLegacy
  <2>3. c.receipt = p
    BY <1>1, <1>2, <1>3, OverLegacy
  <2> QED BY <2>1, <2>2, <2>3
<1>6. /\ a.agg = x.agg /\ a.receipt = x.receipt /\ a.days = x.days /\ a.periods = x.periods
      /\ b.ledger = l /\ b.receipt = x.receipt /\ b.days = x.days /\ b.periods = x.periods
      /\ c.ledger = l /\ c.agg = g /\ c.days = x.days /\ c.periods = x.periods
  BY <1>1, <1>5 DEF Kept, TableNames
<1>7. /\ d.ledger = l /\ d.agg = g /\ d.receipt = p /\ d.days = x.days /\ d.periods = x.periods
      /\ e.ledger = l /\ e.agg = g /\ e.receipt = p /\ e.days = x.days /\ e.periods = x.periods
  BY <1>1, <1>5, <1>6 DEF Kept, TableNames
<1>8. Copying(a)
  BY <1>2, <1>4, <1>5, <1>6 DEF Copying, l, g, p
<1>9. Copying(b)
  BY <1>2, <1>4, <1>5, <1>6 DEF Copying, l, g, p
<1>10. Copying(c)
  BY <1>2, <1>4, <1>5, <1>6 DEF Copying, l, g, p
<1>11. Copying(d) /\ Copying(e)
  BY <1>2, <1>4, <1>7 DEF Copying, l, g, p
<1> QED BY <1>7, <1>8, <1>9, <1>10, <1>11 DEF a, b, c, d, e, l, g, p

\* The copy adds sound images only, wherever an earlier one was cut.
LEMMA SplitSound ==
  ASSUME NEW gave \in Gifts, NEW now, NEW c \in Seq(Rows), Len(c) > 0,
         \A x \in Images(c) : Image(x, gave, now), Last(c).migrated = <<>>
  PROVE  /\ \A x \in Images(Split(c)) : Image(x, gave, now)
         /\ Balanced(Last(c), gave) => Balanced(Last(Split(c)), gave)
<1> DEFINE x  == Last(c)
           m1 == Moved1(x)
           m2 == Moved2(x)
           m3 == Moved3(x)
           m4 == Moved4(x)
           m5 == Moved5(x)
<1>1. /\ x \in Rows /\ Last(Split(c)) = m5
      /\ Split(c) = Append(Append(Append(Append(Append(c, m1), m2), m3), m4), m5)
  BY SplitOK
<1>2. x \in Images(c)
  BY ImagesOf
<1> HIDE DEF x
<1>3. Copying(x)
  BY <1>2 DEF Image, x
<1>4. m1 \in Rows /\ m2 \in Rows /\ m3 \in Rows /\ m4 \in Rows /\ m5 \in Rows
  BY <1>1, MovedOK
<1>5. /\ Copying(m1) /\ Copying(m2) /\ Copying(m3) /\ Copying(m4) /\ Copying(m5)
      /\ m5.ledger = LegacyRows.ledger /\ m5.agg = LegacyRows.agg /\ m5.receipt = LegacyRows.receipt
  BY <1>1, <1>3, MovedCopying
<1> HIDE DEF m1, m2, m3, m4, m5
<1>6. \A y \in {m1, m2, m3, m4, m5} : Image(y, gave, now)
  BY <1>4, <1>5, CopyingBacked
<1>7. Images(Split(c)) = Images(c) \cup {m1, m2, m3, m4, m5}
  <2> DEFINE d == Append(Append(Append(c, m1), m2), m3)
             e == Append(d, m4)
             f == Append(e, m5)
  <2>1. d \in Seq(Rows) /\ Images(d) = Images(c) \cup {m1, m2, m3}
    BY <1>4, AppendOK, ThreeMore
  <2>2. Split(c) = f
    BY <1>1
  <2> HIDE DEF d
  <2>3. e \in Seq(Rows) /\ Images(e) = Images(d) \cup {m4}
    BY <1>4, <2>1, AppendOK, ImagesOf
  <2> HIDE DEF e
  <2>4. Images(f) = Images(e) \cup {m5}
    BY <1>4, <2>3, ImagesOf
  <2> HIDE DEF f
  <2> QED BY <2>1, <2>2, <2>3, <2>4
<1>8. Balanced(x, gave) => Balanced(m5, gave)
  <2> SUFFICES ASSUME Balanced(x, gave) PROVE Balanced(m5, gave)
    OBVIOUS
  <2>1. \A d \in Days : gave[d] = 0
    BY <1>1, <1>3, CopyingBacked
  <2>2. \A d \in Days : /\ Get(m5.ledger, d, 0) = (IF d = 1 THEN 1 ELSE 0)
                        /\ Tally(m5.agg, d) = (IF d = 1 THEN 1 ELSE 0)
                        /\ Slips(m5.receipt, d) = (IF d = 1 THEN 1 ELSE 0)
    BY <1>5, LegacyBooks
  <2> QED BY <2>1, <2>2 DEF Balanced
<1> QED BY <1>1, <1>6, <1>7, <1>8 DEF x

LEMMA OpenedSound ==
  ASSUME NEW gave \in Gifts, NEW now, NEW c \in Seq(Rows), Len(c) > 0,
         \A x \in Images(c) : Image(x, gave, now)
  PROVE  /\ \A x \in Images(Opened(c)) : Image(x, gave, now)
         /\ Balanced(Last(c), gave) => Balanced(Last(Opened(c)), gave)
BY SplitSound DEF Opened

\* Merging with nothing, or with itself, changes no daily total.
LEMMA MergedSame ==
  ASSUME NEW f \in Map(Days, Nat), NEW g \in Map(Days, Nat), DOMAIN f = {} \/ f = g
  PROVE  Merged(f, g) = g
<1> DEFINE S == DOMAIN f \cup DOMAIN g
           m == Merged(f, g)
<1>1. S = DOMAIN g
  OBVIOUS
<1>2. m = [d \in S |-> m[d]] /\ \A d \in S : m[d] = Max({Get(f, d, 0), Get(g, d, 0)})
  BY DEF Merged
<1> HIDE DEF m, S
<1>3. ASSUME NEW d \in DOMAIN g PROVE m[d] = g[d]
  <2> DEFINE a == Get(f, d, 0)
             b == Get(g, d, 0)
  <2>1. a \in Nat /\ b \in Nat /\ b = g[d] /\ a \in {0, b}
    BY <1>3, GetParts DEF Get
  <2>2. m[d] = Max({a, b})
    BY <1>1, <1>2
  <2> HIDE DEF a, b
  <2>3. Max({a, b}) >= a /\ Max({a, b}) >= b /\ Max({a, b}) \in {a, b}
    BY <2>1, MaxOfTwo
  <2>4. Max({a, b}) = b
    BY <2>1, <2>3
  <2> QED BY <2>1, <2>2, <2>4
<1>4. g = [d \in DOMAIN g |-> g[d]]
  BY MapParts
<1> QED BY <1>1, <1>2, <1>3, <1>4 DEF m

\* A process that has served from no memory of its own loads the rows as they are.
LEMMA LoadedSame ==
  ASSUME Typed, NEW x \in Rows, host.ready => host.rows = x
  PROVE  Loaded(x) = x
<1>1. host.rows.daily \in Map(Days, Nat) /\ x.daily \in Map(Days, Nat) /\ host \in HostShape
      /\ (~ host.ready => DOMAIN host.rows.daily = {})
  BY HostParts, RowsParts DEF Typed, HostOK
<1>2. Merged(host.rows.daily, x.daily) = x.daily
  BY <1>1, MergedSame
<1>3. Loaded(x) = [x EXCEPT !.daily = x.daily]
  BY <1>2 DEF Loaded
<1> QED BY <1>3 DEF Rows, Tables

LEMMA AttachSound ==
  ASSUME Typed, Sound, AttachPersistence
  PROVE  Sound'
<1> DEFINE u == Joined
           t == Rotated(u)
           c == Opened(chain)
           r == [host |-> host, chain |-> chain]'
<1>1. Becomes(t) /\ day' = day
      /\ faults' = faults \cup IF host.ready /\ ~ host.sink THEN {"late"} ELSE {}
  BY DEF AttachPersistence, Joined
<1>2. refunded \in Gifts /\ day \in Days /\ chain \in Seq(Rows) /\ Len(chain) > 0
      /\ (host.sink => host.ready)
  BY DEF Typed, Gifts, HostOK
<1> SUFFICES ASSUME "late" \notin faults'
             PROVE  /\ \A x \in Images(chain') : Image(x, refunded', day)
                    /\ host'.sink => Firm(r, refunded', day, faults)
                    /\ host'.ready
  <2>1. "late" \notin faults' => faults' = faults
    BY <1>1
  <2> QED BY <1>1, <2>1 DEF Sound
<1>3. "late" \notin faults /\ (host.ready => host.sink)
  BY <1>1
<1>4. \A x \in Images(chain) : Image(x, refunded, day)
  BY <1>3 DEF Sound
<1>5. host.ready => host.rows = Last(chain) /\ Last(chain).migrated # <<>>
  <2> SUFFICES ASSUME host.ready
               PROVE  host.rows = Last(chain) /\ Last(chain).migrated # <<>>
    OBVIOUS
  <2> DEFINE w == [host |-> host, chain |-> chain]
  <2>1. Firm(w, refunded, day, faults) /\ w.host = host /\ w.chain = chain
    BY <1>3 DEF Sound
  <2> HIDE DEF w
  <2> QED BY <2>1 DEF Firm, Held, Shelf
<1>6. faults = {} => Balanced(Last(chain), refunded)
  <2> SUFFICES ASSUME faults = {} PROVE Balanced(Last(chain), refunded)
    OBVIOUS
  <2>1. CASE host.sink
    <3> DEFINE w == [host |-> host, chain |-> chain]
    <3>1. Firm(w, refunded, day, faults) /\ w.host = host /\ w.chain = chain
      BY <1>3, <2>1 DEF Sound
    <3> HIDE DEF w
    <3> QED BY <3>1 DEF Firm, Held, Shelf
  <2>2. CASE ~ host.ready
    BY <2>2, <1>3 DEF Sound
  <2> QED BY <1>3, <2>1, <2>2
<1>7. /\ c \in Seq(Rows) /\ Len(c) > 0 /\ Last(c) \in Rows /\ Last(c).migrated # <<>>
      /\ u \in States /\ u.chain = c /\ u.host.rows = Loaded(Last(c)) /\ u.host.sink /\ u.host.ready
      /\ u.host.date = 0 /\ u.host.refund = 0
  BY JoinedOK
<1>8. host.ready => c = chain
  BY <1>5 DEF Opened
<1>9. /\ \A x \in Images(c) : Image(x, refunded, day)
      /\ faults = {} => Balanced(Last(c), refunded)
  BY <1>2, <1>4, <1>6, OpenedSound
<1> HIDE DEF u, c, r
<1>10. u.host.rows = Last(c)
  BY <1>5, <1>7, <1>8, LoadedSame
<1>11. Shelf(u, refunded, day, faults)
  BY <1>7, <1>9, <1>10 DEF Shelf
<1>12. t.host.refund \in Nat /\ Firm(t, Given(refunded, day, t.host.refund), day, faults)
  BY <1>2, <1>7, <1>11, RotatedFirm
<1>13. t \in States /\ t.host.sink /\ t.host.ready
  <2>1. Passed(t, day) /\ t.host.sink
    BY RejoinedOK DEF u
  <2> HIDE DEF t
  <2> QED BY <2>1 DEF Passed, HostOK
<1> HIDE DEF t
<1>14. /\ r \in States /\ r.chain = t.chain /\ r.host = host' /\ chain' = t.chain
       /\ r.host.rows = t.host.rows /\ r.host.sink = t.host.sink /\ r.host.ready = t.host.ready
       /\ r.host.date = t.host.date /\ r.host.case = t.host.case
       /\ r.host.open = t.host.open /\ r.host.spent = t.host.spent
       /\ refunded' = Given(refunded, day, t.host.refund)
  BY <1>1, <1>13, BecomesParts DEF r
<1>15. Firm(r, refunded', day, faults)
  BY <1>12, <1>13, <1>14, FirmAside
<1>16. \A x \in Images(chain') : Image(x, refunded', day)
  BY <1>12, <1>14 DEF Firm, Held, Shelf
<1> QED BY <1>13, <1>14, <1>15, <1>16

LEMMA SoundStep ==
  ASSUME Typed, Sound, [Next]_vars
  PROVE  Sound'
<1>1. CASE UNCHANGED vars
  BY <1>1 DEF vars, Sound
<1>2. CASE Next
  BY <1>2, CreditSound, LookSound, CycleSound, MidnightSound, VoteSound, AttachSound, MemorySound,
     CrashSound DEF Next
<1> QED BY <1>1, <1>2

LEMMA SoundInvariant == Spec => []Sound
<1>1. Init => Sound
  BY InitSound
<1>2. Typed /\ Sound /\ [Next]_vars => Sound'
  BY SoundStep
<1> QED BY <1>1, <1>2, TypedInvariant, PTL DEF Spec

\* With a storage, nothing attached late: the books of the running process.
LEMMA BooksFollow ==
  ASSUME Typed, Sound
  PROVE  BooksBalance
<1> SUFFICES ASSUME host.sink, "late" \notin faults
             PROVE  \A d \in Days :
                      /\ Receipts(host.rows, d) <= VotesOn(host.rows, d)
                      /\ VotesOn(host.rows, d) <= Get(host.rows.ledger, d, 0) + refunded[d]
                      /\ faults = {} => /\ Receipts(host.rows, d) = VotesOn(host.rows, d)
                                        /\ VotesOn(host.rows, d) = Get(host.rows.ledger, d, 0) + refunded[d]
  BY DEF BooksBalance
<1> DEFINE u == [host |-> host, chain |-> chain]
           x == host.rows
<1>1. Firm(u, refunded, day, faults) /\ u.host.rows = x
  BY DEF Sound
<1> HIDE DEF u
<1>2. Backed(x, refunded) /\ (faults = {} => Balanced(x, refunded))
  BY <1>1, ShelfParts DEF Firm, Held
<1> HIDE DEF x
<1>3. \A d \in Days : VotesOn(x, d) = Tally(x.agg, d) /\ Receipts(x, d) = Slips(x.receipt, d)
  BY BooksOf
<1>4. \A d \in Days : Receipts(x, d) <= VotesOn(x, d)
                      /\ VotesOn(x, d) <= Get(x.ledger, d, 0) + refunded[d]
  BY <1>2, <1>3 DEF Backed
<1>5. faults = {} => \A d \in Days : Receipts(x, d) = VotesOn(x, d)
                                     /\ VotesOn(x, d) = Get(x.ledger, d, 0) + refunded[d]
  BY <1>2, <1>3 DEF Balanced
<1> QED BY <1>4, <1>5 DEF x

\* However often the process stops, and wherever: receipts are backed by votes of their day
\* and votes by sticks of its ledger (or sticks the guard gave back), and while nothing is
\* lost, to the stick (fake-service.ts:442-464).
THEOREM Balances == Spec => []BooksBalance
<1>1. Typed /\ Sound => BooksBalance
  BY BooksFollow
<1> QED BY <1>1, TypedInvariant, SoundInvariant, PTL

LEMMA ArchivesFollow ==
  ASSUME Typed, Sound
  PROVE  ArchivesAddUp
<1> DEFINE x    == host.rows
           now  == host.date
           past == {c[1] : c \in {k \in DOMAIN x.agg : k[1] < now}}
           f    == [d \in past |-> VotesOn(x, d)]
<1> SUFFICES ASSUME host.sink, "late" \notin faults
             PROVE  /\ past = DOMAIN x.days
                    /\ \A d \in past : x.days[d].votes = VotesOn(x, d)
                    /\ \A p \in {PeriodOf(d) : d \in past} : EndOf(p) < now =>
                         /\ p \in DOMAIN x.periods
                         /\ x.periods[p].covered = {d \in past : PeriodOf(d) = p}
                         /\ x.periods[p].votes = SumFunctionOnSet(f, x.periods[p].covered)
  BY DEF ArchivesAddUp
<1> DEFINE u == [host |-> host, chain |-> chain]
<1>1. Firm(u, refunded, day, faults) /\ u.host.rows = x /\ u.host.date = now
  BY DEF Sound
<1> HIDE DEF u
<1>2. Filed(x, day) /\ Complete(x, now) /\ x \in Rows
  BY <1>1, ShelfParts DEF Firm, Held
<1> HIDE DEF x, now
<1>3. past = DOMAIN x.days
  <2>1. past = Past(x, now)
    BY DEF Past, DatesIn
  <2> QED BY <1>2, <2>1 DEF Complete
<1> HIDE DEF past
<1>4. \A d \in past : x.days[d].votes = VotesOn(x, d)
  <2>1. \A d \in DOMAIN x.days : x.days[d].votes = Tally(x.agg, d)
    BY <1>2 DEF Filed
  <2> QED BY <1>3, <2>1, BooksOf
<1>5. ASSUME NEW p \in {PeriodOf(d) : d \in past}, EndOf(p) < now
      PROVE  /\ p \in DOMAIN x.periods
             /\ x.periods[p].covered = {d \in past : PeriodOf(d) = p}
             /\ x.periods[p].votes = SumFunctionOnSet(f, x.periods[p].covered)
  <2>1. p \in DOMAIN x.periods
    BY <1>2, <1>3, <1>5 DEF Complete
  <2>2. x.periods[p].covered = Covered(x, p)
        /\ x.periods[p].votes = SumFunctionOnSet(DayVotes(x), Covered(x, p))
    BY <1>2, <2>1 DEF Filed
  <2>3. Covered(x, p) = {d \in past : PeriodOf(d) = p}
    BY <1>3 DEF Covered
  <2> DEFINE S == Covered(x, p)
             g == DayVotes(x)
  <2>4. IsFiniteSet(S)
    <3>1. x.days \in Map(Days, DayRow)
      BY <1>2, RowsParts
    <3>2. IsFiniteSet(DOMAIN x.days)
      BY <3>1, MapValues
    <3>3. S \subseteq DOMAIN x.days
      BY DEF Covered
    <3> QED BY <3>2, <3>3, FS_Subset
  <2>5. \A d \in S : g[d] \in Int /\ g[d] = f[d]
    <3> SUFFICES ASSUME NEW d \in S PROVE g[d] \in Int /\ g[d] = f[d]
      OBVIOUS
    <3>1. d \in DOMAIN x.days /\ d \in past
      BY <1>3, <2>3 DEF Covered
    <3>2. g[d] = x.days[d].votes
      BY <3>1 DEF DayVotes
    <3>3. x.days[d].votes \in Nat
      BY <1>2, <1>4, <3>1, BooksOf, BooksOK
    <3> QED BY <1>4, <3>1, <3>2, <3>3
  <2> HIDE DEF S, g, f
  <2>6. SumFunctionOnSet(g, S) = SumFunctionOnSet(f, S)
    BY <2>4, <2>5, SumSame
  <2> QED BY <2>1, <2>2, <2>3, <2>6 DEF S, g
<1> QED BY <1>3, <1>4, <1>5 DEF f

\* However many dates a stopped process has missed and wherever a crash cut the archives
\* short: each past date with a case is archived with exactly its votes, each period that is
\* over is sealed over exactly its dates (fake-service.ts:676-769).
THEOREM Archives == Spec => []ArchivesAddUp
<1>1. Typed /\ Sound => ArchivesAddUp
  BY ArchivesFollow
<1> QED BY <1>1, TypedInvariant, SoundInvariant, PTL
=============================================================================
