--------------------------- MODULE BacktestProofs ---------------------------
(***************************************************************************)
(* Proofs about Backtest: no decision is taken on a book that the file has *)
(* after it, an order is filled with the book of its fill time, and the    *)
(* account is the sum of the trades, for every document, every latency and *)
(* every fill model.  The lemmas about sums and the least counterexample   *)
(* are those of RulesProofs.                                               *)
(***************************************************************************)
EXTENDS Backtest, RulesProofs

-----------------------------------------------------------------------------
(* The stream tells the file *)

\* The events of the rows at some places, in the order of time.
Told(rows, places) == {Event(rows[k], k) : k \in places}

InTime(s) == \A i, j \in DOMAIN s : i < j => Earlier(s[i], s[j])

Tells(s, rows, places) ==
    /\ s \in Seq(Told(rows, places))
    /\ InTime(s)
    /\ \A k \in places : \E i \in DOMAIN s : s[i].seq = k

\* Places of rows that have a time.
Timed(rows, places) == places \subseteq Nat /\ \A k \in places : rows[k].ts \in Nat

\* What stands at a place of the stream is the row it came from.
LEMMA TellsRow ==
  ASSUME NEW rows, NEW places, NEW s, Tells(s, rows, places), Timed(rows, places), NEW i \in DOMAIN s
  PROVE  /\ s[i].seq \in places /\ s[i].seq \in Nat /\ s[i].ts \in Nat
         /\ s[i].ts = rows[s[i].seq].ts /\ s[i].kind = rows[s[i].seq].kind
         /\ s[i].payload = rows[s[i].seq].payload
<1>1. s \in Seq(Told(rows, places)) /\ i \in 1..Len(s)
  BY DEF Tells
<1>2. PICK k \in places : s[i] = Event(rows[k], k)
  BY <1>1 DEF Told
<1>3. s[i].seq = k /\ s[i].ts = rows[k].ts /\ s[i].kind = rows[k].kind /\ s[i].payload = rows[k].payload
  BY <1>2 DEF Event
<1>4. QED
  BY <1>3 DEF Timed

\* Being earlier is a total order on events of different places.
LEMMA EarlierOrder ==
  ASSUME NEW a, NEW b, NEW c, \A x \in {a, b, c} : x.ts \in Int /\ x.seq \in Int
  PROVE  /\ Earlier(a, b) /\ Earlier(b, c) => Earlier(a, c)
         /\ a.seq # b.seq => (Earlier(a, b) <=> ~Earlier(b, a))
         /\ ~(Earlier(a, b) /\ Earlier(b, a))
BY DEF Earlier

\* The place at which an event goes into a sequence that is in that order.
LEMMA PlaceOf ==
  ASSUME NEW E, NEW s \in Seq(E), NEW e, InTime(s), e.ts \in Int, e.seq \in Int,
         \A x \in E : x.ts \in Int /\ x.seq \in Int,
         \A i \in DOMAIN s : s[i].seq # e.seq
  PROVE  \E k \in 0..Len(s) : \A i \in DOMAIN s : Earlier(s[i], e) <=> i <= k
<1> DEFINE Bad == {i \in 1..Len(s) : ~Earlier(s[i], e)}
<1>1. CASE Bad = {}
  <2>1. \A i \in DOMAIN s : Earlier(s[i], e) <=> i <= Len(s)
    BY <1>1
  <2>2. QED
    BY <2>1
<1>2. CASE Bad # {}
  <2>1. PICK b \in Bad : \A i \in Bad : b <= i
    <3>1. Bad \in SUBSET Nat
      OBVIOUS
    <3>2. QED
      BY <1>2, <3>1, LeastNat
  <2>2. b \in 1..Len(s) /\ ~Earlier(s[b], e) /\ \A i \in 1..Len(s) : i < b => Earlier(s[i], e)
    BY <2>1
  <2>3. ASSUME NEW i \in DOMAIN s, b < i
        PROVE  ~Earlier(s[i], e)
    <3>1. Earlier(s[b], s[i])
      BY <2>2, <2>3 DEF InTime
    <3>2. s[b] \in E /\ s[i] \in E
      BY <2>2
    <3>3. QED
      BY <2>2, <3>1, <3>2, EarlierOrder
  <2>4. \A i \in DOMAIN s : Earlier(s[i], e) <=> i <= b - 1
    <3>1. ASSUME NEW i \in DOMAIN s, i <= b - 1 PROVE Earlier(s[i], e)
      <4>1. i \in 1..Len(s) /\ i < b
        BY <2>2, <3>1
      <4>2. QED
        BY <2>2, <4>1
    <3>2. \A i \in DOMAIN s : ~(i <= b - 1) => ~Earlier(s[i], e)
      BY <2>2, <2>3
    <3>3. QED
      BY <3>1, <3>2
  <2>5. b - 1 \in 0..Len(s)
    BY <2>2
  <2>6. QED
    BY <2>4, <2>5
<1>3. QED
  BY <1>1, <1>2

LEMMA InsertedIs ==
  ASSUME NEW E, NEW s \in Seq(E), NEW e \in E, InTime(s),
         \A x \in E : x.ts \in Int /\ x.seq \in Int,
         \A i \in DOMAIN s : s[i].seq # e.seq
  PROVE  /\ Inserted(s, e) \in Seq(E) /\ InTime(Inserted(s, e))
         /\ \E j \in DOMAIN Inserted(s, e) : Inserted(s, e)[j] = e
         /\ \A i \in DOMAIN s : \E j \in DOMAIN Inserted(s, e) : Inserted(s, e)[j] = s[i]
<1> DEFINE place == CHOOSE k \in 0..Len(s) : \A i \in DOMAIN s : Earlier(s[i], e) <=> i <= k
           t == Inserted(s, e)
<1>1. place \in 0..Len(s) /\ \A i \in DOMAIN s : Earlier(s[i], e) <=> i <= place
  BY PlaceOf
<1>2. t = SubSeq(s, 1, place) \o <<e>> \o SubSeq(s, place + 1, Len(s))
  BY DEF Inserted
<1> HIDE DEF place, t
<1>3. /\ t \in Seq(E) /\ Len(t) = Len(s) + 1
      /\ \A i \in 1..place : t[i] = s[i]
      /\ t[place + 1] = e
      /\ \A i \in (place + 2)..(Len(s) + 1) : t[i] = s[i - 1]
  <2> DEFINE head == SubSeq(s, 1, place)
             tail == SubSeq(s, place + 1, Len(s))
  <2>1. head \in Seq(E) /\ Len(head) = place /\ \A i \in 1..place : head[i] = s[i]
    BY <1>1
  <2>2. tail \in Seq(E) /\ Len(tail) = Len(s) - place /\ \A i \in 1..(Len(s) - place) : tail[i] = s[place + i]
    BY <1>1
  <2>3. t = head \o <<e>> \o tail
    BY <1>2
  <2> HIDE DEF head, tail
  <2>4. t \in Seq(E) /\ Len(t) = Len(s) + 1
    BY <1>1, <2>1, <2>2, <2>3
  <2>5. \A i \in 1..place : t[i] = head[i]
    BY <1>1, <2>1, <2>2, <2>3
  <2>6. t[place + 1] = e
    BY <1>1, <2>1, <2>2, <2>3
  <2>7. \A i \in (place + 2)..(Len(s) + 1) : t[i] = tail[i - place - 1]
    BY <1>1, <2>1, <2>2, <2>3
  <2>8. \A i \in (place + 2)..(Len(s) + 1) : t[i] = s[i - 1]
    <3>1. ASSUME NEW i \in (place + 2)..(Len(s) + 1) PROVE t[i] = s[i - 1]
      <4>1. i - place - 1 \in 1..(Len(s) - place) /\ place + (i - place - 1) = i - 1
        BY <1>1
      <4>2. QED
        BY <2>2, <2>7, <4>1
    <3>2. QED
      BY <3>1
  <2>9. QED
    BY <2>1, <2>4, <2>5, <2>6, <2>8
<1>4. ASSUME NEW i \in DOMAIN t, NEW j \in DOMAIN t, i < j
      PROVE  Earlier(t[i], t[j])
  <2>0. i \in 1..(Len(s) + 1) /\ j \in 1..(Len(s) + 1)
    BY <1>3
  <2>1. CASE j <= place
    <3>1. t[i] = s[i] /\ t[j] = s[j] /\ i \in DOMAIN s /\ j \in DOMAIN s
      BY <1>1, <1>3, <1>4, <2>0, <2>1
    <3>2. QED
      BY <1>4, <3>1 DEF InTime
  <2>2. CASE j = place + 1
    <3>1. t[i] = s[i] /\ t[j] = e /\ i \in DOMAIN s /\ i <= place
      BY <1>1, <1>3, <1>4, <2>0, <2>2
    <3>2. QED
      BY <1>1, <3>1
  <2>3. CASE j > place + 1 /\ i <= place
    <3>1. t[i] = s[i] /\ t[j] = s[j - 1] /\ i \in DOMAIN s /\ j - 1 \in DOMAIN s /\ i < j - 1
      BY <1>1, <1>3, <1>4, <2>0, <2>3
    <3>2. QED
      BY <3>1 DEF InTime
  <2>4. CASE j > place + 1 /\ i = place + 1
    <3>1. t[i] = e /\ t[j] = s[j - 1] /\ j - 1 \in DOMAIN s /\ ~(j - 1 <= place)
      BY <1>1, <1>3, <1>4, <2>0, <2>4
    <3>2. ~Earlier(s[j - 1], e) /\ s[j - 1].seq # e.seq /\ s[j - 1] \in E
      BY <1>1, <3>1
    <3>3. QED
      BY <3>1, <3>2, EarlierOrder
  <2>5. CASE i > place + 1
    <3>0. i \in (place + 2)..(Len(s) + 1) /\ j \in (place + 2)..(Len(s) + 1)
      BY <1>1, <1>4, <2>0, <2>5
    <3>1. /\ t[i] = s[i - 1] /\ t[j] = s[j - 1] /\ i - 1 \in DOMAIN s /\ j - 1 \in DOMAIN s
          /\ i - 1 < j - 1
      BY <1>1, <1>3, <1>4, <3>0
    <3>2. QED
      BY <3>1 DEF InTime
  <2>6. QED
    BY <1>1, <1>4, <2>0, <2>1, <2>2, <2>3, <2>4, <2>5
<1>5. \E j \in DOMAIN t : t[j] = e
  BY <1>1, <1>3
<1>6. ASSUME NEW i \in DOMAIN s
      PROVE  \E j \in DOMAIN t : t[j] = s[i]
  <2>1. CASE i <= place
    <3>1. i \in 1..place /\ i \in DOMAIN t
      BY <1>1, <1>3, <2>1
    <3>2. QED
      BY <1>3, <3>1
  <2>2. CASE i > place
    <3>1. i + 1 \in DOMAIN t /\ t[i + 1] = s[i]
      <4>1. i + 1 \in (place + 2)..(Len(s) + 1) /\ (i + 1) - 1 = i
        BY <1>1, <2>2
      <4>2. QED
        BY <1>1, <1>3, <4>1
    <3>2. QED
      BY <3>1
  <2>3. QED
    BY <1>1, <2>1, <2>2
<1>7. QED
  BY <1>3, <1>4, <1>5, <1>6 DEF t, InTime

\* One more row of a file.
LEMMA ReadRowTells ==
  ASSUME NEW rows, NEW n \in Nat \ {0}, \A i \in 1..n : rows[i] # NULL => rows[i].ts \in Nat,
         NEW s, Tells(s, rows, {i \in 1..(n - 1) : rows[i] # NULL})
  PROVE  Tells(ReadRow(s, rows[n], n), rows, {i \in 1..n : rows[i] # NULL})
<1> DEFINE Old == {i \in 1..(n - 1) : rows[i] # NULL}
           New == {i \in 1..n : rows[i] # NULL}
<1>1. CASE rows[n] = NULL
  <2>1. New = Old
    BY <1>1
  <2>2. ReadRow(s, rows[n], n) = s
    BY <1>1 DEF ReadRow
  <2>3. QED
    BY <2>1, <2>2
<1>2. CASE rows[n] # NULL
  <2> DEFINE e == Event(rows[n], n)
             t == Inserted(s, e)
  <2>1. New = Old \cup {n} /\ Timed(rows, New) /\ Timed(rows, Old)
    BY <1>2 DEF Timed
  <2>2. ReadRow(s, rows[n], n) = t
    BY <1>2 DEF ReadRow
  <2>3. e \in Told(rows, New) /\ e.seq = n
    BY <2>1 DEF Told, Event
  <2>4. Told(rows, Old) \subseteq Told(rows, New)
    BY <2>1 DEF Told
  <2>5. s \in Seq(Told(rows, New)) /\ InTime(s)
    <3>1. s \in Seq(Told(rows, Old)) /\ InTime(s)
      BY DEF Tells
    <3>2. QED
      BY <2>4, <3>1
  <2>6. \A x \in Told(rows, New) : x.ts \in Int /\ x.seq \in Int
    BY <2>1 DEF Told, Event, Timed
  <2>7. \A i \in DOMAIN s : s[i].seq # e.seq
    BY <2>1, <2>3, TellsRow
  <2> HIDE DEF e, Old, New
  <2>8. /\ t \in Seq(Told(rows, New)) /\ InTime(t)
        /\ \E j \in DOMAIN t : t[j] = e
        /\ \A i \in DOMAIN s : \E j \in DOMAIN t : t[j] = s[i]
    BY <2>3, <2>5, <2>6, <2>7, InsertedIs
  <2> HIDE DEF t
  <2>9. ASSUME NEW k \in New PROVE \E j \in DOMAIN t : t[j].seq = k
    <3>1. CASE k = n
      BY <2>3, <2>8, <3>1
    <3>2. CASE k \in Old
      <4>1. PICK i \in DOMAIN s : s[i].seq = k
        BY <3>2 DEF Tells, Old
      <4>2. QED
        BY <2>8, <4>1
    <3>3. QED
      BY <2>1, <3>1, <3>2
  <2>10. Tells(t, rows, New)
    BY <2>8, <2>9 DEF Tells
  <2>11. QED
    BY <2>2, <2>10 DEF New
<1>3. QED
  BY <1>1, <1>2

\* A whole file: the stream tells all of its rows.
LEMMA FileTells ==
  ASSUME NEW rows, Len(rows) \in Nat, \A i \in 1..Len(rows) : rows[i] # NULL => rows[i].ts \in Nat
  PROVE  Tells(FileEvents(rows), rows, {i \in 1..Len(rows) : rows[i] # NULL})
<1> DEFINE N == Len(rows)
           Places(n) == {i \in 1..n : rows[i] # NULL}
           X == [n \in 0..N |-> {s \in Seq(Told(rows, Places(n))) : Tells(s, rows, Places(n))}]
           step == [n \in 1..N |-> [s \in X[n - 1] |-> ReadRow(s, rows[n], n)]]
           Runs(p) == p = [n \in 0..N |-> IF n = 0 THEN <<>> ELSE ReadRow(p[n - 1], rows[n], n)]
<1>0. N \in Nat
  OBVIOUS
<1>1. <<>> \in X[0]
  <2>1. Tells(<<>>, rows, Places(0))
    BY DEF Tells, InTime
  <2>2. QED
    BY <2>1
<1>2. ASSUME NEW n \in 1..N, NEW s \in X[n - 1]
      PROVE  ReadRow(s, rows[n], n) \in X[n]
  <2>1. n - 1 \in 0..N /\ Tells(s, rows, Places(n - 1)) /\ n \in Nat \ {0}
    BY <1>2
  <2>2. \A i \in 1..n : rows[i] # NULL => rows[i].ts \in Nat
    BY <1>2
  <2>3. Tells(ReadRow(s, rows[n], n), rows, Places(n))
    BY <2>1, <2>2, ReadRowTells
  <2>4. ReadRow(s, rows[n], n) \in Seq(Told(rows, Places(n)))
    BY <2>3 DEF Tells
  <2> HIDE DEF Places
  <2>5. QED
    BY <2>3, <2>4
<1>3. \E p : Runs(p)
  <2>1. Leads(step, X, N)
    <3> HIDE DEF X
    <3>1. QED
      BY <1>2 DEF Leads
  <2> HIDE DEF X, step, N
  <2>2. PICK p : StepsAlong(p, <<>>, step, N) /\ \A n \in 0..N : p[n] \in X[n]
    BY <1>0, <1>1, <2>1, Iterates
  <2>3. ASSUME NEW n \in 0..N, n # 0 PROVE step[n][p[n - 1]] = ReadRow(p[n - 1], rows[n], n)
    <3>1. n \in 1..N /\ n - 1 \in 0..N
      BY <1>0, <2>3
    <3>2. p[n - 1] \in X[n - 1]
      BY <2>2, <3>1
    <3>3. QED
      BY <3>1, <3>2 DEF step
  <2>4. [n \in 0..N |-> IF n = 0 THEN <<>> ELSE step[n][p[n - 1]]]
          = [n \in 0..N |-> IF n = 0 THEN <<>> ELSE ReadRow(p[n - 1], rows[n], n)]
    BY <2>3, Zenon
  <2>5. QED
    BY <2>2, <2>4 DEF StepsAlong
<1> DEFINE upTo == CHOOSE p : Runs(p)
<1>4. Runs(upTo)
  BY <1>3
<1>5. FileEvents(rows) = upTo[N]
  BY Zenon DEF FileEvents
<1> HIDE DEF upTo
<1>6. \A n \in 0..N : upTo[n] \in X[n]
  <2> DEFINE T == {n \in 0..N : upTo[n] \in X[n]}
  <2> HIDE DEF X
  <2>1. 0 \in T
    BY <1>1, <1>4
  <2>2. ASSUME NEW n \in 1..N, n - 1 \in T PROVE n \in T
    <3>1. upTo[n] = ReadRow(upTo[n - 1], rows[n], n)
      BY <1>4
    <3>2. QED
      BY <1>2, <2>2, <3>1
  <2>3. T \in SUBSET (0..N)
    OBVIOUS
  <2> HIDE DEF T
  <2>4. T = 0..N
    BY <2>1, <2>2, <2>3, Reaches
  <2>5. QED
    BY <2>4 DEF T
<1>7. QED
  BY <1>5, <1>6

-----------------------------------------------------------------------------
(* A file that is sanitized *)

Reasons == {"EVENT_CORRUPT", "EVENT_DUPLICATE", "EVENT_OUT_OF_ORDER"}

\* The rows up to the n-th that can be read, and those that are kept.
Read(rows, n) == {i \in 1..n : ~Corrupt(rows[i])}

Repeats(rows, i) == \E j \in 1..(i - 1) : ~Corrupt(rows[j]) /\ Fingerprint(rows[j]) = Fingerprint(rows[i])
Overtaken(rows, i) == \E j \in 1..(i - 1) : ~Corrupt(rows[j]) /\ rows[j].ts > rows[i].ts

Kept(rows, n) == {i \in Read(rows, n) : ~Repeats(rows, i) /\ ~Overtaken(rows, i)}

\* After n rows: the accepted ones are those that are kept, the last of them is
\* the latest row so far, and what was seen are the rows that can be read.
SanitizedUpTo(rows, n, state) ==
    /\ state \in [accepted : Seq(Told(rows, Kept(rows, n))), rejected : Seq(Nat \X Reasons),
                  seen : SUBSET {Fingerprint(rows[i]) : i \in Read(rows, n)}]
    /\ Tells(state.accepted, rows, Kept(rows, n)) /\ Len(state.accepted) <= n
    /\ state.seen = {Fingerprint(rows[i]) : i \in Read(rows, n)}
    /\ IF state.accepted = <<>> THEN Read(rows, n) = {}
       ELSE \A i \in Read(rows, n) : rows[i].ts <= state.accepted[Len(state.accepted)].ts

\* An event that is later than the last one goes to the end.
LEMMA AppendTells ==
  ASSUME NEW rows, NEW old, NEW n \in Nat, NEW s, Tells(s, rows, old), Timed(rows, old \cup {n}),
         \A k \in old : k < n,
         s = <<>> \/ s[Len(s)].ts <= rows[n].ts
  PROVE  Tells(Append(s, Event(rows[n], n)), rows, old \cup {n})
<1> DEFINE e == Event(rows[n], n)
           t == Append(s, e)
           new == old \cup {n}
<1>1. Told(rows, old) \subseteq Told(rows, new) /\ e \in Told(rows, new) /\ e.seq = n /\ e.ts = rows[n].ts
  BY DEF Told, Event
<1>2. s \in Seq(Told(rows, old)) /\ InTime(s) /\ \A k \in old : \E i \in DOMAIN s : s[i].seq = k
  BY DEF Tells
<1> HIDE DEF e, new
<1>3. s \in Seq(Told(rows, new))
  BY <1>1, <1>2
<1>4. Timed(rows, old) /\ e.ts \in Nat
  BY <1>1 DEF Timed, new
<1>5. \A i \in DOMAIN s : s[i].seq \in old /\ s[i].seq \in Nat /\ s[i].ts \in Nat
  BY <1>4, TellsRow
<1>6. t \in Seq(Told(rows, new)) /\ Len(t) = Len(s) + 1 /\ t[Len(s) + 1] = e /\ \A i \in DOMAIN s : t[i] = s[i]
  BY <1>1, <1>3
<1>7. ASSUME NEW i \in DOMAIN s PROVE Earlier(s[i], e)
  <2>1. s[i].seq < e.seq
    BY <1>1, <1>5
  <2>2. s[i].ts <= s[Len(s)].ts
    <3>1. Len(s) \in DOMAIN s /\ i \in 1..Len(s)
      BY <1>2
    <3>2. CASE i = Len(s)
      BY <1>5, <3>2
    <3>3. CASE i < Len(s)
      <4>1. Earlier(s[i], s[Len(s)])
        BY <1>2, <3>1, <3>3 DEF InTime
      <4>2. QED
        BY <1>5, <3>1, <4>1 DEF Earlier
    <3>4. QED
      BY <1>2, <3>1, <3>2, <3>3
  <2>3. s[Len(s)].ts <= e.ts /\ Len(s) \in DOMAIN s
    BY <1>1, <1>2
  <2>4. s[i].ts <= e.ts
    BY <1>4, <1>5, <2>2, <2>3
  <2>5. QED
    BY <1>4, <1>5, <2>1, <2>4 DEF Earlier
<1>8. InTime(t)
  <2>1. SUFFICES ASSUME NEW i \in DOMAIN t, NEW j \in DOMAIN t, i < j PROVE Earlier(t[i], t[j])
    BY DEF InTime
  <2>2. i \in 1..Len(s) /\ j \in 1..(Len(s) + 1)
    BY <1>2, <1>6, <2>1
  <2>3. CASE j = Len(s) + 1
    BY <1>2, <1>6, <1>7, <2>2, <2>3
  <2>4. CASE j # Len(s) + 1
    <3>1. j \in 1..Len(s) /\ t[i] = s[i] /\ t[j] = s[j]
      BY <1>2, <1>6, <2>2, <2>4
    <3>2. QED
      BY <1>2, <2>1, <2>2, <3>1 DEF InTime
  <2>5. QED
    BY <2>3, <2>4
<1>9. ASSUME NEW k \in new PROVE \E i \in DOMAIN t : t[i].seq = k
  <2>1. CASE k = n
    BY <1>1, <1>2, <1>6, <2>1
  <2>2. CASE k \in old
    <3>1. PICK i \in DOMAIN s : s[i].seq = k
      BY <1>2, <2>2
    <3>2. i \in DOMAIN t /\ t[i] = s[i]
      BY <1>2, <1>6
    <3>3. QED
      BY <3>1, <3>2
  <2>3. QED
    BY <2>1, <2>2 DEF new
<1>10. QED
  BY <1>6, <1>8, <1>9 DEF Tells, e, new

\* One more row of a sanitized file: it is rejected when it cannot be read, is
\* seen again, or is earlier than the last accepted one, which is the latest.
LEMMA SanitizeTells ==
  ASSUME NEW rows, NEW n \in Nat \ {0}, \A i \in 1..n : ~Corrupt(rows[i]) => rows[i].ts \in Nat,
         NEW state, SanitizedUpTo(rows, n - 1, state)
  PROVE  SanitizedUpTo(rows, n, Sanitize(state, rows[n], n))
<1> DEFINE row == rows[n]
           next == Sanitize(state, row, n)
           last == state.accepted[Len(state.accepted)]
<1>0. n - 1 \in Nat /\ Read(rows, n) = Read(rows, n - 1) \cup (IF Corrupt(row) THEN {} ELSE {n})
  BY DEF Read
<1>1. \A i \in 1..n : (i \in Read(rows, n) <=> ~Corrupt(rows[i])) /\ (i # n => i \in 1..(n - 1))
  BY DEF Read
<1>2. Kept(rows, n) = Kept(rows, n - 1) \cup (IF Corrupt(row) \/ Repeats(rows, n) \/ Overtaken(rows, n) THEN {} ELSE {n})
  BY <1>0 DEF Kept
<1>3. /\ state.accepted \in Seq(Told(rows, Kept(rows, n - 1))) /\ state.rejected \in Seq(Nat \X Reasons)
      /\ state = [accepted |-> state.accepted, rejected |-> state.rejected, seen |-> state.seen]
      /\ Tells(state.accepted, rows, Kept(rows, n - 1)) /\ Len(state.accepted) <= n - 1
      /\ state.seen = {Fingerprint(rows[i]) : i \in Read(rows, n - 1)}
      /\ IF state.accepted = <<>> THEN Read(rows, n - 1) = {}
         ELSE \A i \in Read(rows, n - 1) : rows[i].ts <= last.ts
  BY DEF SanitizedUpTo
<1>4. Timed(rows, Kept(rows, n - 1)) /\ (~Corrupt(row) => Timed(rows, Kept(rows, n - 1) \cup {n}))
  BY DEF Timed, Kept, Read
<1>5. Told(rows, Kept(rows, n - 1)) \subseteq Told(rows, Kept(rows, n))
  BY <1>2 DEF Told
<1>6. state.accepted # <<>> =>
        /\ last.ts \in Nat /\ last.seq \in Read(rows, n - 1) /\ last.ts = rows[last.seq].ts
  <2>1. SUFFICES ASSUME state.accepted # <<>> PROVE Len(state.accepted) \in DOMAIN state.accepted
    BY <1>3, <1>4, TellsRow DEF Kept
  <2>2. QED
    BY <1>3, <2>1
<1>7. ASSUME ~Corrupt(row)
      PROVE  Repeats(rows, n) <=> Fingerprint(row) \in state.seen
  BY <1>3 DEF Repeats, Read
<1>8. ASSUME ~Corrupt(row)
      PROVE  Overtaken(rows, n) <=> Late(row, state.accepted)
  <2>1. row.ts \in Nat /\ \A i \in Read(rows, n - 1) : rows[i].ts \in Nat /\ ~Corrupt(rows[i]) /\ i \in 1..(n - 1)
    BY <1>8 DEF Read
  <2>2. ASSUME Overtaken(rows, n) PROVE Late(row, state.accepted)
    <3>1. PICK j \in 1..(n - 1) : ~Corrupt(rows[j]) /\ rows[j].ts > row.ts
      BY <2>2 DEF Overtaken
    <3>2. j \in Read(rows, n - 1)
      BY <3>1 DEF Read
    <3>3. state.accepted # <<>> /\ rows[j].ts <= last.ts
      BY <1>3, <3>2
    <3>4. last.ts \in Nat
      BY <1>6, <3>3
    <3>5. row.ts < last.ts
      BY <2>1, <3>1, <3>2, <3>3, <3>4
    <3>6. QED
      BY <3>3, <3>5 DEF Late
  <2>3. ASSUME Late(row, state.accepted) PROVE Overtaken(rows, n)
    <3>1. state.accepted # <<>> /\ row.ts < last.ts
      BY <2>3 DEF Late
    <3>2. last.seq \in Read(rows, n - 1) /\ last.ts = rows[last.seq].ts /\ last.ts \in Nat
      BY <1>6, <3>1
    <3>3. rows[last.seq].ts > row.ts
      BY <2>1, <3>1, <3>2
    <3>4. QED
      BY <2>1, <3>2, <3>3 DEF Overtaken
  <2>4. QED
    BY <2>2, <2>3
<1>9. CASE Corrupt(row)
  <2>1. Read(rows, n) = Read(rows, n - 1) /\ Kept(rows, n) = Kept(rows, n - 1)
    BY <1>0, <1>2, <1>9
  <2>2. next = [accepted |-> state.accepted, rejected |-> Append(state.rejected, <<n, "EVENT_CORRUPT">>),
                seen |-> state.seen]
    BY <1>3, <1>9 DEF Sanitize
  <2>3. Append(state.rejected, <<n, "EVENT_CORRUPT">>) \in Seq(Nat \X Reasons)
    BY <1>3 DEF Reasons
  <2> HIDE DEF next, row
  <2>4. Len(state.accepted) <= n
    BY <1>3
  <2>5. SanitizedUpTo(rows, n, next)
    BY <1>3, <2>1, <2>2, <2>3, <2>4 DEF SanitizedUpTo
  <2>6. QED
    BY <2>5 DEF next, row
<1>10. CASE ~Corrupt(row) /\ Repeats(rows, n)
  <2>1. Kept(rows, n) = Kept(rows, n - 1) /\ Read(rows, n) = Read(rows, n - 1) \cup {n}
    BY <1>0, <1>2, <1>10
  <2>2. next = [accepted |-> state.accepted, rejected |-> Append(state.rejected, <<n, "EVENT_DUPLICATE">>),
                seen |-> state.seen]
    BY <1>3, <1>7, <1>10 DEF Sanitize
  <2>3. Append(state.rejected, <<n, "EVENT_DUPLICATE">>) \in Seq(Nat \X Reasons)
    BY <1>3 DEF Reasons
  <2>4. PICK j \in Read(rows, n - 1) : Fingerprint(rows[j]) = Fingerprint(row)
    BY <1>10 DEF Repeats, Read
  <2>5. row.ts = rows[j].ts
    BY <2>4 DEF Fingerprint
  <2>6. state.accepted # <<>> /\ rows[n].ts <= last.ts
    BY <1>3, <2>4, <2>5
  <2>7. state.seen = {Fingerprint(rows[i]) : i \in Read(rows, n)}
    BY <1>3, <2>1, <2>4
  <2> HIDE DEF next, row
  <2>8. Len(state.accepted) <= n /\ \A i \in Read(rows, n) : rows[i].ts <= last.ts
    BY <1>3, <2>1, <2>6
  <2>9. SanitizedUpTo(rows, n, next)
    BY <1>3, <2>1, <2>2, <2>3, <2>6, <2>7, <2>8 DEF SanitizedUpTo
  <2>10. QED
    BY <2>9 DEF next, row
<1>11. CASE ~Corrupt(row) /\ ~Repeats(rows, n) /\ Overtaken(rows, n)
  <2>1. Kept(rows, n) = Kept(rows, n - 1) /\ Read(rows, n) = Read(rows, n - 1) \cup {n}
    BY <1>0, <1>2, <1>11
  <2>2. Late(row, state.accepted) /\ Fingerprint(row) \notin state.seen
    BY <1>7, <1>8, <1>11
  <2>3. next = [accepted |-> state.accepted, rejected |-> Append(state.rejected, <<n, "EVENT_OUT_OF_ORDER">>),
                seen |-> state.seen \cup {Fingerprint(row)}]
    BY <1>3, <1>11, <2>2 DEF Sanitize
  <2>4. Append(state.rejected, <<n, "EVENT_OUT_OF_ORDER">>) \in Seq(Nat \X Reasons)
    BY <1>3 DEF Reasons
  <2>5. state.accepted # <<>> /\ row.ts < last.ts
    BY <2>2 DEF Late
  <2>6. rows[n].ts <= last.ts
    BY <1>6, <1>11, <2>5
  <2>7. state.seen \cup {Fingerprint(row)} = {Fingerprint(rows[i]) : i \in Read(rows, n)}
    BY <1>3, <2>1
  <2> HIDE DEF next, row
  <2>8. Len(state.accepted) <= n /\ \A i \in Read(rows, n) : rows[i].ts <= last.ts
    BY <1>3, <2>1, <2>5, <2>6
  <2>9. SanitizedUpTo(rows, n, next)
    BY <1>3, <2>1, <2>3, <2>4, <2>5, <2>7, <2>8 DEF SanitizedUpTo
  <2>10. QED
    BY <2>9 DEF next, row
<1>12. CASE ~Corrupt(row) /\ ~Repeats(rows, n) /\ ~Overtaken(rows, n)
  <2> DEFINE e == Event(row, n)
             t == Append(state.accepted, e)
  <2>1. Kept(rows, n) = Kept(rows, n - 1) \cup {n} /\ Read(rows, n) = Read(rows, n - 1) \cup {n}
    BY <1>0, <1>2, <1>12
  <2>2. ~Late(row, state.accepted) /\ Fingerprint(row) \notin state.seen
    BY <1>7, <1>8, <1>12
  <2>3. next = [accepted |-> t, rejected |-> state.rejected, seen |-> state.seen \cup {Fingerprint(row)}]
    BY <1>3, <1>12, <2>2 DEF Sanitize
  <2>4. state.accepted = <<>> \/ last.ts <= row.ts
    <3>1. row.ts \in Nat
      BY <1>12
    <3>2. QED
      BY <1>6, <2>2, <3>1 DEF Late
  <2>5. Tells(t, rows, Kept(rows, n))
    <3>1. \A k \in Kept(rows, n - 1) : k < n
      BY DEF Kept, Read
    <3> DEFINE old == Kept(rows, n - 1)
    <3>2. Tells(state.accepted, rows, old) /\ Timed(rows, old \cup {n}) /\ n \in Nat
      BY <1>3, <1>4, <1>12
    <3> HIDE DEF old
    <3>3. Tells(Append(state.accepted, Event(rows[n], n)), rows, old \cup {n})
      BY <2>4, <3>1, <3>2, AppendTells DEF old
    <3>4. QED
      BY <2>1, <3>3 DEF old
  <2>6. t \in Seq(Told(rows, Kept(rows, n)))
    BY <2>5 DEF Tells
  <2>7. Len(t) = Len(state.accepted) + 1 /\ t[Len(t)] = e /\ e.ts = row.ts /\ t # <<>>
    BY <1>3 DEF Event
  <2>8. \A i \in Read(rows, n) : rows[i].ts <= t[Len(t)].ts
    <3>1. ASSUME NEW i \in Read(rows, n - 1) PROVE rows[i].ts <= row.ts
      <4>1. state.accepted # <<>> /\ rows[i].ts <= last.ts /\ last.ts <= row.ts /\ last.ts \in Nat
        BY <1>3, <1>6, <2>4, <3>1
      <4>2. rows[i].ts \in Nat /\ row.ts \in Nat
        BY <1>12 DEF Read
      <4>3. QED
        BY <4>1, <4>2
    <3>2. row.ts <= row.ts
      BY <1>12
    <3>3. QED
      BY <2>1, <2>7, <3>1, <3>2
  <2>9. state.seen \cup {Fingerprint(row)} = {Fingerprint(rows[i]) : i \in Read(rows, n)}
    BY <1>3, <2>1
  <2> HIDE DEF next, row, e, t
  <2>10. Len(t) <= n
    BY <1>3, <2>7
  <2>11. SanitizedUpTo(rows, n, next)
    BY <1>3, <2>3, <2>5, <2>6, <2>7, <2>8, <2>9, <2>10 DEF SanitizedUpTo
  <2>12. QED
    BY <2>11 DEF next, row
<1>13. QED
  BY <1>9, <1>10, <1>11, <1>12

\* A whole file: the accepted rows are those that are kept.
LEMMA SanitizedTells ==
  ASSUME NEW rows, Len(rows) \in Nat, \A i \in 1..Len(rows) : ~Corrupt(rows[i]) => rows[i].ts \in Nat
  PROVE  SanitizedUpTo(rows, Len(rows), Sanitized(rows))
<1> DEFINE N == Len(rows)
           All(n) == [accepted : Seq(Told(rows, Kept(rows, n))), rejected : Seq(Nat \X Reasons),
                      seen : SUBSET {Fingerprint(rows[i]) : i \in Read(rows, n)}]
           X == [n \in 0..N |-> {state \in All(n) : SanitizedUpTo(rows, n, state)}]
           none == [accepted |-> <<>>, rejected |-> <<>>, seen |-> {}]
           step == [n \in 1..N |-> [state \in X[n - 1] |-> Sanitize(state, rows[n], n)]]
           Runs(p) == p = [n \in 0..N |-> IF n = 0 THEN none ELSE Sanitize(p[n - 1], rows[n], n)]
<1>0. N \in Nat
  OBVIOUS
<1>1. none \in X[0]
  <2>1. Read(rows, 0) = {} /\ Kept(rows, 0) = {}
    BY DEF Read, Kept
  <2>2. none \in All(0)
    OBVIOUS
  <2>3. Tells(<<>>, rows, {})
    BY DEF Tells, InTime
  <2>4. SanitizedUpTo(rows, 0, none)
    BY <2>1, <2>2, <2>3 DEF SanitizedUpTo
  <2> HIDE DEF All, none
  <2>5. QED
    BY <2>2, <2>4
<1>2. ASSUME NEW n \in 1..N, NEW state \in X[n - 1]
      PROVE  Sanitize(state, rows[n], n) \in X[n]
  <2>1. n - 1 \in 0..N /\ SanitizedUpTo(rows, n - 1, state) /\ n \in Nat \ {0}
    BY <1>2
  <2>2. \A i \in 1..n : ~Corrupt(rows[i]) => rows[i].ts \in Nat
    BY <1>2
  <2>3. SanitizedUpTo(rows, n, Sanitize(state, rows[n], n))
    BY <2>1, <2>2, SanitizeTells
  <2>4. Sanitize(state, rows[n], n) \in All(n)
    BY <2>3 DEF SanitizedUpTo
  <2> HIDE DEF All
  <2>5. QED
    BY <2>3, <2>4
<1>3. \E p : Runs(p)
  <2>1. Leads(step, X, N)
    <3> HIDE DEF X
    <3>1. QED
      BY <1>2 DEF Leads
  <2> HIDE DEF X, step, N, none
  <2>2. PICK p : StepsAlong(p, none, step, N) /\ \A n \in 0..N : p[n] \in X[n]
    BY <1>0, <1>1, <2>1, Iterates
  <2>3. ASSUME NEW n \in 0..N, n # 0 PROVE step[n][p[n - 1]] = Sanitize(p[n - 1], rows[n], n)
    <3>1. n \in 1..N /\ n - 1 \in 0..N
      BY <1>0, <2>3
    <3>2. p[n - 1] \in X[n - 1]
      BY <2>2, <3>1
    <3>3. QED
      BY <3>1, <3>2 DEF step
  <2>4. [n \in 0..N |-> IF n = 0 THEN none ELSE step[n][p[n - 1]]]
          = [n \in 0..N |-> IF n = 0 THEN none ELSE Sanitize(p[n - 1], rows[n], n)]
    BY <2>3, Zenon
  <2>5. QED
    BY <2>2, <2>4 DEF StepsAlong
<1> DEFINE upTo == CHOOSE p : Runs(p)
<1>4. Runs(upTo)
  BY <1>3
<1>5. Sanitized(rows) = upTo[N]
  BY Zenon DEF Sanitized
<1> HIDE DEF upTo
<1>6. \A n \in 0..N : upTo[n] \in X[n]
  <2> DEFINE T == {n \in 0..N : upTo[n] \in X[n]}
  <2> HIDE DEF X
  <2>1. 0 \in T
    BY <1>1, <1>4
  <2>2. ASSUME NEW n \in 1..N, n - 1 \in T PROVE n \in T
    <3>1. upTo[n] = Sanitize(upTo[n - 1], rows[n], n)
      <4> HIDE DEF none, N, All, step, T
      <4>1. n \in 0..N /\ n # 0
        BY <1>0
      <4>2. QED
        BY <1>4, <4>1
    <3>2. QED
      BY <1>2, <2>2, <3>1
  <2>3. T \in SUBSET (0..N)
    OBVIOUS
  <2> HIDE DEF T
  <2>4. T = 0..N
    BY <2>1, <2>2, <2>3, Reaches
  <2>5. QED
    BY <2>4 DEF T
<1> HIDE DEF All
<1>7. QED
  BY <1>5, <1>6

\* The stream of a document tells the rows that are replayed.
LEMMA StreamTells ==
  ASSUME NEW rows, rows \in Seq(ToSet(rows)), \A i \in DOMAIN rows : rows[i] = NULL \/ Wellformed(rows[i])
  PROVE  /\ ~(\E i \in DOMAIN rows : Raises(rows[i])) =>
               Tells(FileEvents(rows), rows, Replayed(rows, FALSE)) /\ Timed(rows, Replayed(rows, FALSE))
         /\ ~UnreadableRow(rows) =>
               /\ Tells(Sanitized(rows).accepted, rows, Replayed(rows, TRUE)) /\ Timed(rows, Replayed(rows, TRUE))
               /\ Len(Sanitized(rows).accepted) <= Len(rows)
<1>1. DOMAIN rows = 1..Len(rows) /\ Len(rows) \in Nat
  OBVIOUS
<1>2. ASSUME ~(\E i \in DOMAIN rows : Raises(rows[i]))
      PROVE  Tells(FileEvents(rows), rows, Replayed(rows, FALSE)) /\ Timed(rows, Replayed(rows, FALSE))
  <2>1. \A i \in 1..Len(rows) : rows[i] # NULL => rows[i].ts \in Nat /\ ~Corrupt(rows[i])
    BY <1>1, <1>2 DEF Wellformed, Raises, Corrupt
  <2>2. Replayed(rows, FALSE) = {i \in 1..Len(rows) : rows[i] # NULL}
    BY <1>1, <2>1 DEF Replayed, Corrupt
  <2>3. Tells(FileEvents(rows), rows, {i \in 1..Len(rows) : rows[i] # NULL})
    BY <1>1, <2>1, FileTells
  <2>4. Timed(rows, {i \in 1..Len(rows) : rows[i] # NULL})
    BY <2>1 DEF Timed
  <2>5. QED
    BY <2>2, <2>3, <2>4
<1>3. ASSUME ~UnreadableRow(rows)
      PROVE  /\ Tells(Sanitized(rows).accepted, rows, Replayed(rows, TRUE)) /\ Timed(rows, Replayed(rows, TRUE))
             /\ Len(Sanitized(rows).accepted) <= Len(rows)
  <2>1. \A i \in 1..Len(rows) : ~Corrupt(rows[i]) => rows[i].ts \in Nat
    BY <1>1, <1>3 DEF Wellformed, UnreadableRow, Corrupt
  <2>2. Replayed(rows, TRUE) = Kept(rows, Len(rows))
    <3>1. ASSUME NEW i \in 1..Len(rows), ~Corrupt(rows[i]), NEW j \in 1..(i - 1)
          PROVE  ~Corrupt(rows[j]) => (rows[j].ts > rows[i].ts <=> ~(rows[j].ts <= rows[i].ts))
      BY <2>1, <3>1
    <3>2. QED
      BY <1>1, <3>1 DEF Replayed, Kept, Read, Repeats, Overtaken
  <2>3. SanitizedUpTo(rows, Len(rows), Sanitized(rows))
    BY <1>1, <2>1, SanitizedTells
  <2>4. Timed(rows, Kept(rows, Len(rows)))
    BY <2>1 DEF Timed, Kept, Read
  <2>5. QED
    BY <2>2, <2>3, <2>4 DEF SanitizedUpTo
<1>4. QED
  BY <1>2, <1>3

-----------------------------------------------------------------------------
(* Books and fills *)

\* The levels of a side are those that have their two numbers.
LEMMA BookLevelsType ==
  ASSUME NEW side, Len(side) \in Nat, \A i \in 1..Len(side) : side[i] = NULL \/ side[i] \in Levels
  PROVE  BookLevels(side) \in Seq(Levels)
<1> DEFINE N == Len(side)
           S == Seq(Levels)
           X == [n \in 0..N |-> S]
           Taken(s, n) == IF side[n] = NULL THEN s ELSE Append(s, side[n])
           step == [n \in 1..N |-> [s \in S |-> Taken(s, n)]]
           Runs(p) == p = [n \in 0..N |-> IF n = 0 THEN <<>> ELSE Taken(p[n - 1], n)]
<1>0. N \in Nat
  OBVIOUS
<1>1. <<>> \in S
  OBVIOUS
<1>2. ASSUME NEW n \in 1..N, NEW s \in S
      PROVE  Taken(s, n) \in S
  OBVIOUS
<1> DEFINE upTo == CHOOSE p : Runs(p)
<1>3. BookLevels(side) = upTo[N]
  BY Zenon DEF BookLevels
<1> HIDE DEF Taken, S
<1>4. \E p : Runs(p)
  <2>1. Leads(step, X, N)
    <3>1. ASSUME NEW n \in 1..N PROVE step[n] \in [S -> S] /\ X[n - 1] = S /\ X[n] = S
      BY <1>2
    <3> HIDE DEF X, step
    <3>2. QED
      BY <3>1 DEF Leads
  <2>2. <<>> \in X[0]
    BY <1>0, <1>1
  <2> HIDE DEF X, step, N
  <2>3. PICK p : StepsAlong(p, <<>>, step, N) /\ \A n \in 0..N : p[n] \in X[n]
    BY <1>0, <2>1, <2>2, Iterates
  <2>4. ASSUME NEW n \in 0..N, n # 0 PROVE step[n][p[n - 1]] = Taken(p[n - 1], n)
    <3>1. n \in 1..N /\ n - 1 \in 0..N
      BY <1>0, <2>4
    <3>2. p[n - 1] \in S
      BY <2>3, <3>1 DEF X
    <3>3. QED
      BY <3>1, <3>2 DEF step
  <2>5. [n \in 0..N |-> IF n = 0 THEN <<>> ELSE step[n][p[n - 1]]]
          = [n \in 0..N |-> IF n = 0 THEN <<>> ELSE Taken(p[n - 1], n)]
    BY <2>4, Zenon
  <2>6. QED
    BY <2>3, <2>5 DEF StepsAlong
<1>5. Runs(upTo)
  BY <1>4
<1> HIDE DEF upTo, N
<1> DEFINE T == {n \in 0..N : upTo[n] \in S}
<1>6. 0 \in T
  BY <1>0, <1>1, <1>5
<1>7. ASSUME NEW n \in 1..N, n - 1 \in T PROVE n \in T
  <2>1. n \in 0..N /\ n # 0
    BY <1>0
  <2>2. upTo[n] = Taken(upTo[n - 1], n)
    BY <1>5, <2>1
  <2>3. QED
    BY <1>2, <1>7, <2>1, <2>2
<1>8. T = 0..N
  <2>1. T \in SUBSET (0..N)
    OBVIOUS
  <2> HIDE DEF T
  <2>2. QED
    BY <1>0, <1>6, <1>7, <2>1, Reaches
<1>9. upTo[N] \in S
  BY <1>0, <1>8
<1>10. QED
  BY <1>3, <1>9 DEF S

LEMMA OrderBookType ==
  ASSUME NEW row, Wellformed(row), row.kind = "book"
  PROVE  OrderBook(row.payload) \in Books
<1>1. ASSUME NEW side \in {"bids", "asks"}
      PROVE  BookLevels(row.payload[side]) \in Seq(Levels)
  <2> DEFINE levels == row.payload[side]
  <2>1. levels \in Seq(ToSet(levels)) /\ \A i \in DOMAIN levels : levels[i] = NULL \/ levels[i] \in Levels
    BY <1>1 DEF Wellformed
  <2>2. Len(levels) \in Nat /\ DOMAIN levels = 1..Len(levels)
    BY <2>1
  <2> HIDE DEF levels
  <2>3. BookLevels(levels) \in Seq(Levels)
    BY <2>1, <2>2, BookLevelsType
  <2>4. QED
    BY <2>3 DEF levels
<1>2. BookLevels(row.payload.bids) \in Seq(Levels) /\ BookLevels(row.payload.asks) \in Seq(Levels)
  BY <1>1
<1>3. QED
  BY <1>2 DEF OrderBook, Books

\* A walk over the asks takes no more than it was asked for.
LEMMA WalkFillType ==
  ASSUME NEW levels \in Seq(Levels), NEW target \in Nat
  PROVE  WalkFill(levels, target) \in [size : Nat, cost : Nat]
<1> DEFINE N == Len(levels)
           S == {walk \in [size : Nat, cost : Nat] : walk.size <= target}
           X == [n \in 0..N |-> S]
           none == [size |-> 0, cost |-> 0]
           Taken(s, n) == TakeLevel(s, levels[n], target)
           step == [n \in 1..N |-> [s \in S |-> Taken(s, n)]]
           Runs(p) == p = [n \in 0..N |-> IF n = 0 THEN none ELSE Taken(p[n - 1], n)]
<1>0. N \in Nat
  OBVIOUS
<1>1. none \in S
  OBVIOUS
<1>2. ASSUME NEW n \in 1..N, NEW s \in S
      PROVE  Taken(s, n) \in S
  <2> DEFINE take == Lesser(target - s.size, levels[n].size)
  <2>0. levels[n] \in Levels
    OBVIOUS
  <2>1. levels[n].size \in Nat /\ levels[n].price \in Nat
    BY <2>0 DEF Levels
  <2>2. take \in Nat /\ take <= target - s.size
    BY <2>1 DEF Lesser
  <2> HIDE DEF take
  <2>3. take * levels[n].price \in Nat
    BY <2>1, <2>2
  <2>4. s.size + take \in Nat /\ s.size + take <= target /\ s.cost + take * levels[n].price \in Nat
    BY <2>2, <2>3
  <2>5. Taken(s, n) = [size |-> s.size + take, cost |-> s.cost + take * levels[n].price]
    BY DEF take, TakeLevel
  <2>6. QED
    BY <2>4, <2>5
<1> DEFINE upTo == CHOOSE p : Runs(p)
<1>3. WalkFill(levels, target) = upTo[N]
  BY Zenon DEF WalkFill
<1> HIDE DEF Taken, S, none
<1>4. \E p : Runs(p)
  <2>1. Leads(step, X, N)
    <3>1. ASSUME NEW n \in 1..N PROVE step[n] \in [S -> S] /\ X[n - 1] = S /\ X[n] = S
      BY <1>2
    <3> HIDE DEF X, step
    <3>2. QED
      BY <3>1 DEF Leads
  <2>2. none \in X[0]
    BY <1>0, <1>1
  <2> HIDE DEF X, step, N
  <2>3. PICK p : StepsAlong(p, none, step, N) /\ \A n \in 0..N : p[n] \in X[n]
    BY <1>0, <2>1, <2>2, Iterates
  <2>4. ASSUME NEW n \in 0..N, n # 0 PROVE step[n][p[n - 1]] = Taken(p[n - 1], n)
    <3>1. n \in 1..N /\ n - 1 \in 0..N
      BY <1>0, <2>4
    <3>2. p[n - 1] \in S
      BY <2>3, <3>1 DEF X
    <3>3. QED
      BY <3>1, <3>2 DEF step
  <2>5. [n \in 0..N |-> IF n = 0 THEN none ELSE step[n][p[n - 1]]]
          = [n \in 0..N |-> IF n = 0 THEN none ELSE Taken(p[n - 1], n)]
    BY <2>4, Zenon
  <2>6. QED
    BY <2>3, <2>5 DEF StepsAlong
<1>5. Runs(upTo)
  BY <1>4
<1> HIDE DEF upTo, N
<1> DEFINE T == {n \in 0..N : upTo[n] \in S}
<1>6. 0 \in T
  BY <1>0, <1>1, <1>5
<1>7. ASSUME NEW n \in 1..N, n - 1 \in T PROVE n \in T
  <2>1. n \in 0..N /\ n # 0
    BY <1>0
  <2>2. upTo[n] = Taken(upTo[n - 1], n)
    BY <1>5, <2>1
  <2>3. QED
    BY <1>2, <1>7, <2>1, <2>2
<1>8. T = 0..N
  <2>1. T \in SUBSET (0..N)
    OBVIOUS
  <2> HIDE DEF T
  <2>2. QED
    BY <1>0, <1>6, <1>7, <2>1, Reaches
<1>9. upTo[N] \in S
  BY <1>0, <1>8
<1>10. QED
  BY <1>3, <1>9 DEF S

\* The fees of a document: a rate, where there is one, is not negative.
LEMMA MarketFeesType ==
  ASSUME NEW d \in Documents
  PROVE  MarketFees(d).rate \in Nat \cup {NULL}
<1>1. \A f \in {d.fees, d.marketFees} : f = NULL \/ f.rate \in Nat \cup {NULL}
  BY BacktestAssumption
<1>2. QED
  BY <1>1 DEF MarketFees, DatedFees

LEMMA FeeOfType ==
  ASSUME NEW walk \in [size : Nat \ {0}, cost : Nat], NEW f, f.enabled = FALSE \/ f.rate \in Nat
  PROVE  FeeOf(walk, f) \in Nat
<1> DEFINE price == walk.cost \div walk.size
           share == IF f.enabled = FALSE \/ price <= 0 \/ price >= 1000 THEN 0
                    ELSE (f.rate * price * (1000 - price) + 500) \div 1000
<1>1. price \in Int
  OBVIOUS
<1>2. share \in Nat
  <2> HIDE DEF price
  <2>1. CASE f.enabled = FALSE \/ price <= 0 \/ price >= 1000
    BY <2>1
  <2>2. CASE ~(f.enabled = FALSE \/ price <= 0 \/ price >= 1000)
    <3>1. f.rate \in Nat /\ price \in Nat /\ 1000 - price \in Nat
      BY <1>1, <2>2
    <3>2. f.rate * price \in Nat
      BY <3>1
    <3>3. f.rate * price * (1000 - price) \in Nat
      BY <3>1, <3>2
    <3>4. share = (f.rate * price * (1000 - price) + 500) \div 1000
      BY <2>2
    <3> HIDE DEF share
    <3>5. QED
      BY <3>3, <3>4
  <2>3. QED
    BY <2>1, <2>2
<1>3. FeeOf(walk, f) = (share * walk.size) \div 100
  BY DEF FeeOf
<1> HIDE DEF share
<1>4. share * walk.size \in Nat
  BY <1>2
<1>5. QED
  BY <1>3, <1>4

\* What fills holds at least one hundredth of a share; a maker pays no fee.
FillSound(fill) ==
    fill.filled => /\ fill.size \in Nat \ {0} /\ fill.cost \in Nat /\ fill.fee \in Nat /\ fill.slippage \in Nat
                   /\ fill.style \in {"MAKER", "TAKER"} /\ (fill.style = "MAKER" => fill.fee = 0)

LEMMA MakerSound ==
  ASSUME NEW shares \in Nat, NEW quoted \in Books, quoted.asks # <<>>, NEW lucky
  PROVE  FillSound(MakerFill(shares, quoted, lucky))
<1> DEFINE size == (Lesser(shares, quoted.asks[1].size) * (100 - QueuePct) * PartialPct) \div 10000
           bid == TouchBid(quoted)
<1>1. quoted.bids \in Seq(Levels) /\ quoted.asks \in Seq(Levels)
  BY DEF Books
<1>2. size \in Nat
  <2>1. quoted.asks[1] \in Levels
    BY <1>1
  <2>2. Lesser(shares, quoted.asks[1].size) \in Nat
    BY <2>1 DEF Levels, Lesser
  <2>3. 100 - QueuePct \in Nat /\ PartialPct \in Nat
    BY ReplayAssumption
  <2>4. Lesser(shares, quoted.asks[1].size) * (100 - QueuePct) \in Nat
    BY <2>2, <2>3
  <2>5. Lesser(shares, quoted.asks[1].size) * (100 - QueuePct) * PartialPct \in Nat
    BY <2>3, <2>4
  <2>6. QED
    BY <2>5
<1>3. bid # NULL => bid \in Nat
  <2>1. quoted.bids # <<>> => quoted.bids[1] \in Levels
    BY <1>1
  <2>2. QED
    BY <2>1 DEF TouchBid, Levels
<1>4. MakerFill(shares, quoted, lucky) =
        CASE ~lucky -> Unfilled("MAKER", "ORDER_REJECTED")
          [] lucky /\ bid = NULL -> Unfilled("MAKER", "NO_BOOK")
          [] lucky /\ bid # NULL /\ size = 0 -> Unfilled("MAKER", "ORDER_REJECTED")
          [] OTHER -> Filled("MAKER", [size |-> size, cost |-> size * bid], 0, 0)
  BY DEF MakerFill
<1> HIDE DEF size, bid
<1>5. ASSUME bid # NULL, size # 0
      PROVE  FillSound(Filled("MAKER", [size |-> size, cost |-> size * bid], 0, 0))
  <2>1. size * bid \in Nat
    BY <1>2, <1>3, <1>5
  <2>2. QED
    BY <1>2, <1>5, <2>1 DEF FillSound, Filled
<1>6. \A reason : FillSound(Unfilled("MAKER", reason))
  BY DEF FillSound, Unfilled
<1>7. QED
  BY <1>4, <1>5, <1>6

LEMMA TakerSound ==
  ASSUME NEW shares \in Nat, NEW quoted \in Books, quoted.asks # <<>>, NEW f, f.rate \in Nat \cup {NULL}
  PROVE  FillSound(TakerFill(shares, quoted, f))
<1> DEFINE walk == WalkFill(quoted.asks, (shares * PartialPct) \div 100)
           slip == Greater(0, (100 * walk.cost) \div walk.size - 100 * TouchAsk(quoted))
<1>1. walk \in [size : Nat, cost : Nat]
  <2>1. quoted.asks \in Seq(Levels)
    BY DEF Books
  <2>2. shares * PartialPct \in Nat
    BY ReplayAssumption
  <2>3. (shares * PartialPct) \div 100 \in Nat
    BY <2>2
  <2>4. QED
    BY <2>1, <2>3, WalkFillType
<1>2. TouchAsk(quoted) \in Nat
  <2>1. quoted.asks[1] \in Levels
    BY DEF Books
  <2>2. QED
    BY <2>1 DEF TouchAsk, Levels
<1>3. TakerFill(shares, quoted, f) =
        CASE walk.size = 0 -> Unfilled("TAKER", "ORDER_REJECTED")
          [] walk.size > 0 /\ f.enabled # FALSE /\ f.rate = NULL -> Unfilled("TAKER", "UNKNOWN_FEES")
          [] OTHER -> Filled("TAKER", walk, FeeOf(walk, f), slip)
  BY DEF TakerFill
<1> HIDE DEF walk
<1>4. ASSUME walk.size # 0, ~(f.enabled # FALSE /\ f.rate = NULL)
      PROVE  FillSound(Filled("TAKER", walk, FeeOf(walk, f), slip))
  <2>1. walk \in [size : Nat \ {0}, cost : Nat]
    BY <1>1, <1>4
  <2>2. FeeOf(walk, f) \in Nat
    BY <1>4, <2>1, FeeOfType
  <2>3. slip \in Nat
    <3>1. (100 * walk.cost) \div walk.size - 100 * TouchAsk(quoted) \in Int
      BY <1>2, <2>1
    <3>2. QED
      BY <3>1 DEF Greater
  <2> HIDE DEF slip
  <2>4. QED
    BY <2>1, <2>2, <2>3 DEF FillSound, Filled
<1>5. \A reason : FillSound(Unfilled("TAKER", reason))
  BY DEF FillSound, Unfilled
<1> HIDE DEF slip
<1>6. walk.size # 0 => walk.size > 0
  BY <1>1
<1>7. QED
  BY <1>3, <1>4, <1>5, <1>6

LEMMA ExecutionSound ==
  ASSUME NEW style \in {"MAKER", "TAKER"}, NEW shares \in Nat, NEW quoted \in Books \cup {NULL}, NEW gone, NEW f,
         f.rate \in Nat \cup {NULL}, NEW lucky
  PROVE  FillSound(SimulateExecution(style, shares, quoted, gone, f, lucky))
<1> DEFINE result == SimulateExecution(style, shares, quoted, gone, f, lucky)
<1>1. \A reason : FillSound(Unfilled(style, reason))
  BY DEF FillSound, Unfilled
<1>2. CASE gone /\ RejectOnGap
  BY <1>1, <1>2 DEF SimulateExecution
<1>3. CASE ~(gone /\ RejectOnGap) /\ quoted = NULL
  BY <1>1, <1>3 DEF SimulateExecution
<1>4. CASE ~(gone /\ RejectOnGap) /\ quoted # NULL
  <2>1. result = IF quoted.asks = <<>> \/ shares <= 0 THEN Unfilled(style, "NO_BOOK")
                 ELSE IF style = "MAKER" THEN MakerFill(shares, quoted, lucky)
                 ELSE TakerFill(shares, quoted, f)
    BY <1>4 DEF SimulateExecution
  <2>2. quoted \in Books
    BY <1>4
  <2> HIDE DEF result
  <2>3. quoted.asks # <<>> => FillSound(MakerFill(shares, quoted, lucky)) /\ FillSound(TakerFill(shares, quoted, f))
    BY <2>2, MakerSound, TakerSound
  <2>4. FillSound(result)
    BY <1>1, <2>1, <2>3
  <2>5. QED
    BY <2>4 DEF result
<1>5. QED
  BY <1>2, <1>3, <1>4

LEMMA TwiceMidType ==
  ASSUME NEW quoted \in Books \cup {NULL}
  PROVE  TwiceMid(quoted) \in Nat \cup {NULL}
<1>1. ASSUME quoted # NULL, quoted.bids # <<>>, quoted.asks # <<>>
      PROVE  quoted.bids[1].price + quoted.asks[1].price \in Nat
  <2>1. quoted.bids[1] \in Levels /\ quoted.asks[1] \in Levels
    BY <1>1 DEF Books
  <2>2. QED
    BY <2>1 DEF Levels
<1>2. QED
  BY <1>1 DEF TwiceMid

-----------------------------------------------------------------------------
(* Closing the trades *)

Splits == {"oos", "validation", "train"}

LEMMA SplitType ==
  ASSUME NEW ts, NEW split
  PROVE  AssignSplit(ts, split) \in Splits
BY DEF AssignSplit, Splits

TradeType ==
    {t \in [at : Nat, seq : Nat, size : Nat \ {0}, cost : Nat, fee : Nat, style : {"MAKER", "TAKER"}, split : Splits,
            pnl : Int \cup {NULL}, exit : Int \cup {NULL}, marked : BOOLEAN] :
       /\ t.pnl # NULL => t.exit \in Int
       /\ t.style = "MAKER" => t.fee = 0}

HeldOf(ts) == [i \in DOMAIN ts |-> Held(ts[i])]
MadeOf(ts) == [i \in DOMAIN ts |-> Made(ts[i])]

LEMMA TradeSums ==
  ASSUME NEW t \in TradeType
  PROVE  /\ Held(t) \in Nat /\ Made(t) \in Int
         /\ t.pnl = NULL => Held(t) = t.size /\ Made(t) = -t.fee
         /\ t.pnl # NULL => Held(t) = 0
<1>1. t.size \in Nat /\ t.cost \in Nat /\ t.fee \in Nat /\ (t.pnl # NULL => t.exit \in Int)
  BY DEF TradeType
<1>2. t.pnl # NULL => t.size * t.exit \in Int
  BY <1>1
<1>3. QED
  BY <1>1, <1>2 DEF Held, Made

LEMMA SeqSums ==
  ASSUME NEW ts \in Seq(TradeType)
  PROVE  /\ Summable(HeldOf(ts), Len(ts)) /\ Summable(MadeOf(ts), Len(ts))
         /\ \A i \in 1..Len(ts) : HeldOf(ts)[i] = Held(ts[i]) /\ MadeOf(ts)[i] = Made(ts[i])
         /\ \A i \in 1..Len(ts) : HeldOf(ts)[i] \in Nat
<1>1. \A i \in 1..Len(ts) : ts[i] \in TradeType
  OBVIOUS
<1>2. \A i \in 1..Len(ts) : Held(ts[i]) \in Nat /\ Made(ts[i]) \in Int
  BY <1>1, TradeSums
<1>3. \A i \in 1..Len(ts) : HeldOf(ts)[i] = Held(ts[i]) /\ MadeOf(ts)[i] = Made(ts[i])
  BY DEF HeldOf, MadeOf
<1>4. QED
  BY <1>2, <1>3 DEF Summable

\* A trade as _close leaves it, when the position covers it.
Closed(t, price, marked) ==
    IF t.pnl # NULL THEN t
    ELSE [t EXCEPT !.pnl = t.size * price - t.cost - t.fee, !.exit = price, !.marked = marked]

LEMMA ClosedType ==
  ASSUME NEW t \in TradeType, NEW price \in Int, NEW marked \in BOOLEAN
  PROVE  /\ Closed(t, price, marked) \in TradeType
         /\ Held(Closed(t, price, marked)) = 0
         /\ t.pnl = NULL => Made(Closed(t, price, marked)) = Made(t) + (t.size * price - t.cost - t.fee)
<1> DEFINE pnl == t.size * price - t.cost - t.fee
<1>1. t.size \in Nat /\ t.cost \in Nat /\ t.fee \in Nat /\ t.size * price \in Int
  BY DEF TradeType
<1>2. pnl \in Int
  BY <1>1
<1>3. CASE t.pnl # NULL
  <2>1. Closed(t, price, marked) = t
    BY <1>3 DEF Closed
  <2>2. QED
    BY <1>3, <2>1, TradeSums
<1>4. CASE t.pnl = NULL
  <2> DEFINE c == [t EXCEPT !.pnl = pnl, !.exit = price, !.marked = marked]
  <2>1. Closed(t, price, marked) = c
    BY <1>4 DEF Closed
  <2> HIDE DEF pnl
  <2>2. c \in TradeType
    BY <1>2 DEF TradeType
  <2>3. c.pnl = pnl /\ c.exit = price /\ c.size = t.size /\ c.cost = t.cost /\ c.fee = t.fee
    BY DEF TradeType
  <2>4. c.pnl # NULL
    BY <1>2, <2>3, BacktestAssumption
  <2> HIDE DEF c
  <2>5. Held(c) = 0 /\ Made(c) = t.size * price - t.cost - t.fee - t.fee
    BY <2>3, <2>4 DEF Held, Made
  <2>6. Made(t) = -t.fee
    BY <1>4, TradeSums
  <2>7. Made(c) = Made(t) + (t.size * price - t.cost - t.fee)
    BY <1>1, <2>5, <2>6
  <2>8. QED
    BY <2>1, <2>2, <2>5, <2>7
<1>5. QED
  BY <1>3, <1>4

\* Sums of naturals grow.
LEMMA SumGrows ==
  ASSUME NEW N \in Nat, NEW f, \A i \in 1..N : f[i] \in Nat, NEW n \in 0..N
  PROVE  SumUpTo(f, n) <= SumUpTo(f, N)
<1> DEFINE T == {k \in 0..(N - n) : SumUpTo(f, n) <= SumUpTo(f, n + k)}
<1>1. \A k \in 0..N : SumUpTo(f, k) \in Int /\ Summable(f, k)
  <2>1. \A k \in 0..N : Summable(f, k)
    BY DEF Summable
  <2>2. QED
    BY <2>1, SumInt
<1>2. 0 \in T
  BY <1>1
<1>3. ASSUME NEW k \in 1..(N - n), k - 1 \in T PROVE k \in T
  <2> DEFINE m == n + (k - 1)
  <2>1. m \in Nat /\ m + 1 \in 0..N /\ m \in 0..N /\ m + 1 \in 1..N /\ m + 1 = n + k /\ k \in 0..(N - n)
    OBVIOUS
  <2>2. SumUpTo(f, n) <= SumUpTo(f, m)
    BY <1>3
  <2> HIDE DEF m
  <2>3. SumUpTo(f, m + 1) = SumUpTo(f, m) + f[m + 1]
    BY <1>1, <2>1, SumStep
  <2>4. SumUpTo(f, n) <= SumUpTo(f, m + 1)
    BY <1>1, <2>1, <2>2, <2>3
  <2>5. QED
    BY <2>1, <2>4
<1>4. T = 0..(N - n)
  <2>1. T \in SUBSET (0..(N - n)) /\ N - n \in Nat
    OBVIOUS
  <2> HIDE DEF T
  <2>2. QED
    BY <1>2, <1>3, <2>1, Reaches
<1>5. N - n \in T /\ n + (N - n) = N
  BY <1>4
<1>6. QED
  BY <1>5

\* Of the n-th trade, what _close has left, made and closed after the one before
\* leads to what it has after this one: an open trade is closed whole.
LEMMA CloseStep ==
  ASSUME NEW t \in TradeType, NEW left \in Int, NEW made \in Int, NEW done, NEW price \in Int, NEW marked \in BOOLEAN,
         Held(t) <= left
  PROVE  CloseTrade([left |-> left, made |-> made, trades |-> done], t, price, marked) =
           [left |-> left - Held(t), made |-> made + (Made(Closed(t, price, marked)) - Made(t)),
            trades |-> Append(done, Closed(t, price, marked))]
<1> DEFINE old == [left |-> left, made |-> made, trades |-> done]
           take == Lesser(left, t.size)
           pnl == take * price - (take * t.cost) \div t.size - t.fee
<1>1. t.size \in Nat \ {0} /\ t.cost \in Nat /\ t.fee \in Nat /\ Made(t) \in Int
  BY TradeSums DEF TradeType
<1>2. CASE t.pnl # NULL
  <2>1. Closed(t, price, marked) = t /\ Held(t) = 0
    BY <1>2, TradeSums DEF Closed
  <2>2. CloseTrade(old, t, price, marked) = [old EXCEPT !.trades = Append(done, t)]
    BY <1>2 DEF CloseTrade
  <2>3. left - Held(t) = left /\ made + (Made(Closed(t, price, marked)) - Made(t)) = made
    BY <1>1, <2>1
  <2>4. QED
    BY <2>1, <2>2, <2>3
<1>3. CASE t.pnl = NULL
  <2>1. Held(t) = t.size /\ take = t.size /\ ~(left <= 0)
    BY <1>1, <1>3, TradeSums DEF Lesser
  <2>2. (t.size * t.cost) \div t.size = t.cost
    <3>1. (t.cost * t.size) \div t.size = t.cost
      BY <1>1, ShareOfCost
    <3>2. t.cost * t.size = t.size * t.cost
      BY <1>1
    <3>3. QED
      BY <3>1, <3>2
  <2>3. pnl = t.size * price - t.cost - t.fee /\ t.size * price \in Int
    BY <1>1, <2>1, <2>2
  <2>4. CloseTrade(old, t, price, marked) =
          [left |-> left - take, made |-> made + pnl,
           trades |-> Append(done, [t EXCEPT !.pnl = pnl, !.exit = price, !.marked = marked])]
    BY <1>3, <2>1 DEF CloseTrade
  <2> HIDE DEF pnl, take
  <2>5. Closed(t, price, marked) = [t EXCEPT !.pnl = pnl, !.exit = price, !.marked = marked]
    BY <1>3, <2>3 DEF Closed
  <2>6. Made(Closed(t, price, marked)) = Made(t) + pnl
    BY <1>3, <2>3, ClosedType
  <2>7. made + (Made(Closed(t, price, marked)) - Made(t)) = made + pnl
    BY <1>1, <2>3, <2>6
  <2>8. QED
    BY <2>1, <2>4, <2>5, <2>7
<1>4. QED
  BY <1>2, <1>3

\* _close closes every open trade, when the position is what they hold, and
\* makes the difference between what all trades have made after and before.
LEMMA CloseIs ==
  ASSUME trades \in Seq(TradeType), position = SumUpTo(HeldOf(trades), Len(trades)),
         NEW price \in Int, NEW marked \in BOOLEAN
  PROVE  \E after \in Seq(TradeType) :
           /\ Close(price, marked).trades = after /\ Len(after) = Len(trades)
           /\ \A i \in 1..Len(trades) : after[i] = Closed(trades[i], price, marked)
           /\ SumUpTo(HeldOf(after), Len(after)) = 0
           /\ Close(price, marked).made =
                SumUpTo(MadeOf(after), Len(after)) - SumUpTo(MadeOf(trades), Len(trades))
<1> DEFINE N == Len(trades)
           after == [i \in 1..N |-> Closed(trades[i], price, marked)]
           H(n) == SumUpTo(HeldOf(trades), n)
           B(n) == SumUpTo(MadeOf(trades), n)
           A(n) == SumUpTo(MadeOf(after), n)
           D == [n \in 0..N |-> [left |-> position - H(n), made |-> A(n) - B(n),
                                  trades |-> [i \in 1..n |-> after[i]]]]
           base == [left |-> position, made |-> 0, trades |-> <<>>]
           Runs(p) == p = [n \in 0..N |-> IF n = 0 THEN base ELSE CloseTrade(p[n - 1], trades[n], price, marked)]
           upTo == CHOOSE p : Runs(p)
<1>0. N \in Nat /\ \A n \in 1..N : trades[n] \in TradeType
  OBVIOUS
<1>1. Close(price, marked) = upTo[N]
  BY Zenon DEF Close
<1>2. after \in Seq(TradeType) /\ Len(after) = N
  <2>1. \A i \in 1..N : after[i] \in TradeType
    BY <1>0, ClosedType
  <2> HIDE DEF TradeType
  <2>2. QED
    BY <1>0, <2>1
<1>3. \A i \in 1..N : after[i] = Closed(trades[i], price, marked)
  OBVIOUS
<1>4. position = H(N)
  OBVIOUS
<1> HIDE DEF after, N, H, A, B
<1>5. ASSUME NEW n \in 1..N
      PROVE  /\ H(n - 1) \in Int /\ H(n) = H(n - 1) + Held(trades[n]) /\ Held(trades[n]) <= position - H(n - 1)
             /\ B(n - 1) \in Int /\ B(n) = B(n - 1) + Made(trades[n])
             /\ A(n - 1) \in Int /\ A(n) = A(n - 1) + Made(after[n])
  <2> DEFINE m == n - 1
  <2>1. m \in Nat /\ m + 1 = n /\ n \in 0..N /\ n \in 1..Len(trades) /\ n \in 1..Len(after) /\ m \in 0..N
    BY <1>0, <1>2 DEF N
  <2> HIDE DEF m
  <2>2. /\ Summable(HeldOf(trades), m + 1) /\ Summable(MadeOf(trades), m + 1) /\ Summable(MadeOf(after), m + 1)
        /\ \A i \in 1..N : HeldOf(trades)[i] \in Nat
        /\ HeldOf(trades)[n] = Held(trades[n]) /\ MadeOf(trades)[n] = Made(trades[n]) /\ MadeOf(after)[n] = Made(after[n])
    BY <1>0, <1>2, <2>1, SeqSums DEF N, Summable
  <2>3. H(m) \in Int /\ H(m + 1) = H(m) + HeldOf(trades)[n]
    BY <2>1, <2>2, SumStep DEF H
  <2>4. B(m) \in Int /\ B(m + 1) = B(m) + MadeOf(trades)[n]
    BY <2>1, <2>2, SumStep DEF B
  <2>5. A(m) \in Int /\ A(m + 1) = A(m) + MadeOf(after)[n]
    BY <2>1, <2>2, SumStep DEF A
  <2>6. H(n) <= H(N)
    BY <1>0, <2>1, <2>2, SumGrows DEF H
  <2>7. H(N) \in Int /\ Held(trades[n]) \in Nat
    <3>1. H(N) \in Nat
      BY <1>0, <2>2, SumNat DEF H
    <3>2. QED
      BY <1>0, <3>1, TradeSums
  <2>8. Held(trades[n]) <= position - H(m)
    BY <1>4, <2>1, <2>2, <2>3, <2>6, <2>7
  <2>9. QED
    BY <2>1, <2>2, <2>3, <2>4, <2>5, <2>8 DEF m
<1>6. H(0) = 0 /\ A(0) = 0 /\ B(0) = 0
  BY SumZero DEF H, A, B
<1>7. D[0] = base
  <2>1. position \in Int
    <3>1. \A i \in 1..N : HeldOf(trades)[i] \in Nat
      BY SeqSums DEF N
    <3>2. QED
      BY <1>0, <1>4, <3>1, SumNat DEF H
  <2>2. [i \in 1..0 |-> after[i]] = <<>>
    OBVIOUS
  <2>3. D[0] = [left |-> position - H(0), made |-> A(0) - B(0), trades |-> [i \in 1..0 |-> after[i]]]
    BY <1>0
  <2>4. QED
    BY <1>6, <2>1, <2>2, <2>3
<1>8. ASSUME NEW n \in 1..N
      PROVE  D[n] = CloseTrade(D[n - 1], trades[n], price, marked)
  <2> DEFINE left == position - H(n - 1)
             made == A(n - 1) - B(n - 1)
             done == [i \in 1..(n - 1) |-> after[i]]
  <2>1. D[n - 1] = [left |-> left, made |-> made, trades |-> done]
    BY <1>0
  <2>2. position \in Int
    <3>1. \A i \in 1..N : HeldOf(trades)[i] \in Nat
      BY SeqSums DEF N
    <3>2. QED
      BY <1>0, <1>4, <3>1, SumNat DEF H
  <2>3. left \in Int /\ made \in Int /\ Held(trades[n]) <= left /\ trades[n] \in TradeType
    BY <1>0, <1>5, <2>2
  <2>4. position - H(n) = left - Held(trades[n]) /\ A(n) - B(n) = made + (Made(after[n]) - Made(trades[n]))
    <3>1. Held(trades[n]) \in Int /\ Made(trades[n]) \in Int /\ Made(after[n]) \in Int
      <4>1. after[n] \in TradeType
        BY <1>2
      <4>2. QED
        BY <2>3, <4>1, TradeSums
    <3>2. QED
      BY <1>5, <2>2, <3>1
  <2>5. [i \in 1..n |-> after[i]] = Append(done, after[n])
    <3>1. done \in Seq(TradeType) /\ Len(done) = n - 1
      BY <1>0, <1>2
    <3>2. QED
      BY <1>0, <3>1
  <2>6. D[n] = [left |-> position - H(n), made |-> A(n) - B(n), trades |-> [i \in 1..n |-> after[i]]]
    BY <1>0
  <2> HIDE DEF D, left, made, done
  <2>7. CloseTrade([left |-> left, made |-> made, trades |-> done], trades[n], price, marked) =
          [left |-> left - Held(trades[n]), made |-> made + (Made(after[n]) - Made(trades[n])),
           trades |-> Append(done, after[n])]
    <3> DEFINE t == trades[n]
    <3>1. t \in TradeType /\ Held(t) <= left /\ after[n] = Closed(t, price, marked)
      BY <1>3, <2>3
    <3> HIDE DEF t
    <3>2. CloseTrade([left |-> left, made |-> made, trades |-> done], t, price, marked) =
            [left |-> left - Held(t), made |-> made + (Made(Closed(t, price, marked)) - Made(t)),
             trades |-> Append(done, Closed(t, price, marked))]
      BY <2>3, <3>1, CloseStep
    <3>3. QED
      BY <3>1, <3>2 DEF t
  <2>8. QED
    BY <2>1, <2>4, <2>5, <2>6, <2>7
<1>9. Runs(upTo)
  <2>1. Runs(D)
    <3>1. ASSUME NEW n \in 0..N
          PROVE  D[n] = IF n = 0 THEN base ELSE CloseTrade(D[n - 1], trades[n], price, marked)
      <4> HIDE DEF D, base
      <4>1. n # 0 => n \in 1..N
        BY <1>0
      <4>2. QED
        BY <1>7, <1>8, <4>1
    <3>2. D = [n \in 0..N |-> D[n]]
      OBVIOUS
    <3> HIDE DEF D, base
    <3>3. QED
      BY <3>1, <3>2, Zenon
  <2> HIDE DEF Runs, D
  <2>2. \E p : Runs(p)
    BY <2>1
  <2>3. QED
    BY <2>2
<1> HIDE DEF upTo, D, base
<1>10. upTo[N] = D[N]
  <2> DEFINE T == {n \in 0..N : upTo[n] = D[n]}
  <2>1. 0 \in T
    BY <1>0, <1>7, <1>9
  <2>2. ASSUME NEW n \in 1..N, n - 1 \in T PROVE n \in T
    <3>1. n \in 0..N /\ n # 0
      BY <1>0
    <3>2. upTo[n] = CloseTrade(upTo[n - 1], trades[n], price, marked)
      BY <1>9, <3>1
    <3>3. QED
      BY <1>8, <2>2, <3>1, <3>2
  <2>3. T \in SUBSET (0..N)
    OBVIOUS
  <2> HIDE DEF T
  <2>4. T = 0..N
    BY <1>0, <2>1, <2>2, <2>3, Reaches
  <2>5. QED
    BY <1>0, <2>4 DEF T
<1>11. D[N] = [left |-> position - H(N), made |-> A(N) - B(N), trades |-> [i \in 1..N |-> after[i]]]
  BY <1>0 DEF D
<1>12. [i \in 1..N |-> after[i]] = after
  BY DEF after
<1>13. SumUpTo(HeldOf(after), Len(after)) = 0
  <2>1. \A i \in 1..Len(after) : HeldOf(after)[i] = 0
    <3>1. \A i \in 1..N : Held(after[i]) = 0
      BY <1>0, <1>3, ClosedType
    <3>2. QED
      BY <1>2, <3>1, SeqSums
  <2>2. Summable(HeldOf(after), 0) /\ Len(after) \in Nat
    BY <1>0, <1>2 DEF Summable
  <2>3. SumUpTo(HeldOf(after), Len(after)) = SumUpTo(HeldOf(after), 0)
    BY <2>1, <2>2, SumPadded
  <2>4. QED
    BY <2>3, SumZero
<1>14. /\ Close(price, marked).trades = after
       /\ Close(price, marked).made = SumUpTo(MadeOf(after), Len(after)) - SumUpTo(MadeOf(trades), Len(trades))
  BY <1>1, <1>2, <1>10, <1>11, <1>12 DEF A, B, N
<1>15. QED
  BY <1>2, <1>3, <1>13, <1>14 DEF N

-----------------------------------------------------------------------------
(* The book of a moment *)

LEMMA Greatest ==
  ASSUME NEW N \in Nat, NEW T \in SUBSET (1..N), T # {}
  PROVE  \E i \in T : \A j \in T : j <= i
<1> DEFINE U == {N - i : i \in T}
<1>1. U \in SUBSET Nat /\ U # {}
  <2>1. \A i \in T : N - i \in Nat
    OBVIOUS
  <2>2. PICK i \in T : TRUE
    OBVIOUS
  <2>3. N - i \in U
    OBVIOUS
  <2>4. QED
    BY <2>1, <2>3
<1>2. PICK m \in U : \A k \in U : m <= k
  <2> HIDE DEF U
  <2>1. QED
    BY <1>1, LeastNat
<1>3. PICK i \in T : m = N - i
  OBVIOUS
<1>4. \A j \in T : N - i <= N - j
  BY <1>2, <1>3
<1>5. \A j \in T : j <= i
  BY <1>4
<1>6. QED
  BY <1>5

\* The stream is what the file tells, and each of its rows has a time.
Loaded ==
    /\ document \in Documents
    /\ Tells(events, document.rows, Replayed(document.rows, clean))
    /\ Timed(document.rows, Replayed(document.rows, clean))

LEMMA LoadedRow ==
  ASSUME Loaded, NEW i \in DOMAIN events
  PROVE  /\ events[i].seq \in Replayed(document.rows, clean) /\ events[i].seq \in Nat /\ events[i].ts \in Nat
         /\ events[i].ts = document.rows[events[i].seq].ts /\ events[i].kind = document.rows[events[i].seq].kind
         /\ events[i].payload = document.rows[events[i].seq].payload
         /\ Wellformed(document.rows[events[i].seq]) /\ events[i].kind \in StateKinds
<1>1. /\ events[i].seq \in Replayed(document.rows, clean) /\ events[i].seq \in Nat /\ events[i].ts \in Nat
      /\ events[i].ts = document.rows[events[i].seq].ts /\ events[i].kind = document.rows[events[i].seq].kind
      /\ events[i].payload = document.rows[events[i].seq].payload
  BY TellsRow DEF Loaded
<1>2. events[i].seq \in DOMAIN document.rows /\ ~Corrupt(document.rows[events[i].seq])
  BY <1>1 DEF Replayed
<1>3. Wellformed(document.rows[events[i].seq]) /\ document.rows[events[i].seq].kind \in StateKinds
  BY <1>2, BacktestAssumption DEF Loaded, Corrupt
<1>4. QED
  BY <1>1, <1>3

LEMMA LoadedSeq ==
  ASSUME Loaded
  PROVE  /\ Len(events) \in Nat /\ DOMAIN events = 1..Len(events)
         /\ Len(document.rows) \in Nat /\ DOMAIN document.rows = 1..Len(document.rows)
         /\ InTime(events)
         /\ \A q \in Quotes : \E i \in DOMAIN events : events[i].seq = q
<1>1. events \in Seq(Told(document.rows, Replayed(document.rows, clean))) /\ InTime(events)
  BY DEF Loaded, Tells
<1>2. document.rows \in Seq(ToSet(document.rows))
  BY BacktestAssumption DEF Loaded
<1>3. \A q \in Quotes : \E i \in DOMAIN events : events[i].seq = q
  BY DEF Loaded, Tells, Quotes
<1>4. QED
  BY <1>1, <1>2, <1>3

\* The book of some quotes is that of the one that all the others are before.
LEMMA BookOfLast ==
  ASSUME Loaded, NEW Q \in SUBSET Quotes, NEW l \in Q, \A j \in Q \ {l} : Before(j, document.rows[l].ts, l)
  PROVE  BookOf(Q) = IF document.rows[l].kind = "gap" THEN NULL ELSE OrderBook(document.rows[l].payload)
<1> DEFINE last == CHOOSE i \in Q : \A j \in Q \ {i} : Before(j, document.rows[i].ts, i)
<1>1. last \in Q /\ \A j \in Q \ {last} : Before(j, document.rows[last].ts, last)
  OBVIOUS
<1>2. BookOf(Q) = IF document.rows[last].kind = "gap" THEN NULL ELSE OrderBook(document.rows[last].payload)
  BY DEF BookOf
<1>3. \A q \in Q : document.rows[q].ts \in Nat /\ q \in Nat
  BY DEF Loaded, Timed, Quotes
<1> HIDE DEF last
<1>4. last = l
  <2>1. SUFFICES ASSUME last # l PROVE FALSE
    OBVIOUS
  <2>2. Before(last, document.rows[l].ts, l) /\ Before(l, document.rows[last].ts, last)
    BY <1>1, <2>1
  <2>3. QED
    BY <1>1, <1>3, <2>2 DEF Before
<1>5. QED
  BY <1>2, <1>4

\* The quotes among the first n events.
Passed(n) == {q \in Quotes : \E i \in 1..n : events[i].seq = q}

\* One event is earlier than another when it stands before it in the stream.
LEMMA EarlierInStream ==
  ASSUME Loaded, NEW i \in DOMAIN events, NEW j \in DOMAIN events
  PROVE  /\ Earlier(events[i], events[j]) <=> i < j
         /\ Earlier(events[i], events[j]) <=> Before(events[i].seq, events[j].ts, events[j].seq)
         /\ events[i].seq = events[j].seq => i = j
<1>1. InTime(events) /\ i \in Nat /\ j \in Nat
  BY LoadedSeq
<1>2. events[i].ts \in Nat /\ events[i].seq \in Nat /\ events[j].ts \in Nat /\ events[j].seq \in Nat
  BY LoadedRow
<1>3. events[i].ts = document.rows[events[i].seq].ts /\ events[j].ts = document.rows[events[j].seq].ts
  BY LoadedRow
<1>4. (i < j => Earlier(events[i], events[j])) /\ (j < i => Earlier(events[j], events[i]))
  BY <1>1 DEF InTime
<1>5. ~(Earlier(events[i], events[j]) /\ Earlier(events[j], events[i])) /\ ~Earlier(events[i], events[i])
  BY <1>2 DEF Earlier
<1>6. Earlier(events[i], events[j]) <=> i < j
  BY <1>1, <1>4, <1>5
<1>7. Earlier(events[i], events[j]) <=> Before(events[i].seq, events[j].ts, events[j].seq)
  BY <1>3 DEF Earlier, Before
<1>8. events[i].seq = events[j].seq => i = j
  <2>1. ASSUME events[i].seq = events[j].seq PROVE ~Earlier(events[i], events[j]) /\ ~Earlier(events[j], events[i])
    BY <1>2, <1>3, <2>1 DEF Earlier
  <2>2. QED
    BY <1>1, <1>4, <2>1
<1>9. QED
  BY <1>6, <1>7, <1>8

\* What the file has before an event is what the replay has passed.
LEMMA QuotesBefore ==
  ASSUME Loaded, NEW a \in DOMAIN events
  PROVE  {q \in Quotes : Before(q, events[a].ts, events[a].seq)} = Passed(a - 1)
<1>0. a \in Nat /\ a - 1 \in Nat /\ \A i \in 1..(a - 1) : i \in DOMAIN events /\ i < a
  BY LoadedSeq
<1>1. ASSUME NEW q \in Quotes, Before(q, events[a].ts, events[a].seq)
      PROVE  q \in Passed(a - 1)
  <2>1. PICK i \in DOMAIN events : events[i].seq = q
    BY LoadedSeq
  <2>2. i < a /\ i \in 1..Len(events)
    BY <1>1, <2>1, EarlierInStream, LoadedSeq
  <2>3. i \in 1..(a - 1)
    BY <1>0, <2>2
  <2>4. QED
    BY <2>1, <2>3 DEF Passed
<1>2. ASSUME NEW q \in Passed(a - 1)
      PROVE  q \in Quotes /\ Before(q, events[a].ts, events[a].seq)
  <2>1. PICK i \in 1..(a - 1) : events[i].seq = q
    BY DEF Passed
  <2>2. Before(events[i].seq, events[a].ts, events[a].seq)
    BY <1>0, EarlierInStream
  <2>3. QED
    BY <2>1, <2>2 DEF Passed
<1>3. QED
  BY <1>1, <1>2

\* An event that is no quote adds none; a quote is the book from then on.
LEMMA PassedStep ==
  ASSUME Loaded, NEW a \in DOMAIN events
  PROVE  /\ events[a].kind \notin {"book", "gap"} => Passed(a) = Passed(a - 1)
         /\ events[a].kind \in {"book", "gap"} =>
              BookOf(Passed(a)) = IF events[a].kind = "gap" THEN NULL ELSE OrderBook(events[a].payload)
<1>0. a \in Nat /\ a \in 1..a /\ 1..a = 1..(a - 1) \cup {a} /\ \A i \in 1..a : i \in DOMAIN events
  BY LoadedSeq
<1>1. /\ events[a].seq \in Replayed(document.rows, clean) /\ events[a].kind = document.rows[events[a].seq].kind
      /\ events[a].payload = document.rows[events[a].seq].payload
      /\ events[a].ts = document.rows[events[a].seq].ts
  BY LoadedRow
<1>2. ASSUME events[a].kind \notin {"book", "gap"}
      PROVE  Passed(a) = Passed(a - 1)
  <2>1. events[a].seq \notin Quotes
    BY <1>1, <1>2 DEF Quotes
  <2>2. QED
    BY <1>0, <2>1 DEF Passed
<1>3. ASSUME events[a].kind \in {"book", "gap"}
      PROVE  BookOf(Passed(a)) = IF events[a].kind = "gap" THEN NULL ELSE OrderBook(events[a].payload)
  <2> DEFINE l == events[a].seq
  <2>1. l \in Passed(a) /\ Passed(a) \in SUBSET Quotes
    BY <1>0, <1>1, <1>3 DEF Passed, Quotes
  <2>2. ASSUME NEW j \in Passed(a) \ {l}
        PROVE  Before(j, document.rows[l].ts, l)
    <3>1. PICK i \in 1..a : events[i].seq = j
      BY DEF Passed
    <3>2. i < a /\ i \in DOMAIN events
      BY <1>0, <2>2, <3>1
    <3>3. Before(events[i].seq, events[a].ts, l)
      BY <3>2, EarlierInStream
    <3>4. QED
      BY <1>1, <3>1, <3>3
  <2> HIDE DEF l
  <2>3. BookOf(Passed(a)) = IF document.rows[l].kind = "gap" THEN NULL ELSE OrderBook(document.rows[l].payload)
    BY <2>1, <2>2, BookOfLast
  <2>4. QED
    BY <1>1, <2>3 DEF l
<1>4. QED
  BY <1>2, <1>3

\* When the file is in the order of time, an event stands after another in the
\* file when it does in the stream.
LEMMA InOrderPlaces ==
  ASSUME Loaded, InOrder, NEW i \in DOMAIN events, NEW j \in DOMAIN events
  PROVE  /\ events[i].seq < events[j].seq <=> i < j
         /\ i < j => events[i].ts <= events[j].ts
<1> DEFINE p == events[i].seq
           q == events[j].seq
<1>1. p \in Nat /\ q \in Nat /\ events[i].ts \in Nat /\ events[j].ts \in Nat
  BY LoadedRow
<1>2. events[i].ts = document.rows[p].ts /\ events[j].ts = document.rows[q].ts
  BY LoadedRow
<1>3. /\ p \in DOMAIN document.rows /\ q \in DOMAIN document.rows
      /\ ~Corrupt(document.rows[p]) /\ ~Corrupt(document.rows[q])
  BY LoadedRow DEF Replayed
<1>4. /\ Earlier(events[i], events[j]) <=> i < j
      /\ Earlier(events[j], events[i]) <=> j < i
      /\ p = q => i = j
  BY EarlierInStream
<1>5. /\ p < q => events[i].ts <= events[j].ts
      /\ q < p => events[j].ts <= events[i].ts
  BY <1>2, <1>3 DEF InOrder
<1>6. i \in Nat /\ j \in Nat
  BY LoadedSeq
<1>7. p < q => i < j
  BY <1>1, <1>4, <1>5 DEF Earlier
<1>8. q < p => j < i
  BY <1>1, <1>4, <1>5 DEF Earlier
<1>9. i < j => events[i].ts <= events[j].ts
  BY <1>1, <1>4 DEF Earlier
<1> HIDE DEF p, q
<1>10. p < q <=> i < j
  BY <1>1, <1>4, <1>6, <1>7, <1>8
<1>11. QED
  BY <1>9, <1>10 DEF p, q

\* _peek_book looks at the events after the decision up to the time of the fill.
LEMMA SeenByIs ==
  ASSUME Loaded, InOrder, NEW a \in DOMAIN events, NEW until \in Nat
  PROVE  SeenBy(events[a], until) = {i \in DOMAIN events : a < i /\ events[i].ts <= until}
<1> DEFINE late == {i \in DOMAIN events : events[i].seq > events[a].seq /\ events[i].ts > until}
           stop == IF late = {} THEN Len(events) + 1 ELSE CHOOSE i \in late : \A j \in late : i <= j
<1>1. \A i \in DOMAIN events : events[i].seq > events[a].seq <=> a < i
  <2>1. ASSUME NEW i \in DOMAIN events PROVE events[i].seq > events[a].seq <=> a < i
    <3>1. events[a].seq < events[i].seq <=> a < i
      BY InOrderPlaces
    <3>2. events[a].seq \in Nat /\ events[i].seq \in Nat
      BY LoadedRow
    <3>3. QED
      BY <3>1, <3>2
  <2>2. QED
    BY <2>1
<1>2. DOMAIN events = 1..Len(events) /\ Len(events) \in Nat /\ \A i \in DOMAIN events : events[i].ts \in Nat
  BY LoadedSeq, LoadedRow
<1>3. SeenBy(events[a], until) = {i \in DOMAIN events : i < stop /\ events[i].seq > events[a].seq}
  BY DEF SeenBy
<1>4. late = {i \in DOMAIN events : a < i /\ events[i].ts > until}
  BY <1>1
<1> HIDE DEF late
<1>5. CASE late = {}
  <2>1. stop = Len(events) + 1
    BY <1>5
  <2> HIDE DEF stop
  <2>2. \A i \in DOMAIN events : i < stop
    BY <1>2, <2>1
  <2>3. \A i \in DOMAIN events : a < i => events[i].ts <= until
    BY <1>2, <1>4, <1>5
  <2>4. QED
    BY <1>1, <1>3, <2>2, <2>3
<1>6. CASE late # {}
  <2>1. stop \in late /\ \A j \in late : stop <= j
    <3>1. late \in SUBSET Nat
      BY <1>2, <1>4
    <3>2. \E i \in late : \A j \in late : i <= j
      BY <1>6, <3>1, LeastNat
    <3>3. stop = CHOOSE i \in late : \A j \in late : i <= j
      BY <1>6
    <3> HIDE DEF stop
    <3>4. QED
      BY <3>2, <3>3
  <2> HIDE DEF stop
  <2>2. stop \in DOMAIN events /\ a < stop /\ events[stop].ts > until
    BY <1>4, <2>1
  <2>3. ASSUME NEW i \in DOMAIN events, a < i
        PROVE  i < stop <=> events[i].ts <= until
    <3>1. CASE i < stop
      <4>1. i \notin late
        BY <1>2, <2>1, <2>2, <3>1
      <4>2. QED
        BY <1>2, <1>4, <2>3, <3>1, <4>1
    <3>2. CASE i = stop
      BY <1>2, <2>2, <3>2
    <3>3. CASE stop < i
      <4>1. events[stop].ts <= events[i].ts
        BY <2>2, <3>3, InOrderPlaces
      <4>2. events[stop].ts \in Nat /\ events[i].ts \in Nat /\ i \in Nat /\ stop \in Nat
        BY <1>2, <2>2
      <4>3. QED
        BY <2>2, <3>3, <4>1, <4>2
    <3>4. QED
      BY <1>2, <2>2, <3>1, <3>2, <3>3
  <2>4. QED
    BY <1>1, <1>3, <2>3
<1>7. QED
  BY <1>5, <1>6

\* The book of a fill is that of the last quote up to its time.
LEMMA FillBook ==
  ASSUME Loaded, InOrder, NULL \notin Int, NEW a \in DOMAIN events, events[a].kind = "decision",
         NEW until \in Nat, events[a].ts <= until, book = BookOf(Passed(a - 1))
  PROVE  PeekBook(events[a], until).book = BookOf({q \in Quotes : Before(q, until, Len(document.rows) + 1)})
<1> DEFINE seen == {i \in SeenBy(events[a], until) : events[i].kind \in {"book", "gap"}}
           told == {q \in Quotes : Before(q, until, Len(document.rows) + 1)}
           last == QuoteWithin(events[a], until)
<1>1. DOMAIN events = 1..Len(events) /\ Len(events) \in Nat /\ Len(document.rows) \in Nat
  BY LoadedSeq
<1>2. \A i \in DOMAIN events : events[i].ts \in Nat /\ events[i].seq \in 1..Len(document.rows)
  <2>1. ASSUME NEW i \in DOMAIN events PROVE events[i].ts \in Nat /\ events[i].seq \in 1..Len(document.rows)
    BY LoadedRow, LoadedSeq DEF Replayed
  <2>2. QED
    BY <2>1
<1>3. seen = {i \in DOMAIN events : a < i /\ events[i].ts <= until /\ events[i].kind \in {"book", "gap"}}
  BY SeenByIs
<1>4. told = {q \in Quotes : document.rows[q].ts <= until}
  <2>1. ASSUME NEW q \in Quotes PROVE Before(q, until, Len(document.rows) + 1) <=> document.rows[q].ts <= until
    <3>1. document.rows[q].ts \in Nat /\ q \in 1..Len(document.rows)
      BY LoadedSeq DEF Loaded, Timed, Quotes, Replayed
    <3>2. QED
      BY <1>1, <3>1 DEF Before
  <2>2. QED
    BY <2>1
<1>5. ASSUME NEW q \in told
      PROVE  q \in Passed(a - 1) \/ \E i \in seen : events[i].seq = q
  <2>1. PICK i \in DOMAIN events : events[i].seq = q
    BY LoadedSeq
  <2>2. events[i].kind \in {"book", "gap"} /\ events[i].ts <= until
    BY <1>4, <2>1, LoadedRow DEF Quotes
  <2>3. i # a
    BY <2>2
  <2>4. CASE i < a
    <3>1. i \in 1..(a - 1)
      BY <1>1, <2>4
    <3>2. QED
      BY <2>1, <3>1 DEF Passed
  <2>5. CASE a < i
    BY <1>3, <2>1, <2>2, <2>5
  <2>6. QED
    BY <1>1, <2>3, <2>4, <2>5
<1>6. ASSUME NEW i \in seen
      PROVE  events[i].seq \in told
  <2>1. /\ events[i].seq \in Replayed(document.rows, clean) /\ events[i].ts = document.rows[events[i].seq].ts
        /\ events[i].kind = document.rows[events[i].seq].kind
    BY <1>3, LoadedRow
  <2>2. QED
    BY <1>3, <1>4, <2>1 DEF Quotes
<1>7. Passed(a - 1) \subseteq told
  <2>1. ASSUME NEW q \in Passed(a - 1) PROVE q \in told
    <3>1. PICK i \in 1..(a - 1) : events[i].seq = q
      BY DEF Passed
    <3>2. i \in DOMAIN events /\ i < a
      BY <1>1
    <3>3. events[i].ts <= events[a].ts
      BY <3>2, InOrderPlaces
    <3>4. document.rows[q].ts = events[i].ts
      BY <3>1, <3>2, LoadedRow
    <3>5. document.rows[q].ts <= until
      BY <1>2, <3>2, <3>3, <3>4
    <3>6. QED
      BY <1>4, <3>5 DEF Passed
  <2>2. QED
    BY <2>1
<1>8. last = IF seen = {} THEN NULL ELSE CHOOSE i \in seen : \A j \in seen : j <= i
  BY DEF QuoteWithin
<1>9. PeekBook(events[a], until).book =
        IF last = NULL THEN book
        ELSE IF events[last].kind = "gap" THEN NULL ELSE OrderBook(events[last].payload)
  BY DEF PeekBook
<1> HIDE DEF seen, told, last
<1>10. CASE seen = {}
  <2>1. told = Passed(a - 1)
    BY <1>5, <1>7, <1>10
  <2>2. QED
    BY <1>8, <1>9, <1>10, <2>1 DEF told
<1>11. CASE seen # {}
  <2>1. last \in seen /\ \A j \in seen : j <= last
    <3>1. seen \in SUBSET (1..Len(events))
      BY <1>1, <1>3
    <3>2. \E i \in seen : \A j \in seen : j <= i
      BY <1>1, <1>11, <3>1, Greatest
    <3>3. QED
      BY <1>8, <1>11, <3>2
  <2>2. last \in DOMAIN events /\ a < last /\ last # NULL
    BY <1>1, <1>3, <2>1
  <2> DEFINE l == events[last].seq
  <2>3. l \in told /\ told \in SUBSET Quotes
    BY <1>6, <2>1 DEF told
  <2>4. ASSUME NEW q \in told \ {l}
        PROVE  Before(q, document.rows[l].ts, l)
    <3>1. PICK i \in DOMAIN events : events[i].seq = q /\ i < last
      <4>1. CASE q \in Passed(a - 1)
        <5>1. PICK i \in 1..(a - 1) : events[i].seq = q
          BY <4>1 DEF Passed
        <5>2. i \in DOMAIN events /\ i < last
          BY <1>1, <2>2
        <5>3. QED
          BY <5>1, <5>2
      <4>2. CASE \E i \in seen : events[i].seq = q
        <5>1. PICK i \in seen : events[i].seq = q
          BY <4>2
        <5>2. i <= last /\ i # last /\ i \in DOMAIN events
          BY <1>3, <2>1, <2>4, <5>1
        <5>3. i < last
          BY <1>1, <2>2, <5>2
        <5>4. QED
          BY <5>1, <5>2, <5>3
      <4>3. QED
        BY <1>5, <4>1, <4>2
    <3>2. Before(q, events[last].ts, l)
      BY <2>2, <3>1, EarlierInStream
    <3>3. QED
      BY <2>2, <3>2, LoadedRow
  <2> HIDE DEF l
  <2>5. BookOf(told) = IF document.rows[l].kind = "gap" THEN NULL ELSE OrderBook(document.rows[l].payload)
    BY <2>3, <2>4, BookOfLast
  <2>6. events[last].kind = document.rows[l].kind /\ events[last].payload = document.rows[l].payload
    BY <2>2, LoadedRow DEF l
  <2>7. QED
    BY <1>9, <2>2, <2>5, <2>6 DEF told
<1>12. QED
  BY <1>10, <1>11

-----------------------------------------------------------------------------
(* The inductive invariant *)

Types ==
    /\ document \in Documents /\ clean \in BOOLEAN
    /\ book \in Books \cup {NULL}
    /\ decisions \in Seq(ToSet(decisions))
    /\ trades \in Seq(TradeType)
    /\ position \in Nat /\ cost \in Nat /\ fees \in Nat /\ slippage \in Nat /\ micro \in Nat /\ realized \in Int
    /\ equity \in Seq(Int) /\ equity # <<>>

Bounds ==
    /\ phase \in {"loading", "replaying", "done", "refused", "failed"}
    /\ at \in 1..(Len(events) + 1) /\ gap \in BOOLEAN /\ (gap => book = NULL)
    /\ Len(decisions) >= Len(trades) /\ micro <= at

\* Until the file is read nothing has happened; from then on the stream tells
\* the file, and the book is that of the last quote that was passed.
Streams ==
    /\ phase = "loading" => at = 1 /\ ~gap /\ decisions = <<>>
    /\ events = <<>> \/ Loaded
    /\ phase \in {"replaying", "done"} =>
         /\ Loaded /\ book = BookOf(Passed(at - 1))
         /\ clean => Len(events) <= Len(document.rows)

IInv ==
    /\ Types /\ Bounds /\ Streams
    /\ NoLookAhead /\ FilledAtFillTime
    /\ AccountAgrees

-----------------------------------------------------------------------------
(* The books of a document, whatever the replay does *)

\* The definitions of Backtest with the document as a parameter: what they say
\* does not change while the document does not.
BeforeIn(d, i, ts, seq) == d.rows[i].ts < ts \/ (d.rows[i].ts = ts /\ i < seq)

BookIn(d, quotes) ==
    IF quotes = {} THEN d.book
    ELSE LET last == CHOOSE i \in quotes : \A j \in quotes \ {i} : BeforeIn(d, j, d.rows[i].ts, i)
         IN IF d.rows[last].kind = "gap" THEN NULL ELSE OrderBook(d.rows[last].payload)

Showing(d, c, ts, seq) ==
    BookIn(d, {q \in {i \in Replayed(d.rows, c) : d.rows[i].kind \in {"book", "gap"}} : BeforeIn(d, q, ts, seq)})

OrderedFile(d) ==
    \A i, j \in DOMAIN d.rows :
      i < j /\ ~Corrupt(d.rows[i]) /\ ~Corrupt(d.rows[j]) => d.rows[i].ts <= d.rows[j].ts

Foreseen(d, c, list) ==
    \A i \in DOMAIN list : list[i].book = Showing(d, c, list[i].event.ts, list[i].event.seq)

FilledIn(d, c, list) ==
    \A i \in DOMAIN list :
      list[i].accepted => list[i].fillBook = Showing(d, c, list[i].fillAt, Len(d.rows) + 1)

LEMMA BookOfIs ==
  /\ \A Q : BookOf(Q) = BookIn(document, Q)
  /\ \A ts, seq : BookOf({q \in Quotes : Before(q, ts, seq)}) = Showing(document, clean, ts, seq)
BY DEF BookOf, BookIn, Before, BeforeIn, Showing, Quotes

LEMMA NoLookAheadIs ==
  /\ NoLookAhead <=> Foreseen(document, clean, decisions)
  /\ NoLookAhead' <=> Foreseen(document', clean', decisions')
BY DEF NoLookAhead, Foreseen, BookOf, BookIn, Before, BeforeIn, Showing, Quotes

LEMMA FilledIs ==
  /\ FilledAtFillTime <=>
       (phase \in {"replaying", "done"} /\ OrderedFile(document) => FilledIn(document, clean, decisions))
  /\ FilledAtFillTime' <=>
       (phase' \in {"replaying", "done"} /\ OrderedFile(document') => FilledIn(document', clean', decisions'))
BY DEF FilledAtFillTime, InOrder, OrderedFile, FilledIn, BookOf, BookIn, Before, BeforeIn, Showing, Quotes

-----------------------------------------------------------------------------
(* What the actions leave alone *)

Forward == phase = "replaying" /\ at \in DOMAIN events /\ at' = at + 1 /\ UNCHANGED inputVars

LEMMA TakesForward ==
  ASSUME Types, Streams, Bounds, NEW kinds, Takes(kinds), UNCHANGED inputVars
  PROVE  /\ Forward /\ Loaded /\ Now = events[at] /\ Now.kind \in kinds
         /\ at' \in 1..(Len(events') + 1) /\ micro <= at' /\ micro + 1 <= at'
<1>1. phase = "replaying" /\ at <= Len(events) /\ at' = at + 1 /\ Now.kind \in kinds
  BY DEF Takes
<1>2. Loaded /\ Len(events) \in Nat /\ DOMAIN events = 1..Len(events)
  BY <1>1, LoadedSeq DEF Streams
<1>3. at \in DOMAIN events /\ events' = events
  BY <1>1, <1>2 DEF Bounds, inputVars
<1>4. at' \in 1..(Len(events') + 1) /\ micro <= at' /\ micro + 1 <= at'
  BY <1>1, <1>2, <1>3 DEF Bounds, Types
<1>5. QED
  BY <1>1, <1>2, <1>3, <1>4 DEF Forward, Now

\* The market after an event is that of the last quote.
LEMMA StreamsKept ==
  ASSUME Streams, Forward,
         book' = IF events[at].kind \notin {"book", "gap"} THEN book
                 ELSE IF events[at].kind = "gap" THEN NULL ELSE OrderBook(events[at].payload)
  PROVE  Streams'
<1>1. /\ Loaded /\ book = BookOf(Passed(at - 1)) /\ (clean => Len(events) <= Len(document.rows))
      /\ phase' = "replaying" /\ events' = events /\ document' = document /\ clean' = clean
  BY DEF Streams, Forward, inputVars
<1>2. book' = BookOf(Passed(at))
  BY <1>1, PassedStep DEF Forward
<1>3. Loaded'
  BY <1>1 DEF Loaded
<1>4. BookOf(Passed(at - 1))' = BookIn(document', Passed(at - 1)')
  BY DEF BookOf, BookIn, Before, BeforeIn
<1>5. at' - 1 = at
  <2>1. at \in Int /\ at' = at + 1
    BY <1>1, LoadedSeq DEF Forward
  <2>2. QED
    BY <2>1
<1>6. Passed(at - 1)' = Passed(at)
  <2>1. Quotes' = Quotes
    BY <1>1 DEF Quotes
  <2>2. QED
    BY <1>1, <1>5, <2>1 DEF Passed
<1>7. BookOf(Passed(at)) = BookIn(document, Passed(at))
  BY BookOfIs
<1>8. BookOf(Passed(at - 1))' = BookOf(Passed(at))
  BY <1>1, <1>4, <1>6, <1>7
<1>9. QED
  BY <1>1, <1>2, <1>3, <1>8 DEF Streams

\* Decisions that were right stay right, and so does the account.
LEMMA DecisionsKept ==
  ASSUME NoLookAhead, FilledAtFillTime, UNCHANGED <<document, clean, decisions>>,
         phase' \in {"replaying", "done"} => phase \in {"replaying", "done"} \/ decisions = <<>>
  PROVE  NoLookAhead' /\ FilledAtFillTime'
<1>1. document' = document /\ clean' = clean /\ decisions' = decisions
  OBVIOUS
<1>2. NoLookAhead'
  BY <1>1, NoLookAheadIs
<1>3. decisions = <<>> => FilledIn(document', clean', decisions')
  BY <1>1 DEF FilledIn
<1>4. QED
  BY <1>1, <1>2, <1>3, FilledIs

LEMMA AccountKept ==
  ASSUME AccountAgrees, UNCHANGED <<trades, position, realized, equity>>, phase = "done" => phase' = "done"
  PROVE  AccountAgrees'
BY DEF AccountAgrees

LEMMA AccountIs ==
  AccountAgrees <=>
    /\ phase # "done" => position = SumUpTo(HeldOf(trades), Len(trades))
    /\ realized = SumUpTo(MadeOf(trades), Len(trades))
    /\ position = 0 => equity[Len(equity)] = Start + realized
BY DEF AccountAgrees, HeldOf, MadeOf

-----------------------------------------------------------------------------
(* The actions *)

LEMMA InitIInv == Init => IInv
<1> SUFFICES ASSUME Init PROVE IInv
  OBVIOUS
<1>1. Types
  BY BacktestAssumption DEF Init, Types, ToSet
<1>2. Bounds
  <2>1. /\ phase = "loading" /\ at = 1 /\ micro = 0 /\ gap = FALSE /\ Len(events) = 0
        /\ Len(decisions) = 0 /\ Len(trades) = 0
    BY DEF Init
  <2>2. at \in 1..(Len(events) + 1) /\ Len(decisions) >= Len(trades) /\ micro <= at
    BY <2>1
  <2>3. phase \in {"loading", "replaying", "done", "refused", "failed"} /\ gap \in BOOLEAN /\ (gap => book = NULL)
    BY DEF Init
  <2>4. QED
    BY <2>2, <2>3 DEF Bounds
<1>3. Streams
  BY DEF Init, Streams
<1>4. NoLookAhead /\ FilledAtFillTime
  BY DEF Init, NoLookAhead, FilledAtFillTime
<1>5. AccountAgrees
  <2>1. SumUpTo(HeldOf(trades), 0) = 0 /\ SumUpTo(MadeOf(trades), 0) = 0
    BY SumZero
  <2>2. trades = <<>> /\ Len(trades) = 0 /\ position = 0 /\ realized = 0 /\ equity[Len(equity)] = Start
    BY DEF Init
  <2>3. QED
    BY <2>1, <2>2, AccountIs, BacktestAssumption
<1>6. QED
  BY <1>1, <1>2, <1>3, <1>4, <1>5 DEF IInv

\* A step that stutters, or that only refuses the document.
LEMMA RefuseIInv ==
  ASSUME IInv, Refuse
  PROVE  IInv'
<1> USE DEF IInv, Refuse, marketVars, accountVars, riskVars
<1>1. Types'
  BY DEF Types
<1>2. Bounds'
  BY DEF Bounds
<1>3. Streams'
  BY DEF Streams, Loaded
<1>4. NoLookAhead' /\ FilledAtFillTime'
  BY DecisionsKept
<1>5. AccountAgrees'
  BY AccountKept
<1>6. QED
  BY <1>1, <1>2, <1>3, <1>4, <1>5

LEMMA StutterIInv ==
  ASSUME IInv, UNCHANGED backtestVars
  PROVE  IInv'
<1> USE DEF IInv, backtestVars, inputVars, marketVars, accountVars, riskVars
<1>1. Types'
  BY DEF Types
<1>2. Bounds'
  BY DEF Bounds
<1>3. Streams'
  <2>1. Loaded' = Loaded
    BY DEF Loaded
  <2>2. BookOf(Passed(at - 1))' = BookIn(document', Passed(at - 1)')
    BY DEF BookOf, BookIn, Before, BeforeIn
  <2>3. Passed(at - 1)' = Passed(at - 1)
    BY DEF Passed, Quotes
  <2>4. BookOf(Passed(at - 1))' = BookOf(Passed(at - 1))
    BY <2>2, <2>3, BookOfIs
  <2>5. QED
    BY <2>1, <2>4 DEF Streams
<1>4. NoLookAhead' /\ FilledAtFillTime'
  BY DecisionsKept
<1>5. AccountAgrees'
  BY AccountKept
<1>6. QED
  BY <1>1, <1>2, <1>3, <1>4, <1>5

\* The stream is made: what it tells is told from the file.
LEMMA LoadIInv ==
  ASSUME IInv, Load
  PROVE  IInv'
<1> DEFINE rows == document.rows
           stream == IF clean THEN Sanitized(rows).accepted ELSE FileEvents(rows)
<1>1. /\ phase = "loading" /\ ~Raised /\ events' = stream /\ book' = document.book
      /\ phase' \in {"failed", "refused", "replaying"}
      /\ UNCHANGED <<document, clean, at, gap, micro, decisions, trades, position, cost, realized, fees, slippage, equity>>
  BY DEF Load, accountVars, riskVars
<1>2. Types /\ Bounds /\ Streams /\ NoLookAhead /\ FilledAtFillTime /\ AccountAgrees
  BY DEF IInv
<1>3. at = 1 /\ ~gap /\ decisions = <<>>
  BY <1>1, <1>2 DEF Streams
<1>4. /\ Tells(stream, rows, Replayed(rows, clean)) /\ Timed(rows, Replayed(rows, clean))
      /\ clean => Len(stream) <= Len(rows)
  <2>1. rows \in Seq(ToSet(rows)) /\ \A i \in DOMAIN rows : rows[i] = NULL \/ Wellformed(rows[i])
    BY <1>2, BacktestAssumption DEF Types
  <2> HIDE DEF rows
  <2>2. /\ ~(\E i \in DOMAIN rows : Raises(rows[i])) =>
               Tells(FileEvents(rows), rows, Replayed(rows, FALSE)) /\ Timed(rows, Replayed(rows, FALSE))
        /\ ~UnreadableRow(rows) =>
               /\ Tells(Sanitized(rows).accepted, rows, Replayed(rows, TRUE)) /\ Timed(rows, Replayed(rows, TRUE))
               /\ Len(Sanitized(rows).accepted) <= Len(rows)
    BY <2>1, StreamTells
  <2>3. CASE clean
    <3>1. ~UnreadableRow(rows)
      BY <1>1, <2>3 DEF Raised, rows
    <3>2. clean = TRUE /\ stream = Sanitized(rows).accepted
      BY <1>2, <2>3 DEF Types
    <3>3. QED
      BY <2>2, <3>1, <3>2
  <2>4. CASE ~clean
    <3>1. ~(\E i \in DOMAIN rows : Raises(rows[i]))
      BY <1>1, <2>4 DEF Raised, rows
    <3>2. clean = FALSE /\ stream = FileEvents(rows)
      BY <1>2, <2>4 DEF Types
    <3>3. QED
      BY <2>2, <3>1, <3>2
  <2>5. QED
    BY <2>3, <2>4
<1>5. Loaded' /\ (clean => Len(events') <= Len(document'.rows))
  BY <1>1, <1>2, <1>4 DEF Loaded, Types
<1>6. Types'
  BY <1>1, <1>2, BacktestAssumption DEF Types
<1>7. Bounds'
  <2>1. Len(events') \in Nat
    BY <1>5 DEF Loaded, Tells
  <2>2. QED
    BY <1>1, <1>2, <1>3, <2>1 DEF Bounds
<1>8. Streams'
  <2>1. BookOf(Passed(at - 1))' = document.book
    <3>1. Passed(at - 1)' = {}
      BY <1>1, <1>3 DEF Passed
    <3>2. BookOf(Passed(at - 1))' = BookIn(document', Passed(at - 1)')
      BY DEF BookOf, BookIn, Before, BeforeIn
    <3>3. QED
      BY <1>1, <3>1, <3>2 DEF BookIn
  <2>2. QED
    BY <1>1, <1>5, <2>1 DEF Streams
<1>9. NoLookAhead' /\ FilledAtFillTime'
  BY <1>1, <1>2, <1>3, DecisionsKept
<1>10. AccountAgrees'
  BY <1>1, <1>2, AccountKept
<1>11. QED
  BY <1>6, <1>7, <1>8, <1>9, <1>10 DEF IInv

\* An event that only changes the market: the account and the decisions stay.
LEMMA MarketIInv ==
  ASSUME IInv, Forward, Loaded,
         book' = IF events[at].kind \notin {"book", "gap"} THEN book
                 ELSE IF events[at].kind = "gap" THEN NULL ELSE OrderBook(events[at].payload),
         gap' \in BOOLEAN, gap' => book' = NULL,
         at' \in 1..(Len(events') + 1), micro' \in Nat, micro' <= at',
         UNCHANGED <<decisions, trades, position, cost, realized, fees, slippage, equity>>
  PROVE  IInv'
<1>1. Types /\ Bounds /\ Streams /\ NoLookAhead /\ FilledAtFillTime /\ AccountAgrees
  BY DEF IInv
<1>2. phase = "replaying" /\ phase' = "replaying" /\ document' = document /\ clean' = clean /\ events' = events
  BY DEF Forward, inputVars
<1>3. book' \in Books \cup {NULL}
  <2>1. Wellformed(document.rows[events[at].seq]) /\ events[at].kind = document.rows[events[at].seq].kind
        /\ events[at].payload = document.rows[events[at].seq].payload
    BY LoadedRow DEF Forward
  <2>2. events[at].kind = "book" => OrderBook(events[at].payload) \in Books
    BY <2>1, OrderBookType
  <2>3. QED
    BY <1>1, <2>2 DEF Types
<1>4. Types'
  BY <1>1, <1>2, <1>3 DEF Types
<1>5. Bounds'
  BY <1>1, <1>2 DEF Bounds
<1>6. Streams'
  BY <1>1, StreamsKept
<1>7. NoLookAhead' /\ FilledAtFillTime'
  BY <1>1, <1>2, DecisionsKept
<1>8. AccountAgrees'
  BY <1>1, <1>2, AccountKept
<1>9. QED
  BY <1>4, <1>5, <1>6, <1>7, <1>8 DEF IInv

LEMMA OnMarketIInv ==
  ASSUME IInv, OnBook \/ OnTrade \/ OnGap \/ OnState
  PROVE  IInv'
<1>1. Types /\ Bounds /\ Streams
  BY DEF IInv
<1>2. micro \in Nat /\ gap \in BOOLEAN /\ (gap => book = NULL)
  BY <1>1 DEF Types, Bounds
<1>3. CASE OnBook
  <2>1. Takes({"book"}) /\ UNCHANGED inputVars
    BY <1>3 DEF OnBook
  <2>2. /\ Forward /\ Loaded /\ Now = events[at] /\ Now.kind = "book"
        /\ at' \in 1..(Len(events') + 1) /\ micro + 1 <= at'
    BY <1>1, <2>1, TakesForward
  <2>3. /\ book' = OrderBook(Now.payload) /\ gap' = FALSE /\ micro' = micro + 1
        /\ UNCHANGED <<decisions, trades, position, cost, realized, fees, slippage, equity>>
    BY <1>3 DEF OnBook, accountVars
  <2>4. book' = IF events[at].kind \notin {"book", "gap"} THEN book
                ELSE IF events[at].kind = "gap" THEN NULL ELSE OrderBook(events[at].payload)
    BY <2>2, <2>3
  <2>5. gap' \in BOOLEAN /\ (gap' => book' = NULL) /\ micro' \in Nat /\ micro' <= at'
    <3>1. gap' \in BOOLEAN /\ (gap' => book' = NULL)
      BY <2>3, Zenon
    <3>2. micro' \in Nat /\ micro' <= at'
      BY <1>2, <2>2, <2>3
    <3>3. QED
      BY <3>1, <3>2
  <2>6. QED
    BY <2>2, <2>3, <2>4, <2>5, MarketIInv
<1>4. CASE OnTrade
  <2>1. Takes({"trade"}) /\ UNCHANGED inputVars
    BY <1>4 DEF OnTrade
  <2>2. /\ Forward /\ Loaded /\ Now = events[at] /\ Now.kind = "trade"
        /\ at' \in 1..(Len(events') + 1) /\ micro + 1 <= at'
    BY <1>1, <2>1, TakesForward
  <2>3. /\ book' = book /\ gap' = gap /\ micro' = micro + 1
        /\ UNCHANGED <<decisions, trades, position, cost, realized, fees, slippage, equity>>
    BY <1>4 DEF OnTrade, accountVars
  <2>4. QED
    BY <1>2, <2>2, <2>3, MarketIInv
<1>5. CASE OnGap
  <2>1. Takes({"gap"}) /\ UNCHANGED inputVars
    BY <1>5 DEF OnGap
  <2>2. /\ Forward /\ Loaded /\ Now = events[at] /\ Now.kind = "gap"
        /\ at' \in 1..(Len(events') + 1) /\ micro <= at'
    BY <1>1, <2>1, TakesForward
  <2>3. /\ book' = NULL /\ gap' = TRUE /\ micro' = micro
        /\ UNCHANGED <<decisions, trades, position, cost, realized, fees, slippage, equity>>
    BY <1>5 DEF OnGap, accountVars
  <2>4. QED
    BY <1>2, <2>2, <2>3, MarketIInv
<1>6. CASE OnState
  <2>1. Takes(SourceKinds \cup {"mid", "candle"}) /\ UNCHANGED inputVars
    BY <1>6 DEF OnState
  <2>2. /\ Forward /\ Loaded /\ Now = events[at] /\ Now.kind \in SourceKinds \cup {"mid", "candle"}
        /\ at' \in 1..(Len(events') + 1) /\ micro <= at'
    BY <1>1, <2>1, TakesForward
  <2>3. /\ book' = book /\ gap' = gap /\ micro' = micro
        /\ UNCHANGED <<decisions, trades, position, cost, realized, fees, slippage, equity>>
    BY <1>6 DEF OnState, accountVars
  <2>4. Now.kind \notin {"book", "gap"}
    BY <2>2 DEF SourceKinds
  <2>5. QED
    BY <1>2, <2>2, <2>3, <2>4, MarketIInv
<1>7. QED
  BY <1>3, <1>4, <1>5, <1>6

\* A resolution closes all that is open, and what is left is nothing.
LEMMA ResolveIInv ==
  ASSUME IInv, OnResolve
  PROVE  IInv'
<1>1. Types /\ Bounds /\ Streams /\ NoLookAhead /\ FilledAtFillTime /\ AccountAgrees
  BY DEF IInv
<1>2. Takes({"resolve"}) /\ UNCHANGED inputVars
  BY DEF OnResolve
<1>3. /\ Forward /\ Loaded /\ Now = events[at] /\ Now.kind = "resolve"
      /\ at' \in 1..(Len(events') + 1) /\ micro <= at'
  BY <1>1, <1>2, TakesForward
<1>4. phase = "replaying" /\ phase' = "replaying" /\ document' = document /\ clean' = clean /\ events' = events
  BY <1>3 DEF Forward, inputVars
<1> DEFINE price == Now.payload.price
           closed == Close(price, FALSE)
<1>5. /\ trades' = closed.trades /\ realized' = realized + closed.made
      /\ equity' = Append(equity, Start + realized + closed.made)
      /\ position' = 0 /\ cost' = 0
      /\ UNCHANGED <<book, gap, micro, decisions, fees, slippage>>
  BY DEF OnResolve, AfterResolve, marketVars
<1>6. price \in Int
  <2>1. /\ Wellformed(document.rows[events[at].seq]) /\ events[at].kind = document.rows[events[at].seq].kind
        /\ events[at].payload = document.rows[events[at].seq].payload
    BY <1>3, LoadedRow DEF Forward
  <2>2. QED
    BY <1>3, <2>1 DEF Wellformed
<1>7. /\ trades \in Seq(TradeType) /\ position = SumUpTo(HeldOf(trades), Len(trades))
      /\ realized = SumUpTo(MadeOf(trades), Len(trades)) /\ realized \in Int
  BY <1>1, <1>4, AccountIs DEF Types
<1> HIDE DEF price
<1>8. PICK after \in Seq(TradeType) :
         /\ closed.trades = after /\ Len(after) = Len(trades)
         /\ SumUpTo(HeldOf(after), Len(after)) = 0
         /\ closed.made = SumUpTo(MadeOf(after), Len(after)) - SumUpTo(MadeOf(trades), Len(trades))
  BY <1>6, <1>7, CloseIs
<1> HIDE DEF closed
<1>9. realized' = SumUpTo(MadeOf(after), Len(after)) /\ realized' \in Int /\ closed.made \in Int
  <2>1. SumUpTo(MadeOf(after), Len(after)) \in Int
    BY SeqSums, SumInt
  <2>2. QED
    BY <1>5, <1>7, <1>8, <2>1
<1>10. equity' \in Seq(Int) /\ equity' # <<>> /\ equity'[Len(equity')] = Start + realized'
  <2>1. Start + realized + closed.made \in Int /\ Start + realized + closed.made = Start + realized'
    BY <1>5, <1>7, <1>9, BacktestAssumption
  <2>2. equity \in Seq(Int)
    BY <1>1 DEF Types
  <2>3. QED
    BY <1>5, <2>1, <2>2
<1>11. Types'
  BY <1>1, <1>4, <1>5, <1>8, <1>9, <1>10 DEF Types
<1>12. Bounds'
  BY <1>1, <1>3, <1>4, <1>5, <1>8 DEF Bounds
<1>13. Streams'
  BY <1>1, <1>3, <1>5, StreamsKept
<1>14. NoLookAhead' /\ FilledAtFillTime'
  BY <1>1, <1>4, <1>5, DecisionsKept
<1>15. AccountAgrees'
  <2>1. trades' = after
    BY <1>5, <1>8
  <2>2. HeldOf(trades') = HeldOf(after) /\ MadeOf(trades') = MadeOf(after)
    BY <2>1
  <2>3. /\ AccountAgrees' <=>
             /\ phase' # "done" => position' = SumUpTo(HeldOf(trades'), Len(trades'))
             /\ realized' = SumUpTo(MadeOf(trades'), Len(trades'))
             /\ position' = 0 => equity'[Len(equity')] = Start + realized'
    BY DEF AccountAgrees, HeldOf, MadeOf
  <2>4. QED
    BY <1>5, <1>8, <1>9, <1>10, <2>1, <2>2, <2>3
<1>16. QED
  BY <1>11, <1>12, <1>13, <1>14, <1>15 DEF IInv

-----------------------------------------------------------------------------
(* Decisions *)

\* A sequence that gets one more entry is a sequence of what it holds.
LEMMA Lengthened ==
  ASSUME NEW s, s \in Seq(ToSet(s)), NEW x
  PROVE  /\ Append(s, x) \in Seq(ToSet(Append(s, x)))
         /\ Len(Append(s, x)) = Len(s) + 1 /\ DOMAIN Append(s, x) = 1..(Len(s) + 1)
         /\ \A i \in 1..Len(s) : Append(s, x)[i] = s[i]
         /\ Append(s, x)[Len(s) + 1] = x
<1> DEFINE t == Append(s, x)
           S == ToSet(s) \cup {x}
<1>1. s \in Seq(S) /\ x \in S
  OBVIOUS
<1> HIDE DEF S
<1>2. /\ t \in Seq(S) /\ Len(t) = Len(s) + 1 /\ DOMAIN t = 1..(Len(s) + 1)
      /\ (\A i \in 1..Len(s) : t[i] = s[i]) /\ t[Len(s) + 1] = x
  BY <1>1
<1> HIDE DEF t
<1>3. \A i \in 1..Len(t) : t[i] \in ToSet(t)
  BY <1>2 DEF ToSet
<1>4. t \in Seq(ToSet(t))
  BY <1>2, <1>3
<1>5. QED
  BY <1>2, <1>4 DEF t

\* A decision is right when its book is the one before it and, when it was
\* accepted, the book of its fill is the one at the fill time.
LEMMA DecisionAdded ==
  ASSUME Types, NoLookAhead, FilledAtFillTime, phase = "replaying",
         UNCHANGED <<document, clean, phase>>, NEW d, decisions' = Append(decisions, d),
         d.book = Showing(document, clean, d.event.ts, d.event.seq),
         OrderedFile(document) /\ d.accepted => d.fillBook = Showing(document, clean, d.fillAt, Len(document.rows) + 1)
  PROVE  NoLookAhead' /\ FilledAtFillTime'
<1>1. Foreseen(document, clean, decisions) /\ (OrderedFile(document) => FilledIn(document, clean, decisions))
  BY NoLookAheadIs, FilledIs
<1>2. decisions \in Seq(ToSet(decisions)) /\ DOMAIN decisions = 1..Len(decisions) /\ Len(decisions) \in Nat
  BY DEF Types
<1>3. /\ DOMAIN decisions' = 1..(Len(decisions) + 1)
      /\ \A i \in 1..Len(decisions) : decisions'[i] = decisions[i]
      /\ decisions'[Len(decisions) + 1] = d
  BY <1>2, Lengthened
<1>4. DOMAIN decisions' = DOMAIN decisions \cup {Len(decisions) + 1}
  BY <1>2, <1>3
<1>5. Foreseen(document, clean, decisions')
  BY <1>1, <1>2, <1>3, <1>4 DEF Foreseen
<1>6. OrderedFile(document) => FilledIn(document, clean, decisions')
  BY <1>1, <1>2, <1>3, <1>4 DEF FilledIn
<1>7. document' = document /\ clean' = clean
  OBVIOUS
<1>8. QED
  BY <1>5, <1>6, <1>7, NoLookAheadIs, FilledIs

\* What is known when a decision is taken.
LEMMA AtDecision ==
  ASSUME IInv, Takes({"decision"}), UNCHANGED inputVars
  PROVE  /\ Types /\ Bounds /\ Streams /\ NoLookAhead /\ FilledAtFillTime /\ AccountAgrees
         /\ Forward /\ Loaded /\ Now = events[at] /\ Now.kind = "decision" /\ at \in DOMAIN events
         /\ at' \in 1..(Len(events') + 1) /\ micro <= at'
         /\ phase = "replaying" /\ phase' = "replaying" /\ document' = document /\ clean' = clean /\ events' = events
         /\ book = BookOf(Passed(at - 1)) /\ book = Showing(document, clean, Now.ts, Now.seq)
         /\ Now.ts \in Nat /\ Now.seq \in Nat
<1>1. Types /\ Bounds /\ Streams /\ NoLookAhead /\ FilledAtFillTime /\ AccountAgrees
  BY DEF IInv
<1>2. /\ Forward /\ Loaded /\ Now = events[at] /\ Now.kind = "decision"
      /\ at' \in 1..(Len(events') + 1) /\ micro <= at'
  BY <1>1, TakesForward
<1>3. /\ phase = "replaying" /\ phase' = "replaying" /\ document' = document /\ clean' = clean /\ events' = events
      /\ at \in DOMAIN events
  BY <1>2 DEF Forward, inputVars
<1>4. book = BookOf(Passed(at - 1))
  BY <1>1, <1>3 DEF Streams
<1>5. book = Showing(document, clean, Now.ts, Now.seq)
  <2>1. {q \in Quotes : Before(q, Now.ts, Now.seq)} = Passed(at - 1)
    BY <1>2, <1>3, QuotesBefore
  <2>2. QED
    BY <1>4, <2>1, BookOfIs
<1>6. Now.ts \in Nat /\ Now.seq \in Nat
  BY <1>2, <1>3, LoadedRow
<1>7. QED
  BY <1>1, <1>2, <1>3, <1>4, <1>5, <1>6

\* A decision that orders nothing.
LEMMA DeclinedIInv ==
  ASSUME IInv, SkipOnGap \/ Rejected
  PROVE  IInv'
<1>1. /\ Takes({"decision"}) /\ UNCHANGED <<inputVars, marketVars, trades, accountVars>>
      /\ \E d : decisions' = Append(decisions, d) /\ d.event = Now /\ d.accepted = FALSE /\ d.book = book
  <2>1. CASE SkipOnGap
    <3>1. book = NULL
      BY <2>1 DEF SkipOnGap, IInv, Bounds
    <3>2. decisions' = Append(decisions, Decision(Now, NULL, FALSE, "DATA_GAP"))
      BY <2>1 DEF SkipOnGap
    <3> DEFINE d == Decision(Now, NULL, FALSE, "DATA_GAP")
    <3>3. d.event = Now /\ d.accepted = FALSE /\ d.book = NULL
      BY DEF Decision
    <3>4. Takes({"decision"}) /\ UNCHANGED <<inputVars, marketVars, trades, accountVars>>
      BY <2>1 DEF SkipOnGap
    <3> HIDE DEF d
    <3>5. decisions' = Append(decisions, d)
      BY <3>2 DEF d
    <3>6. QED
      BY <3>1, <3>3, <3>4, <3>5
  <2>2. CASE Rejected
    <3>1. PICK reason : decisions' = Append(decisions, Decision(Now, MarketNow(Now).book, FALSE, reason))
      BY <2>2 DEF Rejected
    <3> DEFINE d == Decision(Now, MarketNow(Now).book, FALSE, reason)
    <3>2. d.event = Now /\ d.accepted = FALSE /\ d.book = book
      BY DEF Decision, MarketNow
    <3>3. Takes({"decision"}) /\ UNCHANGED <<inputVars, marketVars, trades, accountVars>>
      BY <2>2 DEF Rejected
    <3> HIDE DEF d
    <3>4. decisions' = Append(decisions, d)
      BY <3>1 DEF d
    <3>5. QED
      BY <3>2, <3>3, <3>4
  <2>3. QED
    BY <2>1, <2>2
<1>2. /\ Types /\ Bounds /\ Streams /\ NoLookAhead /\ FilledAtFillTime /\ AccountAgrees
      /\ Forward /\ Loaded /\ Now = events[at] /\ Now.kind = "decision" /\ at \in DOMAIN events
      /\ at' \in 1..(Len(events') + 1) /\ micro <= at'
      /\ phase = "replaying" /\ phase' = "replaying" /\ document' = document /\ clean' = clean /\ events' = events
      /\ book = Showing(document, clean, Now.ts, Now.seq)
  BY <1>1, AtDecision
<1>3. PICK d : decisions' = Append(decisions, d) /\ d.event = Now /\ d.accepted = FALSE /\ d.book = book
  BY <1>1
<1>4. UNCHANGED <<book, gap, micro, trades, position, cost, realized, fees, slippage, equity>>
  BY <1>1 DEF marketVars, accountVars
<1>5. decisions' \in Seq(ToSet(decisions')) /\ Len(decisions') = Len(decisions) + 1 /\ Len(decisions) \in Nat
  BY <1>2, <1>3, Lengthened DEF Types
<1>6. Types'
  BY <1>2, <1>4, <1>5 DEF Types
<1>7. Bounds'
  <2>1. Len(trades) \in Nat /\ Len(trades') = Len(trades)
    BY <1>2, <1>4 DEF Types
  <2>2. Len(decisions') >= Len(trades')
    BY <1>2, <1>5, <2>1 DEF Bounds
  <2>3. QED
    BY <1>2, <1>4, <2>2 DEF Bounds
<1>8. Streams'
  BY <1>2, <1>4, StreamsKept
<1>9. NoLookAhead' /\ FilledAtFillTime'
  <2>1. d.book = Showing(document, clean, d.event.ts, d.event.seq)
    BY <1>2, <1>3
  <2>2. QED
    BY <1>2, <1>3, <2>1, DecisionAdded
<1>10. AccountAgrees'
  BY <1>2, <1>4, AccountKept
<1>11. QED
  BY <1>6, <1>7, <1>8, <1>9, <1>10 DEF IInv

\* One more trade adds what it holds and what it has made.
LEMMA TradeAdded ==
  ASSUME NEW ts \in Seq(TradeType), NEW t \in TradeType
  PROVE  /\ Append(ts, t) \in Seq(TradeType) /\ Len(Append(ts, t)) = Len(ts) + 1
         /\ SumUpTo(HeldOf(Append(ts, t)), Len(ts) + 1) = SumUpTo(HeldOf(ts), Len(ts)) + Held(t)
         /\ SumUpTo(MadeOf(Append(ts, t)), Len(ts) + 1) = SumUpTo(MadeOf(ts), Len(ts)) + Made(t)
<1> DEFINE n == Len(ts)
           us == Append(ts, t)
<1>1. /\ us \in Seq(TradeType) /\ Len(us) = n + 1 /\ n \in Nat
      /\ (\A i \in 1..n : us[i] = ts[i]) /\ us[n + 1] = t
  <2> HIDE DEF TradeType
  <2>1. QED
    OBVIOUS
<1> HIDE DEF us, n
<1>2. /\ Summable(HeldOf(ts), n) /\ Summable(MadeOf(ts), n)
      /\ \A i \in 1..n : HeldOf(ts)[i] = Held(ts[i]) /\ MadeOf(ts)[i] = Made(ts[i])
  BY SeqSums DEF n
<1>3. /\ Summable(HeldOf(us), n + 1) /\ Summable(MadeOf(us), n + 1)
      /\ \A i \in 1..(n + 1) : HeldOf(us)[i] = Held(us[i]) /\ MadeOf(us)[i] = Made(us[i])
  BY <1>1, SeqSums
<1>4. \A i \in 1..n : HeldOf(us)[i] = HeldOf(ts)[i] /\ MadeOf(us)[i] = MadeOf(ts)[i]
  <2>1. \A i \in 1..n : i \in 1..(n + 1)
    BY <1>1
  <2>2. QED
    BY <1>1, <1>2, <1>3, <2>1
<1>5. SumUpTo(HeldOf(us), n) = SumUpTo(HeldOf(ts), n)
  <2> DEFINE f == HeldOf(ts)
             g == HeldOf(us)
  <2>1. n \in Nat /\ n <= n /\ Summable(f, n) /\ \A i \in 1..n : g[i] = f[i]
    BY <1>1, <1>2, <1>4
  <2>2. \A i \in (n + 1)..n : g[i] = 0
    BY <1>1
  <2> HIDE DEF f, g
  <2>3. SumUpTo(g, n) = SumUpTo(f, n)
    BY <2>1, <2>2, SumPadded
  <2>4. QED
    BY <2>3 DEF f, g
<1>6. SumUpTo(MadeOf(us), n) = SumUpTo(MadeOf(ts), n)
  <2> DEFINE f == MadeOf(ts)
             g == MadeOf(us)
  <2>1. n \in Nat /\ n <= n /\ Summable(f, n) /\ \A i \in 1..n : g[i] = f[i]
    BY <1>1, <1>2, <1>4
  <2>2. \A i \in (n + 1)..n : g[i] = 0
    BY <1>1
  <2> HIDE DEF f, g
  <2>3. SumUpTo(g, n) = SumUpTo(f, n)
    BY <2>1, <2>2, SumPadded
  <2>4. QED
    BY <2>3 DEF f, g
<1>7. SumUpTo(HeldOf(us), n + 1) = SumUpTo(HeldOf(us), n) + HeldOf(us)[n + 1]
  BY <1>1, <1>3, SumStep
<1>8. SumUpTo(MadeOf(us), n + 1) = SumUpTo(MadeOf(us), n) + MadeOf(us)[n + 1]
  BY <1>1, <1>3, SumStep
<1>9. HeldOf(us)[n + 1] = Held(t) /\ MadeOf(us)[n + 1] = Made(t)
  BY <1>1, <1>3
<1>10. QED
  BY <1>1, <1>5, <1>6, <1>7, <1>8, <1>9 DEF us, n

\* _peek_book shows a book or none.
LEMMA PeekType ==
  ASSUME Loaded, book \in Books \cup {NULL}, NEW event, NEW until
  PROVE  PeekBook(event, until).book \in Books \cup {NULL}
<1> DEFINE quotes == {i \in SeenBy(event, until) : events[i].kind \in {"book", "gap"}}
           last == QuoteWithin(event, until)
<1>1. last = IF quotes = {} THEN NULL ELSE CHOOSE i \in quotes : \A j \in quotes : j <= i
  BY DEF QuoteWithin
<1>2. quotes \in SUBSET (1..Len(events)) /\ Len(events) \in Nat /\ DOMAIN events = 1..Len(events)
  BY LoadedSeq DEF SeenBy
<1>3. PeekBook(event, until).book =
        IF last = NULL THEN book ELSE IF events[last].kind = "gap" THEN NULL ELSE OrderBook(events[last].payload)
  BY DEF PeekBook
<1>4. \A i \in quotes : events[i].kind \in {"book", "gap"}
  OBVIOUS
<1> HIDE DEF quotes, last
<1>5. CASE quotes = {}
  BY <1>1, <1>3, <1>5
<1>6. CASE quotes # {}
  <2>1. last \in quotes
    <3>1. \E i \in quotes : \A j \in quotes : j <= i
      BY <1>2, <1>6, Greatest
    <3>2. QED
      BY <1>1, <1>6, <3>1
  <2>2. /\ Wellformed(document.rows[events[last].seq]) /\ events[last].kind = document.rows[events[last].seq].kind
        /\ events[last].payload = document.rows[events[last].seq].payload
    BY <1>2, <2>1, LoadedRow
  <2>3. events[last].kind = "book" => OrderBook(events[last].payload) \in Books
    BY <2>2, OrderBookType
  <2>4. QED
    BY <1>3, <1>4, <2>1, <2>3
<1>7. QED
  BY <1>5, <1>6

\* An order that is filled becomes a trade.
LEMMA FilledAccount ==
  ASSUME Types, AccountAgrees, phase = "replaying", phase' = "replaying", document' = document, clean' = clean,
         Now.ts \in Nat, Now.seq \in Nat,
         NEW market, NEW intent, NEW fill, fill.filled, FillSound(fill), NEW quote, quote.book \in Books \cup {NULL},
         NEW until \in Nat, FilledOrder(market, intent, fill, quote, until)
  PROVE  /\ trades' \in Seq(TradeType) /\ Len(trades') = Len(trades) + 1
         /\ position' \in Nat /\ cost' \in Nat /\ fees' \in Nat /\ slippage' \in Nat /\ realized' \in Int
         /\ equity' \in Seq(Int) /\ equity' # <<>>
         /\ AccountAgrees'
<1> DEFINE trade == [at |-> until, seq |-> Now.seq, size |-> fill.size, cost |-> fill.cost, fee |-> fill.fee,
                     style |-> fill.style, split |-> AssignSplit(Now.ts, document.split),
                     pnl |-> NULL, exit |-> NULL, marked |-> FALSE]
           mark == IF TwiceMid(quote.book) = NULL THEN 2 * (fill.cost \div fill.size) ELSE TwiceMid(quote.book)
           value == Start + realized' + (position' * mark) \div 2 - cost'
<1>1. /\ fees' = fees + fill.fee /\ slippage' = slippage + fill.slippage
      /\ realized' = realized - fill.fee
      /\ position' = position + fill.size /\ cost' = cost + fill.cost
      /\ trades' = Append(trades, trade)
      /\ equity' = Append(equity, value)
  BY DEF FilledOrder
<1>2. /\ fill.size \in Nat \ {0} /\ fill.cost \in Nat /\ fill.fee \in Nat /\ fill.slippage \in Nat
      /\ fill.style \in {"MAKER", "TAKER"} /\ (fill.style = "MAKER" => fill.fee = 0)
  BY DEF FillSound
<1>3. /\ trades \in Seq(TradeType) /\ position \in Nat /\ cost \in Nat /\ fees \in Nat /\ slippage \in Nat
      /\ realized \in Int /\ equity \in Seq(Int)
  BY DEF Types
<1>4. trade \in TradeType
  <2>1. AssignSplit(Now.ts, document.split) \in Splits
    BY SplitType
  <2>2. QED
    BY <1>2, <2>1 DEF TradeType
<1>5. Held(trade) = fill.size /\ Made(trade) = -fill.fee
  <2>1. trade.pnl = NULL /\ trade.size = fill.size /\ trade.fee = fill.fee
    OBVIOUS
  <2> HIDE DEF trade
  <2>2. QED
    BY <1>4, <2>1, TradeSums
<1>6. mark \in Int
  <2>1. TwiceMid(quote.book) \in Nat \cup {NULL}
    BY TwiceMidType
  <2>2. 2 * (fill.cost \div fill.size) \in Int
    BY <1>2
  <2>3. QED
    BY <2>1, <2>2
<1> HIDE DEF trade, mark, value
<1>7. position' \in Nat /\ position' # 0 /\ cost' \in Nat /\ fees' \in Nat /\ slippage' \in Nat /\ realized' \in Int
  <2>1. /\ fees' = fees + fill.fee /\ slippage' = slippage + fill.slippage /\ realized' = realized - fill.fee
        /\ position' = position + fill.size /\ cost' = cost + fill.cost
    BY <1>1
  <2>2. fill.size \in Nat /\ fill.size > 0 /\ fill.cost \in Nat /\ fill.fee \in Nat /\ fill.slippage \in Nat
    BY <1>2
  <2>3. position \in Nat /\ cost \in Nat /\ fees \in Nat /\ slippage \in Nat /\ realized \in Int
    BY <1>3
  <2>4. position' \in Nat /\ position' # 0
    BY <2>1, <2>2, <2>3
  <2>5. cost' \in Nat /\ fees' \in Nat /\ slippage' \in Nat
    BY <2>1, <2>2, <2>3
  <2>6. realized' \in Int
    BY <2>1, <2>2, <2>3
  <2>7. QED
    BY <2>4, <2>5, <2>6
<1>8. equity' \in Seq(Int) /\ equity' # <<>>
  <2>1. position' * mark \in Int
    BY <1>6, <1>7
  <2>2. (position' * mark) \div 2 \in Int
    BY <2>1
  <2>3. value \in Int
    BY <1>7, <2>2, BacktestAssumption DEF value
  <2>4. equity' = Append(equity, value) /\ equity \in Seq(Int)
    BY <1>1, <1>3
  <2>5. QED
    BY <2>3, <2>4
<1>9. /\ trades' \in Seq(TradeType) /\ Len(trades') = Len(trades) + 1
      /\ SumUpTo(HeldOf(trades'), Len(trades')) = SumUpTo(HeldOf(trades), Len(trades)) + Held(trade)
      /\ SumUpTo(MadeOf(trades'), Len(trades')) = SumUpTo(MadeOf(trades), Len(trades)) + Made(trade)
  BY <1>1, <1>3, <1>4, TradeAdded
<1>10. AccountAgrees'
  <2>1. position = SumUpTo(HeldOf(trades), Len(trades)) /\ realized = SumUpTo(MadeOf(trades), Len(trades))
    BY AccountIs
  <2>2. /\ AccountAgrees' <=>
             /\ phase' # "done" => position' = SumUpTo(HeldOf(trades'), Len(trades'))
             /\ realized' = SumUpTo(MadeOf(trades'), Len(trades'))
             /\ position' = 0 => equity'[Len(equity')] = Start + realized'
    BY DEF AccountAgrees, HeldOf, MadeOf
  <2>3. position' = SumUpTo(HeldOf(trades'), Len(trades')) /\ realized' = SumUpTo(MadeOf(trades'), Len(trades'))
    BY <1>1, <1>2, <1>3, <1>5, <1>9, <2>1
  <2>4. QED
    BY <1>7, <2>2, <2>3
<1>11. QED
  BY <1>7, <1>8, <1>9, <1>10

LEMMA OrderedIInv ==
  ASSUME IInv, Ordered
  PROVE  IInv'
<1> DEFINE market == MarketNow(Now)
<1>1. Takes({"decision"}) /\ UNCHANGED <<inputVars, marketVars>>
  BY DEF Ordered
<1>2. /\ Types /\ Bounds /\ Streams /\ NoLookAhead /\ FilledAtFillTime /\ AccountAgrees
      /\ Forward /\ Loaded /\ Now = events[at] /\ Now.kind = "decision" /\ at \in DOMAIN events
      /\ at' \in 1..(Len(events') + 1) /\ micro <= at'
      /\ phase = "replaying" /\ phase' = "replaying" /\ document' = document /\ clean' = clean /\ events' = events
      /\ book = BookOf(Passed(at - 1)) /\ book = Showing(document, clean, Now.ts, Now.seq)
      /\ Now.ts \in Nat /\ Now.seq \in Nat
  BY <1>1, AtDecision
<1>3. PICK m \in {MarketNow(Now)}, intent \in Intents, lucky \in BOOLEAN :
        /\ TwiceMid(m.book) # NULL /\ RiskVeto(intent, m, Now.ts) = NULL
        /\ lucky \/ intent.style = "MAKER"
        /\ \E until \in {Now.ts + FillDelay(intent.style)} : \E quote \in {PeekBook(Now, until)} :
           \E fill \in {SimulateExecution(intent.style, intent.shares, quote.book, quote.gap,
                                          MarketFees(document), lucky)} :
             /\ decisions' = Append(decisions, [Decision(Now, m.book, TRUE, "OK")
                                                  EXCEPT !.fillAt = until, !.fillBook = quote.book])
             /\ IF fill.filled THEN FilledOrder(m, intent, fill, quote, until)
                ELSE /\ skips' = Counted(skips, fill.reason)
                     /\ UNCHANGED <<trades, accountVars, riskVars>>
  BY Zenon DEF Ordered
<1> DEFINE until == Now.ts + FillDelay(intent.style)
           quote == PeekBook(Now, until)
           fill == SimulateExecution(intent.style, intent.shares, quote.book, quote.gap, MarketFees(document), lucky)
           d == [Decision(Now, market.book, TRUE, "OK") EXCEPT !.fillAt = until, !.fillBook = quote.book]
<1>4. /\ decisions' = Append(decisions, d)
      /\ IF fill.filled THEN FilledOrder(market, intent, fill, quote, until)
         ELSE UNCHANGED <<trades, accountVars, riskVars>>
  <2>1. m = market
    OBVIOUS
  <2> HIDE DEF market
  <2>2. /\ decisions' = Append(decisions, [Decision(Now, m.book, TRUE, "OK")
                                             EXCEPT !.fillAt = until, !.fillBook = quote.book])
        /\ IF fill.filled THEN FilledOrder(m, intent, fill, quote, until)
           ELSE UNCHANGED <<trades, accountVars, riskVars>>
    BY <1>3, Zenon
  <2>3. QED
    BY <2>1, <2>2
<1>5. /\ d.event = Now /\ d.accepted = TRUE /\ d.book = book /\ d.fillAt = until /\ d.fillBook = quote.book
  BY DEF Decision, MarketNow
<1>6. until \in Nat /\ Now.ts <= until
  <2>1. FillDelay(intent.style) \in Nat
    BY ReplayAssumption DEF FillDelay
  <2>2. QED
    BY <1>2, <2>1
<1> HIDE DEF until
<1>7. quote.book \in Books \cup {NULL}
  BY <1>2, PeekType DEF Types
<1>8. OrderedFile(document) => quote.book = Showing(document, clean, until, Len(document.rows) + 1)
  <2>1. SUFFICES ASSUME OrderedFile(document)
                 PROVE  quote.book = Showing(document, clean, until, Len(document.rows) + 1)
    OBVIOUS
  <2>2. InOrder
    BY <2>1 DEF InOrder, OrderedFile
  <2>3. PeekBook(events[at], until).book = BookOf({q \in Quotes : Before(q, until, Len(document.rows) + 1)})
    BY <1>2, <1>6, <2>2, FillBook, BacktestAssumption
  <2>4. QED
    BY <1>2, <2>3, BookOfIs
<1> HIDE DEF quote
<1>9. FillSound(fill)
  <2>1. MarketFees(document).rate \in Nat \cup {NULL}
    BY <1>2, MarketFeesType DEF Types
  <2>2. intent.style \in {"MAKER", "TAKER"} /\ intent.shares \in Nat
    BY BacktestAssumption
  <2>3. QED
    BY <1>7, <2>1, <2>2, ExecutionSound
<1> HIDE DEF fill, d, market
<1>10. UNCHANGED <<book, gap, micro>>
  BY <1>1 DEF marketVars
<1>11. decisions' \in Seq(ToSet(decisions')) /\ Len(decisions') = Len(decisions) + 1 /\ Len(decisions) \in Nat
  BY <1>2, <1>4, Lengthened DEF Types
<1>12. /\ trades' \in Seq(TradeType) /\ Len(trades') <= Len(trades) + 1
       /\ position' \in Nat /\ cost' \in Nat /\ fees' \in Nat /\ slippage' \in Nat /\ realized' \in Int
       /\ equity' \in Seq(Int) /\ equity' # <<>>
       /\ AccountAgrees'
  <2>1. CASE fill.filled
    <3>1. FilledOrder(market, intent, fill, quote, until)
      BY <1>4, <2>1
    <3>2. /\ trades' \in Seq(TradeType) /\ Len(trades') = Len(trades) + 1
          /\ position' \in Nat /\ cost' \in Nat /\ fees' \in Nat /\ slippage' \in Nat /\ realized' \in Int
          /\ equity' \in Seq(Int) /\ equity' # <<>>
          /\ AccountAgrees'
      BY <1>2, <1>6, <1>7, <1>9, <2>1, <3>1, FilledAccount
    <3>3. Len(trades') <= Len(trades) + 1
      <4>1. Len(trades') \in Nat
        BY <3>2
      <4>2. QED
        BY <3>2, <4>1
    <3>4. QED
      BY <3>2, <3>3
  <2>2. CASE ~fill.filled
    <3>1. UNCHANGED <<trades, position, cost, realized, fees, slippage, equity>>
      BY <1>4, <2>2 DEF accountVars
    <3>2. AccountAgrees'
      BY <1>2, <3>1, AccountKept
    <3>3. Len(trades') <= Len(trades) + 1
      <4>1. Len(trades) \in Nat
        BY <1>2 DEF Types
      <4>2. QED
        BY <3>1, <4>1
    <3>4. QED
      BY <1>2, <3>1, <3>2, <3>3 DEF Types
  <2>3. QED
    BY <2>1, <2>2
<1>13. Types'
  BY <1>2, <1>10, <1>11, <1>12 DEF Types
<1>14. Bounds'
  <2>1. Len(decisions') >= Len(trades')
    <3>1. Len(trades) \in Nat
      BY <1>2 DEF Types
    <3>2. Len(trades') \in Nat
      BY <1>12
    <3>3. Len(decisions) >= Len(trades)
      BY <1>2 DEF Bounds
    <3>4. QED
      BY <1>11, <1>12, <3>1, <3>2, <3>3
  <2>2. QED
    BY <1>2, <1>10, <2>1 DEF Bounds
<1>15. Streams'
  BY <1>2, <1>10, StreamsKept
<1>16. NoLookAhead' /\ FilledAtFillTime'
  <2>1. d.book = Showing(document, clean, d.event.ts, d.event.seq)
    BY <1>2, <1>5
  <2>2. OrderedFile(document) /\ d.accepted => d.fillBook = Showing(document, clean, d.fillAt, Len(document.rows) + 1)
    BY <1>5, <1>8
  <2>3. QED
    BY <1>2, <1>4, <2>1, <2>2, DecisionAdded
<1>17. QED
  BY <1>12, <1>13, <1>14, <1>15, <1>16 DEF IInv

\* The end: what is held is closed at the mid, and stays in the position.
LEMMA FinishIInv ==
  ASSUME IInv, Finish
  PROVE  IInv'
<1>1. Types /\ Bounds /\ Streams /\ NoLookAhead /\ FilledAtFillTime /\ AccountAgrees
  BY DEF IInv
<1>2. /\ phase = "replaying" /\ phase' = "done"
      /\ UNCHANGED <<document, clean, events, at, book, gap, micro, decisions, position, cost, fees, slippage>>
  BY DEF Finish, marketVars
<1> DEFINE price == TwiceMid(book) \div 2
           closed == IF position = 0 \/ TwiceMid(book) = NULL THEN [made |-> 0, trades |-> trades] ELSE Close(price, TRUE)
<1>3. /\ trades' = closed.trades /\ realized' = realized + closed.made
      /\ equity' = IF position = 0 \/ TwiceMid(book) = NULL THEN equity ELSE Append(equity, Start + realized')
  BY DEF Finish
<1>4. /\ trades \in Seq(TradeType) /\ position = SumUpTo(HeldOf(trades), Len(trades)) /\ position \in Nat
      /\ realized = SumUpTo(MadeOf(trades), Len(trades)) /\ realized \in Int
      /\ equity \in Seq(Int) /\ equity # <<>>
      /\ position = 0 => equity[Len(equity)] = Start + realized
  BY <1>1, <1>2, AccountIs DEF Types
<1>5. /\ trades' \in Seq(TradeType) /\ Len(trades') = Len(trades)
      /\ realized' = SumUpTo(MadeOf(trades'), Len(trades')) /\ realized' \in Int
      /\ equity' \in Seq(Int) /\ equity' # <<>>
      /\ position = 0 => equity'[Len(equity')] = Start + realized'
  <2>1. CASE position = 0 \/ TwiceMid(book) = NULL
    <3>1. closed = [made |-> 0, trades |-> trades]
      BY <2>1
    <3> HIDE DEF closed
    <3>2. trades' = trades /\ realized' = realized + 0 /\ equity' = equity
      BY <1>3, <2>1, <3>1
    <3>3. realized' = realized
      BY <1>4, <3>2
    <3>4. QED
      BY <1>4, <3>2, <3>3
  <2>2. CASE ~(position = 0 \/ TwiceMid(book) = NULL)
    <3>1. price \in Int
      <4>1. TwiceMid(book) \in Nat
        BY <1>1, <2>2, TwiceMidType DEF Types
      <4>2. QED
        BY <4>1
    <3>2. closed = Close(price, TRUE)
      BY <2>2
    <3> HIDE DEF price, closed
    <3>3. PICK after \in Seq(TradeType) :
            /\ closed.trades = after /\ Len(after) = Len(trades)
            /\ closed.made = SumUpTo(MadeOf(after), Len(after)) - SumUpTo(MadeOf(trades), Len(trades))
      BY <1>4, <3>1, <3>2, CloseIs
    <3>4. SumUpTo(MadeOf(after), Len(after)) \in Int
      BY SeqSums, SumInt
    <3>5. trades' = after /\ realized' = SumUpTo(MadeOf(after), Len(after))
      BY <1>3, <1>4, <3>3, <3>4
    <3>6. equity' = Append(equity, Start + realized') /\ Start + realized' \in Int
      BY <1>3, <2>2, <3>4, <3>5, BacktestAssumption
    <3>7. equity' \in Seq(Int) /\ equity' # <<>>
      BY <1>4, <3>6
    <3>8. QED
      BY <2>2, <3>3, <3>4, <3>5, <3>7
  <2>3. QED
    BY <2>1, <2>2
<1>6. Types'
  BY <1>1, <1>2, <1>5 DEF Types
<1>7. Bounds'
  BY <1>1, <1>2, <1>5 DEF Bounds
<1>8. Streams'
  <2>1. Loaded' = Loaded
    BY <1>2 DEF Loaded
  <2>2. BookOf(Passed(at - 1))' = BookIn(document', Passed(at - 1)')
    BY DEF BookOf, BookIn, Before, BeforeIn
  <2>3. Passed(at - 1)' = Passed(at - 1)
    BY <1>2 DEF Passed, Quotes
  <2>4. BookOf(Passed(at - 1))' = BookOf(Passed(at - 1))
    BY <1>2, <2>2, <2>3, BookOfIs
  <2>5. QED
    BY <1>1, <1>2, <2>1, <2>4 DEF Streams
<1>9. NoLookAhead' /\ FilledAtFillTime'
  BY <1>1, <1>2, DecisionsKept
<1>10. AccountAgrees'
  <2>1. /\ AccountAgrees' <=>
             /\ phase' # "done" => position' = SumUpTo(HeldOf(trades'), Len(trades'))
             /\ realized' = SumUpTo(MadeOf(trades'), Len(trades'))
             /\ position' = 0 => equity'[Len(equity')] = Start + realized'
    BY DEF AccountAgrees, HeldOf, MadeOf
  <2>2. QED
    BY <1>2, <1>5, <2>1
<1>11. QED
  BY <1>6, <1>7, <1>8, <1>9, <1>10 DEF IInv

-----------------------------------------------------------------------------
(* The theorems *)

LEMMA NextIInv ==
  ASSUME IInv, [Next]_backtestVars
  PROVE  IInv'
<1>1. CASE Load
  BY <1>1, LoadIInv
<1>2. CASE Refuse
  BY <1>2, RefuseIInv
<1>3. CASE OnBook \/ OnTrade \/ OnGap \/ OnState
  BY <1>3, OnMarketIInv
<1>4. CASE OnResolve
  BY <1>4, ResolveIInv
<1>5. CASE SkipOnGap \/ Rejected
  BY <1>5, DeclinedIInv
<1>6. CASE Ordered
  BY <1>6, OrderedIInv
<1>7. CASE Finish
  BY <1>7, FinishIInv
<1>8. CASE UNCHANGED backtestVars
  BY <1>8, StutterIInv
<1>9. QED
  BY <1>1, <1>2, <1>3, <1>4, <1>5, <1>6, <1>7, <1>8 DEF Next

\* The type invariant, of which the order of the stream, the kinds of its events
\* and its length come from what it tells of the file.
LEMMA IInvTypes ==
  ASSUME IInv
  PROVE  TypeOK
<1>1. Types /\ Bounds /\ Streams
  BY DEF IInv
<1>2. /\ \A i \in 1..(Len(events) - 1) : events[i].ts <= events[i + 1].ts
      /\ KindsIn(events) \subseteq StateKinds
  <2>1. CASE events = <<>>
    <3>1. Len(events) = 0 /\ DOMAIN events = {}
      BY <2>1
    <3>2. QED
      BY <3>1 DEF KindsIn
  <2>2. CASE Loaded
    <3>1. DOMAIN events = 1..Len(events) /\ Len(events) \in Nat
      BY <2>2, LoadedSeq
    <3>2. ASSUME NEW i \in 1..(Len(events) - 1) PROVE events[i].ts <= events[i + 1].ts
      <4>1. i \in DOMAIN events /\ i + 1 \in DOMAIN events /\ i < i + 1
        BY <3>1
      <4>2. Earlier(events[i], events[i + 1])
        BY <2>2, <4>1, EarlierInStream
      <4>3. events[i].ts \in Nat /\ events[i + 1].ts \in Nat
        BY <2>2, <4>1, LoadedRow
      <4>4. QED
        BY <4>2, <4>3 DEF Earlier
    <3>3. KindsIn(events) \subseteq StateKinds
      BY <2>2, LoadedRow DEF KindsIn
    <3>4. QED
      BY <3>2, <3>3
  <2>3. QED
    BY <1>1, <2>1, <2>2 DEF Streams
<1>3. position >= 0 /\ cost >= 0 /\ fees >= 0 /\ slippage >= 0
  BY <1>1 DEF Types
<1>4. \A i \in DOMAIN trades : trades[i].size > 0 /\ (trades[i].style = "MAKER" => trades[i].fee = 0)
  <2>1. \A i \in DOMAIN trades : trades[i] \in TradeType
    BY <1>1 DEF Types
  <2>2. \A t \in TradeType : t.size > 0 /\ (t.style = "MAKER" => t.fee = 0)
    BY DEF TradeType
  <2>3. QED
    BY <2>1, <2>2
<1>5. QED
  BY <1>1, <1>2, <1>3, <1>4 DEF TypeOK, Bounds, Streams

LEMMA InvariantAlways == Spec => []IInv
<1>1. Init => IInv
  BY InitIInv
<1>2. IInv /\ [Next]_backtestVars => IInv'
  BY NextIInv
<1>3. QED
  BY <1>1, <1>2, PTL DEF Spec

\* The stream of a replay is always in the order of time, sanitized or not; a
\* gap leaves no book; every trade holds shares, and a maker's has no fee.
THEOREM TypeCorrect == Spec => []TypeOK
<1>1. IInv => TypeOK
  BY IInvTypes
<1>2. QED
  BY <1>1, InvariantAlways, PTL

\* No decision is taken on a book that the file has after it, whatever rows are
\* late, repeated or unreadable.
THEOREM NoLookAheadCorrect == Spec => []NoLookAhead
<1>1. IInv => NoLookAhead
  BY DEF IInv
<1>2. QED
  BY <1>1, InvariantAlways, PTL

\* An order is filled with the book of its fill time, when the file is in the
\* order of time.
THEOREM FillTimeCorrect == Spec => []FilledAtFillTime
<1>1. IInv => FilledAtFillTime
  BY DEF IInv
<1>2. QED
  BY <1>1, InvariantAlways, PTL

\* The position is what the open trades hold, and what was made is the sum of
\* what the trades have made.
THEOREM AccountCorrect == Spec => []AccountAgrees
<1>1. IInv => AccountAgrees
  BY DEF IInv
<1>2. QED
  BY <1>1, InvariantAlways, PTL

=============================================================================
