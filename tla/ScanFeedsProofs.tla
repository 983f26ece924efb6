-------------------------- MODULE ScanFeedsProofs --------------------------
(***************************************************************************)
(* ScanFeeds for any symbols, games and frames, any times, and any number  *)
(* of messages, lost connections, crashes and scans: the readers, caches   *)
(* and files stay well formed, and no accepted row is forgotten.           *)
(***************************************************************************)
EXTENDS ScanFeeds, WellFoundedInduction, TLAPS, SequenceTheorems

NatLess == {p \in Nat \X Nat : p[1] < p[2]}

\* The order on the naturals as a set of pairs is well founded.
LEMMA NatLessWF == IsWellFoundedOn(NatLess, Nat)
<1>1. OpToRel(<, Nat) = NatLess
  BY Zenon DEF OpToRel, NatLess
<1>2. QED
  BY <1>1, NatLessThanWellFounded

\* A non-empty set of naturals has a least element.
LEMMA LeastNat ==
  ASSUME NEW T \in SUBSET Nat, T # {}
  PROVE  \E n \in T : \A m \in T : n <= m
<1>1. PICK x \in T : \A y \in T : ~ (<<y, x>> \in NatLess)
  BY NatLessWF, WFMin
<1>2. ASSUME NEW y \in T PROVE x <= y
  <2>1. <<y, x>> \notin NatLess
    BY <1>1
  <2>2. <<y, x>> \in Nat \X Nat
    OBVIOUS
  <2>3. ~(y < x)
    BY <2>1, <2>2 DEF NatLess
  <2>4. QED
    BY <2>3
<1>3. QED
  BY <1>2

-----------------------------------------------------------------------------
(* A cache: one row per key *)

Unique(rows) == \A i, j \in DOMAIN rows : rows[i].key = rows[j].key => i = j

\* A row that is not appended replaces the one of its key.
LEMMA PutReplaces ==
  ASSUME NEW R, NEW rows \in Seq(R), NEW row \in R, row.key \in KeysOf(rows),
         NEW next, next = PutRow(rows, row)
  PROVE  /\ next \in Seq(R) /\ DOMAIN next = DOMAIN rows
         /\ \A i \in DOMAIN rows : next[i] = IF rows[i].key = row.key THEN row ELSE rows[i]
<1>1. DOMAIN rows = 1..Len(rows) /\ Len(rows) \in Nat /\ \A i \in 1..Len(rows) : rows[i] \in R
  BY ElementOfSeq, LenProperties
<1>2. next = [i \in DOMAIN rows |-> IF rows[i].key = row.key THEN row ELSE rows[i]]
  BY DEF PutRow
<1>3. next \in [1..Len(rows) -> R]
  BY <1>1, <1>2
<1>4. next \in Seq(R)
  BY <1>1, <1>3, SeqDef
<1>5. QED
  BY <1>2, <1>4

\* A row of a new key goes to the end.
LEMMA PutAppends ==
  ASSUME NEW R, NEW rows \in Seq(R), NEW row \in R, row.key \notin KeysOf(rows),
         NEW next, next = PutRow(rows, row)
  PROVE  /\ next = Append(rows, row) /\ next \in Seq(R)
         /\ DOMAIN rows = 1..Len(rows) /\ Len(rows) \in Nat
         /\ DOMAIN next = 1..(Len(rows) + 1)
         /\ \A i \in DOMAIN rows : next[i] = rows[i]
         /\ next[Len(rows) + 1] = row
<1>1. next = Append(rows, row)
  BY DEF PutRow
<1>2. DOMAIN rows = 1..Len(rows) /\ Len(rows) \in Nat
  BY LenProperties
<1>3. /\ next \in Seq(R) /\ Len(next) = Len(rows) + 1
      /\ \A i \in 1..Len(rows) : next[i] = rows[i]
      /\ next[Len(rows) + 1] = row
  BY <1>1, AppendProperties
<1>4. DOMAIN next = 1..Len(next)
  BY <1>3, LenProperties
<1>5. QED
  BY <1>1, <1>2, <1>3, <1>4

\* No put leaves two rows of one key.
LEMMA PutKeepsUnique ==
  ASSUME NEW R, NEW rows \in Seq(R), NEW row \in R, Unique(rows),
         NEW next, next = PutRow(rows, row)
  PROVE  next \in Seq(R) /\ Unique(next)
<1>1. CASE row.key \in KeysOf(rows)
  <2>1. /\ next \in Seq(R) /\ DOMAIN next = DOMAIN rows
        /\ \A i \in DOMAIN rows : next[i] = IF rows[i].key = row.key THEN row ELSE rows[i]
    BY <1>1, PutReplaces
  <2>2. \A i \in DOMAIN rows : next[i].key = rows[i].key
    BY <2>1
  <2>3. QED
    BY <2>1, <2>2 DEF Unique
<1>2. CASE row.key \notin KeysOf(rows)
  <2>1. /\ next \in Seq(R)
        /\ DOMAIN rows = 1..Len(rows) /\ Len(rows) \in Nat
        /\ DOMAIN next = 1..(Len(rows) + 1)
        /\ \A i \in DOMAIN rows : next[i] = rows[i]
        /\ next[Len(rows) + 1] = row
    BY <1>2, PutAppends
  <2>2. \A i \in DOMAIN rows : rows[i].key # row.key
    BY <1>2 DEF KeysOf
  <2>3. ASSUME NEW i \in DOMAIN next, NEW j \in DOMAIN next, next[i].key = next[j].key
        PROVE  i = j
    <3>1. CASE i \in DOMAIN rows /\ j \in DOMAIN rows
      BY <2>1, <2>3, <3>1 DEF Unique
    <3>2. CASE i \in DOMAIN rows /\ j \notin DOMAIN rows
      BY <2>1, <2>2, <2>3, <3>2
    <3>3. CASE i \notin DOMAIN rows /\ j \in DOMAIN rows
      BY <2>1, <2>2, <2>3, <3>3
    <3>4. CASE i \notin DOMAIN rows /\ j \notin DOMAIN rows
      BY <2>1, <3>4
    <3>5. QED
      BY <3>1, <3>2, <3>3, <3>4
  <2>4. QED
    BY <2>1, <2>3 DEF Unique
<1>3. QED
  BY <1>1, <1>2

\* A complete cache stays complete when an accepted row is put and remembered.
LEMMA PutKeepsComplete ==
  ASSUME NEW R, NEW rows \in Seq(R), NEW row \in R, Unique(rows),
         NEW K, NEW newest \in [K -> Nat], row.key \in K, row.version \in Nat \ {0},
         Complete(rows, newest),
         NEW next, next = PutRow(rows, row), NEW now, now = Remember(newest, row)
  PROVE  Complete(next, now)
<1>1. /\ now \in [K -> Nat] /\ now[row.key] = row.version
      /\ \A k \in K : k # row.key => now[k] = newest[k]
  BY DEF Remember
<1>2. /\ \A i \in DOMAIN rows : rows[i].key \in K /\ newest[rows[i].key] = rows[i].version
                                 /\ newest[rows[i].key] > 0
      /\ \A k \in K : newest[k] > 0 => \E i \in DOMAIN rows : rows[i].key = k /\ rows[i].version = newest[k]
  <2> DEFINE A == {<<rows[i].key, rows[i].version>> : i \in DOMAIN rows}
             B == {<<k, newest[k]>> : k \in {x \in DOMAIN newest : newest[x] > 0}}
  <2>1. A = B
    BY DEF Complete
  <2>2. DOMAIN newest = K
    OBVIOUS
  <2>3. ASSUME NEW i \in DOMAIN rows
        PROVE  rows[i].key \in K /\ newest[rows[i].key] = rows[i].version /\ newest[rows[i].key] > 0
    <3>1. <<rows[i].key, rows[i].version>> \in B
      BY <2>1
    <3>2. QED
      BY <3>1, <2>2
  <2>4. ASSUME NEW k \in K, newest[k] > 0
        PROVE  \E i \in DOMAIN rows : rows[i].key = k /\ rows[i].version = newest[k]
    <3>1. <<k, newest[k]>> \in A
      BY <2>1, <2>2, <2>4
    <3>2. QED
      BY <3>1
  <2>5. QED
    BY <2>3, <2>4
<1> DEFINE A == {<<next[i].key, next[i].version>> : i \in DOMAIN next}
           B == {<<k, now[k]>> : k \in {x \in DOMAIN now : now[x] > 0}}
<1>3. SUFFICES A = B
  BY DEF Complete
<1>4. DOMAIN now = K
  BY <1>1
<1>5. /\ \A i \in DOMAIN next : next[i].key \in K /\ now[next[i].key] = next[i].version
                                 /\ now[next[i].key] > 0
      /\ \A k \in K : now[k] > 0 => \E i \in DOMAIN next : next[i].key = k /\ next[i].version = now[k]
  <2>1. CASE row.key \in KeysOf(rows)
    <3>1. /\ DOMAIN next = DOMAIN rows
          /\ \A i \in DOMAIN rows : next[i] = IF rows[i].key = row.key THEN row ELSE rows[i]
      BY <2>1, PutReplaces
    <3>2. ASSUME NEW i \in DOMAIN next
          PROVE  next[i].key \in K /\ now[next[i].key] = next[i].version /\ now[next[i].key] > 0
      <4>1. CASE rows[i].key = row.key
        <5>1. next[i] = row
          BY <3>1, <4>1
        <5>2. QED
          BY <1>1, <5>1
      <4>2. CASE rows[i].key # row.key
        <5>1. next[i] = rows[i] /\ i \in DOMAIN rows
          BY <3>1, <4>2
        <5>2. QED
          BY <1>1, <1>2, <4>2, <5>1
      <4>3. QED
        BY <4>1, <4>2
    <3>3. ASSUME NEW k \in K, now[k] > 0
          PROVE  \E i \in DOMAIN next : next[i].key = k /\ next[i].version = now[k]
      <4>1. CASE k = row.key
        <5>1. PICK i \in DOMAIN rows : rows[i].key = row.key
          BY <2>1 DEF KeysOf
        <5>2. QED
          BY <1>1, <3>1, <4>1, <5>1
      <4>2. CASE k # row.key
        <5>1. PICK i \in DOMAIN rows : rows[i].key = k /\ rows[i].version = newest[k]
          BY <1>1, <1>2, <3>3, <4>2
        <5>2. QED
          BY <1>1, <3>1, <4>2, <5>1
      <4>3. QED
        BY <4>1, <4>2
    <3>4. QED
      BY <3>2, <3>3
  <2>2. CASE row.key \notin KeysOf(rows)
    <3>1. /\ DOMAIN rows = 1..Len(rows) /\ Len(rows) \in Nat
          /\ DOMAIN next = 1..(Len(rows) + 1)
          /\ \A i \in DOMAIN rows : next[i] = rows[i]
          /\ next[Len(rows) + 1] = row
      BY <2>2, PutAppends
    <3>2. \A i \in DOMAIN rows : rows[i].key # row.key
      BY <2>2 DEF KeysOf
    <3>3. ASSUME NEW i \in DOMAIN next
          PROVE  next[i].key \in K /\ now[next[i].key] = next[i].version /\ now[next[i].key] > 0
      <4>1. CASE i \in DOMAIN rows
        BY <1>1, <1>2, <3>1, <3>2, <4>1
      <4>2. CASE i \notin DOMAIN rows
        <5>1. i = Len(rows) + 1
          BY <3>1, <4>2
        <5>2. QED
          BY <1>1, <3>1, <5>1
      <4>3. QED
        BY <4>1, <4>2
    <3>4. ASSUME NEW k \in K, now[k] > 0
          PROVE  \E i \in DOMAIN next : next[i].key = k /\ next[i].version = now[k]
      <4>1. CASE k = row.key
        <5>1. Len(rows) + 1 \in DOMAIN next
          BY <3>1
        <5>2. QED
          BY <1>1, <3>1, <4>1, <5>1
      <4>2. CASE k # row.key
        <5>1. PICK i \in DOMAIN rows : rows[i].key = k /\ rows[i].version = newest[k]
          BY <1>1, <1>2, <3>4, <4>2
        <5>2. i \in DOMAIN next
          BY <3>1
        <5>3. QED
          BY <1>1, <3>1, <4>2, <5>1, <5>2
      <4>3. QED
        BY <4>1, <4>2
    <3>5. QED
      BY <3>3, <3>4
  <2>3. QED
    BY <2>1, <2>2
<1>6. A \subseteq B
  BY <1>4, <1>5
<1>7. B \subseteq A
  BY <1>4, <1>5
<1>8. QED
  BY <1>6, <1>7

\* A row that was read from the file: cache and unread rows together stay the same.
LoadStep(R, rows, todo, next) ==
  /\ next \in Seq(R) /\ Tail(todo) \in Seq(R) /\ Unique(next)
  /\ next \o Tail(todo) = rows \o todo


\* Loading the next row: what is loaded and what is to come stay the same rows.
LEMMA LoadGives ==
  ASSUME NEW R, NEW rows \in Seq(R), NEW todo \in Seq(R), todo # <<>>,
         Unique(rows \o todo), NEW next, next = PutRow(rows, Head(todo))
  PROVE  LoadStep(R, rows, todo, next)
<1>1. /\ Head(todo) \in R /\ Tail(todo) \in Seq(R) /\ Head(todo) = todo[1]
      /\ Len(Tail(todo)) = Len(todo) - 1 /\ Len(todo) \in Nat \ {0}
      /\ \A i \in 1..Len(Tail(todo)) : Tail(todo)[i] = todo[i + 1]
  BY HeadTailProperties, EmptySeq
<1>2. /\ rows \o todo \in Seq(R) /\ Len(rows \o todo) = Len(rows) + Len(todo)
      /\ \A i \in 1..(Len(rows) + Len(todo)) :
           (rows \o todo)[i] = IF i <= Len(rows) THEN rows[i] ELSE todo[i - Len(rows)]
  BY ConcatProperties
<1>3. /\ DOMAIN rows = 1..Len(rows) /\ Len(rows) \in Nat
      /\ DOMAIN (rows \o todo) = 1..(Len(rows) + Len(todo))
  BY <1>2, LenProperties
<1>4. Head(todo).key \notin KeysOf(rows)
  <2>1. SUFFICES ASSUME NEW i \in DOMAIN rows, rows[i].key = Head(todo).key
                 PROVE  FALSE
    BY DEF KeysOf
  <2>2. /\ (rows \o todo)[i] = rows[i] /\ (rows \o todo)[Len(rows) + 1] = todo[1]
        /\ i \in DOMAIN (rows \o todo) /\ Len(rows) + 1 \in DOMAIN (rows \o todo)
    BY <1>1, <1>2, <1>3
  <2>3. i = Len(rows) + 1
    BY <1>1, <2>1, <2>2 DEF Unique
  <2>4. QED
    BY <1>3, <2>3
<1>5. /\ next \in Seq(R) /\ DOMAIN next = 1..(Len(rows) + 1)
      /\ \A i \in DOMAIN rows : next[i] = rows[i]
      /\ next[Len(rows) + 1] = Head(todo)
  BY <1>1, <1>4, PutAppends
<1>6. Len(next) = Len(rows) + 1
  BY <1>3, <1>5, LenProperties
<1>7. /\ next \o Tail(todo) \in Seq(R) /\ Len(next \o Tail(todo)) = Len(next) + Len(Tail(todo))
      /\ \A i \in 1..(Len(next) + Len(Tail(todo))) :
           (next \o Tail(todo))[i] = IF i <= Len(next) THEN next[i] ELSE Tail(todo)[i - Len(next)]
  BY <1>1, <1>5, ConcatProperties
<1>8. ASSUME NEW i \in 1..(Len(rows) + Len(todo)) PROVE (next \o Tail(todo))[i] = (rows \o todo)[i]
  <2>1. CASE i <= Len(rows)
    <3>1. i \in DOMAIN rows /\ i <= Len(next) /\ i \in 1..(Len(next) + Len(Tail(todo)))
      BY <1>1, <1>3, <1>6, <2>1
    <3>2. QED
      BY <1>2, <1>5, <1>7, <2>1, <3>1
  <2>2. CASE i = Len(rows) + 1
    <3>1. /\ ~(i <= Len(rows)) /\ i <= Len(next) /\ i \in 1..(Len(next) + Len(Tail(todo)))
          /\ i - Len(rows) = 1
      BY <1>1, <1>3, <1>6, <2>2
    <3>2. (rows \o todo)[i] = todo[1]
      BY <1>2, <3>1
    <3>3. (next \o Tail(todo))[i] = next[i]
      BY <1>7, <3>1
    <3>4. QED
      BY <1>1, <1>5, <2>2, <3>2, <3>3
  <2>3. CASE i > Len(rows) + 1
    <3>1. /\ ~(i <= Len(rows)) /\ ~(i <= Len(next)) /\ i \in 1..(Len(next) + Len(Tail(todo)))
          /\ i - Len(next) \in 1..Len(Tail(todo)) /\ (i - Len(next)) + 1 = i - Len(rows)
      BY <1>1, <1>3, <1>6, <2>3
    <3>2. (rows \o todo)[i] = todo[i - Len(rows)]
      BY <1>2, <3>1
    <3>3. (next \o Tail(todo))[i] = Tail(todo)[i - Len(next)]
      BY <1>7, <3>1
    <3>4. Tail(todo)[i - Len(next)] = todo[(i - Len(next)) + 1]
      BY <1>1, <3>1
    <3>5. QED
      BY <3>1, <3>2, <3>3, <3>4
  <2>4. QED
    <3>1. i \in Int /\ Len(rows) \in Int
      BY <1>1, <1>3
    <3>2. i <= Len(rows) \/ i = Len(rows) + 1 \/ i > Len(rows) + 1
      BY <3>1
    <3>3. QED
      BY <2>1, <2>2, <2>3, <3>2, Zenon
<1>9. next \o Tail(todo) = rows \o todo
  <2>1. Len(next \o Tail(todo)) = Len(rows) + Len(todo)
    <3>1. Len(Tail(todo)) = Len(todo) - 1 /\ Len(todo) \in Nat /\ Len(rows) \in Nat
      BY <1>1, <1>3
    <3>2. Len(next \o Tail(todo)) = Len(next) + Len(Tail(todo))
      BY <1>7
    <3>3. QED
      BY <1>6, <3>1, <3>2
  <2>2. QED
    BY <1>2, <1>7, <1>8, <2>1, SeqEqual
<1>10. Unique(rows)
  BY <1>1, <1>2, <1>3 DEF Unique
<1>11. Unique(next)
  BY <1>1, <1>10, PutKeepsUnique
<1>12. QED
  BY <1>1, <1>5, <1>9, <1>11 DEF LoadStep

-----------------------------------------------------------------------------
(* Times *)

\* The doublings of a backoff exist and are naturals.
LEMMA BackoffType == \A n \in Nat \ {0} : Backoff(n) \in 0..MaxBackoff
<1> DEFINE Delays(d, n) == d = [k \in 1..n |-> IF k = 1 THEN 1 ELSE 2 * d[k - 1]]
           Bad == {n \in Nat \ {0} : ~ \E d \in [1..n -> Nat] : Delays(d, n)}
<1>1. Bad = {}
  <2>1. SUFFICES ASSUME Bad # {} PROVE FALSE
    OBVIOUS
  <2>2. PICK m \in Bad : \A k \in Bad : m <= k
    <3>1. Bad \in SUBSET Nat
      OBVIOUS
    <3>2. QED
      BY <2>1, <3>1, LeastNat
  <2>3. m # 1
    <3>1. Delays([k \in 1..1 |-> 1], 1) /\ [k \in 1..1 |-> 1] \in [1..1 -> Nat]
      OBVIOUS
    <3>2. QED
      BY <3>1
  <2>4. m \in Nat \ {0} /\ m - 1 \in Nat \ {0} /\ m - 1 \notin Bad
    <3>1. m \in Nat \ {0}
      OBVIOUS
    <3>2. m - 1 \in Nat \ {0} /\ ~(m <= m - 1)
      BY <2>3, <3>1
    <3>3. m - 1 \notin Bad
      BY <2>2, <3>2, Zenon
    <3>4. QED
      BY <3>1, <3>2, <3>3
  <2>5. PICK d \in [1..(m - 1) -> Nat] : Delays(d, m - 1)
    BY <2>4
  <2> DEFINE e == [k \in 1..m |-> IF k = m THEN 2 * d[m - 1] ELSE d[k]]
  <2>6. e \in [1..m -> Nat]
    BY <2>4
  <2>7. ASSUME NEW k \in 1..m PROVE e[k] = IF k = 1 THEN 1 ELSE 2 * e[k - 1]
    <3>1. CASE k = m
      BY <2>3, <2>4, <3>1
    <3>2. CASE k # m
      <4>1. k \in 1..(m - 1) /\ (k # 1 => k - 1 \in 1..m /\ k - 1 # m)
        BY <2>4, <3>2
      <4>2. d[k] = IF k = 1 THEN 1 ELSE 2 * d[k - 1]
        BY <2>5, <4>1
      <4>3. QED
        BY <4>1, <4>2, <3>2
    <3>3. QED
      BY <3>1, <3>2
  <2>8. Delays(e, m)
    BY <2>7, Zenon
  <2>9. QED
    BY <2>2, <2>6, <2>8
<1>2. SUFFICES ASSUME NEW n \in Nat \ {0} PROVE Backoff(n) \in 0..MaxBackoff
  OBVIOUS
<1> DEFINE s == CHOOSE s : s = [k \in 1..n |-> IF k = 1 THEN 1 ELSE 2 * s[k - 1]]
<1>3. \E d : Delays(d, n)
  <2>1. n \notin Bad
    BY <1>1, Zenon
  <2>2. QED
    BY <2>1, Zenon
<1>4. Delays(s, n)
  BY <1>3, Zenon
<1>5. Backoff(n) = IF s[n] < MaxBackoff THEN s[n] ELSE MaxBackoff
  BY DEF Backoff
<1> DEFINE Wrong == {k \in 1..n : s[k] \notin Nat}
<1>6. Wrong = {}
  <2>1. SUFFICES ASSUME Wrong # {} PROVE FALSE
    OBVIOUS
  <2>2. PICK m \in Wrong : \A k \in Wrong : m <= k
    <3>1. Wrong \in SUBSET Nat
      OBVIOUS
    <3>2. QED
      BY <2>1, <3>1, LeastNat
  <2>3. s[m] = IF m = 1 THEN 1 ELSE 2 * s[m - 1]
    BY <1>4, <2>2
  <2>4. m # 1
    BY <2>2, <2>3
  <2>5. m - 1 \in 1..n /\ m - 1 \notin Wrong
    BY <2>2, <2>4
  <2>6. QED
    BY <2>2, <2>3, <2>4, <2>5
<1>7. s[n] \in Nat
  BY <1>6
<1>8. MaxBackoff \in Nat
  BY FeedAssumption
<1> HIDE DEF s
<1>9. QED
  BY <1>5, <1>7, <1>8

\* A receive waits for a ping interval at most.
LEMMA RecvTimeoutType ==
  ASSUME elapsed \in 0..CollectSeconds
  PROVE  RecvTimeout \in 0..(PingInterval + MaxBackoff)
  BY FeedAssumption DEF RecvTimeout

-----------------------------------------------------------------------------
(* The inductive invariant *)

\* A file that is absent or torn has no rows.
Files(Rows) ==
  {f \in [state : {"absent", "torn", "whole"}, rows : Seq(Rows)] : f.state # "whole" => f.rows = <<>>}

PrintMessages == [frame : TwapFrames, version : 1..MaxMessages]

GameMessages ==
  [kind : {"ping"}] \cup [kind : {"update"}, frame : GameFrames, version : 1..MaxMessages]

RtdsStates ==
  [at : {"idle", "load", "subscribe", "top", "receive", "reconnect", "sleep", "save"},
   accepted : Nat, reconnects : Nat, todo : Seq(PrintRows), after : {"idle", "load", "top"}]

SportsStates ==
  [at : {"idle", "load", "top", "receive", "pong", "reconnect", "sleep", "save"},
   accepted : Nat, frames : Nat, pongs : Nat, reconnects : Nat,
   todo : Seq(GameRows), after : {"idle", "load", "top"}]

Links == [up : BOOLEAN, subscribed : BOOLEAN, wire : Seq(PrintMessages)]

FeedLinks == [up : BOOLEAN, wire : Seq(GameMessages)]

\* A row was accepted and is being written: it is not counted yet.
RtdsPending == IF rtds.at = "save" /\ rtds.after = "top" THEN 1 ELSE 0

SportsPending == IF sports.at = "save" /\ sports.after = "top" THEN 1 ELSE 0

\* What a reader consumed, what is in flight and what is left to send exclude each other.
RtdsSound ==
  /\ rtds \in RtdsStates
  /\ link \in Links /\ Len(link.wire) <= MaxWire
  /\ prints \in Seq(PrintRows) /\ Unique(prints)
  /\ printFile \in Files(PrintRows) /\ Unique(printFile.rows)
  /\ seenPrints \in [PrintKeys -> 0..MaxMessages]
  /\ venue \in Nat /\ venue + budget.messages <= MaxMessages
  /\ rtds.accepted + RtdsPending + Len(link.wire) + budget.messages <= MaxMessages

SportsSound ==
  /\ sports \in SportsStates
  /\ feed \in FeedLinks /\ Len(feed.wire) <= MaxWire
  /\ games \in Seq(GameRows) /\ Unique(games)
  /\ gameFile \in Files(GameRows) /\ Unique(gameFile.rows)
  /\ seenGames \in [Games -> 0..MaxMessages]
  /\ stadium \in Nat /\ stadium + budget.messages <= MaxMessages
  /\ sports.accepted + SportsPending <= sports.frames
  /\ sports.frames + Len(feed.wire) + budget.messages <= MaxMessages

\* Where a reader is, given what the process does; every reconnection needs a loss.
RtdsControl ==
  /\ rtds.at = "idle" \/ phase \notin {"load_twap", "rtds"} => rtds = Idle /\ link = NoLink
  /\ phase = "load_twap" =>
       /\ rtds.at \in {"idle", "load", "save"} /\ rtds.accepted = 0 /\ rtds.reconnects = 0
       /\ link = NoLink /\ (rtds.at = "save" => rtds.after = "load")
       /\ (rtds.at = "idle" => prints = <<>>)
  /\ phase = "rtds" /\ rtds.at # "idle" =>
       /\ rtds.at # "load" /\ (rtds.at = "save" => rtds.after = "top")
       /\ (rtds.at = "reconnect" => ~link.up)
       /\ rtds.reconnects + (IF link.up THEN 0 ELSE 1) + budget.drops <= MaxDrops

SportsControl ==
  /\ sports.at = "idle" \/ phase \notin {"load_games", "sports"} => sports = Away /\ feed = NoFeed
  /\ phase = "load_games" =>
       /\ sports.at \in {"idle", "load", "save"} /\ sports.accepted = 0 /\ sports.reconnects = 0
       /\ sports.frames = 0 /\ feed = NoFeed /\ (sports.at = "save" => sports.after = "load")
  /\ phase = "load_twap" \/ (phase = "load_games" /\ sports.at = "idle") => games = <<>>
  /\ phase = "sports" /\ sports.at # "idle" =>
       /\ sports.at # "load" /\ (sports.at = "save" => sports.after = "top")
       /\ (sports.at = "reconnect" => ~feed.up)
       /\ sports.reconnects + (IF feed.up THEN 0 ELSE 1) + budget.drops <= MaxDrops

\* What a cache and its file hold: the file alone before it is read, cache and unread
\* rows together while it is, and both the same afterwards, but for a write under way.
PrintsUnread == phase = "down" \/ (phase = "load_twap" /\ rtds.at = "idle")

PrintsLoading == phase = "load_twap" /\ rtds.at # "idle"

PrintsLoaded == phase \notin {"down", "load_twap"}

PrintsKept ==
  /\ PrintsLoading => Unique(prints \o rtds.todo)
  /\ ~cut =>
       /\ printFile.state = "torn" => rtds.at = "save"
       /\ PrintsUnread => Complete(printFile.rows, seenPrints)
       /\ PrintsLoading => Complete(prints \o rtds.todo, seenPrints)
       /\ PrintsLoading /\ rtds.at = "load" =>
            (prints = <<>> /\ rtds.todo = printFile.rows) \/ printFile.rows = prints
       /\ PrintsLoaded => Complete(prints, seenPrints) /\ (rtds.at # "save" => printFile.rows = prints)

GamesUnread == phase \in {"down", "load_twap"} \/ (phase = "load_games" /\ sports.at = "idle")

GamesLoading == phase = "load_games" /\ sports.at # "idle"

GamesLoaded == phase \notin {"down", "load_twap", "load_games"}

GamesKept ==
  /\ GamesLoading => Unique(games \o sports.todo)
  /\ ~cut =>
       /\ gameFile.state = "torn" => sports.at = "save"
       /\ GamesUnread => Complete(gameFile.rows, seenGames)
       /\ GamesLoading => Complete(games \o sports.todo, seenGames)
       /\ GamesLoading /\ sports.at = "load" =>
            (games = <<>> /\ sports.todo = gameFile.rows) \/ gameFile.rows = games
       /\ GamesLoaded => Complete(games, seenGames) /\ (sports.at # "save" => gameFile.rows = games)

PrintSide == RtdsSound /\ RtdsControl /\ PrintsKept

GameSide == SportsSound /\ SportsControl /\ GamesKept

IInv == ProcessTypeOK /\ cut \in BOOLEAN /\ PrintSide /\ GameSide

LEMMA TornType ==
  ASSUME NEW Rows
  PROVE  TornFile \in Files(Rows) /\ NoFile \in Files(Rows) /\ Unique(TornFile.rows) /\ Unique(NoFile.rows)
  BY EmptySeq DEF TornFile, NoFile, Files, Unique

-----------------------------------------------------------------------------
(* A side that does not move *)

\* Fewer messages and losses to come, nothing more.
Spends == /\ budget' \in [crashes: 0..MaxCrashes, scans: 0..MaxScans, drops: 0..MaxDrops,
                          messages: 0..MaxMessages]
          /\ budget'.messages <= budget.messages /\ budget'.drops <= budget.drops

LEMMA BudgetNat ==
  ASSUME ProcessTypeOK
  PROVE  /\ budget \in [crashes: 0..MaxCrashes, scans: 0..MaxScans, drops: 0..MaxDrops,
                        messages: 0..MaxMessages]
         /\ budget.messages \in Nat /\ budget.drops \in Nat /\ budget.scans \in Nat /\ budget.crashes \in Nat
         /\ budget.messages <= MaxMessages /\ budget.drops <= MaxDrops
         /\ MaxMessages \in Nat /\ MaxDrops \in Nat
         /\ elapsed \in 0..CollectSeconds /\ wait \in Nat
  BY FeedAssumption DEF ProcessTypeOK

LEMMA SpendsNothing ==
  ASSUME ProcessTypeOK, budget' = budget
  PROVE  Spends
<1>1. /\ budget \in [crashes: 0..MaxCrashes, scans: 0..MaxScans, drops: 0..MaxDrops,
                      messages: 0..MaxMessages]
      /\ budget.messages \in Nat /\ budget.drops \in Nat
  BY BudgetNat
<1>2. budget.messages <= budget.messages /\ budget.drops <= budget.drops
  BY <1>1
<1>3. QED
  BY <1>1, <1>2 DEF Spends

\* While the RTDS reader does not run, the process goes where it likes but into the load.
LEMMA PrintsAside ==
  ASSUME IInv, phase \notin {"load_twap", "rtds", "down"}, phase' # "load_twap",
         UNCHANGED <<rtdsVars, cut>>, Spends
  PROVE  PrintSide'
<1>1. rtds = Idle /\ link = NoLink
  BY DEF IInv, PrintSide, RtdsControl
<1>2. RtdsSound'
  <2>1. budget.messages \in Nat /\ budget'.messages \in Nat /\ budget'.messages <= budget.messages /\ MaxMessages \in Nat
    BY BudgetNat, FeedAssumption DEF IInv, Spends
  <2>2. RtdsPending' = RtdsPending /\ RtdsPending \in Nat /\ rtds.accepted \in Nat /\ Len(link.wire) \in Nat
        /\ venue \in Nat /\ Len(link'.wire) = Len(link.wire)
    BY DEF IInv, PrintSide, RtdsSound, RtdsPending, rtdsVars, RtdsStates, Links
  <2>3. /\ venue + budget.messages <= MaxMessages
        /\ rtds.accepted + RtdsPending + Len(link.wire) + budget.messages <= MaxMessages
    BY DEF IInv, PrintSide, RtdsSound
  <2>4. /\ venue + budget'.messages <= MaxMessages
        /\ rtds.accepted + RtdsPending + Len(link.wire) + budget'.messages <= MaxMessages
    <3> DEFINE a == rtds.accepted
               b == Len(link.wire)
               c == budget.messages
               d == budget'.messages
               p == RtdsPending
    <3>1. /\ a \in Nat /\ b \in Nat /\ c \in Nat /\ d \in Nat /\ p \in Nat /\ venue \in Nat
          /\ MaxMessages \in Nat /\ d <= c /\ venue + c <= MaxMessages /\ a + p + b + c <= MaxMessages
      BY <2>1, <2>2, <2>3, Zenon
    <3> HIDE DEF a, b, c, d, p
    <3>2. venue + d <= MaxMessages /\ a + p + b + d <= MaxMessages
      BY <3>1
    <3>3. QED
      BY <3>2 DEF a, b, d, p
  <2>5. /\ rtds' = rtds /\ link' = link /\ prints' = prints /\ printFile' = printFile
        /\ seenPrints' = seenPrints /\ venue' = venue
    BY DEF rtdsVars
  <2>6. /\ rtds \in RtdsStates /\ link \in Links /\ Len(link.wire) <= MaxWire
        /\ prints \in Seq(PrintRows) /\ Unique(prints)
        /\ printFile \in Files(PrintRows) /\ Unique(printFile.rows)
        /\ seenPrints \in [PrintKeys -> 0..MaxMessages] /\ venue \in Nat
    BY DEF IInv, PrintSide, RtdsSound
  <2>7. QED
    BY <2>2, <2>4, <2>5, <2>6 DEF RtdsSound
<1>3. RtdsControl'
  BY <1>1 DEF RtdsControl, rtdsVars, Idle
<1>4. PrintsKept'
  BY <1>1 DEF IInv, PrintSide, PrintsKept, PrintsUnread, PrintsLoading, PrintsLoaded, rtdsVars, Idle
<1>5. QED
  BY <1>2, <1>3, <1>4 DEF PrintSide

\* The same for the sports reader.
LEMMA GamesAside ==
  ASSUME IInv, phase \notin {"load_games", "sports", "down"},
         phase = "load_twap" => phase' \in {"load_twap", "load_games", "down"},
         phase # "load_twap" => phase' \notin {"load_twap", "load_games"},
         UNCHANGED <<sportsVars, cut>>, Spends
  PROVE  GameSide'
<1>1. sports = Away /\ feed = NoFeed
  BY DEF IInv, GameSide, SportsControl
<1>2. SportsSound'
  <2>1. budget.messages \in Nat /\ budget'.messages \in Nat /\ budget'.messages <= budget.messages /\ MaxMessages \in Nat
    BY BudgetNat, FeedAssumption DEF IInv, Spends
  <2>2. SportsPending' = SportsPending /\ sports.frames \in Nat /\ Len(feed.wire) \in Nat
        /\ stadium \in Nat /\ Len(feed'.wire) = Len(feed.wire)
    BY DEF IInv, GameSide, SportsSound, SportsPending, sportsVars, SportsStates, FeedLinks
  <2>3. /\ stadium + budget.messages <= MaxMessages
        /\ sports.frames + Len(feed.wire) + budget.messages <= MaxMessages
    BY DEF IInv, GameSide, SportsSound
  <2>4. /\ stadium + budget'.messages <= MaxMessages
        /\ sports.frames + Len(feed.wire) + budget'.messages <= MaxMessages
    <3> DEFINE f == sports.frames
               b == Len(feed.wire)
               c == budget.messages
               d == budget'.messages
    <3>1. /\ f \in Nat /\ b \in Nat /\ c \in Nat /\ d \in Nat /\ stadium \in Nat
          /\ MaxMessages \in Nat /\ d <= c /\ stadium + c <= MaxMessages /\ f + b + c <= MaxMessages
      BY <2>1, <2>2, <2>3, Zenon
    <3> HIDE DEF f, b, c, d
    <3>2. stadium + d <= MaxMessages /\ f + b + d <= MaxMessages
      BY <3>1
    <3>3. QED
      BY <3>2 DEF f, b, d
  <2>5. /\ sports' = sports /\ feed' = feed /\ games' = games /\ gameFile' = gameFile
        /\ seenGames' = seenGames /\ stadium' = stadium
    BY DEF sportsVars
  <2>6. /\ sports \in SportsStates /\ feed \in FeedLinks /\ Len(feed.wire) <= MaxWire
        /\ games \in Seq(GameRows) /\ Unique(games)
        /\ gameFile \in Files(GameRows) /\ Unique(gameFile.rows)
        /\ seenGames \in [Games -> 0..MaxMessages] /\ stadium \in Nat
        /\ sports.accepted + SportsPending <= sports.frames
    BY DEF IInv, GameSide, SportsSound
  <2>7. QED
    BY <2>2, <2>4, <2>5, <2>6 DEF SportsSound
<1>3. SportsControl'
  BY <1>1 DEF IInv, GameSide, SportsControl, sportsVars, Away
<1>4. GamesKept'
  BY <1>1 DEF IInv, GameSide, GamesKept, GamesUnread, GamesLoading, GamesLoaded, sportsVars, Away
<1>5. QED
  BY <1>2, <1>3, <1>4 DEF GameSide

\* What a lost connection leaves of the messages in flight.
LEMMA CutWire ==
  ASSUME NEW S, NEW w \in Seq(S), NEW n \in 0..Len(w)
  PROVE  SubSeq(w, 1, n) \in Seq(S) /\ Len(SubSeq(w, 1, n)) = n
<1>1. Len(w) \in Nat /\ \A i \in 1..Len(w) : w[i] \in S
  BY LenProperties, ElementOfSeq
<1>2. n \in Int /\ \A i \in 1..n : w[i] \in S
  BY <1>1
<1>3. SubSeq(w, 1, n) \in Seq(S) /\ Len(SubSeq(w, 1, n)) = IF 1 <= n THEN n - 1 + 1 ELSE 0
  BY <1>2, SubSeqProperties
<1>4. QED
  BY <1>1, <1>2, <1>3

-----------------------------------------------------------------------------
(* The RTDS reader *)

\* What every lemma below needs of the invariant.
LEMMA PrintFacts ==
  ASSUME IInv
  PROVE  /\ rtds \in RtdsStates /\ link \in Links /\ Len(link.wire) <= MaxWire
         /\ Len(link.wire) \in Nat /\ rtds.accepted \in Nat /\ rtds.reconnects \in Nat
         /\ prints \in Seq(PrintRows) /\ Unique(prints)
         /\ printFile \in Files(PrintRows) /\ Unique(printFile.rows)
         /\ seenPrints \in [PrintKeys -> 0..MaxMessages]
         /\ venue \in Nat /\ venue + budget.messages <= MaxMessages
         /\ rtds.accepted + RtdsPending + Len(link.wire) + budget.messages <= MaxMessages
         /\ RtdsPending \in Nat
         /\ budget.messages \in Nat /\ budget.drops \in Nat /\ budget.drops <= MaxDrops
         /\ MaxMessages \in Nat /\ MaxDrops \in Nat
         /\ elapsed \in 0..CollectSeconds /\ wait \in Nat
         /\ ProcessTypeOK /\ cut \in BOOLEAN
<1>1. RtdsSound /\ ProcessTypeOK /\ cut \in BOOLEAN
  BY DEF IInv, PrintSide
<1>2. link \in Links /\ rtds \in RtdsStates
  BY <1>1 DEF RtdsSound
<1>3. /\ Len(link.wire) \in Nat /\ rtds.accepted \in Nat /\ rtds.reconnects \in Nat
      /\ RtdsPending \in Nat
  BY <1>2, LenProperties DEF Links, RtdsStates, RtdsPending
<1>4. QED
  BY <1>1, <1>3, BudgetNat DEF RtdsSound

\* A step of the reader between two rows, on the way to its next one or to its end.
LEMMA RtdsGoesOn ==
  ASSUME IInv, phase = "rtds", rtds.at # "save",
         UNCHANGED <<prints, printFile, seenPrints, venue, sportsVars, cut>>,
         ProcessTypeOK', budget' = budget,
         \/ /\ phase' \in {"sports", "evaluate", "down"}
            /\ rtds' = Idle /\ link' = NoLink
         \/ /\ phase' = "rtds"
            /\ rtds' \in RtdsStates /\ rtds'.at \notin {"idle", "load", "save"}
            /\ link' \in Links /\ Len(link'.wire) <= Len(link.wire)
            /\ rtds'.accepted <= rtds.accepted /\ (rtds'.at = "reconnect" => ~link'.up)
            /\ rtds'.reconnects + (IF link'.up THEN 0 ELSE 1) + budget.drops <= MaxDrops
  PROVE  IInv'
<1>1. phase' \in {"rtds", "sports", "evaluate", "down"}
  OBVIOUS
<1>2. /\ rtds' \in RtdsStates /\ link' \in Links /\ Len(link'.wire) <= Len(link.wire)
      /\ rtds'.accepted <= rtds.accepted /\ rtds'.at # "save" /\ rtds'.at # "load"
      /\ Len(link'.wire) \in Nat
  <2>1. CASE rtds' = Idle /\ link' = NoLink
    <3>1. /\ Idle \in RtdsStates /\ Idle.accepted = 0 /\ Idle.at = "idle"
          /\ NoLink \in Links /\ Len(NoLink.wire) = 0
      BY EmptySeq DEF Idle, RtdsStates, NoLink, Links
    <3>2. QED
      BY <2>1, <3>1, PrintFacts
  <2>2. CASE ~(rtds' = Idle /\ link' = NoLink)
    BY <2>2, LenProperties DEF Links
  <2>3. QED
    BY <2>1, <2>2
<1>3. RtdsSound'
  <2>1. RtdsPending' = 0
    BY <1>2 DEF RtdsPending
  <2>2. /\ Len(link'.wire) <= MaxWire
        /\ rtds'.accepted + RtdsPending' + Len(link'.wire) + budget'.messages <= MaxMessages
    <3>1. rtds'.accepted \in Nat
      BY <1>2 DEF RtdsStates
    <3>2. MaxWire \in Nat
      BY FeedAssumption
    <3>3. /\ Len(link.wire) \in Nat /\ Len(link.wire) <= MaxWire /\ rtds.accepted \in Nat
          /\ RtdsPending \in Nat /\ budget.messages \in Nat /\ MaxMessages \in Nat
          /\ rtds.accepted + RtdsPending + Len(link.wire) + budget.messages <= MaxMessages
      BY PrintFacts
    <3>4. /\ Len(link'.wire) <= Len(link.wire) /\ rtds'.accepted <= rtds.accepted
          /\ Len(link'.wire) \in Nat /\ budget'.messages = budget.messages
      BY <1>2
    <3>5. Len(link'.wire) <= MaxWire
      BY <3>2, <3>3, <3>4
    <3>6. rtds'.accepted + 0 + Len(link'.wire) + budget.messages <= MaxMessages
      <4> DEFINE x == rtds'.accepted
                 y == Len(link'.wire)
                 a == rtds.accepted
                 b == Len(link.wire)
                 c == budget.messages
                 p == RtdsPending
      <4>1. /\ x \in Nat /\ y \in Nat /\ x <= a /\ y <= b
            /\ a \in Nat /\ b \in Nat /\ c \in Nat /\ p \in Nat /\ MaxMessages \in Nat
            /\ a + p + b + c <= MaxMessages
        BY <3>1, <3>3, <3>4, Zenon
      <4> HIDE DEF x, y, a, b, c, p
      <4>2. x + 0 + y + c <= MaxMessages
        BY <4>1
      <4>3. QED
        BY <4>2 DEF x, y, c
    <3>7. QED
      BY <2>1, <3>4, <3>5, <3>6
  <2>3. QED
    BY <1>2, <2>2, PrintFacts DEF RtdsSound
<1>4. RtdsControl'
  <2>1. CASE phase' # "rtds"
    BY <2>1 DEF RtdsControl
  <2>2. CASE phase' = "rtds"
    BY <1>2, <2>2 DEF RtdsControl
  <2>3. QED
    BY <2>1, <2>2
<1>5. PrintsKept'
  <2>1. ~cut => /\ printFile.state # "torn" /\ Complete(prints, seenPrints) /\ printFile.rows = prints
    BY DEF IInv, PrintSide, PrintsKept, PrintsLoaded
  <2>2. QED
    BY <1>1, <2>1 DEF PrintsKept, PrintsUnread, PrintsLoading, PrintsLoaded
<1>6. Spends
  BY PrintFacts, SpendsNothing
<1>7. GameSide'
  BY <1>1, <1>6, GamesAside
<1>8. QED
  BY <1>3, <1>4, <1>5, <1>7, PrintFacts DEF IInv, PrintSide

\* What the process does when an exception leaves a reader, or its deadline is reached.
LEMMA ProcessEnds ==
  ASSUME ProcessTypeOK, NEW why \in Causes, NEW next \in Phases, Raise(why) \/ Finish(next)
  PROVE  ProcessTypeOK' /\ budget' = budget
<1>1. 0 \in 0..CollectSeconds /\ 0 \in 0..(PingInterval + MaxBackoff)
  BY FeedAssumption
<1>2. "down" \in Phases
  BY DEF Phases
<1>3. QED
  BY <1>1, <1>2 DEF ProcessTypeOK, Raise, Finish

LEMMA ProcessAwaits ==
  ASSUME ProcessTypeOK, NEW seconds \in 0..(PingInterval + MaxBackoff), Await(seconds)
  PROVE  ProcessTypeOK' /\ budget' = budget /\ phase' = phase
  BY DEF ProcessTypeOK, Await

LEMMA ProcessStays ==
  ASSUME ProcessTypeOK, UNCHANGED processVars
  PROVE  ProcessTypeOK' /\ budget' = budget /\ phase' = phase
  BY DEF ProcessTypeOK, processVars, clock

\* The reader's own states that occur below.
LEMMA RtdsStateFacts ==
  /\ Idle \in RtdsStates /\ Idle.accepted = 0 /\ Idle.reconnects = 0 /\ Idle.at = "idle"
  /\ NoLink \in Links /\ Len(NoLink.wire) = 0 /\ NoLink.up = FALSE
  /\ NewLink \in Links /\ Len(NewLink.wire) = 0 /\ NewLink.up = TRUE
  BY EmptySeq DEF Idle, RtdsStates, NoLink, NewLink, Links

LEMMA RtdsConnectOK ==
  ASSUME IInv, RtdsConnect, UNCHANGED <<sportsVars, cut>>
  PROVE  IInv'
<1>1. phase = "rtds" /\ rtds.at = "idle" /\ UNCHANGED <<prints, printFile, seenPrints, venue>>
  BY DEF RtdsConnect
<1>2. CASE link' = NewLink /\ rtds' = [Idle EXCEPT !.at = "subscribe"] /\ UNCHANGED processVars
  <2>1. ProcessTypeOK' /\ budget' = budget /\ phase' = "rtds"
    BY <1>1, <1>2, PrintFacts, ProcessStays
  <2>2. /\ rtds' \in RtdsStates /\ rtds'.at = "subscribe" /\ rtds'.accepted = 0
        /\ rtds'.reconnects = 0
    BY <1>2, RtdsStateFacts DEF RtdsStates, Idle
  <2>3. link' \in Links /\ Len(link'.wire) = 0 /\ link'.up = TRUE
    BY <1>2, RtdsStateFacts
  <2>4. Len(link.wire) \in Nat /\ rtds.accepted \in Nat /\ budget.drops \in Nat /\ budget.drops <= MaxDrops
    BY PrintFacts
  <2>5. /\ Len(link'.wire) <= Len(link.wire) /\ rtds'.accepted <= rtds.accepted
        /\ rtds'.reconnects + (IF link'.up THEN 0 ELSE 1) + budget.drops <= MaxDrops
    BY <2>2, <2>3, <2>4
  <2>6. QED
    BY <1>1, <2>1, <2>2, <2>3, <2>5, RtdsGoesOn
<1>3. CASE Raise("connect") /\ link' = NoLink /\ rtds' = Idle
  <2>1. ProcessTypeOK' /\ budget' = budget
    BY <1>3, PrintFacts, ProcessEnds DEF Causes, Phases
  <2>2. phase' = "down"
    BY <1>3 DEF Raise
  <2>3. QED
    BY <1>1, <1>3, <2>1, <2>2, RtdsGoesOn
<1>4. QED
  BY <1>2, <1>3 DEF RtdsConnect

\* A turn of the loop: the reader is somewhere else on the same connection.
LEMMA RtdsTurns ==
  ASSUME IInv, phase = "rtds", rtds.at \notin {"idle", "save"},
         UNCHANGED <<prints, printFile, seenPrints, venue, sportsVars, cut>>,
         ProcessTypeOK', budget' = budget, phase' = "rtds",
         NEW next \in {"subscribe", "top", "receive", "reconnect"}, rtds' = [rtds EXCEPT !.at = next],
         next = "reconnect" => ~link.up,
         link' \in Links, link'.up = link.up, Len(link'.wire) <= Len(link.wire)
  PROVE  IInv'
<1>1. /\ rtds' \in RtdsStates /\ rtds'.at = next /\ rtds'.accepted = rtds.accepted
      /\ rtds'.reconnects = rtds.reconnects /\ rtds.accepted \in Nat
  BY PrintFacts DEF RtdsStates
<1>2. rtds.reconnects + (IF link.up THEN 0 ELSE 1) + budget.drops <= MaxDrops
  BY DEF IInv, PrintSide, RtdsControl
<1>3. /\ rtds'.at \notin {"idle", "load", "save"} /\ rtds'.accepted <= rtds.accepted
      /\ (rtds'.at = "reconnect" => ~link'.up)
      /\ rtds'.reconnects + (IF link'.up THEN 0 ELSE 1) + budget.drops <= MaxDrops
  BY <1>1, <1>2
<1>4. QED
  BY <1>1, <1>3, RtdsGoesOn

\* An exception that leaves the reader.
LEMMA RtdsRaises ==
  ASSUME IInv, phase = "rtds", rtds.at # "save",
         UNCHANGED <<prints, printFile, seenPrints, venue, sportsVars, cut>>,
         NEW why \in {"connect", "send", "recv"}, Raise(why), link' = NoLink, rtds' = Idle
  PROVE  IInv'
<1>1. ProcessTypeOK' /\ budget' = budget
  BY PrintFacts, ProcessEnds DEF Causes, Phases
<1>2. phase' = "down"
  BY DEF Raise
<1>3. QED
  BY <1>1, <1>2, RtdsGoesOn

LEMMA SubscribeOK ==
  ASSUME IInv, Subscribe, UNCHANGED <<sportsVars, cut>>
  PROVE  IInv'
<1>1. /\ phase = "rtds" /\ rtds.at = "subscribe"
      /\ UNCHANGED <<prints, printFile, seenPrints, venue>>
  BY DEF Subscribe
<1>2. CASE link.up
  <2>1. /\ link' = [link EXCEPT !.subscribed = TRUE] /\ rtds' = [rtds EXCEPT !.at = "top"]
        /\ UNCHANGED processVars
    BY <1>2 DEF Subscribe
  <2>2. ProcessTypeOK' /\ budget' = budget /\ phase' = "rtds"
    BY <1>1, <2>1, PrintFacts, ProcessStays
  <2>3. /\ link' \in Links /\ link'.up = link.up /\ link'.wire = link.wire /\ Len(link.wire) \in Nat
    BY <2>1, PrintFacts DEF Links
  <2>4. Len(link'.wire) <= Len(link.wire)
    BY <2>3
  <2>5. QED
    BY <1>1, <2>1, <2>2, <2>3, <2>4, RtdsTurns
<1>3. CASE ~link.up
  <2>1. Raise("send") /\ link' = NoLink /\ rtds' = Idle
    BY <1>3 DEF Subscribe
  <2>2. QED
    BY <1>1, <2>1, RtdsRaises
<1>4. QED
  BY <1>2, <1>3

LEMMA RtdsTopOK ==
  ASSUME IInv, RtdsTop, UNCHANGED <<sportsVars, cut>>
  PROVE  IInv'
<1>1. /\ phase = "rtds" /\ rtds.at = "top"
      /\ UNCHANGED <<prints, printFile, seenPrints, venue>>
  BY DEF RtdsTop
<1>2. CASE elapsed >= CollectSeconds
  <2>1. rtds' = Idle /\ link' = NoLink /\ (Finish("sports") \/ Finish("evaluate"))
    BY <1>2 DEF RtdsTop
  <2>2. ProcessTypeOK' /\ budget' = budget
    BY <2>1, PrintFacts, ProcessEnds DEF Causes, Phases
  <2>3. phase' \in {"sports", "evaluate"}
    BY <2>1 DEF Finish
  <2>4. QED
    BY <1>1, <2>1, <2>2, <2>3, RtdsGoesOn
<1>3. CASE ~(elapsed >= CollectSeconds)
  <2>1. rtds' = [rtds EXCEPT !.at = "receive"] /\ Await(RecvTimeout) /\ UNCHANGED link
    BY <1>3 DEF RtdsTop
  <2>2. ProcessTypeOK' /\ budget' = budget /\ phase' = "rtds"
    BY <1>1, <2>1, PrintFacts, RecvTimeoutType, ProcessAwaits
  <2>3. link' \in Links /\ link'.up = link.up /\ Len(link'.wire) <= Len(link.wire)
    BY <2>1, PrintFacts
  <2>4. QED
    BY <1>1, <2>1, <2>2, <2>3, RtdsTurns
<1>4. QED
  BY <1>2, <1>3

LEMMA HeartbeatOK ==
  ASSUME IInv, Heartbeat, UNCHANGED <<sportsVars, cut>>
  PROVE  IInv'
<1>1. /\ phase = "rtds" /\ rtds.at = "receive"
      /\ UNCHANGED <<prints, printFile, seenPrints, venue>>
  BY DEF Heartbeat
<1>2. CASE link.up
  <2>1. rtds' = [rtds EXCEPT !.at = "top"] /\ UNCHANGED <<link, processVars>>
    BY <1>2 DEF Heartbeat
  <2>2. ProcessTypeOK' /\ budget' = budget /\ phase' = "rtds"
    BY <1>1, <2>1, PrintFacts, ProcessStays
  <2>3. link' \in Links /\ link'.up = link.up /\ Len(link'.wire) <= Len(link.wire)
    BY <2>1, PrintFacts
  <2>4. QED
    BY <1>1, <2>1, <2>2, <2>3, RtdsTurns
<1>3. CASE ~link.up
  <2>1. Raise("send") /\ link' = NoLink /\ rtds' = Idle
    BY <1>3 DEF Heartbeat
  <2>2. QED
    BY <1>1, <2>1, RtdsRaises
<1>4. QED
  BY <1>2, <1>3

LEMMA RtdsLostOK ==
  ASSUME IInv, RtdsLost, UNCHANGED <<sportsVars, cut>>
  PROVE  IInv'
<1>1. /\ phase = "rtds" /\ rtds.at = "receive" /\ ~link.up
      /\ UNCHANGED <<prints, printFile, seenPrints, venue>>
  BY DEF RtdsLost
<1>2. CASE ClosedRaises = "ConnectionError"
  <2>1. rtds' = [rtds EXCEPT !.at = "reconnect"] /\ UNCHANGED <<link, processVars>>
    BY <1>2 DEF RtdsLost
  <2>2. ProcessTypeOK' /\ budget' = budget /\ phase' = "rtds"
    BY <1>1, <2>1, PrintFacts, ProcessStays
  <2>3. link' \in Links /\ link'.up = link.up /\ Len(link'.wire) <= Len(link.wire)
    BY <2>1, PrintFacts
  <2>4. QED
    BY <1>1, <2>1, <2>2, <2>3, RtdsTurns
<1>3. CASE ClosedRaises # "ConnectionError"
  <2>1. Raise("recv") /\ link' = NoLink /\ rtds' = Idle
    BY <1>3 DEF RtdsLost
  <2>2. QED
    BY <1>1, <2>1, RtdsRaises
<1>4. QED
  BY <1>2, <1>3

LEMMA ReconnectOK ==
  ASSUME IInv, Reconnect, UNCHANGED <<sportsVars, cut>>
  PROVE  IInv'
<1>1. /\ phase = "rtds" /\ rtds.at = "reconnect"
      /\ UNCHANGED <<prints, printFile, seenPrints, venue>>
  BY DEF Reconnect
<1>2. CASE /\ link' = NewLink /\ rtds' = [rtds EXCEPT !.at = "sleep", !.reconnects = @ + 1]
           /\ Await(Backoff(rtds.reconnects + 1))
  <2>1. rtds.reconnects \in Nat /\ rtds.reconnects + 1 \in Nat \ {0}
    <3>1. rtds.reconnects \in Nat
      BY PrintFacts
    <3>2. QED
      BY <3>1
  <2>2. Backoff(rtds.reconnects + 1) \in 0..(PingInterval + MaxBackoff)
    <3>1. Backoff(rtds.reconnects + 1) \in 0..MaxBackoff
      BY <2>1, BackoffType
    <3>2. QED
      BY <3>1, FeedAssumption
  <2>3. ProcessTypeOK' /\ budget' = budget /\ phase' = "rtds"
    BY <1>1, <1>2, <2>2, PrintFacts, ProcessAwaits
  <2>4. /\ rtds' \in RtdsStates /\ rtds'.at = "sleep" /\ rtds'.accepted = rtds.accepted
        /\ rtds'.reconnects = rtds.reconnects + 1
    BY <1>2, <2>1, PrintFacts DEF RtdsStates
  <2>5. /\ link' \in Links /\ link'.up = TRUE /\ Len(link'.wire) = 0
    BY <1>2, RtdsStateFacts
  <2>6. rtds.reconnects + 1 + budget.drops <= MaxDrops /\ ~link.up
    BY <1>1 DEF IInv, PrintSide, RtdsControl
  <2>7. /\ rtds'.reconnects + (IF link'.up THEN 0 ELSE 1) + budget.drops <= MaxDrops
        /\ rtds'.accepted <= rtds.accepted /\ Len(link'.wire) <= Len(link.wire)
    <3>1. rtds.accepted \in Nat /\ Len(link.wire) \in Nat /\ budget.drops \in Nat /\ MaxDrops \in Nat
      BY PrintFacts
    <3>2. QED
      BY <2>1, <2>4, <2>5, <2>6, <3>1
  <2>8. QED
    BY <1>1, <2>3, <2>4, <2>5, <2>7, RtdsGoesOn
<1>3. CASE Raise("connect") /\ link' = NoLink /\ rtds' = Idle
  BY <1>1, <1>3, RtdsRaises
<1>4. QED
  BY <1>2, <1>3 DEF Reconnect

LEMMA ResubscribeOK ==
  ASSUME IInv, Resubscribe, UNCHANGED <<sportsVars, cut>>
  PROVE  IInv'
<1>1. /\ phase = "rtds" /\ rtds.at = "sleep"
      /\ UNCHANGED <<prints, printFile, seenPrints, venue>>
      /\ rtds' = [rtds EXCEPT !.at = "subscribe"] /\ UNCHANGED <<link, processVars>>
  BY DEF Resubscribe
<1>2. ProcessTypeOK' /\ budget' = budget /\ phase' = "rtds"
  BY <1>1, PrintFacts, ProcessStays
<1>3. link' \in Links /\ link'.up = link.up /\ Len(link'.wire) <= Len(link.wire)
  BY <1>1, PrintFacts
<1>4. QED
  BY <1>1, <1>2, <1>3, RtdsTurns

\* A frame that was received: the row goes into the cache and the file is torn.
LEMMA PrintOfType ==
  ASSUME NEW message \in PrintMessages, Cacheable(message.frame)
  PROVE  /\ PrintOf(message) \in PrintRows /\ PrintOf(message).key \in PrintKeys
         /\ PrintOf(message).version = message.version /\ message.version \in 1..MaxMessages
<1>1. message.frame \in TwapFrames /\ message.version \in 1..MaxMessages
  BY DEF PrintMessages
<1>2. message.frame.symbol \in TwapSymbols /\ ParsedWindow(message.frame) \in Windows
  BY DEF Cacheable, Parses
<1>3. <<message.frame.symbol, ParsedWindow(message.frame)>> \in PrintKeys
  BY <1>2 DEF PrintKeys
<1>4. message.frame.topic \in {f.topic : f \in TwapFrames}
  BY <1>1
<1>5. QED
  BY <1>1, <1>3, <1>4 DEF PrintOf, PrintRows

LEMMA IngestOK ==
  ASSUME IInv, Ingest, UNCHANGED <<sportsVars, cut>>
  PROVE  IInv'
<1> DEFINE message == Head(link.wire)
           row == PrintOf(message)
<1>1. /\ phase = "rtds" /\ rtds.at = "receive" /\ link.wire # <<>>
      /\ link' = [link EXCEPT !.wire = Tail(@)]
      /\ UNCHANGED <<venue, processVars>>
  BY DEF Ingest
<1>2. ProcessTypeOK' /\ budget' = budget /\ phase' = "rtds"
  BY <1>1, PrintFacts, ProcessStays
<1>3. /\ message \in PrintMessages /\ link' \in Links /\ link'.up = link.up
      /\ link'.wire = Tail(link.wire) /\ Len(link'.wire) = Len(link.wire) - 1
  <2>1. link \in Links /\ link.wire \in Seq(PrintMessages)
    BY PrintFacts DEF Links
  <2>2. /\ Head(link.wire) \in PrintMessages /\ Tail(link.wire) \in Seq(PrintMessages)
        /\ Len(Tail(link.wire)) = Len(link.wire) - 1
    BY <1>1, <2>1, HeadTailProperties
  <2>3. QED
    BY <1>1, <2>1, <2>2 DEF Links
<1>4. Len(link.wire) \in Nat /\ Len(link'.wire) <= Len(link.wire)
  BY <1>3, PrintFacts
<1> HIDE DEF message
<1>5. CASE ~Cacheable(message.frame)
  <2>1. rtds' = [rtds EXCEPT !.at = "top"] /\ UNCHANGED <<prints, printFile, seenPrints>>
    BY <1>5 DEF Ingest, message
  <2>2. QED
    BY <1>1, <1>2, <1>3, <1>4, <2>1, RtdsTurns
<1>6. CASE Cacheable(message.frame)
  <2>1. /\ row \in PrintRows /\ row.key \in PrintKeys /\ row.version \in 1..MaxMessages
    BY <1>3, <1>6, PrintOfType
  <2>2. /\ prints' = PutRow(prints, row) /\ printFile' = TornFile
        /\ rtds' = [rtds EXCEPT !.at = "save", !.after = "top"]
        /\ seenPrints' = Remember(seenPrints, row)
    BY <1>6 DEF Ingest, PutPrint, message
  <2> HIDE DEF row
  <2>3. /\ rtds' \in RtdsStates /\ rtds'.at = "save" /\ rtds'.after = "top"
        /\ rtds'.accepted = rtds.accepted /\ rtds'.reconnects = rtds.reconnects
    BY <2>2, PrintFacts DEF RtdsStates
  <2>4. prints' \in Seq(PrintRows) /\ Unique(prints')
    BY <2>1, <2>2, PrintFacts, PutKeepsUnique
  <2>5. printFile' \in Files(PrintRows) /\ Unique(printFile'.rows)
    BY <2>2, TornType
  <2>6. seenPrints' \in [PrintKeys -> 0..MaxMessages]
    BY <2>1, <2>2, PrintFacts DEF Remember
  <2>7. RtdsSound'
    <3>1. /\ Len(link'.wire) <= MaxWire /\ RtdsPending = 0 /\ RtdsPending' = 1
      <4>1. RtdsPending = 0 /\ RtdsPending' = 1
        BY <1>1, <2>3 DEF RtdsPending
      <4>2. Len(link.wire) <= MaxWire /\ MaxWire \in Nat /\ Len(link'.wire) = Len(link.wire) - 1
        BY <1>3, PrintFacts, FeedAssumption
      <4>3. Len(link'.wire) <= MaxWire
        BY <1>4, <4>2
      <4>4. QED
        BY <4>1, <4>3
    <3>2. rtds'.accepted + RtdsPending' + Len(link'.wire) + budget'.messages <= MaxMessages
      <4>1. /\ rtds.accepted + 0 + Len(link.wire) + budget.messages <= MaxMessages
            /\ rtds.accepted \in Nat /\ budget.messages \in Nat /\ MaxMessages \in Nat
        BY <3>1, PrintFacts
      <4>2. rtds.accepted + 1 + (Len(link.wire) - 1) + budget.messages <= MaxMessages
        BY <1>4, <4>1
      <4>3. QED
        BY <1>2, <1>3, <2>3, <3>1, <4>2
    <3>3. QED
      BY <1>1, <1>2, <1>3, <2>3, <2>4, <2>5, <2>6, <3>1, <3>2, PrintFacts DEF RtdsSound
  <2>8. RtdsControl'
    <3>1. rtds.reconnects + (IF link.up THEN 0 ELSE 1) + budget.drops <= MaxDrops
      BY <1>1 DEF IInv, PrintSide, RtdsControl
    <3>2. QED
      BY <1>2, <1>3, <2>3, <3>1 DEF RtdsControl
  <2>9. PrintsKept'
    <3>1. ~cut => Complete(prints, seenPrints)
      BY <1>1 DEF IInv, PrintSide, PrintsKept, PrintsLoaded
    <3>2. seenPrints \in [PrintKeys -> Nat] /\ row.version \in Nat \ {0}
      <4>1. seenPrints \in [PrintKeys -> 0..MaxMessages] /\ 0..MaxMessages \subseteq Nat
        BY PrintFacts
      <4>2. seenPrints \in [PrintKeys -> Nat]
        BY <4>1
      <4>3. QED
        BY <2>1, <4>2
    <3>3. ~cut => Complete(prints', seenPrints')
      BY <2>1, <2>2, <3>1, <3>2, PrintFacts, PutKeepsComplete
    <3>4. QED
      BY <1>2, <2>3, <3>3 DEF PrintsKept, PrintsUnread, PrintsLoading, PrintsLoaded
  <2>10. GameSide'
    <3>1. Spends
      BY <1>2, PrintFacts, SpendsNothing
    <3>2. QED
      BY <1>1, <1>2, <3>1, GamesAside
  <2>11. QED
    BY <1>2, <2>7, <2>8, <2>9, <2>10, PrintFacts DEF IInv, PrintSide
<1>7. QED
  BY <1>5, <1>6

LEMMA WritePrintsOK ==
  ASSUME IInv, WritePrints, UNCHANGED <<sportsVars, cut>>
  PROVE  IInv'
<1>1. /\ phase \in {"load_twap", "rtds"} /\ rtds.at = "save"
      /\ printFile' = Saved(prints)
      /\ rtds' = [rtds EXCEPT !.at = rtds.after,
                              !.accepted = IF rtds.after = "top" THEN rtds.accepted + 1 ELSE rtds.accepted]
      /\ UNCHANGED <<link, prints, seenPrints, venue, processVars>>
  BY DEF WritePrints
<1>2. ProcessTypeOK' /\ budget' = budget /\ phase' = phase
  BY <1>1, PrintFacts, ProcessStays
<1>3. /\ phase = "load_twap" => rtds.after = "load" /\ rtds.accepted = 0 /\ rtds.reconnects = 0 /\ link = NoLink
      /\ phase = "rtds" => /\ rtds.after = "top"
                           /\ rtds.reconnects + (IF link.up THEN 0 ELSE 1) + budget.drops <= MaxDrops
  BY <1>1 DEF IInv, PrintSide, RtdsControl
<1> DEFINE counted == IF rtds.after = "top" THEN rtds.accepted + 1 ELSE rtds.accepted
<1>4. counted \in Nat /\ counted = rtds.accepted + RtdsPending
  BY <1>1, PrintFacts DEF RtdsPending
<1> HIDE DEF counted
<1>5. rtds' = [rtds EXCEPT !.at = rtds.after, !.accepted = counted]
  BY <1>1 DEF counted
<1>6. rtds.after \in {"load", "top"} /\ rtds \in RtdsStates
  BY <1>1, <1>3, PrintFacts
<1>7. /\ rtds' \in RtdsStates /\ rtds'.at = rtds.after /\ rtds'.accepted = counted
      /\ rtds'.reconnects = rtds.reconnects /\ rtds'.todo = rtds.todo
  BY <1>4, <1>5, <1>6 DEF RtdsStates
<1>8. RtdsSound'
  <2>1. RtdsPending' = 0
    BY <1>6, <1>7 DEF RtdsPending
  <2>2. printFile' \in Files(PrintRows) /\ Unique(printFile'.rows)
    BY <1>1, PrintFacts DEF Saved, Files
  <2>3. rtds'.accepted + RtdsPending' + Len(link'.wire) + budget'.messages <= MaxMessages
    <3>1. counted + Len(link.wire) + budget.messages <= MaxMessages
      BY <1>4, PrintFacts
    <3>2. counted + 0 + Len(link.wire) + budget.messages <= MaxMessages
      BY <1>4, <3>1, PrintFacts
    <3>3. QED
      BY <1>1, <1>2, <1>7, <2>1, <3>2
  <2>4. QED
    BY <1>1, <1>2, <1>7, <2>2, <2>3, PrintFacts DEF RtdsSound
<1>9. RtdsControl'
  <2>1. CASE phase = "load_twap"
    BY <1>1, <1>2, <1>3, <1>4, <1>7, <2>1 DEF RtdsControl, counted
  <2>2. CASE phase = "rtds"
    BY <1>1, <1>2, <1>3, <1>7, <2>2 DEF RtdsControl
  <2>3. QED
    BY <1>1, <2>1, <2>2
<1>10. PrintsKept'
  <2>1. printFile'.rows = prints /\ printFile'.state = "whole"
    BY <1>1 DEF Saved
  <2>2. /\ phase = "load_twap" => /\ Unique(prints \o rtds.todo)
                                  /\ ~cut => Complete(prints \o rtds.todo, seenPrints)
        /\ phase = "rtds" /\ ~cut => Complete(prints, seenPrints)
    BY <1>1 DEF IInv, PrintSide, PrintsKept, PrintsLoading, PrintsLoaded
  <2>3. QED
    BY <1>1, <1>2, <1>3, <1>7, <2>1, <2>2 DEF PrintsKept, PrintsUnread, PrintsLoading, PrintsLoaded
<1>11. GameSide'
  <2>1. Spends
    BY <1>2, PrintFacts, SpendsNothing
  <2>2. QED
    BY <1>1, <1>2, <2>1, GamesAside
<1>12. QED
  BY <1>2, <1>8, <1>9, <1>10, <1>11, PrintFacts DEF IInv, PrintSide

LEMMA LoadPrintsOK ==
  ASSUME IInv, LoadPrints, UNCHANGED <<sportsVars, cut>>
  PROVE  IInv'
<1>1. /\ phase = "load_twap" /\ rtds.at = "idle"
      /\ UNCHANGED <<link, prints, printFile, seenPrints, venue>>
  BY DEF LoadPrints
<1>2. rtds = Idle /\ link = NoLink /\ prints = <<>>
  BY <1>1 DEF IInv, PrintSide, RtdsControl
<1>3. ~cut => printFile.state # "torn" /\ Complete(printFile.rows, seenPrints)
  BY <1>1 DEF IInv, PrintSide, PrintsKept, PrintsUnread
<1>4. printFile \in Files(PrintRows)
  BY PrintFacts
<1>5. CASE printFile.state = "torn" /\ Raise("file") /\ UNCHANGED rtds
  <2>1. ProcessTypeOK' /\ budget' = budget
    BY <1>5, PrintFacts, ProcessEnds DEF Causes, Phases
  <2>2. phase' = "down" /\ cut
    BY <1>3, <1>5 DEF Raise
  <2>3. RtdsSound'
    BY <1>1, <1>5, <2>1 DEF IInv, PrintSide, RtdsSound, RtdsPending
  <2>4. RtdsControl'
    BY <1>1, <1>2, <1>5, <2>2 DEF RtdsControl
  <2>5. PrintsKept'
    BY <1>5, <2>2 DEF PrintsKept, PrintsLoading
  <2>6. GameSide'
    BY <1>1, <2>1, <2>2, SpendsNothing, GamesAside, PrintFacts
  <2>7. QED
    BY <2>1, <2>3, <2>4, <2>5, <2>6, PrintFacts DEF IInv, PrintSide
<1>6. CASE printFile.state = "absent" /\ phase' = "load_games" /\ UNCHANGED <<rtds, cause, clock, budget>>
  <2>1. ProcessTypeOK' /\ budget' = budget
    BY <1>6, PrintFacts DEF ProcessTypeOK, clock, Phases
  <2>2. printFile.rows = prints
    BY <1>2, <1>4, <1>6 DEF Files
  <2>3. RtdsSound'
    BY <1>1, <1>6, <2>1 DEF IInv, PrintSide, RtdsSound, RtdsPending
  <2>4. RtdsControl'
    BY <1>1, <1>2, <1>6 DEF RtdsControl
  <2>5. PrintsKept'
    BY <1>1, <1>3, <1>6, <2>2 DEF PrintsKept, PrintsUnread, PrintsLoading, PrintsLoaded
  <2>6. GameSide'
    BY <1>1, <1>6, <2>1, SpendsNothing, GamesAside, PrintFacts
  <2>7. QED
    BY <2>1, <2>3, <2>4, <2>5, <2>6, PrintFacts DEF IInv, PrintSide
<1>7. CASE /\ printFile.state = "whole" /\ UNCHANGED processVars
           /\ rtds' = [rtds EXCEPT !.at = "load", !.todo = printFile.rows]
  <2>1. ProcessTypeOK' /\ budget' = budget /\ phase' = "load_twap"
    BY <1>1, <1>7, PrintFacts, ProcessStays
  <2>2. printFile.rows \in Seq(PrintRows)
    BY <1>4 DEF Files
  <2>3. /\ rtds' \in RtdsStates /\ rtds'.at = "load" /\ rtds'.accepted = 0 /\ rtds'.reconnects = 0
        /\ rtds'.todo = printFile.rows /\ rtds.at = "idle" /\ rtds.accepted = 0
    BY <1>2, <1>7, <2>2, RtdsStateFacts DEF RtdsStates, Idle
  <2>4. RtdsSound'
    <3>1. RtdsPending = 0 /\ RtdsPending' = 0
      BY <2>3 DEF RtdsPending
    <3>2. QED
      BY <1>1, <2>1, <2>3, <3>1 DEF IInv, PrintSide, RtdsSound
  <2>5. RtdsControl'
    BY <1>1, <1>2, <2>1, <2>3 DEF RtdsControl
  <2>6. prints \o rtds'.todo = printFile.rows
    BY <1>2, <2>2, <2>3, ConcatEmptySeq
  <2>7. PrintsKept'
    <3>1. Unique(printFile.rows) /\ prints' = <<>> /\ printFile' = printFile /\ seenPrints' = seenPrints
      BY <1>1, <1>2, PrintFacts
    <3>2. prints' \o rtds'.todo = printFile.rows
      BY <1>1, <2>6
    <3>3. QED
      BY <1>3, <2>1, <2>3, <3>1, <3>2 DEF PrintsKept, PrintsUnread, PrintsLoading, PrintsLoaded
  <2>8. GameSide'
    BY <1>1, <2>1, SpendsNothing, GamesAside, PrintFacts
  <2>9. QED
    BY <2>1, <2>4, <2>5, <2>7, <2>8, PrintFacts DEF IInv, PrintSide
<1>8. QED
  BY <1>5, <1>6, <1>7 DEF LoadPrints

LEMMA LoadPrintOK ==
  ASSUME IInv, LoadPrint, UNCHANGED <<sportsVars, cut>>
  PROVE  IInv'
<1>1. /\ phase = "load_twap" /\ rtds.at = "load"
      /\ UNCHANGED <<link, seenPrints, venue>>
  BY DEF LoadPrint
<1>2. rtds.accepted = 0 /\ rtds.reconnects = 0 /\ link = NoLink
  BY <1>1 DEF IInv, PrintSide, RtdsControl
<1>3. /\ Unique(prints \o rtds.todo)
      /\ ~cut => /\ printFile.state # "torn" /\ Complete(prints \o rtds.todo, seenPrints)
                 /\ (prints = <<>> /\ rtds.todo = printFile.rows) \/ printFile.rows = prints
  BY <1>1 DEF IInv, PrintSide, PrintsKept, PrintsLoading
<1>4. rtds.todo \in Seq(PrintRows) /\ prints \in Seq(PrintRows)
  BY PrintFacts DEF RtdsStates
<1>5. CASE rtds.todo = <<>>
  <2>1. rtds' = Idle /\ phase' = "load_games" /\ UNCHANGED <<prints, printFile, cause, clock, budget>>
    BY <1>5 DEF LoadPrint
  <2>2. ProcessTypeOK' /\ budget' = budget
    BY <2>1, PrintFacts DEF ProcessTypeOK, clock, Phases
  <2>3. prints \o rtds.todo = prints
    BY <1>4, <1>5, ConcatEmptySeq
  <2>4. ~cut => printFile.rows = prints /\ Complete(prints, seenPrints)
    BY <1>3, <1>5, <2>3
  <2>5. RtdsSound'
    <3>1. RtdsPending = 0 /\ RtdsPending' = 0 /\ rtds' \in RtdsStates /\ rtds'.accepted = 0
      BY <1>1, <2>1, RtdsStateFacts DEF RtdsPending
    <3>2. QED
      BY <1>1, <1>2, <2>1, <3>1 DEF IInv, PrintSide, RtdsSound
  <2>6. RtdsControl'
    BY <1>1, <1>2, <2>1 DEF RtdsControl
  <2>7. PrintsKept'
    BY <1>1, <1>3, <2>1, <2>4 DEF PrintsKept, PrintsUnread, PrintsLoading, PrintsLoaded
  <2>8. GameSide'
    BY <1>1, <2>1, <2>2, SpendsNothing, GamesAside, PrintFacts
  <2>9. QED
    BY <2>2, <2>5, <2>6, <2>7, <2>8, PrintFacts DEF IInv, PrintSide
<1>6. CASE rtds.todo # <<>>
  <2>1. /\ prints' = PutRow(prints, Head(rtds.todo)) /\ printFile' = TornFile
        /\ rtds' = [rtds EXCEPT !.at = "save", !.after = "load", !.todo = Tail(@)]
        /\ UNCHANGED processVars
    BY <1>6 DEF LoadPrint
  <2>2. ProcessTypeOK' /\ budget' = budget /\ phase' = "load_twap"
    BY <1>1, <2>1, PrintFacts, ProcessStays
  <2>3. LoadStep(PrintRows, prints, rtds.todo, prints')
    BY <1>3, <1>4, <1>6, <2>1, LoadGives
  <2>4. /\ prints' \in Seq(PrintRows) /\ Tail(rtds.todo) \in Seq(PrintRows) /\ Unique(prints')
        /\ prints' \o Tail(rtds.todo) = prints \o rtds.todo
    BY <2>3 DEF LoadStep
  <2>5. /\ rtds' \in RtdsStates /\ rtds'.at = "save" /\ rtds'.after = "load"
        /\ rtds'.todo = Tail(rtds.todo) /\ rtds'.accepted = 0 /\ rtds'.reconnects = 0
    BY <1>2, <2>1, <2>4, PrintFacts DEF RtdsStates
  <2>6. RtdsSound'
    <3>1. RtdsPending = 0 /\ RtdsPending' = 0
      BY <1>1, <2>5 DEF RtdsPending
    <3>2. printFile' \in Files(PrintRows) /\ Unique(printFile'.rows)
      BY <2>1, TornType
    <3>3. QED
      BY <1>1, <1>2, <2>2, <2>4, <2>5, <3>1, <3>2 DEF IInv, PrintSide, RtdsSound
  <2>7. RtdsControl'
    BY <1>1, <1>2, <2>2, <2>5 DEF RtdsControl
  <2>8. PrintsKept'
    <3>1. prints' \o rtds'.todo = prints \o rtds.todo
      BY <2>4, <2>5
    <3>2. QED
      BY <1>1, <1>3, <2>2, <2>5, <3>1 DEF PrintsKept, PrintsUnread, PrintsLoading, PrintsLoaded
  <2>9. GameSide'
    BY <1>1, <2>2, SpendsNothing, GamesAside, PrintFacts
  <2>10. QED
    BY <2>2, <2>6, <2>7, <2>8, <2>9, PrintFacts DEF IInv, PrintSide
<1>7. QED
  BY <1>5, <1>6

\* The venue sends a print, in order.
LEMMA PublishOK ==
  ASSUME IInv, Publish, UNCHANGED <<sportsVars, cut>>
  PROVE  IInv'
<1>1. /\ phase = "rtds" /\ link.up /\ Len(link.wire) < MaxWire
      /\ budget.messages > 0 /\ budget' = [budget EXCEPT !.messages = @ - 1]
      /\ UNCHANGED <<phase, cause, clock>> /\ venue' = venue + 1
      /\ UNCHANGED <<rtds, prints, printFile, seenPrints>>
  BY DEF Publish, SpendMessage
<1>2. PICK f \in TwapFrames :
        link' = [link EXCEPT !.wire = Append(@, [frame |-> f, version |-> venue + 1])]
  BY DEF Publish
<1>3. /\ budget.messages \in Nat /\ venue \in Nat /\ MaxMessages \in Nat /\ Len(link.wire) \in Nat
      /\ rtds.accepted \in Nat /\ RtdsPending \in Nat
      /\ venue + budget.messages <= MaxMessages
      /\ rtds.accepted + RtdsPending + Len(link.wire) + budget.messages <= MaxMessages
  BY PrintFacts
<1>4. /\ budget' \in [crashes: 0..MaxCrashes, scans: 0..MaxScans, drops: 0..MaxDrops,
                      messages: 0..MaxMessages]
      /\ budget'.messages = budget.messages - 1 /\ budget'.drops = budget.drops
  <2>1. budget.messages - 1 \in 0..MaxMessages
    BY <1>1, <1>3
  <2>2. budget \in [crashes: 0..MaxCrashes, scans: 0..MaxScans, drops: 0..MaxDrops,
                    messages: 0..MaxMessages]
    BY PrintFacts, BudgetNat
  <2>3. QED
    BY <1>1, <2>1, <2>2
<1>5. ProcessTypeOK'
  BY <1>1, <1>4, PrintFacts DEF ProcessTypeOK, clock
<1>6. /\ link' \in Links /\ link'.up = link.up /\ Len(link'.wire) = Len(link.wire) + 1
  <2>1. [frame |-> f, version |-> venue + 1] \in PrintMessages
    BY <1>1, <1>3 DEF PrintMessages
  <2>2. link \in Links /\ link.wire \in Seq(PrintMessages)
    BY PrintFacts DEF Links
  <2>3. /\ Append(link.wire, [frame |-> f, version |-> venue + 1]) \in Seq(PrintMessages)
        /\ Len(Append(link.wire, [frame |-> f, version |-> venue + 1])) = Len(link.wire) + 1
    BY <2>1, <2>2, AppendProperties
  <2>4. QED
    BY <1>2, <2>2, <2>3 DEF Links
<1>7. RtdsSound'
  <2>1. RtdsPending' = RtdsPending
    BY <1>1 DEF RtdsPending
  <2>2. /\ Len(link'.wire) <= MaxWire
        /\ venue' \in Nat /\ venue' + budget'.messages <= MaxMessages
        /\ rtds'.accepted + RtdsPending' + Len(link'.wire) + budget'.messages <= MaxMessages
    <3>1. Len(link.wire) + 1 <= MaxWire
      BY <1>1, <1>3, FeedAssumption
    <3>2. venue + 1 \in Nat /\ venue + 1 + (budget.messages - 1) <= MaxMessages
      BY <1>3
    <3>3. rtds.accepted + RtdsPending + (Len(link.wire) + 1) + (budget.messages - 1) <= MaxMessages
      <4> DEFINE a == rtds.accepted
                 b == Len(link.wire)
                 c == budget.messages
                 p == RtdsPending
      <4>1. /\ a \in Nat /\ b \in Nat /\ c \in Nat /\ p \in Nat /\ MaxMessages \in Nat
            /\ a + p + b + c <= MaxMessages
        BY <1>3, Zenon
      <4> HIDE DEF a, b, c, p
      <4>2. a + p + (b + 1) + (c - 1) <= MaxMessages
        BY <4>1
      <4>3. QED
        BY <4>2 DEF a, b, c, p
    <3>4. QED
      BY <1>1, <1>4, <1>6, <2>1, <3>1, <3>2, <3>3
  <2>3. QED
    BY <1>1, <1>6, <2>2, PrintFacts DEF RtdsSound
<1>8. RtdsControl'
  <2>1. rtds.at # "idle"
    BY <1>1, RtdsStateFacts DEF IInv, PrintSide, RtdsControl
  <2>2. QED
    BY <1>1, <1>4, <1>6, <2>1 DEF IInv, PrintSide, RtdsControl
<1>9. PrintsKept'
  BY <1>1 DEF IInv, PrintSide, PrintsKept, PrintsUnread, PrintsLoading, PrintsLoaded
<1>10. GameSide'
  <2>1. budget'.messages <= budget.messages /\ budget'.drops <= budget.drops
    <3>1. budget.messages \in Nat /\ budget.drops \in Nat
      BY PrintFacts
    <3>2. QED
      BY <1>4, <3>1
  <2>2. Spends
    BY <1>4, <2>1 DEF Spends
  <2>3. QED
    BY <1>1, <2>2, GamesAside
<1>11. QED
  BY <1>5, <1>7, <1>8, <1>9, <1>10, PrintFacts DEF IInv, PrintSide

LEMMA RtdsDropOK ==
  ASSUME IInv, RtdsDrop, UNCHANGED <<sportsVars, cut>>
  PROVE  IInv'
<1>1. /\ phase = "rtds" /\ link.up /\ budget.drops > 0
      /\ budget' = [budget EXCEPT !.drops = @ - 1]
      /\ UNCHANGED <<rtds, prints, printFile, seenPrints, venue, phase, cause, clock>>
  BY DEF RtdsDrop
<1>2. PICK n \in 0..Len(link.wire) :
        link' = [link EXCEPT !.up = FALSE, !.subscribed = FALSE, !.wire = SubSeq(@, 1, n)]
  BY DEF RtdsDrop
<1>3. /\ budget.messages \in Nat /\ budget.drops \in Nat /\ MaxDrops \in Nat /\ Len(link.wire) \in Nat
      /\ MaxMessages \in Nat /\ rtds.accepted \in Nat /\ RtdsPending \in Nat /\ budget.drops <= MaxDrops
      /\ Len(link.wire) <= MaxWire /\ rtds.reconnects \in Nat
      /\ rtds.accepted + RtdsPending + Len(link.wire) + budget.messages <= MaxMessages
  BY PrintFacts
<1>4. /\ budget' \in [crashes: 0..MaxCrashes, scans: 0..MaxScans, drops: 0..MaxDrops,
                      messages: 0..MaxMessages]
      /\ budget'.messages = budget.messages /\ budget'.drops = budget.drops - 1
  <2>1. budget.drops - 1 \in 0..MaxDrops
    BY <1>1, <1>3
  <2>2. budget \in [crashes: 0..MaxCrashes, scans: 0..MaxScans, drops: 0..MaxDrops,
                    messages: 0..MaxMessages]
    BY PrintFacts, BudgetNat
  <2>3. QED
    BY <1>1, <2>1, <2>2
<1>5. ProcessTypeOK'
  BY <1>1, <1>4, PrintFacts DEF ProcessTypeOK, clock
<1>6. link' \in Links /\ link'.up = FALSE /\ Len(link'.wire) = n
  <2>1. link \in Links /\ link.wire \in Seq(PrintMessages)
    BY PrintFacts DEF Links
  <2>2. SubSeq(link.wire, 1, n) \in Seq(PrintMessages) /\ Len(SubSeq(link.wire, 1, n)) = n
    BY <2>1, CutWire
  <2>3. QED
    BY <1>2, <2>1, <2>2 DEF Links
<1>7. RtdsSound'
  <2>1. RtdsPending' = RtdsPending
    BY <1>1 DEF RtdsPending
  <2>2. /\ Len(link'.wire) <= MaxWire
        /\ rtds'.accepted + RtdsPending' + Len(link'.wire) + budget'.messages <= MaxMessages
    <3>1. n <= MaxWire
      BY <1>3, FeedAssumption
    <3>2. rtds.accepted + RtdsPending + n + budget.messages <= MaxMessages
      <4> DEFINE a == rtds.accepted
                 b == Len(link.wire)
                 c == budget.messages
                 p == RtdsPending
      <4>1. /\ a \in Nat /\ b \in Nat /\ c \in Nat /\ p \in Nat /\ MaxMessages \in Nat
            /\ n \in 0..b /\ a + p + b + c <= MaxMessages
        BY <1>2, <1>3, Zenon
      <4> HIDE DEF a, b, c, p
      <4>2. a + p + n + c <= MaxMessages
        BY <4>1
      <4>3. QED
        BY <4>2 DEF a, b, c, p
    <3>3. QED
      BY <1>1, <1>4, <1>6, <2>1, <3>1, <3>2
  <2>3. QED
    BY <1>1, <1>4, <1>6, <2>2, PrintFacts DEF RtdsSound
<1>8. RtdsControl'
  <2>1. rtds.at # "idle"
    BY <1>1, RtdsStateFacts DEF IInv, PrintSide, RtdsControl
  <2>2. rtds.reconnects + 0 + budget.drops <= MaxDrops
    BY <1>1, <2>1 DEF IInv, PrintSide, RtdsControl
  <2>3. rtds.reconnects + 1 + (budget.drops - 1) <= MaxDrops
    BY <1>3, <2>2
  <2>4. QED
    BY <1>1, <1>4, <1>6, <2>1, <2>3 DEF IInv, PrintSide, RtdsControl
<1>9. PrintsKept'
  BY <1>1 DEF IInv, PrintSide, PrintsKept, PrintsUnread, PrintsLoading, PrintsLoaded
<1>10. GameSide'
  <2>1. budget'.messages <= budget.messages /\ budget'.drops <= budget.drops
    <3>1. budget.messages \in Nat /\ budget.drops \in Nat
      BY PrintFacts
    <3>2. QED
      BY <1>4, <3>1
  <2>2. Spends
    BY <1>4, <2>1 DEF Spends
  <2>3. QED
    BY <1>1, <2>2, GamesAside
<1>11. QED
  BY <1>5, <1>7, <1>8, <1>9, <1>10, PrintFacts DEF IInv, PrintSide


-----------------------------------------------------------------------------
(* The sports reader *)

\* What every lemma below needs of the invariant.
LEMMA GameFacts ==
  ASSUME IInv
  PROVE  /\ sports \in SportsStates /\ feed \in FeedLinks /\ Len(feed.wire) <= MaxWire
         /\ Len(feed.wire) \in Nat /\ sports.accepted \in Nat /\ sports.frames \in Nat
         /\ sports.pongs \in Nat /\ sports.reconnects \in Nat
         /\ games \in Seq(GameRows) /\ Unique(games)
         /\ gameFile \in Files(GameRows) /\ Unique(gameFile.rows)
         /\ seenGames \in [Games -> 0..MaxMessages]
         /\ stadium \in Nat /\ stadium + budget.messages <= MaxMessages
         /\ sports.accepted + SportsPending <= sports.frames
         /\ sports.frames + Len(feed.wire) + budget.messages <= MaxMessages
         /\ SportsPending \in Nat
         /\ budget.messages \in Nat /\ budget.drops \in Nat /\ budget.drops <= MaxDrops
         /\ MaxMessages \in Nat /\ MaxDrops \in Nat
         /\ elapsed \in 0..CollectSeconds /\ wait \in Nat
         /\ ProcessTypeOK /\ cut \in BOOLEAN
<1>1. SportsSound /\ ProcessTypeOK /\ cut \in BOOLEAN
  BY DEF IInv, GameSide
<1>2. feed \in FeedLinks /\ sports \in SportsStates
  BY <1>1 DEF SportsSound
<1>3. /\ Len(feed.wire) \in Nat /\ sports.accepted \in Nat /\ sports.frames \in Nat
      /\ sports.pongs \in Nat /\ sports.reconnects \in Nat /\ SportsPending \in Nat
  BY <1>2, LenProperties DEF FeedLinks, SportsStates, SportsPending
<1>4. QED
  BY <1>1, <1>3, BudgetNat DEF SportsSound

\* The reader's own states that occur below.
LEMMA SportsStateFacts ==
  /\ Away \in SportsStates /\ Away.accepted = 0 /\ Away.frames = 0 /\ Away.reconnects = 0
  /\ Away.at = "idle"
  /\ NoFeed \in FeedLinks /\ Len(NoFeed.wire) = 0 /\ NoFeed.up = FALSE
  /\ NewFeed \in FeedLinks /\ Len(NewFeed.wire) = 0 /\ NewFeed.up = TRUE
  BY EmptySeq DEF Away, SportsStates, NoFeed, NewFeed, FeedLinks

\* What the reader did, what is in flight and what is left to send, after a step between
\* two rows that takes frames from the wire and counts them.
LEMMA SportsCounted ==
  ASSUME IInv, sports.at # "save", budget' = budget,
         sports' \in SportsStates, feed' \in FeedLinks, sports'.at # "save",
         sports'.accepted <= sports.accepted,
         Len(feed'.wire) <= Len(feed.wire),
         \/ sports'.frames = 0 /\ sports'.accepted = 0
         \/ /\ sports'.frames >= sports.frames
            /\ sports'.frames + Len(feed'.wire) <= sports.frames + Len(feed.wire)
  PROVE  /\ Len(feed'.wire) <= MaxWire /\ Len(feed'.wire) \in Nat
         /\ sports'.accepted + SportsPending' <= sports'.frames
         /\ sports'.frames + Len(feed'.wire) + budget'.messages <= MaxMessages
<1> DEFINE x == sports'.accepted
           z == sports'.frames
           y == Len(feed'.wire)
           a == sports.accepted
           f == sports.frames
           b == Len(feed.wire)
           c == budget.messages
<1>1. SportsPending = 0 /\ SportsPending' = 0
  BY DEF SportsPending
<1>2. /\ x \in Nat /\ z \in Nat /\ y \in Nat
  BY LenProperties DEF SportsStates, FeedLinks
<1>3. /\ a \in Nat /\ f \in Nat /\ b \in Nat /\ c \in Nat /\ MaxMessages \in Nat /\ MaxWire \in Nat
      /\ b <= MaxWire /\ a + SportsPending <= f /\ f + b + c <= MaxMessages
  BY GameFacts, FeedAssumption
<1>4. /\ x <= a /\ y <= b /\ ((z = 0 /\ x = 0) \/ (z >= f /\ z + y <= f + b))
  BY Zenon
<1>5. budget'.messages = c
  OBVIOUS
<1> HIDE DEF x, y, z, a, b, c, f
<1>6. y <= MaxWire
  BY <1>2, <1>3, <1>4
<1>7. a + 0 <= f
  BY <1>1, <1>3
<1>8. x + 0 <= z
  BY <1>2, <1>3, <1>4, <1>7
<1>9. z + y + c <= MaxMessages
  BY <1>2, <1>3, <1>4
<1>10. x + SportsPending' <= z /\ z + y + budget'.messages <= MaxMessages
  BY <1>1, <1>5, <1>8, <1>9
<1>11. QED
  BY <1>2, <1>6, <1>10 DEF x, y, z

\* A step of the reader between two rows, on the way to its next one or to its end.
LEMMA SportsGoesOn ==
  ASSUME IInv, phase = "sports", sports.at # "save",
         UNCHANGED <<games, gameFile, seenGames, stadium, rtdsVars, cut>>,
         ProcessTypeOK', budget' = budget,
         \/ /\ phase' \in {"evaluate", "down"}
            /\ sports' = Away /\ feed' = NoFeed
         \/ /\ phase' = "sports"
            /\ sports' \in SportsStates /\ sports'.at \notin {"idle", "load", "save"}
            /\ feed' \in FeedLinks /\ Len(feed'.wire) <= Len(feed.wire)
            /\ sports'.accepted <= sports.accepted
            /\ \/ sports'.frames = 0 /\ sports'.accepted = 0
               \/ /\ sports'.frames >= sports.frames
                  /\ sports'.frames + Len(feed'.wire) <= sports.frames + Len(feed.wire)
            /\ (sports'.at = "reconnect" => ~feed'.up)
            /\ sports'.reconnects + (IF feed'.up THEN 0 ELSE 1) + budget.drops <= MaxDrops
  PROVE  IInv'
<1>1. phase' \in {"sports", "evaluate", "down"}
  OBVIOUS
<1>2. /\ sports' \in SportsStates /\ feed' \in FeedLinks /\ Len(feed'.wire) <= Len(feed.wire)
      /\ sports'.accepted <= sports.accepted /\ sports'.at # "save" /\ sports'.at # "load"
      /\ \/ sports'.frames = 0 /\ sports'.accepted = 0
         \/ /\ sports'.frames >= sports.frames
            /\ sports'.frames + Len(feed'.wire) <= sports.frames + Len(feed.wire)
  <2>1. CASE sports' = Away /\ feed' = NoFeed
    BY <2>1, SportsStateFacts, GameFacts
  <2>2. CASE ~(sports' = Away /\ feed' = NoFeed)
    BY <2>2
  <2>3. QED
    BY <2>1, <2>2
<1>3. SportsSound'
  <2>1. /\ Len(feed'.wire) <= MaxWire
        /\ sports'.accepted + SportsPending' <= sports'.frames
        /\ sports'.frames + Len(feed'.wire) + budget'.messages <= MaxMessages
    BY <1>2, SportsCounted
  <2>2. QED
    BY <1>2, <2>1, GameFacts DEF SportsSound
<1>4. SportsControl'
  <2>1. CASE phase' # "sports"
    BY <2>1 DEF SportsControl
  <2>2. CASE phase' = "sports"
    BY <1>2, <2>2 DEF SportsControl
  <2>3. QED
    BY <2>1, <2>2
<1>5. GamesKept'
  <2>1. ~cut => /\ gameFile.state # "torn" /\ Complete(games, seenGames) /\ gameFile.rows = games
    BY DEF IInv, GameSide, GamesKept, GamesLoaded
  <2>2. QED
    BY <1>1, <2>1 DEF GamesKept, GamesUnread, GamesLoading, GamesLoaded
<1>6. Spends
  BY GameFacts, SpendsNothing
<1>7. PrintSide'
  BY <1>1, <1>6, PrintsAside
<1>8. QED
  BY <1>3, <1>4, <1>5, <1>7, GameFacts DEF IInv, GameSide

\* A turn of the loop: the reader is somewhere else on the same connection, and may
\* have counted a pong it sent.
LEMMA SportsTurns ==
  ASSUME IInv, phase = "sports", sports.at \notin {"idle", "save"},
         UNCHANGED <<games, gameFile, seenGames, stadium, rtdsVars, cut>>,
         ProcessTypeOK', budget' = budget, phase' = "sports",
         NEW next \in {"top", "receive", "pong", "reconnect"}, NEW n \in Nat, NEW k \in {0, 1},
         sports' = [sports EXCEPT !.at = next, !.pongs = n, !.frames = sports.frames + k],
         next = "reconnect" => ~feed.up,
         feed' \in FeedLinks, feed'.up = feed.up, Len(feed'.wire) + k <= Len(feed.wire)
  PROVE  IInv'
<1>1. sports.frames \in Nat /\ Len(feed.wire) \in Nat /\ Len(feed'.wire) \in Nat
  BY GameFacts, LenProperties DEF FeedLinks
<1> DEFINE f == sports.frames
           y == Len(feed'.wire)
           b == Len(feed.wire)
<1>2. f + k \in Nat /\ f + k >= f /\ (f + k) + y <= f + b /\ y <= b
  <2>1. f \in Nat /\ y \in Nat /\ b \in Nat /\ y + k <= b /\ k \in Nat
    BY <1>1
  <2> HIDE DEF f, y, b
  <2>2. QED
    BY <2>1
<1>3. /\ sports' \in SportsStates /\ sports'.at = next /\ sports'.accepted = sports.accepted
      /\ sports'.reconnects = sports.reconnects /\ sports.accepted \in Nat
      /\ sports'.frames = f + k
  BY <1>2, GameFacts DEF SportsStates
<1>4. sports.reconnects + (IF feed.up THEN 0 ELSE 1) + budget.drops <= MaxDrops
  BY DEF IInv, GameSide, SportsControl
<1>5. /\ sports'.at \notin {"idle", "load", "save"} /\ sports'.accepted <= sports.accepted
      /\ (sports'.at = "reconnect" => ~feed'.up)
      /\ sports'.reconnects + (IF feed'.up THEN 0 ELSE 1) + budget.drops <= MaxDrops
  BY <1>3, <1>4
<1>6. /\ sports'.frames >= sports.frames
      /\ sports'.frames + Len(feed'.wire) <= sports.frames + Len(feed.wire)
      /\ Len(feed'.wire) <= Len(feed.wire)
  BY <1>2, <1>3, Zenon
<1>7. QED
  BY <1>3, <1>5, <1>6, SportsGoesOn

\* The same when nothing is counted.
LEMMA SportsMoves ==
  ASSUME IInv, phase = "sports", sports.at \notin {"idle", "save"},
         UNCHANGED <<games, gameFile, seenGames, stadium, rtdsVars, cut>>,
         ProcessTypeOK', budget' = budget, phase' = "sports",
         NEW next \in {"top", "receive", "pong", "reconnect"}, sports' = [sports EXCEPT !.at = next],
         next = "reconnect" => ~feed.up,
         feed' \in FeedLinks, feed'.up = feed.up, Len(feed'.wire) <= Len(feed.wire)
  PROVE  IInv'
<1>1. /\ sports \in SportsStates /\ sports.pongs \in Nat /\ sports.frames + 0 = sports.frames
      /\ Len(feed'.wire) + 0 <= Len(feed.wire)
  <2>1. sports \in SportsStates /\ sports.pongs \in Nat /\ sports.frames \in Nat
    BY GameFacts
  <2>2. Len(feed'.wire) \in Nat
    BY LenProperties DEF FeedLinks
  <2>3. QED
    BY <2>1, <2>2
<1>2. sports' = [sports EXCEPT !.at = next, !.pongs = sports.pongs, !.frames = sports.frames + 0]
  BY <1>1 DEF SportsStates
<1>3. QED
  BY <1>1, <1>2, SportsTurns

\* An exception that leaves the reader.
LEMMA SportsRaises ==
  ASSUME IInv, phase = "sports", sports.at # "save",
         UNCHANGED <<games, gameFile, seenGames, stadium, rtdsVars, cut>>,
         NEW why \in {"connect", "send", "recv"}, Raise(why), feed' = NoFeed, sports' = Away
  PROVE  IInv'
<1>1. ProcessTypeOK' /\ budget' = budget
  BY GameFacts, ProcessEnds DEF Causes, Phases
<1>2. phase' = "down"
  BY DEF Raise
<1>3. QED
  BY <1>1, <1>2, SportsGoesOn

LEMMA SportsConnectOK ==
  ASSUME IInv, SportsConnect, UNCHANGED <<rtdsVars, cut>>
  PROVE  IInv'
<1>1. phase = "sports" /\ sports.at = "idle" /\ UNCHANGED <<games, gameFile, seenGames, stadium>>
  BY DEF SportsConnect
<1>2. CASE feed' = NewFeed /\ sports' = [Away EXCEPT !.at = "top"] /\ UNCHANGED processVars
  <2>1. ProcessTypeOK' /\ budget' = budget /\ phase' = "sports"
    BY <1>1, <1>2, GameFacts, ProcessStays
  <2>2. /\ sports' \in SportsStates /\ sports'.at = "top" /\ sports'.accepted = 0
        /\ sports'.frames = 0 /\ sports'.reconnects = 0
    BY <1>2, SportsStateFacts DEF SportsStates, Away
  <2>3. feed' \in FeedLinks /\ Len(feed'.wire) = 0 /\ feed'.up = TRUE
    BY <1>2, SportsStateFacts
  <2>4. Len(feed.wire) \in Nat /\ sports.accepted \in Nat /\ budget.drops \in Nat /\ budget.drops <= MaxDrops
    BY GameFacts
  <2>5. /\ Len(feed'.wire) <= Len(feed.wire) /\ sports'.accepted <= sports.accepted
        /\ sports'.reconnects + (IF feed'.up THEN 0 ELSE 1) + budget.drops <= MaxDrops
    BY <2>2, <2>3, <2>4
  <2>6. QED
    BY <1>1, <2>1, <2>2, <2>3, <2>5, SportsGoesOn
<1>3. CASE Raise("connect") /\ feed' = NoFeed /\ sports' = Away
  BY <1>1, <1>3, SportsRaises
<1>4. QED
  BY <1>2, <1>3 DEF SportsConnect

LEMMA SportsTopOK ==
  ASSUME IInv, SportsTop, UNCHANGED <<rtdsVars, cut>>
  PROVE  IInv'
<1>1. /\ phase = "sports" /\ sports.at = "top"
      /\ UNCHANGED <<games, gameFile, seenGames, stadium>>
  BY DEF SportsTop
<1>2. CASE elapsed >= CollectSeconds
  <2>1. sports' = Away /\ feed' = NoFeed /\ Finish("evaluate")
    BY <1>2 DEF SportsTop
  <2>2. ProcessTypeOK' /\ budget' = budget
    BY <2>1, GameFacts, ProcessEnds DEF Causes, Phases
  <2>3. phase' = "evaluate"
    BY <2>1 DEF Finish
  <2>4. QED
    BY <1>1, <2>1, <2>2, <2>3, SportsGoesOn
<1>3. CASE ~(elapsed >= CollectSeconds)
  <2>1. sports' = [sports EXCEPT !.at = "receive"] /\ Await(RecvTimeout) /\ UNCHANGED feed
    BY <1>3 DEF SportsTop
  <2>2. ProcessTypeOK' /\ budget' = budget /\ phase' = "sports"
    BY <1>1, <2>1, GameFacts, RecvTimeoutType, ProcessAwaits
  <2>3. feed' \in FeedLinks /\ feed'.up = feed.up /\ Len(feed'.wire) <= Len(feed.wire)
    BY <2>1, GameFacts
  <2>4. QED
    BY <1>1, <2>1, <2>2, <2>3, SportsMoves
<1>4. QED
  BY <1>2, <1>3

LEMMA ReplyPongOK ==
  ASSUME IInv, ReplyPong, UNCHANGED <<rtdsVars, cut>>
  PROVE  IInv'
<1>1. /\ phase = "sports" /\ sports.at = "pong"
      /\ UNCHANGED <<games, gameFile, seenGames, stadium>>
  BY DEF ReplyPong
<1>2. CASE feed.up
  <2>1. /\ sports' = [sports EXCEPT !.at = "top", !.pongs = sports.pongs + 1]
        /\ UNCHANGED <<feed, processVars>>
    BY <1>2 DEF ReplyPong
  <2>2. ProcessTypeOK' /\ budget' = budget /\ phase' = "sports"
    BY <1>1, <2>1, GameFacts, ProcessStays
  <2>3. /\ feed' \in FeedLinks /\ feed'.up = feed.up /\ Len(feed'.wire) + 0 <= Len(feed.wire)
        /\ sports \in SportsStates /\ sports.frames + 0 = sports.frames /\ sports.pongs + 1 \in Nat
    <3>1. /\ feed \in FeedLinks /\ Len(feed.wire) \in Nat /\ sports \in SportsStates
          /\ sports.frames \in Nat /\ sports.pongs \in Nat
      BY GameFacts
    <3>2. feed' = feed
      BY <2>1
    <3>3. sports.frames + 0 = sports.frames /\ sports.pongs + 1 \in Nat
      BY <3>1
    <3>4. feed' \in FeedLinks /\ feed'.up = feed.up /\ Len(feed'.wire) + 0 <= Len(feed.wire)
      BY <3>1, <3>2
    <3>5. QED
      BY <3>1, <3>3, <3>4
  <2>4. sports' = [sports EXCEPT !.at = "top", !.pongs = sports.pongs + 1, !.frames = sports.frames + 0]
    BY <2>1, <2>3 DEF SportsStates
  <2>5. QED
    BY <1>1, <2>1, <2>2, <2>3, <2>4, SportsTurns
<1>3. CASE ~feed.up
  <2>1. Raise("send") /\ feed' = NoFeed /\ sports' = Away
    BY <1>3 DEF ReplyPong
  <2>2. QED
    BY <1>1, <2>1, SportsRaises
<1>4. QED
  BY <1>2, <1>3

LEMMA SportsTimeoutOK ==
  ASSUME IInv, SportsTimeout, UNCHANGED <<rtdsVars, cut>>
  PROVE  IInv'
<1>1. /\ phase = "sports" /\ sports.at = "receive"
      /\ UNCHANGED <<games, gameFile, seenGames, stadium>>
      /\ sports' = [sports EXCEPT !.at = "top"] /\ UNCHANGED <<feed, processVars>>
  BY DEF SportsTimeout
<1>2. ProcessTypeOK' /\ budget' = budget /\ phase' = "sports"
  BY <1>1, GameFacts, ProcessStays
<1>3. feed' \in FeedLinks /\ feed'.up = feed.up /\ Len(feed'.wire) <= Len(feed.wire)
  BY <1>1, GameFacts
<1>4. QED
  BY <1>1, <1>2, <1>3, SportsMoves

LEMMA SportsLostOK ==
  ASSUME IInv, SportsLost, UNCHANGED <<rtdsVars, cut>>
  PROVE  IInv'
<1>1. /\ phase = "sports" /\ sports.at = "receive" /\ ~feed.up
      /\ UNCHANGED <<games, gameFile, seenGames, stadium>>
  BY DEF SportsLost
<1>2. CASE ClosedRaises = "ConnectionError"
  <2>1. sports' = [sports EXCEPT !.at = "reconnect"] /\ UNCHANGED <<feed, processVars>>
    BY <1>2 DEF SportsLost
  <2>2. ProcessTypeOK' /\ budget' = budget /\ phase' = "sports"
    BY <1>1, <2>1, GameFacts, ProcessStays
  <2>3. feed' \in FeedLinks /\ feed'.up = feed.up /\ Len(feed'.wire) <= Len(feed.wire)
    BY <2>1, GameFacts
  <2>4. QED
    BY <1>1, <2>1, <2>2, <2>3, SportsMoves
<1>3. CASE ClosedRaises # "ConnectionError"
  <2>1. Raise("recv") /\ feed' = NoFeed /\ sports' = Away
    BY <1>3 DEF SportsLost
  <2>2. QED
    BY <1>1, <2>1, SportsRaises
<1>4. QED
  BY <1>2, <1>3

LEMMA SportsReconnectOK ==
  ASSUME IInv, SportsReconnect, UNCHANGED <<rtdsVars, cut>>
  PROVE  IInv'
<1>1. /\ phase = "sports" /\ sports.at = "reconnect"
      /\ UNCHANGED <<games, gameFile, seenGames, stadium>>
  BY DEF SportsReconnect
<1>2. CASE /\ feed' = NewFeed /\ sports' = [sports EXCEPT !.at = "sleep", !.reconnects = @ + 1]
           /\ Await(Backoff(sports.reconnects + 1))
  <2>1. sports.reconnects \in Nat /\ sports.reconnects + 1 \in Nat \ {0}
    <3>1. sports.reconnects \in Nat
      BY GameFacts
    <3>2. QED
      BY <3>1
  <2>2. Backoff(sports.reconnects + 1) \in 0..(PingInterval + MaxBackoff)
    <3>1. Backoff(sports.reconnects + 1) \in 0..MaxBackoff
      BY <2>1, BackoffType
    <3>2. QED
      BY <3>1, FeedAssumption
  <2>3. ProcessTypeOK' /\ budget' = budget /\ phase' = "sports"
    BY <1>1, <1>2, <2>2, GameFacts, ProcessAwaits
  <2>4. /\ sports' \in SportsStates /\ sports'.at = "sleep" /\ sports'.accepted = sports.accepted
        /\ sports'.frames = sports.frames /\ sports'.reconnects = sports.reconnects + 1
    BY <1>2, <2>1, GameFacts DEF SportsStates
  <2>5. /\ feed' \in FeedLinks /\ feed'.up = TRUE /\ Len(feed'.wire) = 0
    BY <1>2, SportsStateFacts
  <2>6. sports.reconnects + 1 + budget.drops <= MaxDrops /\ ~feed.up
    BY <1>1 DEF IInv, GameSide, SportsControl
  <2>7. /\ sports'.reconnects + (IF feed'.up THEN 0 ELSE 1) + budget.drops <= MaxDrops
        /\ sports'.accepted <= sports.accepted /\ Len(feed'.wire) <= Len(feed.wire)
        /\ sports'.frames >= sports.frames
        /\ sports'.frames + Len(feed'.wire) <= sports.frames + Len(feed.wire)
    <3>1. /\ sports.accepted \in Nat /\ sports.frames \in Nat /\ Len(feed.wire) \in Nat
          /\ budget.drops \in Nat /\ MaxDrops \in Nat
      BY GameFacts
    <3>2. QED
      BY <2>1, <2>4, <2>5, <2>6, <3>1
  <2>8. QED
    BY <1>1, <2>3, <2>4, <2>5, <2>7, SportsGoesOn
<1>3. CASE Raise("connect") /\ feed' = NoFeed /\ sports' = Away
  BY <1>1, <1>3, SportsRaises
<1>4. QED
  BY <1>2, <1>3 DEF SportsReconnect

LEMMA SportsResumeOK ==
  ASSUME IInv, SportsResume, UNCHANGED <<rtdsVars, cut>>
  PROVE  IInv'
<1>1. /\ phase = "sports" /\ sports.at = "sleep"
      /\ UNCHANGED <<games, gameFile, seenGames, stadium>>
      /\ sports' = [sports EXCEPT !.at = "top"] /\ UNCHANGED <<feed, processVars>>
  BY DEF SportsResume
<1>2. ProcessTypeOK' /\ budget' = budget /\ phase' = "sports"
  BY <1>1, GameFacts, ProcessStays
<1>3. feed' \in FeedLinks /\ feed'.up = feed.up /\ Len(feed'.wire) <= Len(feed.wire)
  BY <1>1, GameFacts
<1>4. QED
  BY <1>1, <1>2, <1>3, SportsMoves

\* A frame that is accepted has a game id of the venue.
LEMMA GameOfType ==
  ASSUME NEW message \in GameMessages, message.kind # "ping"
  PROVE  /\ message.frame \in GameFrames /\ message.version \in 1..MaxMessages
         /\ AcceptsGame(message.frame) => message.frame.game \in Games
<1>1. message.frame \in GameFrames /\ message.version \in 1..MaxMessages
  BY DEF GameMessages
<1>2. ASSUME AcceptsGame(message.frame) PROVE message.frame.game \in Games
  BY <1>1, <1>2, SportsAssumption DEF AcceptsGame, ParsesAsGame, CanonicalLeague
<1>3. QED
  BY <1>1, <1>2

LEMMA SportsReceiveOK ==
  ASSUME IInv, SportsReceive, UNCHANGED <<rtdsVars, cut>>
  PROVE  IInv'
<1> DEFINE message == Head(feed.wire)
           row == [key |-> message.frame.game, version |-> message.version]
<1>1. /\ phase = "sports" /\ sports.at = "receive" /\ feed.wire # <<>>
      /\ feed' = [feed EXCEPT !.wire = Tail(@)]
      /\ UNCHANGED <<stadium, processVars>>
  BY DEF SportsReceive
<1>2. ProcessTypeOK' /\ budget' = budget /\ phase' = "sports"
  BY <1>1, GameFacts, ProcessStays
<1>3. /\ message \in GameMessages /\ feed' \in FeedLinks /\ feed'.up = feed.up
      /\ feed'.wire = Tail(feed.wire) /\ Len(feed'.wire) = Len(feed.wire) - 1
  <2>1. feed \in FeedLinks /\ feed.wire \in Seq(GameMessages)
    BY GameFacts DEF FeedLinks
  <2>2. /\ Head(feed.wire) \in GameMessages /\ Tail(feed.wire) \in Seq(GameMessages)
        /\ Len(Tail(feed.wire)) = Len(feed.wire) - 1
    BY <1>1, <2>1, HeadTailProperties
  <2>3. QED
    BY <1>1, <2>1, <2>2 DEF FeedLinks
<1>4. /\ Len(feed.wire) \in Nat /\ Len(feed'.wire) <= Len(feed.wire)
      /\ Len(feed'.wire) + 1 <= Len(feed.wire)
  <2>1. Len(feed.wire) \in Nat
    BY GameFacts
  <2>2. Len(feed'.wire) = Len(feed.wire) - 1
    BY <1>3
  <2>3. QED
    BY <2>1, <2>2
<1> HIDE DEF message
<1>5. CASE message.kind = "ping"
  <2>1. sports' = [sports EXCEPT !.at = "pong"] /\ UNCHANGED <<games, gameFile, seenGames>>
    BY <1>5 DEF SportsReceive, message
  <2>2. QED
    BY <1>1, <1>2, <1>3, <1>4, <2>1, SportsMoves
<1>6. CASE message.kind # "ping" /\ ~AcceptsGame(message.frame)
  <2>1. /\ sports' = [sports EXCEPT !.at = "top", !.frames = sports.frames + 1]
        /\ UNCHANGED <<games, gameFile, seenGames>>
    BY <1>6 DEF SportsReceive, message
  <2>2. sports \in SportsStates /\ sports.pongs \in Nat
    BY GameFacts
  <2>3. sports' = [sports EXCEPT !.at = "top", !.pongs = sports.pongs, !.frames = sports.frames + 1]
    BY <2>1, <2>2 DEF SportsStates
  <2>4. QED
    BY <1>1, <1>2, <1>3, <1>4, <2>1, <2>2, <2>3, SportsTurns
<1>7. CASE message.kind # "ping" /\ AcceptsGame(message.frame)
  <2>1. row \in GameRows /\ row.key \in Games /\ row.version \in 1..MaxMessages
    BY <1>3, <1>7, GameOfType DEF GameRows
  <2>2. /\ games' = PutRow(games, row) /\ gameFile' = TornFile
        /\ sports' = [sports EXCEPT !.at = "save", !.after = "top", !.frames = sports.frames + 1]
        /\ seenGames' = Remember(seenGames, row)
    BY <1>7 DEF SportsReceive, message
  <2> HIDE DEF row
  <2>3. /\ sports' \in SportsStates /\ sports'.at = "save" /\ sports'.after = "top"
        /\ sports'.accepted = sports.accepted /\ sports'.reconnects = sports.reconnects
        /\ sports'.frames = sports.frames + 1
    <3>1. sports \in SportsStates /\ sports.frames \in Nat
      BY GameFacts
    <3>2. sports.frames + 1 \in Nat
      BY <3>1
    <3>3. QED
      BY <2>2, <3>1, <3>2 DEF SportsStates
  <2>4. games' \in Seq(GameRows) /\ Unique(games')
    BY <2>1, <2>2, GameFacts, PutKeepsUnique
  <2>5. gameFile' \in Files(GameRows) /\ Unique(gameFile'.rows)
    BY <2>2, TornType
  <2>6. seenGames' \in [Games -> 0..MaxMessages]
    <3>1. seenGames \in [Games -> 0..MaxMessages] /\ row.version \in 0..MaxMessages
      <4>1. seenGames \in [Games -> 0..MaxMessages] /\ MaxMessages \in Nat
        BY GameFacts
      <4>2. row.version \in 0..MaxMessages
        BY <2>1, <4>1
      <4>3. QED
        BY <4>1, <4>2
    <3>2. seenGames' = [seenGames EXCEPT ![row.key] = row.version]
      BY <2>2 DEF Remember
    <3>3. QED
      BY <3>1, <3>2
  <2>7. SportsSound'
    <3>1. SportsPending = 0 /\ SportsPending' = 1
      BY <1>1, <2>3 DEF SportsPending
    <3>2. /\ Len(feed'.wire) <= MaxWire
          /\ sports'.accepted + SportsPending' <= sports'.frames
          /\ sports'.frames + Len(feed'.wire) + budget'.messages <= MaxMessages
      <4> DEFINE a == sports.accepted
                 f == sports.frames
                 b == Len(feed.wire)
                 y == Len(feed'.wire)
                 c == budget.messages
      <4>1. /\ a \in Nat /\ f \in Nat /\ b \in Nat /\ c \in Nat /\ MaxMessages \in Nat
            /\ MaxWire \in Nat /\ b <= MaxWire
            /\ a + SportsPending <= f /\ f + b + c <= MaxMessages
        BY GameFacts, FeedAssumption
      <4>2. y = b - 1
        BY <1>3, Zenon
      <4>3. sports'.accepted = a /\ sports'.frames = f + 1 /\ budget'.messages = c
        BY <1>2, <2>3
      <4> HIDE DEF a, f, b, y, c
      <4>4. y <= MaxWire /\ a + 1 <= f + 1 /\ f + 1 + y + c <= MaxMessages
        BY <3>1, <4>1, <4>2
      <4>5. y <= MaxWire /\ sports'.accepted + 1 <= sports'.frames
            /\ sports'.frames + y + budget'.messages <= MaxMessages
        BY <4>3, <4>4
      <4>6. QED
        BY <3>1, <4>5 DEF y
    <3>3. stadium' = stadium /\ stadium' \in Nat /\ stadium' + budget'.messages <= MaxMessages
      BY <1>1, <1>2, GameFacts
    <3>4. QED
      BY <1>3, <2>3, <2>4, <2>5, <2>6, <3>2, <3>3 DEF SportsSound
  <2>8. SportsControl'
    <3>1. sports.reconnects + (IF feed.up THEN 0 ELSE 1) + budget.drops <= MaxDrops
      BY <1>1 DEF IInv, GameSide, SportsControl
    <3>2. QED
      BY <1>2, <1>3, <2>3, <3>1 DEF SportsControl
  <2>9. GamesKept'
    <3>1. ~cut => Complete(games, seenGames)
      BY <1>1 DEF IInv, GameSide, GamesKept, GamesLoaded
    <3>2. seenGames \in [Games -> Nat] /\ row.version \in Nat \ {0}
      <4>1. seenGames \in [Games -> 0..MaxMessages] /\ 0..MaxMessages \subseteq Nat
        BY GameFacts
      <4>2. seenGames \in [Games -> Nat]
        BY <4>1
      <4>3. QED
        BY <2>1, <4>2
    <3>3. ~cut => Complete(games', seenGames')
      BY <2>1, <2>2, <3>1, <3>2, GameFacts, PutKeepsComplete
    <3>4. QED
      BY <1>2, <2>3, <3>3 DEF GamesKept, GamesUnread, GamesLoading, GamesLoaded
  <2>10. PrintSide'
    <3>1. Spends
      BY <1>2, GameFacts, SpendsNothing
    <3>2. QED
      BY <1>1, <1>2, <3>1, PrintsAside
  <2>11. QED
    BY <1>2, <2>7, <2>8, <2>9, <2>10, GameFacts DEF IInv, GameSide
<1>8. QED
  BY <1>5, <1>6, <1>7

LEMMA WriteGamesOK ==
  ASSUME IInv, WriteGames, UNCHANGED <<rtdsVars, cut>>
  PROVE  IInv'
<1>1. /\ phase \in {"load_games", "sports"} /\ sports.at = "save"
      /\ gameFile' = Saved(games)
      /\ sports' = [sports EXCEPT !.at = sports.after,
                !.accepted = IF sports.after = "top" THEN sports.accepted + 1 ELSE sports.accepted]
      /\ UNCHANGED <<feed, games, seenGames, stadium, processVars>>
  BY DEF WriteGames
<1>2. ProcessTypeOK' /\ budget' = budget /\ phase' = phase
  BY <1>1, GameFacts, ProcessStays
<1>3. /\ phase = "load_games" => /\ sports.after = "load" /\ sports.accepted = 0 /\ sports.reconnects = 0
                                  /\ sports.frames = 0 /\ feed = NoFeed
      /\ phase = "sports" => /\ sports.after = "top"
                              /\ sports.reconnects + (IF feed.up THEN 0 ELSE 1) + budget.drops <= MaxDrops
  BY <1>1 DEF IInv, GameSide, SportsControl
<1> DEFINE counted == IF sports.after = "top" THEN sports.accepted + 1 ELSE sports.accepted
<1>4. counted \in Nat /\ counted = sports.accepted + SportsPending
  BY <1>1, GameFacts DEF SportsPending
<1> HIDE DEF counted
<1>5. sports' = [sports EXCEPT !.at = sports.after, !.accepted = counted]
  BY <1>1 DEF counted
<1>6. sports.after \in {"load", "top"} /\ sports \in SportsStates
  BY <1>1, <1>3, GameFacts
<1>7. /\ sports' \in SportsStates /\ sports'.at = sports.after /\ sports'.accepted = counted
      /\ sports'.frames = sports.frames
      /\ sports'.reconnects = sports.reconnects /\ sports'.todo = sports.todo
  BY <1>4, <1>5, <1>6 DEF SportsStates
<1>8. SportsSound'
  <2>1. SportsPending' = 0
    BY <1>6, <1>7 DEF SportsPending
  <2>2. gameFile' \in Files(GameRows) /\ Unique(gameFile'.rows)
    BY <1>1, GameFacts DEF Saved, Files
  <2>3. sports'.accepted + SportsPending' <= sports'.frames
    <3>1. counted <= sports.frames
      BY <1>4, GameFacts
    <3>2. counted + 0 <= sports.frames
      BY <1>4, <3>1
    <3>3. QED
      BY <1>7, <2>1, <3>2
  <2>4. /\ sports'.frames + Len(feed'.wire) + budget'.messages <= MaxMessages
        /\ Len(feed'.wire) <= MaxWire /\ feed' \in FeedLinks
    BY <1>1, <1>2, <1>7, GameFacts
  <2>5. QED
    BY <1>1, <1>2, <1>7, <2>2, <2>3, <2>4, GameFacts DEF SportsSound
<1>9. SportsControl'
  <2>1. CASE phase = "load_games"
    BY <1>1, <1>2, <1>3, <1>4, <1>7, <2>1 DEF SportsControl, counted
  <2>2. CASE phase = "sports"
    BY <1>1, <1>2, <1>3, <1>7, <2>2 DEF SportsControl
  <2>3. QED
    BY <1>1, <2>1, <2>2
<1>10. GamesKept'
  <2>1. gameFile'.rows = games /\ gameFile'.state = "whole"
    BY <1>1 DEF Saved
  <2>2. /\ phase = "load_games" => /\ Unique(games \o sports.todo)
                                   /\ ~cut => Complete(games \o sports.todo, seenGames)
        /\ phase = "sports" /\ ~cut => Complete(games, seenGames)
    BY <1>1 DEF IInv, GameSide, GamesKept, GamesLoading, GamesLoaded
  <2>3. CASE phase = "load_games"
    <3>1. /\ sports'.at = "load" /\ phase' = "load_games" /\ games' = games /\ seenGames' = seenGames
          /\ cut' = cut
      BY <1>1, <1>2, <1>3, <1>7, <2>3
    <3>2. games' \o sports'.todo = games \o sports.todo
      BY <1>7, <3>1
    <3>3. /\ Unique(games' \o sports'.todo)
          /\ ~cut' => Complete(games' \o sports'.todo, seenGames')
      BY <2>2, <2>3, <3>1, <3>2
    <3>4. gameFile'.rows = games' /\ gameFile'.state = "whole"
      BY <2>1, <3>1
    <3>5. ~GamesUnread' /\ ~GamesLoaded'
      BY <3>1 DEF GamesUnread, GamesLoaded
    <3>6. QED
      BY <3>3, <3>4, <3>5 DEF GamesKept
  <2>4. CASE phase = "sports"
    BY <1>1, <1>2, <1>3, <1>7, <2>1, <2>2, <2>4 DEF GamesKept, GamesUnread, GamesLoading, GamesLoaded
  <2>5. QED
    BY <1>1, <2>3, <2>4
<1>11. PrintSide'
  <2>1. Spends
    BY <1>2, GameFacts, SpendsNothing
  <2>2. QED
    BY <1>1, <1>2, <2>1, PrintsAside
<1>12. QED
  BY <1>2, <1>8, <1>9, <1>10, <1>11, GameFacts DEF IInv, GameSide

LEMMA LoadGamesOK ==
  ASSUME IInv, LoadGames, UNCHANGED <<rtdsVars, cut>>
  PROVE  IInv'
<1>1. /\ phase = "load_games" /\ sports.at = "idle"
      /\ UNCHANGED <<feed, games, gameFile, seenGames, stadium>>
  BY DEF LoadGames
<1>2. sports = Away /\ feed = NoFeed /\ games = <<>>
  BY <1>1 DEF IInv, GameSide, SportsControl
<1>3. ~cut => gameFile.state # "torn" /\ Complete(gameFile.rows, seenGames)
  BY <1>1 DEF IInv, GameSide, GamesKept, GamesUnread
<1>4. gameFile \in Files(GameRows)
  BY GameFacts
<1>5. CASE gameFile.state = "torn" /\ Raise("file") /\ UNCHANGED sports
  <2>1. ProcessTypeOK' /\ budget' = budget
    BY <1>5, GameFacts, ProcessEnds DEF Causes, Phases
  <2>2. phase' = "down" /\ cut
    BY <1>3, <1>5 DEF Raise
  <2>3. SportsSound'
    BY <1>1, <1>5, <2>1 DEF IInv, GameSide, SportsSound, SportsPending
  <2>4. SportsControl'
    BY <1>1, <1>2, <1>5, <2>2 DEF SportsControl
  <2>5. GamesKept'
    BY <1>5, <2>2 DEF GamesKept, GamesLoading
  <2>6. PrintSide'
    BY <1>1, <2>1, <2>2, SpendsNothing, PrintsAside, GameFacts
  <2>7. QED
    BY <2>1, <2>3, <2>4, <2>5, <2>6, GameFacts DEF IInv, GameSide
<1>6. CASE gameFile.state = "absent" /\ phase' = "ready" /\ UNCHANGED <<sports, cause, clock, budget>>
  <2>1. ProcessTypeOK' /\ budget' = budget
    BY <1>6, GameFacts DEF ProcessTypeOK, clock, Phases
  <2>2. gameFile.rows = games
    BY <1>2, <1>4, <1>6 DEF Files
  <2>3. SportsSound'
    BY <1>1, <1>6, <2>1 DEF IInv, GameSide, SportsSound, SportsPending
  <2>4. SportsControl'
    BY <1>1, <1>2, <1>6 DEF SportsControl
  <2>5. GamesKept'
    BY <1>1, <1>3, <1>6, <2>2 DEF GamesKept, GamesUnread, GamesLoading, GamesLoaded
  <2>6. PrintSide'
    BY <1>1, <1>6, <2>1, SpendsNothing, PrintsAside, GameFacts
  <2>7. QED
    BY <2>1, <2>3, <2>4, <2>5, <2>6, GameFacts DEF IInv, GameSide
<1>7. CASE /\ gameFile.state = "whole" /\ UNCHANGED processVars
           /\ sports' = [sports EXCEPT !.at = "load", !.todo = gameFile.rows]
  <2>1. ProcessTypeOK' /\ budget' = budget /\ phase' = "load_games"
    BY <1>1, <1>7, GameFacts, ProcessStays
  <2>2. gameFile.rows \in Seq(GameRows)
    BY <1>4 DEF Files
  <2>3. /\ sports' \in SportsStates /\ sports'.at = "load" /\ sports'.accepted = 0 /\ sports'.reconnects = 0
        /\ sports'.frames = 0 /\ sports.frames = 0
        /\ sports'.todo = gameFile.rows /\ sports.at = "idle" /\ sports.accepted = 0
    BY <1>2, <1>7, <2>2, SportsStateFacts DEF SportsStates, Away
  <2>4. SportsSound'
    <3>1. SportsPending = 0 /\ SportsPending' = 0
      BY <2>3 DEF SportsPending
    <3>2. QED
      BY <1>1, <2>1, <2>3, <3>1 DEF IInv, GameSide, SportsSound
  <2>5. SportsControl'
    BY <1>1, <1>2, <2>1, <2>3 DEF SportsControl
  <2>6. games \o sports'.todo = gameFile.rows
    BY <1>2, <2>2, <2>3, ConcatEmptySeq
  <2>7. GamesKept'
    <3>1. Unique(gameFile.rows) /\ games' = <<>> /\ gameFile' = gameFile /\ seenGames' = seenGames
      BY <1>1, <1>2, GameFacts
    <3>2. games' \o sports'.todo = gameFile.rows
      BY <1>1, <2>6
    <3>3. QED
      BY <1>3, <2>1, <2>3, <3>1, <3>2 DEF GamesKept, GamesUnread, GamesLoading, GamesLoaded
  <2>8. PrintSide'
    BY <1>1, <2>1, SpendsNothing, PrintsAside, GameFacts
  <2>9. QED
    BY <2>1, <2>4, <2>5, <2>7, <2>8, GameFacts DEF IInv, GameSide
<1>8. QED
  BY <1>5, <1>6, <1>7 DEF LoadGames

LEMMA LoadGameOK ==
  ASSUME IInv, LoadGame, UNCHANGED <<rtdsVars, cut>>
  PROVE  IInv'
<1>1. /\ phase = "load_games" /\ sports.at = "load"
      /\ UNCHANGED <<feed, seenGames, stadium>>
  BY DEF LoadGame
<1>2. sports.accepted = 0 /\ sports.reconnects = 0 /\ sports.frames = 0 /\ feed = NoFeed
  BY <1>1 DEF IInv, GameSide, SportsControl
<1>3. /\ Unique(games \o sports.todo)
      /\ ~cut => /\ gameFile.state # "torn" /\ Complete(games \o sports.todo, seenGames)
                 /\ (games = <<>> /\ sports.todo = gameFile.rows) \/ gameFile.rows = games
  BY <1>1 DEF IInv, GameSide, GamesKept, GamesLoading
<1>4. sports.todo \in Seq(GameRows) /\ games \in Seq(GameRows)
  BY GameFacts DEF SportsStates
<1>5. CASE sports.todo = <<>>
  <2>1. sports' = Away /\ phase' = "ready" /\ UNCHANGED <<games, gameFile, cause, clock, budget>>
    BY <1>5 DEF LoadGame
  <2>2. ProcessTypeOK' /\ budget' = budget
    BY <2>1, GameFacts DEF ProcessTypeOK, clock, Phases
  <2>3. games \o sports.todo = games
    BY <1>4, <1>5, ConcatEmptySeq
  <2>4. ~cut => gameFile.rows = games /\ Complete(games, seenGames)
    BY <1>3, <1>5, <2>3
  <2>5. SportsSound'
    <3>1. /\ SportsPending = 0 /\ SportsPending' = 0 /\ sports' \in SportsStates /\ sports'.accepted = 0
          /\ sports'.frames = 0
      BY <1>1, <2>1, SportsStateFacts DEF SportsPending
    <3>2. QED
      BY <1>1, <1>2, <2>1, <3>1 DEF IInv, GameSide, SportsSound
  <2>6. SportsControl'
    BY <1>1, <1>2, <2>1 DEF SportsControl
  <2>7. GamesKept'
    BY <1>1, <1>3, <2>1, <2>4 DEF GamesKept, GamesUnread, GamesLoading, GamesLoaded
  <2>8. PrintSide'
    BY <1>1, <2>1, <2>2, SpendsNothing, PrintsAside, GameFacts
  <2>9. QED
    BY <2>2, <2>5, <2>6, <2>7, <2>8, GameFacts DEF IInv, GameSide
<1>6. CASE sports.todo # <<>>
  <2>1. /\ games' = PutRow(games, Head(sports.todo)) /\ gameFile' = TornFile
        /\ sports' = [sports EXCEPT !.at = "save", !.after = "load", !.todo = Tail(@)]
        /\ UNCHANGED processVars
    BY <1>6 DEF LoadGame
  <2>2. ProcessTypeOK' /\ budget' = budget /\ phase' = "load_games"
    BY <1>1, <2>1, GameFacts, ProcessStays
  <2>3. LoadStep(GameRows, games, sports.todo, games')
    BY <1>3, <1>4, <1>6, <2>1, LoadGives
  <2>4. /\ games' \in Seq(GameRows) /\ Tail(sports.todo) \in Seq(GameRows) /\ Unique(games')
        /\ games' \o Tail(sports.todo) = games \o sports.todo
    BY <2>3 DEF LoadStep
  <2>5. /\ sports' \in SportsStates /\ sports'.at = "save" /\ sports'.after = "load"
        /\ sports'.todo = Tail(sports.todo) /\ sports'.accepted = 0 /\ sports'.reconnects = 0
        /\ sports'.frames = 0
    BY <1>2, <2>1, <2>4, GameFacts DEF SportsStates
  <2>6. SportsSound'
    <3>1. SportsPending = 0 /\ SportsPending' = 0
      BY <1>1, <2>5 DEF SportsPending
    <3>2. gameFile' \in Files(GameRows) /\ Unique(gameFile'.rows)
      BY <2>1, TornType
    <3>3. QED
      BY <1>1, <1>2, <2>2, <2>4, <2>5, <3>1, <3>2 DEF IInv, GameSide, SportsSound
  <2>7. SportsControl'
    BY <1>1, <1>2, <2>2, <2>5 DEF SportsControl
  <2>8. GamesKept'
    <3>1. games' \o sports'.todo = games \o sports.todo
      BY <2>4, <2>5
    <3>2. QED
      BY <1>1, <1>3, <2>2, <2>5, <3>1 DEF GamesKept, GamesUnread, GamesLoading, GamesLoaded
  <2>9. PrintSide'
    BY <1>1, <2>2, SpendsNothing, PrintsAside, GameFacts
  <2>10. QED
    BY <2>2, <2>6, <2>7, <2>8, <2>9, GameFacts DEF IInv, GameSide
<1>7. QED
  BY <1>5, <1>6

\* The venue sends an update or a ping, in order.
LEMMA SportsSends ==
  ASSUME IInv, UNCHANGED <<rtdsVars, cut, sports, games, gameFile, seenGames>>,
         phase = "sports", feed.up, Len(feed.wire) < MaxWire, SpendMessage,
         NEW message \in GameMessages, feed' = [feed EXCEPT !.wire = Append(@, message)],
         NEW k \in {0, 1}, stadium' = stadium + k
  PROVE  IInv'
<1>1. /\ budget.messages > 0 /\ budget' = [budget EXCEPT !.messages = @ - 1]
      /\ UNCHANGED <<phase, cause, clock>>
  BY DEF SpendMessage
<1>2. /\ budget.messages \in Nat /\ budget.drops \in Nat /\ stadium \in Nat /\ MaxMessages \in Nat
      /\ Len(feed.wire) \in Nat /\ stadium + budget.messages <= MaxMessages
  BY GameFacts
<1>3. /\ budget' \in [crashes: 0..MaxCrashes, scans: 0..MaxScans, drops: 0..MaxDrops,
                      messages: 0..MaxMessages]
      /\ budget'.messages = budget.messages - 1 /\ budget'.drops = budget.drops
  <2>1. budget.messages - 1 \in 0..MaxMessages
    BY <1>1, <1>2
  <2>2. budget \in [crashes: 0..MaxCrashes, scans: 0..MaxScans, drops: 0..MaxDrops,
                    messages: 0..MaxMessages]
    BY GameFacts, BudgetNat
  <2>3. QED
    BY <1>1, <2>1, <2>2
<1>4. ProcessTypeOK'
  BY <1>1, <1>3, GameFacts DEF ProcessTypeOK, clock
<1>5. /\ feed' \in FeedLinks /\ feed'.up = feed.up /\ Len(feed'.wire) = Len(feed.wire) + 1
  <2>1. feed \in FeedLinks /\ feed.wire \in Seq(GameMessages)
    BY GameFacts DEF FeedLinks
  <2>2. /\ Append(feed.wire, message) \in Seq(GameMessages)
        /\ Len(Append(feed.wire, message)) = Len(feed.wire) + 1
    BY <2>1, AppendProperties
  <2>3. QED
    BY <2>1, <2>2 DEF FeedLinks
<1>6. SportsSound'
  <2>1. SportsPending' = SportsPending
    BY DEF SportsPending
  <2>2. /\ Len(feed'.wire) <= MaxWire
        /\ stadium' \in Nat /\ stadium' + budget'.messages <= MaxMessages
        /\ sports'.frames + Len(feed'.wire) + budget'.messages <= MaxMessages
    <3> DEFINE f == sports.frames
               b == Len(feed.wire)
               c == budget.messages
               s == stadium
    <3>1. /\ f \in Nat /\ b \in Nat /\ c \in Nat /\ s \in Nat /\ MaxMessages \in Nat /\ MaxWire \in Nat
          /\ b < MaxWire /\ s + c <= MaxMessages /\ f + b + c <= MaxMessages
      BY GameFacts, FeedAssumption
    <3>2. sports'.frames = f /\ Len(feed'.wire) = b + 1 /\ budget'.messages = c - 1 /\ stadium' = s + k
      BY <1>3, <1>5
    <3>3. c > 0
      BY <1>1
    <3> HIDE DEF f, b, c, s
    <3>4. b + 1 <= MaxWire /\ s + k \in Nat /\ s + k + (c - 1) <= MaxMessages
          /\ f + (b + 1) + (c - 1) <= MaxMessages
      BY <3>1, <3>3
    <3>5. QED
      BY <3>2, <3>4
  <2>3. QED
    BY <1>5, <2>1, <2>2, GameFacts DEF SportsSound
<1>7. SportsControl'
  <2>1. sports.at # "idle"
    BY SportsStateFacts DEF IInv, GameSide, SportsControl
  <2>2. QED
    BY <1>1, <1>3, <1>5, <2>1 DEF IInv, GameSide, SportsControl
<1>8. GamesKept'
  BY <1>1 DEF IInv, GameSide, GamesKept, GamesUnread, GamesLoading, GamesLoaded
<1>9. PrintSide'
  <2>1. budget'.messages <= budget.messages /\ budget'.drops <= budget.drops
    BY <1>2, <1>3
  <2>2. Spends
    BY <1>3, <2>1 DEF Spends
  <2>3. QED
    BY <1>1, <2>2, PrintsAside
<1>10. QED
  BY <1>4, <1>6, <1>7, <1>8, <1>9, GameFacts DEF IInv, GameSide

LEMMA UpdateOK ==
  ASSUME IInv, Update, UNCHANGED <<rtdsVars, cut>>
  PROVE  IInv'
<1>1. /\ phase = "sports" /\ feed.up /\ Len(feed.wire) < MaxWire /\ SpendMessage
      /\ stadium' = stadium + 1 /\ UNCHANGED <<sports, games, gameFile, seenGames>>
  BY DEF Update
<1>2. PICK f \in GameFrames :
        feed' = [feed EXCEPT !.wire = Append(@, [kind |-> "update", frame |-> f,
                                                       version |-> stadium + 1])]
  BY DEF Update
<1>3. stadium + 1 \in 1..MaxMessages
  <2>1. stadium \in Nat /\ budget.messages \in Nat /\ MaxMessages \in Nat
        /\ stadium + budget.messages <= MaxMessages
    BY GameFacts
  <2>2. budget.messages > 0
    BY <1>1 DEF SpendMessage
  <2>3. QED
    BY <2>1, <2>2
<1>4. [kind |-> "update", frame |-> f, version |-> stadium + 1] \in GameMessages
  BY <1>3 DEF GameMessages
<1>5. QED
  BY <1>1, <1>2, <1>4, SportsSends

LEMMA ServerPingOK ==
  ASSUME IInv, ServerPing, UNCHANGED <<rtdsVars, cut>>
  PROVE  IInv'
<1>1. /\ phase = "sports" /\ feed.up /\ Len(feed.wire) < MaxWire /\ SpendMessage
      /\ UNCHANGED <<sports, games, gameFile, seenGames, stadium>>
      /\ feed' = [feed EXCEPT !.wire = Append(@, [kind |-> "ping"])]
  BY DEF ServerPing
<1>2. stadium' = stadium + 0
  BY <1>1, GameFacts
<1>3. [kind |-> "ping"] \in GameMessages
  BY DEF GameMessages
<1>4. QED
  BY <1>1, <1>2, <1>3, SportsSends

LEMMA SportsDropOK ==
  ASSUME IInv, SportsDrop, UNCHANGED <<rtdsVars, cut>>
  PROVE  IInv'
<1>1. /\ phase = "sports" /\ feed.up /\ budget.drops > 0
      /\ budget' = [budget EXCEPT !.drops = @ - 1]
      /\ UNCHANGED <<sports, games, gameFile, seenGames, stadium, phase, cause, clock>>
  BY DEF SportsDrop
<1>2. PICK n \in 0..Len(feed.wire) : feed' = [up |-> FALSE, wire |-> SubSeq(feed.wire, 1, n)]
  BY DEF SportsDrop
<1>3. /\ budget.messages \in Nat /\ budget.drops \in Nat /\ MaxDrops \in Nat /\ Len(feed.wire) \in Nat
      /\ budget.drops <= MaxDrops /\ sports.reconnects \in Nat
  BY GameFacts
<1>4. /\ budget' \in [crashes: 0..MaxCrashes, scans: 0..MaxScans, drops: 0..MaxDrops,
                      messages: 0..MaxMessages]
      /\ budget'.messages = budget.messages /\ budget'.drops = budget.drops - 1
  <2>1. budget.drops - 1 \in 0..MaxDrops
    BY <1>1, <1>3
  <2>2. budget \in [crashes: 0..MaxCrashes, scans: 0..MaxScans, drops: 0..MaxDrops,
                    messages: 0..MaxMessages]
    BY GameFacts, BudgetNat
  <2>3. QED
    BY <1>1, <2>1, <2>2
<1>5. ProcessTypeOK'
  BY <1>1, <1>4, GameFacts DEF ProcessTypeOK, clock
<1>6. feed' \in FeedLinks /\ feed'.up = FALSE /\ Len(feed'.wire) = n
  <2>1. feed.wire \in Seq(GameMessages)
    BY GameFacts DEF FeedLinks
  <2>2. SubSeq(feed.wire, 1, n) \in Seq(GameMessages) /\ Len(SubSeq(feed.wire, 1, n)) = n
    BY <2>1, CutWire
  <2>3. QED
    BY <1>2, <2>2 DEF FeedLinks
<1>7. SportsSound'
  <2>1. SportsPending' = SportsPending
    BY <1>1 DEF SportsPending
  <2>2. /\ Len(feed'.wire) <= MaxWire
        /\ sports'.frames + Len(feed'.wire) + budget'.messages <= MaxMessages
    <3> DEFINE f == sports.frames
               b == Len(feed.wire)
               c == budget.messages
    <3>1. /\ f \in Nat /\ b \in Nat /\ c \in Nat /\ MaxMessages \in Nat /\ MaxWire \in Nat
          /\ b <= MaxWire /\ f + b + c <= MaxMessages
      BY GameFacts, FeedAssumption
    <3>2. sports'.frames = f /\ Len(feed'.wire) = n /\ budget'.messages = c /\ n \in 0..b
      BY <1>1, <1>2, <1>4, <1>6
    <3> HIDE DEF f, b, c
    <3>3. n <= MaxWire /\ f + n + c <= MaxMessages
      BY <3>1, <3>2
    <3>4. QED
      BY <3>2, <3>3
  <2>3. QED
    BY <1>1, <1>4, <1>6, <2>1, <2>2, GameFacts DEF SportsSound
<1>8. SportsControl'
  <2>1. sports.at # "idle"
    BY <1>1, SportsStateFacts DEF IInv, GameSide, SportsControl
  <2>2. sports.reconnects + 0 + budget.drops <= MaxDrops
    BY <1>1, <2>1 DEF IInv, GameSide, SportsControl
  <2>3. sports.reconnects + 1 + (budget.drops - 1) <= MaxDrops
    BY <1>3, <2>2
  <2>4. QED
    BY <1>1, <1>4, <1>6, <2>1, <2>3 DEF IInv, GameSide, SportsControl
<1>9. GamesKept'
  BY <1>1 DEF IInv, GameSide, GamesKept, GamesUnread, GamesLoading, GamesLoaded
<1>10. PrintSide'
  <2>1. budget'.messages <= budget.messages /\ budget'.drops <= budget.drops
    BY <1>3, <1>4
  <2>2. Spends
    BY <1>4, <2>1 DEF Spends
  <2>3. QED
    BY <1>1, <2>2, PrintsAside
<1>11. QED
  BY <1>5, <1>7, <1>8, <1>9, <1>10, GameFacts DEF IInv, GameSide

-----------------------------------------------------------------------------
(* The process *)

\* A step that moves neither reader.
LEMMA RunScanOK ==
  ASSUME IInv, RunScan
  PROVE  IInv'
<1>1. /\ phase = "ready" /\ budget.scans > 0 /\ budget' = [budget EXCEPT !.scans = @ - 1]
      /\ phase' \in {"rtds", "sports", "evaluate"}
      /\ UNCHANGED <<cause, clock, rtdsVars, sportsVars, cut>>
  BY DEF RunScan
<1>2. /\ budget' \in [crashes: 0..MaxCrashes, scans: 0..MaxScans, drops: 0..MaxDrops,
                      messages: 0..MaxMessages]
      /\ budget'.messages = budget.messages /\ budget'.drops = budget.drops
  <2>1. budget \in [crashes: 0..MaxCrashes, scans: 0..MaxScans, drops: 0..MaxDrops,
                    messages: 0..MaxMessages] /\ MaxScans \in Nat
    BY BudgetNat, FeedAssumption DEF IInv
  <2>2. budget.scans - 1 \in 0..MaxScans
    BY <1>1, <2>1
  <2>3. QED
    BY <1>1, <2>1, <2>2
<1>3. ProcessTypeOK'
  BY <1>1, <1>2 DEF IInv, ProcessTypeOK, clock, Phases
<1>4. Spends
  <2>1. budget'.messages <= budget.messages /\ budget'.drops <= budget.drops
    <3>1. budget.messages \in Nat /\ budget.drops \in Nat
      BY PrintFacts
    <3>2. QED
      BY <1>2, <3>1
  <2>2. QED
    BY <1>2, <2>1 DEF Spends
<1>5. PrintSide' /\ GameSide'
  BY <1>1, <1>4, PrintsAside, GamesAside
<1>6. QED
  BY <1>1, <1>3, <1>5 DEF IInv

LEMMA EvaluatedOK ==
  ASSUME IInv, Evaluated
  PROVE  IInv'
<1>1. /\ phase = "evaluate" /\ phase' = "ready" /\ budget' = budget
      /\ UNCHANGED <<cause, clock, rtdsVars, sportsVars, cut>>
  BY DEF Evaluated
<1>2. ProcessTypeOK' /\ Spends
  BY <1>1, SpendsNothing DEF IInv, ProcessTypeOK, clock, Phases
<1>3. PrintSide' /\ GameSide'
  BY <1>1, <1>2, PrintsAside, GamesAside
<1>4. QED
  BY <1>1, <1>2, <1>3 DEF IInv

\* The caches are created empty, and their files are not read yet.
LEMMA StartOK ==
  ASSUME IInv, Start
  PROVE  IInv'
<1>1. /\ phase = "down" /\ phase' = "load_twap" /\ cause' = "none"
      /\ prints' = <<>> /\ games' = <<>>
      /\ UNCHANGED <<clock, budget, rtds, link, printFile, seenPrints, venue,
                     sports, feed, gameFile, seenGames, stadium, cut>>
  BY DEF Start
<1>2. ProcessTypeOK'
  BY <1>1 DEF IInv, ProcessTypeOK, clock, Phases, Causes
<1>3. rtds = Idle /\ link = NoLink /\ sports = Away /\ feed = NoFeed
  BY <1>1 DEF IInv, PrintSide, RtdsControl, GameSide, SportsControl
<1>4. /\ <<>> \in Seq(PrintRows) /\ <<>> \in Seq(GameRows)
  BY EmptySeq
<1>5. Unique(<<>>)
  BY DEF Unique
<1>6. RtdsSound' /\ SportsSound'
  BY <1>1, <1>4, <1>5 DEF IInv, PrintSide, GameSide, RtdsSound, SportsSound, RtdsPending, SportsPending
<1>7. RtdsControl' /\ SportsControl'
  BY <1>1, <1>3, RtdsStateFacts, SportsStateFacts DEF RtdsControl, SportsControl
<1>8. /\ ~cut => /\ printFile.state # "torn" /\ gameFile.state # "torn"
                 /\ Complete(printFile.rows, seenPrints) /\ Complete(gameFile.rows, seenGames)
  BY <1>1, <1>3, RtdsStateFacts, SportsStateFacts
     DEF IInv, PrintSide, GameSide, PrintsKept, GamesKept, PrintsUnread, GamesUnread
<1>9. PrintsKept'
  BY <1>1, <1>3, <1>8, RtdsStateFacts DEF PrintsKept, PrintsUnread, PrintsLoading, PrintsLoaded
<1>10. GamesKept'
  BY <1>1, <1>3, <1>8, SportsStateFacts DEF GamesKept, GamesUnread, GamesLoading, GamesLoaded
<1>11. QED
  BY <1>1, <1>2, <1>6, <1>7, <1>9, <1>10 DEF IInv, PrintSide, GameSide

\* A crash that cuts neither a load nor a write leaves both files as the caches were.
LEMMA CrashOK ==
  ASSUME IInv, Crash
  PROVE  IInv'
<1>1. /\ phase # "down" /\ budget.crashes > 0
      /\ phase' = "down" /\ cause' = "crash" /\ elapsed' = 0 /\ wait' = 0
      /\ budget' = [budget EXCEPT !.crashes = @ - 1]
      /\ rtds' = Idle /\ link' = NoLink /\ prints' = <<>>
      /\ sports' = Away /\ feed' = NoFeed /\ games' = <<>>
      /\ cut' = (cut \/ Loading \/ Writing)
      /\ UNCHANGED <<printFile, seenPrints, venue, gameFile, seenGames, stadium>>
  BY DEF Crash
<1>2. /\ budget' \in [crashes: 0..MaxCrashes, scans: 0..MaxScans, drops: 0..MaxDrops,
                      messages: 0..MaxMessages]
      /\ budget'.messages = budget.messages /\ budget'.drops = budget.drops
  <2>1. budget \in [crashes: 0..MaxCrashes, scans: 0..MaxScans, drops: 0..MaxDrops,
                    messages: 0..MaxMessages] /\ MaxCrashes \in Nat
    BY BudgetNat, FeedAssumption DEF IInv
  <2>2. budget.crashes - 1 \in 0..MaxCrashes
    BY <1>1, <2>1
  <2>3. QED
    BY <1>1, <2>1, <2>2
<1>3. ProcessTypeOK'
  <2>1. 0 \in 0..CollectSeconds /\ 0 \in 0..(PingInterval + MaxBackoff)
    BY FeedAssumption
  <2>2. QED
    BY <1>1, <1>2, <2>1 DEF ProcessTypeOK, Phases, Causes
<1>4. cut' \in BOOLEAN
  BY <1>1 DEF IInv, Loading, Writing
<1>5. <<>> \in Seq(PrintRows) /\ <<>> \in Seq(GameRows) /\ Unique(<<>>)
  BY EmptySeq DEF Unique
<1>6. RtdsSound'
  <2>1. RtdsPending' = 0
    BY <1>1, RtdsStateFacts DEF RtdsPending
  <2>2. /\ budget.messages \in Nat /\ MaxMessages \in Nat /\ venue \in Nat /\ budget.messages <= MaxMessages
        /\ MaxWire \in Nat
    BY PrintFacts, BudgetNat, FeedAssumption DEF IInv
  <2>3. /\ rtds'.accepted = 0 /\ Len(link'.wire) = 0 /\ rtds' \in RtdsStates /\ link' \in Links
    BY <1>1, RtdsStateFacts
  <2>4. 0 + 0 + 0 + budget.messages <= MaxMessages /\ 0 <= MaxWire
    BY <2>2
  <2>5. /\ rtds'.accepted + RtdsPending' + Len(link'.wire) + budget'.messages <= MaxMessages
        /\ Len(link'.wire) <= MaxWire
    BY <1>2, <2>1, <2>3, <2>4
  <2>6. venue' \in Nat /\ venue' + budget'.messages <= MaxMessages
    BY <1>1, <1>2, PrintFacts
  <2>7. QED
    BY <1>1, <1>5, <2>3, <2>5, <2>6, PrintFacts DEF RtdsSound
<1>7. SportsSound'
  <2>1. SportsPending' = 0
    BY <1>1, SportsStateFacts DEF SportsPending
  <2>2. /\ budget.messages \in Nat /\ MaxMessages \in Nat /\ stadium \in Nat /\ budget.messages <= MaxMessages
        /\ MaxWire \in Nat
    BY GameFacts, BudgetNat, FeedAssumption DEF IInv
  <2>3. /\ sports'.accepted = 0 /\ sports'.frames = 0 /\ Len(feed'.wire) = 0
        /\ sports' \in SportsStates /\ feed' \in FeedLinks
    BY <1>1, SportsStateFacts
  <2>4. 0 + 0 + budget.messages <= MaxMessages /\ 0 <= MaxWire /\ 0 + 0 <= 0
    BY <2>2
  <2>5. /\ sports'.frames + Len(feed'.wire) + budget'.messages <= MaxMessages
        /\ sports'.accepted + SportsPending' <= sports'.frames /\ Len(feed'.wire) <= MaxWire
    BY <1>2, <2>1, <2>3, <2>4
  <2>6. stadium' \in Nat /\ stadium' + budget'.messages <= MaxMessages
    BY <1>1, <1>2, GameFacts
  <2>7. QED
    BY <1>1, <1>5, <2>3, <2>5, <2>6, GameFacts DEF SportsSound
<1>8. RtdsControl' /\ SportsControl'
  BY <1>1, RtdsStateFacts, SportsStateFacts DEF RtdsControl, SportsControl
<1>9. PrintsKept'
  <2>1. CASE cut'
    BY <1>1, <2>1 DEF PrintsKept, PrintsLoading
  <2>2. CASE ~cut'
    <3>1. ~cut /\ phase \notin {"load_twap", "load_games"} /\ rtds.at # "save"
      BY <1>1, <2>2 DEF Loading, Writing
    <3>2. printFile.state # "torn" /\ Complete(printFile.rows, seenPrints)
      BY <1>1, <3>1 DEF IInv, PrintSide, PrintsKept, PrintsLoaded
    <3>3. QED
      BY <1>1, <3>2 DEF PrintsKept, PrintsUnread, PrintsLoading, PrintsLoaded
  <2>3. QED
    BY <2>1, <2>2
<1>10. GamesKept'
  <2>1. CASE cut'
    BY <1>1, <2>1 DEF GamesKept, GamesLoading
  <2>2. CASE ~cut'
    <3>1. ~cut /\ phase \notin {"load_twap", "load_games"} /\ sports.at # "save"
      BY <1>1, <2>2 DEF Loading, Writing
    <3>2. gameFile.state # "torn" /\ Complete(gameFile.rows, seenGames)
      BY <1>1, <3>1 DEF IInv, GameSide, GamesKept, GamesLoaded
    <3>3. QED
      BY <1>1, <3>2 DEF GamesKept, GamesUnread, GamesLoading, GamesLoaded
  <2>3. QED
    BY <2>1, <2>2
<1>11. QED
  BY <1>3, <1>4, <1>6, <1>7, <1>8, <1>9, <1>10 DEF IInv, PrintSide, GameSide

\* A step that leaves the process, both readers and the history alone but for the clock.
LEMMA NothingMoves ==
  ASSUME IInv, UNCHANGED <<phase, budget, rtdsVars, sportsVars, cut>>, ProcessTypeOK'
  PROVE  IInv'
<1>1. PrintSide'
  BY DEF IInv, PrintSide, RtdsSound, RtdsControl, PrintsKept, PrintsUnread, PrintsLoading,
         PrintsLoaded, RtdsPending, rtdsVars
<1>2. GameSide'
  BY DEF IInv, GameSide, SportsSound, SportsControl, GamesKept, GamesUnread, GamesLoading,
         GamesLoaded, SportsPending, sportsVars
<1>3. QED
  BY <1>1, <1>2 DEF IInv

LEMMA TickOK ==
  ASSUME IInv, TimeStep
  PROVE  IInv'
<1>1. /\ elapsed < CollectSeconds \/ wait > 0
      /\ elapsed' = IF elapsed < CollectSeconds THEN elapsed + 1 ELSE elapsed
      /\ wait' = IF wait > 0 THEN wait - 1 ELSE 0
      /\ UNCHANGED <<phase, cause, budget, rtdsVars, sportsVars, cut>>
  BY DEF TimeStep, Tick
<1>2. elapsed \in 0..CollectSeconds /\ wait \in 0..(PingInterval + MaxBackoff)
  BY DEF IInv, ProcessTypeOK
<1>3. elapsed' \in 0..CollectSeconds /\ wait' \in 0..(PingInterval + MaxBackoff)
  BY <1>1, <1>2, FeedAssumption
<1>4. ProcessTypeOK'
  BY <1>1, <1>3 DEF IInv, ProcessTypeOK
<1>5. QED
  BY <1>1, <1>4, NothingMoves

-----------------------------------------------------------------------------
(* The theorems *)

LEMMA InitIInv == Init => IInv
<1> SUFFICES ASSUME Init PROVE IInv
  OBVIOUS
<1>1. /\ phase = "down" /\ cause = "none" /\ elapsed = 0 /\ wait = 0 /\ cut = FALSE
      /\ budget = [crashes |-> MaxCrashes, scans |-> MaxScans, drops |-> MaxDrops,
                    messages |-> MaxMessages]
      /\ rtds = Idle /\ link = NoLink /\ prints = <<>> /\ printFile = NoFile
      /\ seenPrints = [k \in PrintKeys |-> 0] /\ venue = 0
      /\ sports = Away /\ feed = NoFeed /\ games = <<>> /\ gameFile = NoFile
      /\ seenGames = [g \in Games |-> 0] /\ stadium = 0
  BY DEF Init, RtdsInit, SportsInit
<1>2. /\ MaxMessages \in Nat /\ MaxScans \in Nat /\ MaxDrops \in Nat /\ MaxCrashes \in Nat
      /\ MaxWire \in Nat /\ 0 \in 0..CollectSeconds /\ 0 \in 0..(PingInterval + MaxBackoff)
  BY FeedAssumption
<1>3. budget.messages = MaxMessages /\ budget.drops = MaxDrops
  BY <1>1
<1>4. ProcessTypeOK
  BY <1>1, <1>2 DEF ProcessTypeOK, Phases, Causes
<1>5. /\ <<>> \in Seq(PrintRows) /\ <<>> \in Seq(GameRows) /\ Unique(<<>>)
      /\ NoFile \in Files(PrintRows) /\ NoFile \in Files(GameRows) /\ Unique(NoFile.rows)
      /\ NoFile.state # "torn" /\ NoFile.rows = <<>>
  BY EmptySeq, TornType DEF Unique, NoFile
<1>6. RtdsPending = 0 /\ SportsPending = 0
  BY <1>1, RtdsStateFacts, SportsStateFacts DEF RtdsPending, SportsPending
<1>7. /\ 0 + 0 + 0 + MaxMessages <= MaxMessages /\ 0 + 0 + MaxMessages <= MaxMessages
      /\ 0 + MaxMessages <= MaxMessages /\ 0 <= MaxWire /\ 0 + 0 <= 0 /\ 0 \in 0..MaxMessages
  BY <1>2
<1>8. RtdsSound
  <2>1. /\ rtds.accepted + RtdsPending + Len(link.wire) + budget.messages <= MaxMessages
        /\ Len(link.wire) <= MaxWire /\ venue \in Nat /\ venue + budget.messages <= MaxMessages
    BY <1>1, <1>3, <1>6, <1>7, RtdsStateFacts
  <2>2. seenPrints \in [PrintKeys -> 0..MaxMessages]
    BY <1>1, <1>7
  <2>3. QED
    BY <1>1, <1>5, <2>1, <2>2, RtdsStateFacts DEF RtdsSound
<1>9. SportsSound
  <2>1. /\ sports.frames + Len(feed.wire) + budget.messages <= MaxMessages
        /\ sports.accepted + SportsPending <= sports.frames
        /\ Len(feed.wire) <= MaxWire /\ stadium \in Nat /\ stadium + budget.messages <= MaxMessages
    BY <1>1, <1>3, <1>6, <1>7, SportsStateFacts
  <2>2. seenGames \in [Games -> 0..MaxMessages]
    BY <1>1, <1>7
  <2>3. QED
    BY <1>1, <1>5, <2>1, <2>2, SportsStateFacts DEF SportsSound
<1>10. RtdsControl /\ SportsControl
  BY <1>1 DEF RtdsControl, SportsControl
<1>11. Complete(<<>>, seenPrints) /\ Complete(<<>>, seenGames)
  BY <1>1 DEF Complete
<1>12. PrintsKept
  BY <1>1, <1>5, <1>11 DEF PrintsKept, PrintsUnread, PrintsLoading, PrintsLoaded
<1>13. GamesKept
  BY <1>1, <1>5, <1>11 DEF GamesKept, GamesUnread, GamesLoading, GamesLoaded
<1>14. QED
  BY <1>1, <1>4, <1>8, <1>9, <1>10, <1>12, <1>13 DEF IInv, PrintSide, GameSide

LEMMA NextIInv == IInv /\ [Next]_vars => IInv'
<1> SUFFICES ASSUME IInv, [Next]_vars PROVE IInv'
  OBVIOUS
<1>1. CASE RtdsStep /\ UNCHANGED <<sportsVars, cut>>
  BY <1>1, LoadPrintsOK, LoadPrintOK, WritePrintsOK, RtdsConnectOK, SubscribeOK, RtdsTopOK,
     IngestOK, HeartbeatOK, RtdsLostOK, ReconnectOK, ResubscribeOK DEF RtdsStep
<1>2. CASE SportsStep /\ UNCHANGED <<rtdsVars, cut>>
  BY <1>2, LoadGamesOK, LoadGameOK, WriteGamesOK, SportsConnectOK, SportsTopOK, SportsReceiveOK,
     ReplyPongOK, SportsTimeoutOK, SportsLostOK, SportsReconnectOK, SportsResumeOK DEF SportsStep
<1>3. CASE RunScan \/ Evaluated
  BY <1>3, RunScanOK, EvaluatedOK
<1>4. CASE (Publish \/ RtdsDrop) /\ UNCHANGED <<sportsVars, cut>>
  BY <1>4, PublishOK, RtdsDropOK
<1>5. CASE (Update \/ ServerPing \/ SportsDrop) /\ UNCHANGED <<rtdsVars, cut>>
  BY <1>5, UpdateOK, ServerPingOK, SportsDropOK
<1>6. CASE Start \/ Crash
  BY <1>6, StartOK, CrashOK
<1>7. CASE TimeStep
  BY <1>7, TickOK
<1>8. CASE UNCHANGED vars
  <2>1. ProcessTypeOK'
    BY <1>8 DEF IInv, ProcessTypeOK, vars, processVars, clock
  <2>2. QED
    BY <1>8, <2>1, NothingMoves DEF vars, processVars
<1>9. QED
  BY <1>1, <1>2, <1>3, <1>4, <1>5, <1>6, <1>7, <1>8 DEF Next, ProcessStep, Environment

LEMMA IInvHolds == Spec => []IInv
  BY InitIInv, NextIInv, PTL DEF Spec

\* A cache with one row per key, as the type invariants say it.
LEMMA UniqueRows ==
  ASSUME NEW R, NEW rows \in Seq(R), Unique(rows)
  PROVE  Range(rows) \subseteq R /\ IsInjective([i \in DOMAIN rows |-> rows[i].key])
<1>1. DOMAIN rows = 1..Len(rows) /\ \A i \in 1..Len(rows) : rows[i] \in R
  BY ElementOfSeq, LenProperties
<1>2. Range(rows) \subseteq R
  BY <1>1 DEF Range
<1>3. IsInjective([i \in DOMAIN rows |-> rows[i].key])
  BY DEF IsInjective, Unique
<1>4. QED
  BY <1>2, <1>3

\* The invariant has the types of both readers in it.
LEMMA IInvTypes ==
  ASSUME IInv
  PROVE  TypeOK
<1>1. RtdsTypeOK
  <2>1. /\ rtds.at \in {"idle", "load", "subscribe", "top", "receive", "reconnect", "sleep", "save"}
        /\ rtds.after \in {"idle", "load", "top"}
        /\ link.up \in BOOLEAN /\ link.subscribed \in BOOLEAN /\ Len(link.wire) <= MaxWire
    BY PrintFacts DEF RtdsStates, Links
  <2>2. rtds.accepted \in 0..MaxMessages /\ venue \in 0..MaxMessages
    <3> DEFINE a == rtds.accepted
               b == Len(link.wire)
               c == budget.messages
               p == RtdsPending
    <3>1. /\ a \in Nat /\ b \in Nat /\ c \in Nat /\ p \in Nat /\ MaxMessages \in Nat
          /\ a + p + b + c <= MaxMessages /\ venue \in Nat /\ venue + c <= MaxMessages
      BY PrintFacts, Zenon
    <3> HIDE DEF a, b, c, p
    <3>2. a \in 0..MaxMessages /\ venue \in 0..MaxMessages
      BY <3>1
    <3>3. QED
      BY <3>2 DEF a
  <2>3. rtds.reconnects \in 0..MaxDrops
    <3>1. /\ rtds.reconnects \in Nat /\ budget.drops \in Nat /\ MaxDrops \in Nat /\ Idle.reconnects = 0
      BY PrintFacts, RtdsStateFacts
    <3>2. rtds.reconnects = 0 \/ rtds.reconnects + (IF link.up THEN 0 ELSE 1) + budget.drops <= MaxDrops
      BY <3>1 DEF IInv, PrintSide, RtdsControl
    <3>3. QED
      BY <3>1, <3>2
  <2>4. Range(prints) \subseteq PrintRows /\ IsInjective([i \in DOMAIN prints |-> prints[i].key])
    BY PrintFacts, UniqueRows
  <2>5. printFile.state \in {"absent", "torn", "whole"} /\ Range(printFile.rows) \subseteq PrintRows
    <3>1. printFile.state \in {"absent", "torn", "whole"} /\ printFile.rows \in Seq(PrintRows)
      BY PrintFacts DEF Files
    <3>2. Unique(printFile.rows)
      BY PrintFacts
    <3>3. QED
      BY <3>1, <3>2, UniqueRows
  <2>6. QED
    BY <2>1, <2>2, <2>3, <2>4, <2>5 DEF RtdsTypeOK
<1>2. SportsTypeOK
  <2>1. /\ sports.at \in {"idle", "load", "top", "receive", "pong", "reconnect", "sleep", "save"}
        /\ feed.up \in BOOLEAN /\ Len(feed.wire) <= MaxWire
    BY GameFacts DEF SportsStates, FeedLinks
  <2>2. /\ sports.accepted <= sports.frames /\ sports.frames <= MaxMessages
        /\ stadium \in 0..MaxMessages
    <3> DEFINE a == sports.accepted
               f == sports.frames
               b == Len(feed.wire)
               c == budget.messages
               p == SportsPending
    <3>1. /\ a \in Nat /\ f \in Nat /\ b \in Nat /\ c \in Nat /\ p \in Nat /\ MaxMessages \in Nat
          /\ a + p <= f /\ f + b + c <= MaxMessages
          /\ stadium \in Nat /\ stadium + c <= MaxMessages
      BY GameFacts, Zenon
    <3> HIDE DEF a, f, b, c, p
    <3>2. a <= f /\ f <= MaxMessages /\ stadium \in 0..MaxMessages
      BY <3>1
    <3>3. QED
      BY <3>2 DEF a, f
  <2>3. sports.reconnects \in 0..MaxDrops
    <3>1. /\ sports.reconnects \in Nat /\ budget.drops \in Nat /\ MaxDrops \in Nat /\ Away.reconnects = 0
      BY GameFacts, SportsStateFacts
    <3>2. sports.reconnects = 0 \/ sports.reconnects + (IF feed.up THEN 0 ELSE 1) + budget.drops <= MaxDrops
      BY <3>1 DEF IInv, GameSide, SportsControl
    <3>3. QED
      BY <3>1, <3>2
  <2>4. Range(games) \subseteq GameRows /\ IsInjective([i \in DOMAIN games |-> games[i].key])
    BY GameFacts, UniqueRows
  <2>5. gameFile.state \in {"absent", "torn", "whole"} /\ Range(gameFile.rows) \subseteq GameRows
    <3>1. gameFile.state \in {"absent", "torn", "whole"} /\ gameFile.rows \in Seq(GameRows)
      BY GameFacts DEF Files
    <3>2. Unique(gameFile.rows)
      BY GameFacts
    <3>3. QED
      BY <3>1, <3>2, UniqueRows
  <2>6. QED
    BY <2>1, <2>2, <2>3, <2>4, <2>5 DEF SportsTypeOK
<1>3. QED
  BY <1>1, <1>2 DEF IInv, TypeOK

\* The readers, the caches and the files stay in their types: no cache ever has two
\* rows of a key, no reader counts more frames than the venue sent, and no reader
\* reconnects more often than it lost a connection.
THEOREM TypeCorrect == Spec => []TypeOK
<1>1. IInv => TypeOK
  BY IInvTypes
<1>2. QED
  BY <1>1, IInvHolds, PTL

\* put, load and save of both caches together forget nothing: unless a crash cut a load
\* or a write short, every accepted print and game update is in the cache while the
\* process runs and in the file when it is down, for any number of scans and restarts.
THEOREM RememberedCorrect == Spec => []NothingForgotten
<1>1. IInv => NothingForgotten
  BY DEF IInv, PrintSide, GameSide, PrintsKept, GamesKept, PrintsUnread, PrintsLoaded,
         GamesUnread, GamesLoaded, NothingForgotten
<1>2. QED
  BY <1>1, IInvHolds, PTL
=============================================================================
