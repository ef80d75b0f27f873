---- MODULE ProxyRouterProofs ----
(***************************************************************************)
(* Proofs about ProxyRouter, for any number of jobs, proxies and hosts, of *)
(* calls, faults and restarts, and any capacity of the writer's channel.   *)
(***************************************************************************)
EXTENDS ProxyRouter, WellFoundedInduction, SequenceTheorems, TLAPS

(* What operations leave in a table. *)

LEMMA NatMin == ASSUME NEW T, T \subseteq Nat, T # {}
                PROVE  \E x \in T : \A y \in T : x <= y
  <1> DEFINE R == OpToRel(<, Nat)
  <1>1. PICK x \in T : \A y \in T : ~ (<<y, x>> \in R)
    <2>1. IsWellFoundedOn(R, Nat)
      BY NatLessThanWellFounded
    <2> HIDE DEF R
    <2> QED BY <2>1, WFMin
  <1>2. R = {s \in Nat \X Nat : s[1] < s[2]}
    BY DEF OpToRel
  <1> HIDE DEF R
  <1>3. ASSUME NEW y \in T PROVE x <= y
    <2>1. <<y, x>> \notin R /\ y \in Nat /\ x \in Nat
      BY <1>1
    <2>2. ~ (y < x)
      BY <1>2, <2>1
    <2> QED BY <2>1, <2>2
  <1> QED BY <1>3

\* A set of positions has a last one.
LEMMA Last == ASSUME NEW L \in Nat, NEW T, T \subseteq 1 .. L, T # {}
              PROVE  \E n \in T : \A m \in T : m <= n
  <1> DEFINE U == {L - n : n \in T}
  <1>1. U \subseteq Nat /\ U # {}
    <2>1. ASSUME NEW n \in T PROVE L - n \in Nat
      OBVIOUS
    <2> QED BY <2>1
  <1>2. PICK x \in U : \A y \in U : x <= y
    <2> HIDE DEF U
    <2> QED BY <1>1, NatMin
  <1>3. PICK n \in T : x = L - n
    BY <1>2
  <1>4. \A m \in T : L - n <= L - m
    BY <1>2, <1>3
  <1> QED BY <1>4

\* Rows of any table in operations of any kind, packed or not.
Entry == [key : Proxies \cup Hosts, value : Row \cup [folded : Nat, until : Int] \cup Proxies]
Posted == [kind : {"scores", "pins"}, rows : Seq(Entry)]

\* Row i of operation n is one for key k of a table, and the last one.
RowFor(ops, kind, k, n, i) ==
    /\ n \in DOMAIN ops
    /\ ops[n].kind = kind
    /\ i \in DOMAIN ops[n].rows
    /\ ops[n].rows[i].key = k

LastAt(ops, kind, k, n, i) ==
    /\ RowFor(ops, kind, k, n, i)
    /\ \A j \in i + 1 .. Len(ops[n].rows) : ops[n].rows[j].key # k
    /\ \A m \in n + 1 .. Len(ops) : ~Has(ops[m], kind, k)

LEMMA PostedTypes ==
    ASSUME NEW ops \in Seq(Posted)
    PROVE  /\ Len(ops) \in Nat /\ DOMAIN ops = 1 .. Len(ops)
           /\ \A n \in 1 .. Len(ops) :
                /\ ops[n] \in Posted /\ ops[n].rows \in Seq(Entry) /\ Len(ops[n].rows) \in Nat
                /\ DOMAIN ops[n].rows = 1 .. Len(ops[n].rows)
  <1>1. ASSUME NEW n \in 1 .. Len(ops)
        PROVE  /\ ops[n] \in Posted /\ ops[n].rows \in Seq(Entry) /\ Len(ops[n].rows) \in Nat
               /\ DOMAIN ops[n].rows = 1 .. Len(ops[n].rows)
    <2>1. ops[n] \in Posted
      BY ElementOfSeq
    <2>2. ops[n].rows \in Seq(Entry)
      BY <2>1 DEF Posted
    <2> QED
      BY <2>1, <2>2, LenProperties
  <1> QED
    BY <1>1, LenProperties

LEMMA AfterIs ==
    ASSUME NEW old, NEW ops \in Seq(Posted), NEW kind, NEW k, NEW n, NEW i,
           LastAt(ops, kind, k, n, i)
    PROVE  After(old, ops, kind, k) = ops[n].rows[i].value
  <1>1. n \in DOMAIN ops /\ Has(ops[n], kind, k)
    BY DEF LastAt, RowFor, Has, Keys
  <1>2. LastWith(ops, kind, k) = n
    <2>1. ASSUME NEW m \in DOMAIN ops, Has(ops[m], kind, k),
                 \A l \in m + 1 .. Len(ops) : ~Has(ops[l], kind, k)
          PROVE  m = n
      <3>1. \A l \in n + 1 .. Len(ops) : ~Has(ops[l], kind, k)
        BY DEF LastAt
      <3>2. Len(ops) \in Nat /\ m \in 1 .. Len(ops) /\ n \in 1 .. Len(ops)
        BY <1>1, PostedTypes
      <3>3. ~ (m < n) /\ ~ (n < m)
        BY <1>1, <2>1, <3>1, <3>2
      <3> QED
        BY <3>2, <3>3
    <2>2. \A l \in n + 1 .. Len(ops) : ~Has(ops[l], kind, k)
      BY DEF LastAt
    <2> QED
      BY <1>1, <2>1, <2>2 DEF LastWith
  <1>3. LastRow(ops[n].rows, k) = i
    <2> DEFINE rows == ops[n].rows
    <2>1. Len(rows) \in Nat /\ DOMAIN rows = 1 .. Len(rows)
      BY <1>1, PostedTypes
    <2>2. i \in 1 .. Len(rows) /\ rows[i].key = k /\ \A j \in i + 1 .. Len(rows) : rows[j].key # k
      BY <2>1 DEF LastAt, RowFor
    <2> HIDE DEF rows
    <2>3. ASSUME NEW j \in DOMAIN rows, rows[j].key = k,
                 \A l \in j + 1 .. Len(rows) : rows[l].key # k
          PROVE  j = i
      <3>1. ~ (j < i) /\ ~ (i < j)
        BY <2>1, <2>2, <2>3
      <3> QED
        BY <2>1, <2>2, <3>1
    <2>4. LastRow(rows, k) = i
      BY <2>1, <2>2, <2>3 DEF LastRow
    <2> QED
      BY <2>4 DEF rows
  <1> QED
    BY <1>1, <1>2, <1>3 DEF After

LEMMA AfterNone ==
    ASSUME NEW old, NEW ops, NEW kind, NEW k, \A n \in DOMAIN ops : ~Has(ops[n], kind, k)
    PROVE  After(old, ops, kind, k) = old
  BY DEF After

LEMMA LastExists ==
    ASSUME NEW ops \in Seq(Posted), NEW kind, NEW k,
           \E n \in DOMAIN ops : Has(ops[n], kind, k)
    PROVE  \E n \in 1 .. Len(ops) : \E i \in 1 .. Len(ops[n].rows) : LastAt(ops, kind, k, n, i)
  <1> DEFINE T == {n \in 1 .. Len(ops) : Has(ops[n], kind, k)}
  <1>1. PICK n \in T : \A m \in T : m <= n
    <2>1. T # {} /\ T \subseteq 1 .. Len(ops) /\ Len(ops) \in Nat
      BY PostedTypes
    <2> HIDE DEF T
    <2> QED
      BY <2>1, Last
  <1> DEFINE rows == ops[n].rows
             U == {i \in 1 .. Len(rows) : rows[i].key = k}
  <1>2. Len(rows) \in Nat /\ DOMAIN rows = 1 .. Len(rows) /\ Len(ops) \in Nat
        /\ DOMAIN ops = 1 .. Len(ops)
    BY PostedTypes
  <1>3. PICK i \in U : \A j \in U : j <= i
    <2>1. U # {} /\ U \subseteq 1 .. Len(rows)
      BY <1>2 DEF Has, Keys
    <2> HIDE DEF U
    <2> QED
      BY <1>2, <2>1, Last
  <1>4. \A j \in i + 1 .. Len(rows) : rows[j].key # k
    <2> HIDE DEF rows
    <2> QED
      BY <1>2, <1>3
  <1>5. \A m \in n + 1 .. Len(ops) : ~Has(ops[m], kind, k)
    BY <1>1, <1>2
  <1>6. RowFor(ops, kind, k, n, i)
    BY <1>1, <1>2, <1>3 DEF RowFor, Has
  <1> QED
    BY <1>4, <1>5, <1>6 DEF LastAt

\* What is written has a property that the old value and every row have.
LEMMA AfterIn ==
    ASSUME NEW V, NEW old \in V, NEW ops \in Seq(Posted), NEW kind, NEW k,
           \A n \in 1 .. Len(ops) : \A i \in 1 .. Len(ops[n].rows) :
              RowFor(ops, kind, k, n, i) => ops[n].rows[i].value \in V
    PROVE  After(old, ops, kind, k) \in V
  <1>1. CASE \E n \in DOMAIN ops : Has(ops[n], kind, k)
    BY <1>1, LastExists, AfterIs DEF LastAt
  <1>2. CASE \A n \in DOMAIN ops : ~Has(ops[n], kind, k)
    BY <1>2, AfterNone
  <1> QED
    BY <1>1, <1>2

\* Two batches, one after the other.
LEMMA Joined ==
    ASSUME NEW s \in Seq(Posted), NEW t \in Seq(Posted)
    PROVE  /\ s \o t \in Seq(Posted)
           /\ Len(s \o t) = Len(s) + Len(t)
           /\ DOMAIN (s \o t) = 1 .. Len(s) + Len(t)
           /\ \A n \in 1 .. Len(s) : (s \o t)[n] = s[n]
           /\ \A n \in 1 .. Len(t) : (s \o t)[Len(s) + n] = t[n]
           /\ \A n \in Len(s) + 1 .. Len(s) + Len(t) : (s \o t)[n] = t[n - Len(s)]
  <1>1. Len(s) \in Nat /\ Len(t) \in Nat
    BY LenProperties
  <1>2. /\ s \o t \in Seq(Posted)
        /\ Len(s \o t) = Len(s) + Len(t)
        /\ \A n \in 1 .. Len(s) + Len(t) :
              (s \o t)[n] = IF n <= Len(s) THEN s[n] ELSE t[n - Len(s)]
    BY ConcatProperties
  <1>3. DOMAIN (s \o t) = 1 .. Len(s) + Len(t)
    BY <1>2, LenProperties
  <1>4. ASSUME NEW n \in 1 .. Len(t) PROVE (s \o t)[Len(s) + n] = t[n]
    <2>1. /\ Len(s) + n \in 1 .. Len(s) + Len(t)
          /\ ~ (Len(s) + n <= Len(s))
          /\ Len(s) + n - Len(s) = n
      BY <1>1
    <2> QED
      BY <1>2, <2>1
  <1>5. ASSUME NEW n \in Len(s) + 1 .. Len(s) + Len(t) PROVE (s \o t)[n] = t[n - Len(s)]
    <2>1. n \in 1 .. Len(s) + Len(t) /\ ~ (n <= Len(s))
      BY <1>1
    <2> QED
      BY <1>2, <2>1
  <1>6. \A n \in 1 .. Len(s) : (s \o t)[n] = s[n]
    BY <1>1, <1>2
  <1> QED
    BY <1>2, <1>3, <1>4, <1>5, <1>6

LEMMA AfterConcat ==
    ASSUME NEW old, NEW s \in Seq(Posted), NEW t \in Seq(Posted), NEW kind, NEW k
    PROVE  After(old, s \o t, kind, k) = After(After(old, s, kind, k), t, kind, k)
  <1>1. PICK st : st = s \o t
    OBVIOUS
  <1>2. /\ Len(s) \in Nat /\ DOMAIN s = 1 .. Len(s)
        /\ Len(t) \in Nat /\ DOMAIN t = 1 .. Len(t)
        /\ st \in Seq(Posted) /\ Len(st) = Len(s) + Len(t)
        /\ DOMAIN st = 1 .. Len(s) + Len(t)
        /\ \A n \in 1 .. Len(s) : st[n] = s[n]
        /\ \A n \in 1 .. Len(t) : st[Len(s) + n] = t[n]
        /\ \A n \in Len(s) + 1 .. Len(s) + Len(t) : st[n] = t[n - Len(s)]
    BY <1>1, Joined, PostedTypes
  <1>3. CASE \E n \in DOMAIN t : Has(t[n], kind, k)
    <2>1. PICK n \in 1 .. Len(t) : \E i \in 1 .. Len(t[n].rows) : LastAt(t, kind, k, n, i)
      BY <1>3, LastExists
    <2>2. PICK i \in 1 .. Len(t[n].rows) : LastAt(t, kind, k, n, i)
      BY <2>1
    <2>3. Len(s) + n \in 1 .. Len(st) /\ st[Len(s) + n] = t[n]
      BY <1>2
    <2>4. \A m \in Len(s) + n + 1 .. Len(st) : ~Has(st[m], kind, k)
      <3>1. ASSUME NEW m \in Len(s) + n + 1 .. Len(st) PROVE ~Has(st[m], kind, k)
        <4>1. st[m] = t[m - Len(s)] /\ m - Len(s) \in n + 1 .. Len(t)
          BY <1>2, <3>1
        <4> QED
          BY <2>2, <4>1 DEF LastAt
      <3> QED
        BY <3>1
    <2>5. LastAt(st, kind, k, Len(s) + n, i)
      BY <1>2, <2>2, <2>3, <2>4 DEF LastAt, RowFor
    <2>6. After(old, st, kind, k) = t[n].rows[i].value
      BY <1>2, <2>3, <2>5, AfterIs, SMTT(40)
    <2>7. After(After(old, s, kind, k), t, kind, k) = t[n].rows[i].value
      BY <2>2, AfterIs
    <2> QED
      BY <1>1, <2>6, <2>7
  <1>4. CASE /\ \A n \in DOMAIN t : ~Has(t[n], kind, k)
             /\ \E n \in DOMAIN s : Has(s[n], kind, k)
    <2>1. PICK n \in 1 .. Len(s) : \E i \in 1 .. Len(s[n].rows) : LastAt(s, kind, k, n, i)
      BY <1>4, LastExists
    <2>2. PICK i \in 1 .. Len(s[n].rows) : LastAt(s, kind, k, n, i)
      BY <2>1
    <2>3. n \in 1 .. Len(st) /\ st[n] = s[n]
      BY <1>2
    <2>4. \A m \in n + 1 .. Len(st) : ~Has(st[m], kind, k)
      <3>1. ASSUME NEW m \in n + 1 .. Len(st) PROVE ~Has(st[m], kind, k)
        <4>1. CASE m <= Len(s)
          BY <1>2, <2>2, <4>1 DEF LastAt
        <4>2. CASE m > Len(s)
          <5>1. m \in Len(s) + 1 .. Len(s) + Len(t) /\ m - Len(s) \in 1 .. Len(t)
            BY <1>2, <4>2
          <5> QED
            BY <1>2, <1>4, <5>1
        <4> QED
          BY <1>2, <4>1, <4>2
      <3> QED
        BY <3>1
    <2>5. LastAt(st, kind, k, n, i)
      BY <1>2, <2>2, <2>3, <2>4 DEF LastAt, RowFor
    <2>6. After(old, st, kind, k) = s[n].rows[i].value
      BY <1>2, <2>3, <2>5, AfterIs
    <2>7. After(After(old, s, kind, k), t, kind, k) = s[n].rows[i].value
      BY <1>4, <2>2, AfterIs, AfterNone
    <2> QED
      BY <1>1, <2>6, <2>7
  <1>5. CASE /\ \A n \in DOMAIN t : ~Has(t[n], kind, k)
             /\ \A n \in DOMAIN s : ~Has(s[n], kind, k)
    <2>1. ASSUME NEW n \in DOMAIN st PROVE ~Has(st[n], kind, k)
      <3>1. CASE n <= Len(s)
        BY <1>2, <1>5, <3>1
      <3>2. CASE n > Len(s)
        <4>1. n \in Len(s) + 1 .. Len(s) + Len(t) /\ n - Len(s) \in 1 .. Len(t)
          BY <1>2, <3>2
        <4> QED
          BY <1>2, <1>5, <4>1
      <3> QED
        BY <1>2, <3>1, <3>2
    <2>2. After(old, st, kind, k) = old
      BY <2>1, AfterNone
    <2>3. After(After(old, s, kind, k), t, kind, k) = old
      BY <1>5, AfterNone
    <2> QED
      BY <1>1, <2>2, <2>3
  <1> QED
    BY <1>3, <1>4, <1>5

(* One operation. *)

Kinds == {"scores", "pins"}
Single(kind, rows) == <<[kind |-> kind, rows |-> rows]>>

LEMMA SingleType ==
    ASSUME NEW kind \in Kinds, NEW rows \in Seq(Entry)
    PROVE  /\ Single(kind, rows) \in Seq(Posted)
           /\ Len(Single(kind, rows)) = 1
           /\ DOMAIN Single(kind, rows) = {1}
           /\ Single(kind, rows)[1].kind = kind
           /\ Single(kind, rows)[1].rows = rows
           /\ Len(rows) \in Nat /\ DOMAIN rows = 1 .. Len(rows)
  <1>1. [kind |-> kind, rows |-> rows] \in Posted
    BY DEF Posted, Kinds
  <1>2. Single(kind, rows) \in Seq(Posted) /\ Len(Single(kind, rows)) = 1
        /\ Single(kind, rows)[1] = [kind |-> kind, rows |-> rows]
    BY <1>1 DEF Single
  <1>3. DOMAIN Single(kind, rows) = {1}
    BY <1>2, LenProperties
  <1>4. Len(rows) \in Nat /\ DOMAIN rows = 1 .. Len(rows)
    BY LenProperties
  <1> QED
    BY <1>2, <1>3, <1>4

\* Row i is the last one for key k.
LastIn(rows, k, i) ==
    /\ i \in 1 .. Len(rows)
    /\ rows[i].key = k
    /\ \A j \in i + 1 .. Len(rows) : rows[j].key # k

LEMMA SingleIs ==
    ASSUME NEW old, NEW kind \in Kinds, NEW rows \in Seq(Entry), NEW k, NEW i,
           LastIn(rows, k, i)
    PROVE  After(old, Single(kind, rows), kind, k) = rows[i].value
  <1> DEFINE ops == Single(kind, rows)
  <1>1. /\ ops \in Seq(Posted) /\ Len(ops) = 1 /\ DOMAIN ops = {1}
        /\ ops[1].kind = kind /\ ops[1].rows = rows /\ DOMAIN rows = 1 .. Len(rows)
    BY SingleType
  <1> HIDE DEF ops
  <1>2. LastAt(ops, kind, k, 1, i)
    BY <1>1 DEF LastAt, RowFor, LastIn
  <1>3. After(old, ops, kind, k) = rows[i].value
    BY <1>1, <1>2, AfterIs
  <1> QED
    BY <1>3 DEF ops

LEMMA SingleNone ==
    ASSUME NEW old, NEW kind \in Kinds, NEW rows \in Seq(Entry), NEW k, NEW other,
           kind # other \/ \A i \in 1 .. Len(rows) : rows[i].key # k
    PROVE  After(old, Single(kind, rows), other, k) = old
  <1>1. \A n \in DOMAIN Single(kind, rows) : ~Has(Single(kind, rows)[n], other, k)
    BY SingleType DEF Has, Keys
  <1> QED
    BY <1>1, AfterNone

LEMMA SingleLast ==
    ASSUME NEW rows \in Seq(Entry), NEW k, \E i \in 1 .. Len(rows) : rows[i].key = k
    PROVE  \E i \in 1 .. Len(rows) : LastIn(rows, k, i)
  <1> DEFINE U == {i \in 1 .. Len(rows) : rows[i].key = k}
  <1>1. Len(rows) \in Nat
    BY LenProperties
  <1>2. PICK i \in U : \A j \in U : j <= i
    <2>1. U # {} /\ U \subseteq 1 .. Len(rows)
      OBVIOUS
    <2> HIDE DEF U
    <2> QED
      BY <1>1, <2>1, Last
  <1>3. \A j \in i + 1 .. Len(rows) : rows[j].key # k
    BY <1>1, <1>2
  <1> QED
    BY <1>2, <1>3 DEF LastIn

\* A row at the end of an operation.
LEMMA RowAdded ==
    ASSUME NEW old, NEW kind \in Kinds, NEW rows \in Seq(Entry), NEW e \in Entry, NEW k
    PROVE  After(old, Single(kind, Append(rows, e)), kind, k)
             = IF e.key = k THEN e.value ELSE After(old, Single(kind, rows), kind, k)
  <1> DEFINE more == Append(rows, e)
  <1>1. /\ Len(rows) \in Nat
        /\ more \in Seq(Entry) /\ Len(more) = Len(rows) + 1
        /\ \A i \in 1 .. Len(rows) : more[i] = rows[i]
        /\ more[Len(rows) + 1] = e
    BY LenProperties, AppendProperties
  <1> HIDE DEF more
  <1>2. CASE e.key = k
    <2>1. LastIn(more, k, Len(rows) + 1)
      BY <1>1, <1>2 DEF LastIn
    <2>2. After(old, Single(kind, more), kind, k) = more[Len(rows) + 1].value
      BY <1>1, <2>1, SingleIs
    <2> QED
      BY <1>1, <1>2, <2>2 DEF more
  <1>3. CASE e.key # k /\ \E i \in 1 .. Len(rows) : rows[i].key = k
    <2>1. PICK i \in 1 .. Len(rows) : LastIn(rows, k, i)
      BY <1>3, SingleLast
    <2>2. i \in 1 .. Len(more) /\ more[i].key = k
      BY <1>1, <2>1 DEF LastIn
    <2>3. \A j \in i + 1 .. Len(more) : more[j].key # k
      <3>1. ASSUME NEW j \in i + 1 .. Len(more) PROVE more[j].key # k
        <4>1. j \in i + 1 .. Len(rows) \/ j = Len(rows) + 1
          BY <1>1
        <4> QED
          BY <1>1, <1>3, <2>1, <4>1 DEF LastIn
      <3> QED
        BY <3>1
    <2>4. After(old, Single(kind, more), kind, k) = more[i].value
      <3>1. LastIn(more, k, i)
        BY <2>2, <2>3 DEF LastIn
      <3> QED
        BY <1>1, <3>1, SingleIs
    <2>5. After(old, Single(kind, rows), kind, k) = rows[i].value
      BY <2>1, SingleIs
    <2> QED
      BY <1>1, <1>3, <2>4, <2>5 DEF more
  <1>4. CASE e.key # k /\ \A i \in 1 .. Len(rows) : rows[i].key # k
    <2>1. ASSUME NEW i \in 1 .. Len(more) PROVE more[i].key # k
      <3>1. i \in 1 .. Len(rows) \/ i = Len(rows) + 1
        BY <1>1
      <3> QED
        BY <1>1, <1>4, <3>1
    <2>2. After(old, Single(kind, more), kind, k) = old
      BY <1>1, <2>1, SingleNone
    <2>3. After(old, Single(kind, rows), kind, k) = old
      BY <1>4, SingleNone
    <2> QED
      BY <1>4, <2>2, <2>3 DEF more
  <1> QED
    BY <1>2, <1>3, <1>4

\* Two operations on one table are as good as one with the rows of both.
LEMMA RowsJoined ==
    ASSUME NEW old, NEW kind \in Kinds, NEW a \in Seq(Entry), NEW b \in Seq(Entry), NEW k
    PROVE  After(old, Single(kind, a \o b), kind, k)
             = After(After(old, Single(kind, a), kind, k), Single(kind, b), kind, k)
  <1> DEFINE ab == a \o b
  <1>1. /\ Len(a) \in Nat /\ Len(b) \in Nat
        /\ ab \in Seq(Entry) /\ Len(ab) = Len(a) + Len(b)
        /\ \A i \in 1 .. Len(a) + Len(b) : ab[i] = IF i <= Len(a) THEN a[i] ELSE b[i - Len(a)]
    BY LenProperties, ConcatProperties
  <1> HIDE DEF ab
  <1>2. CASE \E i \in 1 .. Len(b) : b[i].key = k
    <2>1. PICK i \in 1 .. Len(b) : LastIn(b, k, i)
      BY <1>2, SingleLast
    <2>2. /\ Len(a) + i \in 1 .. Len(a) + Len(b) /\ ~ (Len(a) + i <= Len(a))
          /\ Len(a) + i - Len(a) = i
      BY <1>1
    <2>3. ab[Len(a) + i] = b[i]
      BY <1>1, <2>2
    <2>4. ASSUME NEW j \in Len(a) + i + 1 .. Len(ab) PROVE ab[j].key # k
      <3>1. j \in 1 .. Len(a) + Len(b) /\ ~ (j <= Len(a)) /\ j - Len(a) \in i + 1 .. Len(b)
        BY <1>1
      <3> QED
        BY <1>1, <2>1, <3>1 DEF LastIn
    <2>5. After(old, Single(kind, ab), kind, k) = b[i].value
      <3>1. LastIn(ab, k, Len(a) + i)
        BY <1>1, <2>1, <2>2, <2>3, <2>4 DEF LastIn
      <3>2. After(old, Single(kind, ab), kind, k) = ab[Len(a) + i].value
        BY <1>1, <3>1, SingleIs
      <3> QED
        BY <2>3, <3>2
    <2>6. After(After(old, Single(kind, a), kind, k), Single(kind, b), kind, k) = b[i].value
      BY <2>1, SingleIs
    <2> QED
      BY <2>5, <2>6 DEF ab
  <1>3. CASE /\ \A i \in 1 .. Len(b) : b[i].key # k
             /\ \E i \in 1 .. Len(a) : a[i].key = k
    <2>1. PICK i \in 1 .. Len(a) : LastIn(a, k, i)
      BY <1>3, SingleLast
    <2>2. i \in 1 .. Len(ab) /\ ab[i] = a[i]
      BY <1>1
    <2>3. ASSUME NEW j \in i + 1 .. Len(ab) PROVE ab[j].key # k
      <3>1. CASE j <= Len(a)
        BY <1>1, <2>1, <3>1, SMTT(40) DEF LastIn
      <3>2. CASE j > Len(a)
        <4>1. j \in 1 .. Len(a) + Len(b) /\ ~ (j <= Len(a)) /\ j - Len(a) \in 1 .. Len(b)
          BY <1>1, <3>2
        <4> QED
          BY <1>1, <1>3, <4>1
      <3> QED
        BY <1>1, <3>1, <3>2
    <2>4. After(old, Single(kind, ab), kind, k) = a[i].value
      <3>1. LastIn(ab, k, i)
        BY <2>1, <2>2, <2>3 DEF LastIn
      <3> QED
        BY <1>1, <2>2, <3>1, SingleIs
    <2>5. After(old, Single(kind, a), kind, k) = a[i].value
      BY <2>1, SingleIs
    <2>6. After(After(old, Single(kind, a), kind, k), Single(kind, b), kind, k)
            = After(old, Single(kind, a), kind, k)
      BY <1>3, SingleNone
    <2> QED
      BY <2>4, <2>5, <2>6 DEF ab
  <1>4. CASE /\ \A i \in 1 .. Len(b) : b[i].key # k
             /\ \A i \in 1 .. Len(a) : a[i].key # k
    <2>1. ASSUME NEW j \in 1 .. Len(ab) PROVE ab[j].key # k
      <3>1. CASE j <= Len(a)
        BY <1>1, <1>4, <3>1
      <3>2. CASE j > Len(a)
        <4>1. j \in 1 .. Len(a) + Len(b) /\ ~ (j <= Len(a)) /\ j - Len(a) \in 1 .. Len(b)
          BY <1>1, <3>2
        <4> QED
          BY <1>1, <1>4, <4>1
      <3> QED
        BY <1>1, <3>1, <3>2
    <2>2. After(old, Single(kind, ab), kind, k) = old
      BY <1>1, <2>1, SingleNone
    <2>3. After(old, Single(kind, a), kind, k) = old
      BY <1>4, SingleNone
    <2>4. After(After(old, Single(kind, a), kind, k), Single(kind, b), kind, k)
            = After(old, Single(kind, a), kind, k)
      BY <1>4, SingleNone
    <2> QED
      BY <2>2, <2>3, <2>4 DEF ab
  <1> QED
    BY <1>2, <1>3, <1>4

\* Rows of the same keys in the same places.
LEMMA RowsAlike ==
    ASSUME NEW old, NEW kind \in Kinds, NEW a \in Seq(Entry), NEW b \in Seq(Entry), NEW k,
           Len(a) = Len(b),
           \A i \in 1 .. Len(a) : a[i].key = b[i].key /\ a[i].value.folded = b[i].value.folded
    PROVE  After(old, Single(kind, a), kind, k).folded = After(old, Single(kind, b), kind, k).folded
  <1>1. CASE \E i \in 1 .. Len(a) : a[i].key = k
    <2>1. PICK i \in 1 .. Len(a) : LastIn(a, k, i)
      BY <1>1, SingleLast
    <2>2. LastIn(b, k, i)
      <3>1. \A j \in i + 1 .. Len(a) : j \in 1 .. Len(a)
        BY LenProperties
      <3> QED
        BY <2>1, <3>1 DEF LastIn
    <2>3. After(old, Single(kind, a), kind, k) = a[i].value
      BY <2>1, SingleIs
    <2>4. After(old, Single(kind, b), kind, k) = b[i].value
      BY <2>2, SingleIs
    <2> QED
      BY <2>3, <2>4
  <1>2. CASE \A i \in 1 .. Len(a) : a[i].key # k
    <2>1. \A i \in 1 .. Len(b) : b[i].key # k
      BY <1>2
    <2> QED
      BY <1>2, <2>1, SingleNone
  <1> QED
    BY <1>1, <1>2

(* A batch of which one operation ends in the middle. *)

Cut(ops, n, c) == [ops EXCEPT ![n] = [ops[n] EXCEPT !.rows = SubSeq(@, 1, c - 1)]]

LEMMA CutTypes ==
    ASSUME NEW ops \in Seq(Posted), NEW n \in 1 .. Len(ops), NEW c \in 1 .. Len(ops[n].rows)
    PROVE  /\ Cut(ops, n, c) \in Seq(Posted)
           /\ Len(Cut(ops, n, c)) = Len(ops)
           /\ \A m \in 1 .. Len(ops) \ {n} : Cut(ops, n, c)[m] = ops[m]
           /\ Cut(ops, n, c)[n].kind = ops[n].kind
           /\ Len(Cut(ops, n, c)[n].rows) = c - 1
           /\ \A i \in 1 .. c - 1 : Cut(ops, n, c)[n].rows[i] = ops[n].rows[i]
  <1> DEFINE rows == ops[n].rows
             op == [ops[n] EXCEPT !.rows = SubSeq(rows, 1, c - 1)]
  <1>1. ops[n] \in Posted /\ rows \in Seq(Entry) /\ Len(rows) \in Nat
    BY PostedTypes
  <1>2. /\ SubSeq(rows, 1, c - 1) \in Seq(Entry)
        /\ Len(SubSeq(rows, 1, c - 1)) = c - 1
        /\ \A i \in 1 .. c - 1 : SubSeq(rows, 1, c - 1)[i] = rows[i]
    <2> HIDE DEF rows
    <2>1. c \in 1 .. Len(rows)
      BY DEF rows
    <2>2. c - 1 \in Int /\ \A i \in 1 .. c - 1 : rows[i] \in Entry
      BY <1>1, <2>1, ElementOfSeq
    <2>3. /\ SubSeq(rows, 1, c - 1) \in Seq(Entry)
          /\ Len(SubSeq(rows, 1, c - 1)) = IF 1 <= c - 1 THEN c - 1 - 1 + 1 ELSE 0
          /\ \A i \in 1 .. c - 1 - 1 + 1 : SubSeq(rows, 1, c - 1)[i] = rows[1 + i - 1]
      BY <2>2, SubSeqProperties
    <2> QED
      BY <1>1, <2>1, <2>3
  <1>3. op \in Posted /\ op.kind = ops[n].kind /\ op.rows = SubSeq(rows, 1, c - 1)
    BY <1>1, <1>2 DEF Posted
  <1>4. Cut(ops, n, c) = [ops EXCEPT ![n] = op]
    BY DEF Cut
  <1> HIDE DEF op, rows
  <1>5. /\ Cut(ops, n, c) \in Seq(Posted)
        /\ Len(Cut(ops, n, c)) = Len(ops)
        /\ \A m \in 1 .. Len(ops) : Cut(ops, n, c)[m] = IF m = n THEN op ELSE ops[m]
    BY <1>3, <1>4, ExceptSeq
  <1> QED
    BY <1>2, <1>3, <1>5 DEF rows

LEMMA CutRows ==
    ASSUME NEW ops \in Seq(Posted), NEW n \in 1 .. Len(ops), NEW c \in 1 .. Len(ops[n].rows),
           NEW kind, NEW k, NEW m \in 1 .. Len(ops), NEW i \in 1 .. Len(Cut(ops, n, c)[m].rows)
    PROVE  /\ i \in 1 .. Len(ops[m].rows)
           /\ Cut(ops, n, c)[m].rows[i] = ops[m].rows[i]
           /\ RowFor(Cut(ops, n, c), kind, k, m, i) => RowFor(ops, kind, k, m, i)
  <1>1. \A l \in 1 .. Len(ops) : Len(ops[l].rows) \in Nat /\ DOMAIN ops[l].rows = 1 .. Len(ops[l].rows)
    BY PostedTypes
  <1>2. DOMAIN ops = 1 .. Len(ops)
    BY PostedTypes
  <1>3. CASE m = n
    <2>1. i \in 1 .. c - 1
      BY <1>3, CutTypes
    <2>2. i \in 1 .. Len(ops[n].rows)
      BY <1>1, <2>1
    <2>3. Cut(ops, n, c)[n].rows[i] = ops[n].rows[i] /\ Cut(ops, n, c)[n].kind = ops[n].kind
      BY <2>1, CutTypes
    <2> QED
      BY <1>1, <1>2, <1>3, <2>2, <2>3 DEF RowFor
  <1>4. CASE m # n
    <2>1. Cut(ops, n, c)[m] = ops[m]
      BY <1>4, CutTypes
    <2> QED
      BY <1>1, <1>2, <2>1 DEF RowFor
  <1> QED
    BY <1>3, <1>4

\* What is cut off does not matter to a key that has no row in it.
LEMMA AfterCut ==
    ASSUME NEW old, NEW ops \in Seq(Posted), NEW n \in 1 .. Len(ops),
           NEW c \in 1 .. Len(ops[n].rows), NEW kind, NEW k,
           ops[n].kind = kind => \A i \in c .. Len(ops[n].rows) : ops[n].rows[i].key # k
    PROVE  After(old, Cut(ops, n, c), kind, k) = After(old, ops, kind, k)
  <1> DEFINE cut == Cut(ops, n, c)
  <1>2. /\ cut \in Seq(Posted) /\ Len(cut) = Len(ops)
        /\ \A m \in 1 .. Len(ops) \ {n} : cut[m] = ops[m]
        /\ cut[n].kind = ops[n].kind /\ Len(cut[n].rows) = c - 1
        /\ \A i \in 1 .. c - 1 : cut[n].rows[i] = ops[n].rows[i]
    BY CutTypes
  <1> HIDE DEF cut
  <1>1. cut = Cut(ops, n, c)
    BY DEF cut
  <1>3. /\ Len(ops) \in Nat /\ DOMAIN ops = 1 .. Len(ops) /\ DOMAIN cut = 1 .. Len(ops)
        /\ \A m \in 1 .. Len(ops) : Len(ops[m].rows) \in Nat
                                    /\ DOMAIN ops[m].rows = 1 .. Len(ops[m].rows)
        /\ DOMAIN cut[n].rows = 1 .. c - 1
    BY <1>2, PostedTypes
  <1>4. \A m \in 1 .. Len(ops) : Has(cut[m], kind, k) <=> Has(ops[m], kind, k)
    <2>1. Has(cut[n], kind, k) <=> Has(ops[n], kind, k)
      <3>1. ASSUME ops[n].kind = kind, NEW i \in 1 .. Len(ops[n].rows), ops[n].rows[i].key = k
            PROVE  i \in 1 .. c - 1
        BY <1>3, <3>1
      <3>2. \A i \in 1 .. c - 1 : i \in 1 .. Len(ops[n].rows)
        BY <1>3
      <3> QED
        BY <1>2, <1>3, <3>1, <3>2, ZenonT(60) DEF Has, Keys
    <2> QED
      BY <1>2, <2>1
  <1>5. CASE \A m \in DOMAIN ops : ~Has(ops[m], kind, k)
    <2>1. \A m \in DOMAIN cut : ~Has(cut[m], kind, k)
      BY <1>3, <1>4, <1>5
    <2> QED
      BY <1>1, <1>5, <2>1, AfterNone
  <1>6. CASE \E m \in DOMAIN ops : Has(ops[m], kind, k)
    <2>1. PICK m \in 1 .. Len(ops) : \E i \in 1 .. Len(ops[m].rows) : LastAt(ops, kind, k, m, i)
      BY <1>6, LastExists
    <2>2. PICK i \in 1 .. Len(ops[m].rows) : LastAt(ops, kind, k, m, i)
      BY <2>1
    <2>3. \A l \in m + 1 .. Len(cut) : ~Has(cut[l], kind, k)
      BY <1>2, <1>3, <1>4, <2>2 DEF LastAt
    <2>4. CASE m # n
      <3>1. cut[m] = ops[m]
        BY <1>2, <2>4
      <3>2. LastAt(cut, kind, k, m, i)
        BY <1>3, <2>2, <2>3, <3>1 DEF LastAt, RowFor
      <3> QED
        BY <1>1, <1>2, <2>2, <3>1, <3>2, AfterIs, SMTT(40)
    <2>5. CASE m = n
      <3>1. i \in 1 .. c - 1
        BY <1>3, <2>2, <2>5 DEF LastAt, RowFor
      <3>2. RowFor(cut, kind, k, m, i)
        BY <1>2, <1>3, <2>2, <2>5, <3>1 DEF LastAt, RowFor
      <3>3. \A j \in i + 1 .. Len(cut[n].rows) : cut[n].rows[j].key # k
        <4>1. ASSUME NEW j \in i + 1 .. Len(cut[n].rows) PROVE cut[n].rows[j].key # k
          <5>1. j \in 1 .. c - 1 /\ j \in i + 1 .. Len(ops[n].rows)
            BY <1>2, <1>3, <3>1, SMTT(40)
          <5> QED
            BY <1>2, <2>2, <2>5, <5>1 DEF LastAt
        <4> QED
          BY <4>1
      <3>4. LastAt(cut, kind, k, m, i)
        BY <2>3, <2>5, <3>2, <3>3 DEF LastAt
      <3> QED
        BY <1>1, <1>2, <2>2, <2>5, <3>1, <3>4, AfterIs, SMTT(40)
    <2> QED
      BY <2>4, <2>5
  <1> QED
    BY <1>5, <1>6

(* Types. *)

LEMMA PostedOps ==
    /\ Op \subseteq Posted
    /\ Seq(Op) \subseteq Seq(Posted)
    /\ Seq(Drained) \subseteq Seq(Entry)
    /\ Seq(PinRow) \subseteq Seq(Entry)
    /\ Seq([key : Proxies, value : Row]) \subseteq Seq(Entry)
  <1>1. /\ Drained \subseteq Entry /\ PinRow \subseteq Entry
        /\ [key : Proxies, value : Row] \subseteq Entry
    BY DEF Drained, PinRow, Entry
  <1>2. /\ Seq(Drained) \subseteq Seq(Entry) /\ Seq(PinRow) \subseteq Seq(Entry)
        /\ Seq([key : Proxies, value : Row]) \subseteq Seq(Entry)
    BY <1>1, SeqMonotonic
  <1>3. Op \subseteq Posted
    BY <1>2 DEF Op, Posted
  <1>4. Seq(Op) \subseteq Seq(Posted)
    BY <1>3, SeqMonotonic
  <1> QED
    BY <1>2, <1>3, <1>4

LEMMA OpRows ==
    ASSUME NEW ops \in Seq(Op), NEW n \in 1 .. Len(ops), NEW i \in 1 .. Len(ops[n].rows)
    PROVE  /\ ops[n].kind = "scores" => ops[n].rows[i] \in [key : Proxies, value : Row]
           /\ ops[n].kind = "pins" => ops[n].rows[i] \in PinRow
           /\ ops[n].kind \in Kinds
  <1>1. ops[n] \in Op
    BY ElementOfSeq
  <1>2. CASE ops[n] \in [kind : {"scores"}, rows : Seq([key : Proxies, value : Row])]
    <2>1. ops[n].kind = "scores" /\ ops[n].rows \in Seq([key : Proxies, value : Row])
      BY <1>2
    <2> QED
      BY <2>1, ElementOfSeq DEF Kinds
  <1>3. CASE ops[n] \in [kind : {"pins"}, rows : Seq(PinRow)]
    <2>1. ops[n].kind = "pins" /\ ops[n].rows \in Seq(PinRow)
      BY <1>3
    <2> QED
      BY <2>1, ElementOfSeq DEF Kinds
  <1> QED
    BY <1>1, <1>2, <1>3 DEF Op

\* The tables keep their types, whether all of a batch is written or a part.
LEMMA WrittenType ==
    ASSUME NEW ops \in Seq(Op), NEW n \in 1 .. Len(ops), NEW c \in 1 .. Len(ops[n].rows),
           scoreRows \in [Proxies -> Row], pinRows \in [Hosts -> Proxies \cup {None}]
    PROVE  /\ [p \in Proxies |-> After(scoreRows[p], Cut(ops, n, c), "scores", p)] \in [Proxies -> Row]
           /\ [h \in Hosts |-> After(pinRows[h], Cut(ops, n, c), "pins", h)]
                \in [Hosts -> Proxies \cup {None}]
  <1>1. ops \in Seq(Posted)
    BY PostedOps
  <1>2. ASSUME NEW p \in Proxies PROVE After(scoreRows[p], Cut(ops, n, c), "scores", p) \in Row
    <2>1. ASSUME NEW m \in 1 .. Len(Cut(ops, n, c)), NEW i \in 1 .. Len(Cut(ops, n, c)[m].rows),
                 RowFor(Cut(ops, n, c), "scores", p, m, i)
          PROVE  Cut(ops, n, c)[m].rows[i].value \in Row
      <3>1. m \in 1 .. Len(ops)
        BY <1>1, CutTypes, SMTT(40)
      <3>2. i \in 1 .. Len(ops[m].rows) /\ Cut(ops, n, c)[m].rows[i] = ops[m].rows[i]
            /\ RowFor(ops, "scores", p, m, i)
        BY <1>1, <2>1, <3>1, CutRows
      <3> QED
        BY <3>1, <3>2, OpRows DEF RowFor
    <2>2. Cut(ops, n, c) \in Seq(Posted)
      BY <1>1, CutTypes
    <2> QED
      BY <2>1, <2>2, AfterIn
  <1>3. ASSUME NEW h \in Hosts
        PROVE  After(pinRows[h], Cut(ops, n, c), "pins", h) \in Proxies \cup {None}
    <2>1. ASSUME NEW m \in 1 .. Len(Cut(ops, n, c)), NEW i \in 1 .. Len(Cut(ops, n, c)[m].rows),
                 RowFor(Cut(ops, n, c), "pins", h, m, i)
          PROVE  Cut(ops, n, c)[m].rows[i].value \in Proxies \cup {None}
      <3>1. m \in 1 .. Len(ops)
        BY <1>1, CutTypes
      <3>2. i \in 1 .. Len(ops[m].rows) /\ Cut(ops, n, c)[m].rows[i] = ops[m].rows[i]
            /\ RowFor(ops, "pins", h, m, i)
        BY <1>1, <2>1, <3>1, CutRows
      <3>3. ops[m].rows[i] \in PinRow
        BY <3>1, <3>2, OpRows DEF RowFor
      <3> QED
        BY <3>2, <3>3 DEF PinRow
    <2>2. Cut(ops, n, c) \in Seq(Posted)
      BY <1>1, CutTypes
    <2> QED
      BY <2>1, <2>2, AfterIn
  <1> QED
    BY <1>2, <1>3

LEMMA WholeType ==
    ASSUME NEW ops \in Seq(Op),
           scoreRows \in [Proxies -> Row], pinRows \in [Hosts -> Proxies \cup {None}]
    PROVE  /\ [p \in Proxies |-> After(scoreRows[p], ops, "scores", p)] \in [Proxies -> Row]
           /\ [h \in Hosts |-> After(pinRows[h], ops, "pins", h)] \in [Hosts -> Proxies \cup {None}]
  <1>1. ops \in Seq(Posted)
    BY PostedOps
  <1>2. ASSUME NEW p \in Proxies PROVE After(scoreRows[p], ops, "scores", p) \in Row
    <2>1. ASSUME NEW m \in 1 .. Len(ops), NEW i \in 1 .. Len(ops[m].rows),
                 RowFor(ops, "scores", p, m, i)
          PROVE  ops[m].rows[i].value \in Row
      BY <2>1, OpRows DEF RowFor
    <2> QED
      BY <1>1, <2>1, AfterIn
  <1>3. ASSUME NEW h \in Hosts PROVE After(pinRows[h], ops, "pins", h) \in Proxies \cup {None}
    <2>1. ASSUME NEW m \in 1 .. Len(ops), NEW i \in 1 .. Len(ops[m].rows),
                 RowFor(ops, "pins", h, m, i)
          PROVE  ops[m].rows[i].value \in Proxies \cup {None}
      <3>1. ops[m].rows[i] \in PinRow
        BY <2>1, OpRows DEF RowFor
      <3> QED
        BY <3>1 DEF PinRow
    <2> QED
      BY <1>1, <2>1, AfterIn
  <1> QED
    BY <1>2, <1>3

LEMMA ToUnixType ==
    ASSUME NEW end \in Int, NEW now \in Nat
    PROVE  ToUnix(end, now) \in Int /\ FromUnix(end, now) \in Int
  BY RouterAssumption DEF ToUnix, FromUnix, Unix

\* pack_score_rows keeps keys and counts.
LEMMA PackedType ==
    ASSUME time \in Nat, NEW rows \in Seq(Drained)
    PROVE  /\ [n \in DOMAIN rows |-> Packed(rows[n])] \in Seq([key : Proxies, value : Row])
           /\ Len([n \in DOMAIN rows |-> Packed(rows[n])]) = Len(rows)
           /\ \A i \in 1 .. Len(rows) :
                /\ rows[i] \in Drained
                /\ [n \in DOMAIN rows |-> Packed(rows[n])][i] = Packed(rows[i])
                /\ Packed(rows[i]).key = rows[i].key
                /\ Packed(rows[i]).value.folded = rows[i].value.folded
  <1>1. Len(rows) \in Nat /\ DOMAIN rows = 1 .. Len(rows)
    BY LenProperties
  <1>2. ASSUME NEW i \in 1 .. Len(rows)
        PROVE  /\ rows[i] \in Drained
               /\ Packed(rows[i]) \in [key : Proxies, value : Row]
               /\ Packed(rows[i]).key = rows[i].key
               /\ Packed(rows[i]).value.folded = rows[i].value.folded
    <2>1. rows[i] \in Drained
      BY ElementOfSeq
    <2>2. rows[i].value.until \in Int /\ rows[i].value.folded \in Nat /\ rows[i].key \in Proxies
      BY <2>1 DEF Drained
    <2>3. ToUnix(rows[i].value.until, time) \in Int
      BY <2>2, ToUnixType
    <2> QED
      BY <2>1, <2>2, <2>3 DEF Packed, Row
  <1> DEFINE packed == [n \in 1 .. Len(rows) |-> Packed(rows[n])]
  <1>3. packed \in Seq([key : Proxies, value : Row]) /\ Len(packed) = Len(rows)
    <2>1. packed \in [1 .. Len(rows) -> [key : Proxies, value : Row]]
      BY <1>2
    <2> QED
      BY <1>1, <2>1
  <1>4. [n \in DOMAIN rows |-> Packed(rows[n])] = packed
    BY <1>1
  <1> QED
    BY <1>2, <1>3, <1>4


\* The type invariant in parts, each about variables that change together.
WriterTyped ==
    /\ channel \in Seq(Op) /\ Len(channel) <= Capacity
    /\ batch \in Seq(Op) /\ Len(batch) <= MaxBatch

ScoresTyped ==
    /\ time \in Nat
    /\ folded \in [Proxies -> Nat]
    /\ fails \in [Proxies -> Nat]
    /\ until \in [Proxies -> Int]

PinsTyped ==
    /\ affinity \in [Hosts -> Proxies \cup {None}]
    /\ dirty \subseteq Proxies
    /\ pins \in Seq(PinRow)

CallsTyped ==
    /\ at \in [Tasks -> {"idle", "fold", "mark", "pinned", "scan", "pin", "push", "done"}]
    /\ call \in [Tasks -> [proxy : Proxies \cup {None}, host : Hosts \cup {None},
                           outcome : Outcomes \cup {None}]]
    /\ clock \in [Tasks -> Nat]
    /\ todo \in [Tasks -> SUBSET Proxies]
    /\ found \in [Tasks -> SUBSET Proxies]
    /\ \A t \in Tasks : at[t] \in {"pin", "push", "done"} => \E p \in Proxies : found[t] = {p}
    /\ sick \in [Tasks -> SUBSET Proxies]
    /\ \A t \in Tasks : at[t] \in {"pinned", "scan", "pin", "push", "done"} => call[t].host \in Hosts
    /\ \A t \in Tasks : at[t] \in {"fold", "mark"} => /\ call[t].proxy \in Proxies
                                                    /\ call[t].outcome \in Outcomes

FlushTyped ==
    /\ flush \in [at : {"idle", "drain", "read", "scores", "pins"}, todo : SUBSET Proxies,
                  proxy : Proxies \cup {None}, rows : Seq(Drained), pins : Seq(PinRow)]
    /\ flush.at = "read" => flush.proxy \in Proxies

TablesTyped ==
    /\ scoreRows \in [Proxies -> Row]
    /\ pinRows \in [Hosts -> Proxies \cup {None}]

RestTyped ==
    /\ phase \in {"scores", "pins", "up"}
    /\ calls \in 0 .. CALLS
    /\ faults \in 0 .. FAULTS
    /\ lostScores \subseteq Proxies
    /\ lostPins \subseteq Hosts
    /\ crossed \subseteq Hosts

Typed ==
    /\ WriterTyped /\ ScoresTyped /\ PinsTyped /\ CallsTyped /\ FlushTyped /\ TablesTyped
    /\ RestTyped

LEMMA TypedIsType == Typed => TypeOK
  BY DEF Typed, WriterTyped, ScoresTyped, PinsTyped, CallsTyped, FlushTyped, TablesTyped,
     RestTyped, TypeOK

\* A part of which no variable changes stays.
LEMMA Kept ==
    /\ WriterTyped /\ UNCHANGED <<channel, batch>> => WriterTyped'
    /\ ScoresTyped /\ UNCHANGED <<time, folded, fails, until>> => ScoresTyped'
    /\ PinsTyped /\ UNCHANGED <<affinity, dirty, pins>> => PinsTyped'
    /\ CallsTyped /\ UNCHANGED <<at, call, clock, todo, found, sick>> => CallsTyped'
    /\ FlushTyped /\ UNCHANGED flush => FlushTyped'
    /\ TablesTyped /\ UNCHANGED <<scoreRows, pinRows>> => TablesTyped'
    /\ RestTyped /\ UNCHANGED <<phase, calls, faults, lostScores, lostPins, crossed>> => RestTyped'
  BY DEF WriterTyped, ScoresTyped, PinsTyped, CallsTyped, FlushTyped, TablesTyped, RestTyped

LEMMA InitType == Init => Typed
  BY RouterAssumption, WriterAssumption, SMTT(40) DEF Init, MemoryInit, WriterInit, Typed, WriterTyped,
     ScoresTyped, PinsTyped, CallsTyped, FlushTyped, TablesTyped, RestTyped, NoCall, NoFlush,
     NoRow, Row, Start, None

LEMMA PostType ==
    ASSUME WriterTyped, NEW op \in Op, Post(op) \/ UNCHANGED <<channel, batch>>
    PROVE  WriterTyped'
  <1>1. CASE UNCHANGED <<channel, batch>>
    BY <1>1, Kept
  <1>2. CASE Post(op)
    <2>1. /\ channel' \in Seq(Op) /\ Len(channel') = Len(channel) + 1
          /\ Len(channel) \in Nat
      BY <1>2, AppendProperties, LenProperties DEF Post, WriterTyped
    <2>2. Len(channel') <= Capacity
      BY <1>2, <2>1, WriterAssumption DEF Post
    <2> QED
      BY <1>2, <2>1, <2>2 DEF Post, WriterTyped
  <1> QED
    BY <1>1, <1>2

LEMMA CallsFinish ==
    ASSUME CallsTyped, NEW t \in Tasks, Finish(t)
    PROVE  CallsTyped'
  BY DEF Finish, Go, CallsTyped, NoCall, None

LEMMA NextType == Typed /\ [Next]_vars => Typed'
  <1> SUFFICES ASSUME Typed, [Next]_vars
               PROVE  Typed'
    OBVIOUS
  <1> USE RouterAssumption
  <1>0. /\ WriterTyped /\ ScoresTyped /\ PinsTyped /\ CallsTyped /\ FlushTyped /\ TablesTyped
        /\ RestTyped
    BY DEF Typed
  <1>1. ASSUME NEW t \in Tasks, Fold(t)
        PROVE  Typed'
    <2>1. ScoresTyped'
      <3> DEFINE p == call[t].proxy
                 n == FailsAfter(fails[p], call[t].outcome)
                 end == IF call[t].outcome = "challenge" THEN clock[t] + ChallengeQuarantine ELSE until[p]
      <3>1. p \in Proxies /\ call[t].outcome \in Outcomes /\ clock[t] \in Nat
        BY <1>0, <1>1 DEF Fold, CallsTyped
      <3>2. n \in Nat
        BY <1>0, <3>1 DEF FailsAfter, Outcomes, ScoresTyped
      <3>3. end \in Int
        BY <1>0, <3>1 DEF ScoresTyped
      <3>4. Trip(end, n, clock[t]) \in Int
        <4> HIDE DEF end, n
        <4> QED
          BY <3>1, <3>2, <3>3 DEF Trip
      <3>5. /\ folded' = [folded EXCEPT ![p] = @ + 1]
            /\ fails' = [fails EXCEPT ![p] = n]
            /\ until' = [until EXCEPT ![p] = Trip(end, n, clock[t])]
            /\ time' = time
        BY <1>1 DEF Fold, UntilAfter
      <3> HIDE DEF p, n, end
      <3> QED
        BY <1>0, <3>1, <3>2, <3>4, <3>5 DEF ScoresTyped
    <2>2. CallsTyped'
      BY <1>0, <1>1 DEF Fold, StillSick, Go, CallsTyped, None
    <2> QED
      BY <1>0, <1>1, <2>1, <2>2, Kept DEF Fold, StillSick, writerVars, tableVars, historyVars,
         Typed
  <1>2. ASSUME NEW t \in Tasks, MarkDirty(t)
        PROVE  Typed'
    <2>1. PinsTyped'
      BY <1>0, <1>2 DEF MarkDirty, Finish, Go, PinsTyped, PinRow, None, CallsTyped
    <2>2. CallsTyped'
      BY <1>0, <1>2, CallsFinish DEF MarkDirty
    <2> QED
      BY <1>0, <1>2, <2>1, <2>2, Kept DEF MarkDirty, writerVars, tableVars, historyVars, Typed
  <1>3. ASSUME NEW t \in Tasks, UsePin(t)
        PROVE  Typed'
    <2>1. CallsTyped'
      <3>1. call[t].host \in Hosts /\ affinity[call[t].host] \in Proxies \cup {None}
        BY <1>0, <1>3 DEF UsePin, CallsTyped, PinsTyped
      <3>2. CASE ~ (affinity[call[t].host] # None /\ Alive(affinity[call[t].host], clock[t]))
        BY <1>0, <1>3, <3>2, ZenonT(60) DEF UsePin, Go, CallsTyped
      <3>3. CASE affinity[call[t].host] # None /\ Alive(affinity[call[t].host], clock[t])
        <4>1. PICK p \in Proxies : p = affinity[call[t].host]
          BY <3>1, <3>3
        <4>2. found' = [found EXCEPT ![t] = {p}] /\ Go(t, "done")
          BY <1>3, <3>3, <4>1 DEF UsePin
        <4> QED
          BY <1>0, <1>3, <4>2 DEF UsePin, Go, CallsTyped
      <3> QED
        BY <1>0, <3>2, <3>3
    <2> QED
      BY <1>0, <1>3, <2>1, Kept DEF UsePin, writerVars, routerVars, tableVars, historyVars,
         Typed
  <1>4. ASSUME NEW t \in Tasks, Scan(t)
        PROVE  Typed'
    <2>1. CallsTyped'
      BY <1>0, <1>4 DEF Scan, CallsTyped, None
    <2> QED
      BY <1>0, <1>4, <2>1, Kept DEF Scan, writerVars, routerVars, tableVars, historyVars, Typed
  <1>5. ASSUME NEW t \in Tasks, Choose(t)
        PROVE  Typed'
    <2>1. CallsTyped'
      <3>1. PICK p \in Proxies : found' = [found EXCEPT ![t] = {p}]
        BY <1>0, <1>5 DEF Choose, CallsTyped
      <3>2. Go(t, "done") \/ Go(t, "pin")
        BY <1>5 DEF Choose
      <3> QED
        BY <1>0, <1>5, <3>1, <3>2 DEF Choose, Go, CallsTyped
    <2> QED
      BY <1>0, <1>5, <2>1, Kept DEF Choose, writerVars, routerVars, tableVars, historyVars,
         Typed
  <1>6. ASSUME NEW t \in Tasks, NoneAlive(t)
        PROVE  Typed'
    <2>1. CallsTyped'
      BY <1>0, <1>6, CallsFinish DEF NoneAlive
    <2> QED
      BY <1>0, <1>6, <2>1, Kept DEF NoneAlive, writerVars, routerVars, tableVars, historyVars,
         Typed
  <1>7. ASSUME NEW t \in Tasks, Pin(t)
        PROVE  Typed'
    <2>1. PinsTyped'
      BY <1>0, <1>7 DEF Pin, Go, PinsTyped, PinRow, None, CallsTyped
    <2>2. CallsTyped'
      BY <1>0, <1>7 DEF Pin, Go, CallsTyped, None
    <2>3. RestTyped'
      BY <1>0, <1>7 DEF Pin, Go, RestTyped, CallsTyped
    <2> QED
      BY <1>0, <1>7, <2>1, <2>2, <2>3, Kept DEF Pin, writerVars, tableVars, Typed
  <1>8. ASSUME NEW t \in Tasks, Push(t)
        PROVE  Typed'
    <2>1. PinsTyped'
      BY <1>0, <1>8 DEF Push, Go, PinsTyped, PinRow, None, CallsTyped
    <2>2. CallsTyped'
      BY <1>0, <1>8 DEF Push, Go, CallsTyped, None
    <2> QED
      BY <1>0, <1>8, <2>1, <2>2, Kept DEF Push, writerVars, tableVars, historyVars, Typed
  <1>9. ASSUME NEW t \in Tasks, Return(t)
        PROVE  Typed'
    <2>1. CallsTyped'
      BY <1>0, <1>9, CallsFinish DEF Return
    <2> QED
      BY <1>0, <1>9, <2>1, Kept DEF Return, writerVars, routerVars, tableVars, historyVars,
         Typed
  <1>10. ASSUME NEW t \in Tasks, NEW p \in Proxies, NEW o \in Outcomes, Record(t, p, o)
         PROVE  Typed'
    <2>1. CallsTyped'
      BY <1>0, <1>10 DEF Record, Call, Go, NoCall, CallsTyped, None, Outcomes, ScoresTyped
    <2>2. RestTyped'
      BY <1>0, <1>10 DEF Record, Call, Go, NoCall, RestTyped, historyVars
    <2> QED
      BY <1>0, <1>10, <2>1, <2>2, Kept DEF Record, Call, writerVars, routerVars, tableVars,
         historyVars, Typed
  <1>11. ASSUME NEW t \in Tasks, NEW h \in Hosts, Pick(t, h)
         PROVE  Typed'
    <2>1. CallsTyped'
      BY <1>0, <1>11 DEF Pick, Call, Go, NoCall, CallsTyped, None, Outcomes, ScoresTyped
    <2>2. RestTyped'
      BY <1>0, <1>11 DEF Pick, Call, Go, NoCall, RestTyped, historyVars
    <2> QED
      BY <1>0, <1>11, <2>1, <2>2, Kept DEF Pick, Call, writerVars, routerVars, tableVars,
         historyVars, Typed
  <1>12. ASSUME NEW t \in Tasks, NEW h \in Hosts, NEW p \in Proxies, BestAlternative(t, h, p)
         PROVE  Typed'
    <2>1. CallsTyped'
      BY <1>0, <1>12 DEF BestAlternative, Call, Go, NoCall, CallsTyped, None, Outcomes, ScoresTyped
    <2>2. RestTyped'
      BY <1>0, <1>12 DEF BestAlternative, Call, Go, NoCall, RestTyped, historyVars
    <2> QED
      BY <1>0, <1>12, <2>1, <2>2, Kept DEF BestAlternative, Call, writerVars, routerVars,
         tableVars, historyVars, Typed
  <1>13. CASE DrainStarts
    <2>1. FlushTyped'
      BY <1>0, <1>13 DEF DrainStarts, FlushTyped, None, PinRow, Drained, PinsTyped
    <2> QED
      BY <1>0, <1>13, <2>1, Kept DEF DrainStarts, writerVars, routerVars, taskVars, tableVars,
         historyVars, Typed
  <1>14. CASE Unmark
    <2>1. PinsTyped'
      BY <1>0, <1>14 DEF Unmark, PinsTyped, PinRow, None, FlushTyped
    <2>2. FlushTyped'
      <3>1. PICK p \in Proxies :
               flush' = [flush EXCEPT !.at = "read", !.todo = @ \ {p}, !.proxy = p]
        BY <1>0, <1>14 DEF Unmark, FlushTyped
      <3> QED
        BY <1>0, <3>1 DEF FlushTyped
    <2> QED
      BY <1>0, <1>14, <2>1, <2>2, Kept DEF Unmark, writerVars, taskVars, tableVars, historyVars,
         Typed
  <1>15. CASE ReadScore
    <2>1. FlushTyped'
      <3> DEFINE row == [key |-> flush.proxy, value |->
                       [folded |-> folded[flush.proxy], until |-> until[flush.proxy]]]
      <3>1. row \in Drained
        BY <1>0, <1>15 DEF ReadScore, FlushTyped, ScoresTyped, Drained
      <3>2. flush' = [flush EXCEPT !.at = "drain", !.proxy = None, !.rows = Append(@, row)]
        BY <1>15 DEF ReadScore
      <3> HIDE DEF row
      <3>3. flush.rows \in Seq(Drained) /\ Append(flush.rows, row) \in Seq(Drained)
        BY <1>0, <3>1, AppendProperties DEF FlushTyped
      <3> DEFINE rows == Append(flush.rows, row)
      <3>4. flush' = [flush EXCEPT !.at = "drain", !.proxy = None, !.rows = rows]
        BY <3>2
      <3> HIDE DEF rows
      <3>5. rows \in Seq(Drained)
        BY <3>3 DEF rows
      <3> QED
        BY <1>0, <3>4, <3>5 DEF FlushTyped
    <2> QED
      BY <1>0, <1>15, <2>1, Kept DEF ReadScore, writerVars, routerVars, taskVars, tableVars,
         historyVars, Typed
  <1>16. CASE TakePins
    <2>1. FlushTyped'
      BY <1>0, <1>16 DEF TakePins, FlushTyped, None, PinRow, Drained, PinsTyped
    <2>2. PinsTyped'
      BY <1>0, <1>16 DEF TakePins, PinsTyped, PinRow, None
    <2> QED
      BY <1>0, <1>16, <2>1, <2>2, Kept DEF TakePins, writerVars, taskVars, tableVars,
         historyVars, Typed
  <1>17. CASE SendScores
    <2>1. WriterTyped'
      <3> DEFINE packed == [n \in DOMAIN flush.rows |-> Packed(flush.rows[n])]
      <3>1. packed \in Seq([key : Proxies, value : Row])
        BY <1>0, PackedType DEF ScoresTyped, FlushTyped
      <3>2. [kind |-> "scores", rows |-> packed] \in Op
        <4> HIDE DEF packed
        <4> QED
          BY <3>1 DEF Op
      <3>3. UNCHANGED writerVars
            \/ Post([kind |-> "scores", rows |-> packed])
        BY <1>17 DEF SendScores
      <3> HIDE DEF packed
      <3> QED
        BY <1>0, <3>2, <3>3, PostType DEF writerVars
    <2>2. FlushTyped'
      <3>1. PICK rows \in Seq(Drained) : rows = <<>>
        BY EmptySeq
      <3>2. flush' = [flush EXCEPT !.at = "pins", !.rows = rows]
        BY <1>17, <3>1 DEF SendScores
      <3> QED
        BY <1>0, <3>2 DEF FlushTyped
    <2> QED
      BY <1>0, <1>17, <2>1, <2>2, Kept DEF SendScores, writerVars, routerVars, taskVars,
         tableVars, historyVars, Typed
  <1>18. CASE SendPins
    <2>1. WriterTyped'
      <3>1. [kind |-> "pins", rows |-> flush.pins] \in Op
        BY <1>0 DEF Op, FlushTyped
      <3>2. UNCHANGED writerVars \/ Post([kind |-> "pins", rows |-> flush.pins])
        BY <1>18 DEF SendPins
      <3> QED
        BY <1>0, <3>1, <3>2, PostType DEF writerVars
    <2>2. FlushTyped'
      BY <1>0, <1>18 DEF SendPins, NoFlush, FlushTyped, None, PinRow, Drained
    <2> QED
      BY <1>0, <1>18, <2>1, <2>2, Kept DEF SendPins, writerVars, routerVars, taskVars,
         tableVars, historyVars, Typed
  <1>19. CASE WriterTakes
    <2>1. WriterTyped'
      <3>1. PICK n \in 1 .. Len(channel) :
               /\ n <= MaxBatch
               /\ batch' = SubSeq(channel, 1, n)
               /\ channel' = SubSeq(channel, n + 1, Len(channel))
        BY <1>19 DEF WriterTakes, TakeBatch
      <3>2. channel \in Seq(Op) /\ Len(channel) \in Nat /\ Len(channel) <= Capacity
            /\ \A i \in 1 .. Len(channel) : channel[i] \in Op
        BY <1>0 DEF WriterTyped
      <3>3. batch' \in Seq(Op) /\ Len(batch') <= MaxBatch
        BY <3>1, <3>2
      <3>4. channel' \in Seq(Op) /\ Len(channel') <= Capacity
        BY <3>1, <3>2, WriterAssumption, SMTT(40)
      <3> QED
        BY <1>0, <3>3, <3>4 DEF WriterTyped
    <2> QED
      BY <1>0, <1>19, <2>1, Kept DEF WriterTakes, routerVars, taskVars, tableVars, historyVars,
         Typed
  <1>20. CASE Commits
    <2>1. WriterTyped'
      BY <1>0, <1>20, WriterAssumption DEF Commits, EndBatch, WriterTyped
    <2>2. TablesTyped'
      BY <1>0, <1>20, WholeType DEF Commits, Written, TablesTyped, WriterTyped
    <2> QED
      BY <1>0, <1>20, <2>1, <2>2, Kept DEF Commits, routerVars, taskVars, historyVars, Typed
  <1>21. CASE OperationFails
    <2>1. WriterTyped'
      BY <1>0, <1>21, WriterAssumption DEF OperationFails, EndBatch, WriterTyped
    <2>2. TablesTyped'
      <3>1. CASE UNCHANGED tableVars
        BY <1>0, <3>1 DEF tableVars, TablesTyped
      <3>2. ASSUME NEW n \in 1 .. Len(batch), NEW c \in 1 .. Len(batch[n].rows),
                   Written(Cut(batch, n, c))
            PROVE  TablesTyped'
        <4>1. /\ [p \in Proxies |-> After(scoreRows[p], Cut(batch, n, c), "scores", p)]
                   \in [Proxies -> Row]
              /\ [h \in Hosts |-> After(pinRows[h], Cut(batch, n, c), "pins", h)]
                   \in [Hosts -> Proxies \cup {None}]
          BY <1>0, WrittenType, SMTT(40) DEF WriterTyped, TablesTyped
        <4> QED
          BY <3>2, <4>1 DEF Written, TablesTyped
      <3> QED
        BY <1>0, <1>21, <3>1, <3>2 DEF OperationFails, Cut
    <2>3. RestTyped'
      <3>1. lostScores' \subseteq Proxies /\ lostPins' \subseteq Hosts
        BY <1>0, <1>21 DEF OperationFails, Missing, RestTyped
      <3> QED
        BY <1>0, <1>21, <3>1, RouterAssumption DEF OperationFails, RestTyped
    <2> QED
      BY <1>0, <1>21, <2>1, <2>2, <2>3, Kept DEF OperationFails, routerVars, taskVars,
         tableVars, Typed
  <1>22. CASE HydrateScores
    <2>1. ScoresTyped'
      <3>1. \A p \in Proxies : /\ scoreRows[p].until \in Int /\ scoreRows[p].folded \in Nat
                              /\ FromUnix(scoreRows[p].until, time) \in Int
        BY <1>0, ToUnixType DEF TablesTyped, ScoresTyped, Row
      <3> QED
        BY <1>0, <1>22, <3>1 DEF HydrateScores, ScoresTyped
    <2>2. RestTyped'
      BY <1>0, <1>22 DEF HydrateScores, RestTyped, historyVars
    <2> QED
      BY <1>0, <1>22, <2>1, <2>2, Kept DEF HydrateScores, writerVars, taskVars, tableVars,
         historyVars, Typed
  <1>23. CASE HydratePins
    <2>1. PinsTyped'
      BY <1>0, <1>23 DEF HydratePins, PinsTyped, PinRow, None, TablesTyped
    <2>2. RestTyped'
      BY <1>0, <1>23 DEF HydratePins, RestTyped, historyVars
    <2> QED
      BY <1>0, <1>23, <2>1, <2>2, Kept DEF HydratePins, writerVars, taskVars, tableVars,
         historyVars, Typed
  <1>24. CASE HydrateFails
    <2>1. RestTyped'
      BY <1>0, <1>24 DEF HydrateFails, RestTyped
    <2> QED
      BY <1>0, <1>24, <2>1, Kept DEF HydrateFails, writerVars, routerVars, taskVars, tableVars,
         Typed
  <1>25. CASE Restart
    <2>1. WriterTyped'
      <3>1. channel' = <<>> /\ batch' = <<>>
        BY <1>25 DEF Restart, LoseAll
      <3> QED
        BY <1>0, <3>1, WriterAssumption DEF WriterTyped
    <2>2. ScoresTyped'
      BY <1>0, <1>25 DEF Restart, LoseAll, NoFlush, NoCall, ScoresTyped, None
    <2>3. PinsTyped'
      BY <1>0, <1>25 DEF Restart, LoseAll, NoFlush, NoCall, PinsTyped, PinRow, None
    <2>4. CallsTyped'
      BY <1>0, <1>25 DEF Restart, LoseAll, NoFlush, NoCall, CallsTyped, None
    <2>5. FlushTyped'
      BY <1>0, <1>25 DEF Restart, LoseAll, NoFlush, NoCall, FlushTyped, None, PinRow, Drained
    <2>6. RestTyped'
      BY <1>0, <1>25 DEF Restart, LoseAll, NoFlush, NoCall, RestTyped, historyVars
    <2> QED
      BY <1>0, <1>25, <2>1, <2>2, <2>3, <2>4, <2>5, <2>6, Kept DEF Restart, tableVars,
         historyVars, Typed
  <1>26. CASE Tick
    <2>1. ScoresTyped'
      BY <1>0, <1>26 DEF Tick, routerVars, ScoresTyped
    <2>2. CallsTyped'
      BY <1>0, <1>26 DEF Tick, StillSick, CallsTyped, None
    <2> QED
      BY <1>0, <1>26, <2>1, <2>2, Kept DEF Tick, StillSick, writerVars, routerVars, tableVars,
         historyVars, Typed
  <1>27. CASE UNCHANGED vars
    BY <1>0, <1>27, Kept DEF vars, writerVars, routerVars, taskVars, tableVars, historyVars,
       Typed
  <1> QED
    BY <1>1, <1>2, <1>3, <1>4, <1>5, <1>6, <1>7, <1>8, <1>9, <1>10, <1>11, <1>12, <1>13, <1>14,
       <1>15, <1>16, <1>17, <1>18, <1>19, <1>20, <1>21, <1>22, <1>23, <1>24, <1>25, <1>26, <1>27
       DEF Next, Step, Starts, Flush, Writer, Hydrate, Done

\* Every variable keeps its type; a task that pins or returns holds one proxy.
THEOREM TypeCorrect == Spec => []TypeOK
  <1>1. Init => Typed
    BY InitType
  <1>2. Typed /\ [Next]_vars => Typed'
    BY NextType
  <1>3. Typed => TypeOK
    BY TypedIsType
  <1> QED
    BY <1>1, <1>2, <1>3, PTL DEF Spec

(* Between the steps of the flush loop, and while the process starts. *)

\* What the flush loop has in hand at which point.
Shape ==
    /\ flush.at \in {"idle", "drain", "read"} => flush.pins = <<>>
    /\ flush.at \in {"idle", "pins"} => flush.rows = <<>>
    /\ flush.at # "read" => flush.proxy = None

LEMMA NextShape == Typed /\ Shape /\ [Next]_vars => Shape'
  <1> SUFFICES ASSUME Typed, Shape, [Next]_vars
               PROVE  Shape'
    OBVIOUS
  <1>1. FlushTyped
    BY DEF Typed
  <1>2. CASE UNCHANGED flush
    BY <1>2 DEF Shape
  <1>3. CASE DrainStarts
    BY <1>1, <1>3 DEF DrainStarts, Shape, FlushTyped
  <1>4. CASE Unmark
    BY <1>1, <1>4 DEF Unmark, Shape, FlushTyped
  <1>5. CASE ReadScore
    BY <1>1, <1>5 DEF ReadScore, Shape, FlushTyped
  <1>6. CASE TakePins
    BY <1>1, <1>6 DEF TakePins, Shape, FlushTyped
  <1>7. CASE SendScores
    BY <1>1, <1>7 DEF SendScores, Shape, FlushTyped
  <1>8. CASE SendPins \/ Restart
    BY <1>8, SMTT(40) DEF SendPins, Restart, NoFlush, Shape
  <1>9. UNCHANGED flush \/ Flush \/ Restart
    BY ZenonT(60) DEF Next, Step, Starts, Writer, Hydrate, Done, vars, Fold, MarkDirty, UsePin, Scan, Choose,
       NoneAlive, Pin, Push, Return, Record, Pick, BestAlternative, WriterTakes, Commits,
       OperationFails, HydrateScores, HydratePins, HydrateFails, Tick
  <1> QED
    BY <1>2, <1>3, <1>4, <1>5, <1>6, <1>7, <1>8, <1>9 DEF Flush

\* Before the rows are read nothing is on its way to them, and nobody picks.
Quiet ==
    phase # "up" =>
        /\ channel = <<>> /\ batch = <<>> /\ pins = <<>>
        /\ flush = NoFlush
        /\ affinity = [h \in Hosts |-> None]
        /\ \A t \in Tasks : at[t] \in {"idle", "fold", "mark"} /\ sick[t] = {}

LEMMA NextQuiet ==
    Typed /\ Quiet /\ [Next]_vars => Quiet'
  <1> SUFFICES ASSUME Typed, Quiet, [Next]_vars
               PROVE  Quiet'
    OBVIOUS
  <1>1. ASSUME NEW t \in Tasks, Fold(t)
        PROVE  Quiet'
    BY <1>1 DEF Fold, StillSick, Go, writerVars, tableVars, historyVars, Typed, CallsTyped,
       Quiet, NoFlush
  <1>2. ASSUME NEW t \in Tasks, MarkDirty(t)
        PROVE  Quiet'
    BY <1>2 DEF MarkDirty, Finish, Go, writerVars, tableVars, historyVars, Typed, CallsTyped,
       Quiet, NoFlush
  <1>3. ASSUME NEW t \in Tasks, UsePin(t)
        PROVE  Quiet'
    BY <1>3 DEF UsePin, Go, writerVars, routerVars, tableVars, historyVars, Typed, CallsTyped,
       Quiet, NoFlush
  <1>4. ASSUME NEW t \in Tasks, Scan(t)
        PROVE  Quiet'
    BY <1>4 DEF Scan, writerVars, routerVars, tableVars, historyVars, Typed, CallsTyped, Quiet,
       NoFlush
  <1>5. ASSUME NEW t \in Tasks, Choose(t)
        PROVE  Quiet'
    BY <1>5 DEF Choose, Go, writerVars, routerVars, tableVars, historyVars, Typed, CallsTyped,
       Quiet, NoFlush
  <1>6. ASSUME NEW t \in Tasks, NoneAlive(t)
        PROVE  Quiet'
    BY <1>6 DEF NoneAlive, Finish, Go, writerVars, routerVars, tableVars, historyVars, Typed,
       CallsTyped, Quiet, NoFlush
  <1>7. ASSUME NEW t \in Tasks, Pin(t)
        PROVE  Quiet'
    BY <1>7 DEF Pin, Go, writerVars, tableVars, Typed, CallsTyped, Quiet, NoFlush
  <1>8. ASSUME NEW t \in Tasks, Push(t)
        PROVE  Quiet'
    BY <1>8 DEF Push, Go, writerVars, tableVars, historyVars, Typed, CallsTyped, Quiet, NoFlush
  <1>9. ASSUME NEW t \in Tasks, Return(t)
        PROVE  Quiet'
    BY <1>9 DEF Return, Finish, Go, writerVars, routerVars, tableVars, historyVars, Typed,
       CallsTyped, Quiet, NoFlush
  <1>10. ASSUME NEW t \in Tasks, NEW p \in Proxies, NEW o \in Outcomes, Record(t, p, o)
         PROVE  Quiet'
    BY <1>10 DEF Record, Call, Go, NoCall, writerVars, routerVars, tableVars, historyVars,
       Typed, CallsTyped, Quiet, NoFlush
  <1>11. ASSUME NEW t \in Tasks, NEW h \in Hosts, Pick(t, h)
         PROVE  Quiet'
    BY <1>11 DEF Pick, Call, Go, NoCall, writerVars, routerVars, tableVars, historyVars, Typed,
       CallsTyped, Quiet, NoFlush
  <1>12. ASSUME NEW t \in Tasks, NEW h \in Hosts, NEW p \in Proxies, BestAlternative(t, h, p)
         PROVE  Quiet'
    BY <1>12 DEF BestAlternative, Call, Go, NoCall, writerVars, routerVars, tableVars,
       historyVars, Typed, CallsTyped, Quiet, NoFlush
  <1>13. CASE DrainStarts
    BY <1>13 DEF DrainStarts, writerVars, routerVars, taskVars, tableVars, historyVars, Typed,
       CallsTyped, Quiet, NoFlush
  <1>14. CASE Unmark
    BY <1>14 DEF Unmark, writerVars, taskVars, tableVars, historyVars, Typed, CallsTyped, Quiet,
       NoFlush
  <1>15. CASE ReadScore
    BY <1>15 DEF ReadScore, writerVars, routerVars, taskVars, tableVars, historyVars, Typed,
       CallsTyped, Quiet, NoFlush
  <1>16. CASE TakePins
    BY <1>16 DEF TakePins, writerVars, taskVars, tableVars, historyVars, Typed, CallsTyped,
       Quiet, NoFlush
  <1>17. CASE SendScores
    BY <1>17 DEF SendScores, writerVars, routerVars, taskVars, tableVars, historyVars, Typed,
       CallsTyped, Quiet, NoFlush
  <1>18. CASE SendPins
    BY <1>18 DEF SendPins, NoFlush, writerVars, routerVars, taskVars, tableVars, historyVars,
       Typed, CallsTyped, Quiet
  <1>19. CASE WriterTakes
    BY <1>19 DEF WriterTakes, TakeBatch, routerVars, taskVars, tableVars, historyVars, Typed,
       CallsTyped, Quiet, NoFlush
  <1>20. CASE Commits
    BY <1>20 DEF Commits, EndBatch, routerVars, taskVars, historyVars, Typed, CallsTyped, Quiet,
       NoFlush
  <1>21. CASE OperationFails
    BY <1>21 DEF OperationFails, EndBatch, routerVars, taskVars, tableVars, Typed, CallsTyped,
       Quiet, NoFlush
  <1>22. CASE HydrateScores
    BY <1>22 DEF HydrateScores, writerVars, taskVars, tableVars, historyVars, Typed, CallsTyped,
       Quiet, NoFlush
  <1>23. CASE HydratePins
    BY <1>23 DEF HydratePins, writerVars, taskVars, tableVars, historyVars, Typed, CallsTyped,
       Quiet, NoFlush
  <1>24. CASE HydrateFails
    BY <1>24 DEF HydrateFails, writerVars, routerVars, taskVars, tableVars, Typed, CallsTyped,
       Quiet, NoFlush
  <1>25. CASE Restart
    BY <1>25 DEF Restart, LoseAll, NoFlush, NoCall, tableVars, historyVars, Typed, CallsTyped,
       Quiet
  <1>26. CASE Tick
    BY <1>26 DEF Tick, StillSick, writerVars, routerVars, tableVars, historyVars, Typed,
       CallsTyped, Quiet, NoFlush
  <1>27. CASE UNCHANGED vars
    BY <1>27 DEF vars, writerVars, routerVars, taskVars, tableVars, historyVars, Typed,
       CallsTyped, Quiet, NoFlush
  <1> QED
    BY <1>1, <1>2, <1>3, <1>4, <1>5, <1>6, <1>7, <1>8, <1>9, <1>10, <1>11, <1>12, <1>13, <1>14,
       <1>15, <1>16, <1>17, <1>18, <1>19, <1>20, <1>21, <1>22, <1>23, <1>24, <1>25, <1>26, <1>27
       DEF Next, Step, Starts, Flush, Writer, Hydrate, Done

\* A time that was read has passed, and no window began after now.
Clocks == \A t \in Tasks : clock[t] <= time

LEMMA NextClocks == Typed /\ Clocks /\ [Next]_vars => Clocks'
  <1> SUFFICES ASSUME Typed, Clocks, [Next]_vars
               PROVE  Clocks'
    OBVIOUS
  <1>1. CallsTyped /\ ScoresTyped
    BY DEF Typed
  <1>2. CASE UNCHANGED <<clock, time>>
    BY <1>2 DEF Clocks
  <1>3. ASSUME NEW t \in Tasks, UNCHANGED time,
               clock' = [clock EXCEPT ![t] = time] \/ clock' = [clock EXCEPT ![t] = 0]
        PROVE  Clocks'
    BY <1>1, <1>3, SMTT(40) DEF Clocks, CallsTyped, ScoresTyped
  <1>4. CASE UNCHANGED time /\ clock' = [t \in Tasks |-> 0]
    BY <1>1, <1>4 DEF Clocks, ScoresTyped
  <1>5. CASE UNCHANGED clock /\ time' = time + 1
    BY <1>1, <1>5, SMTT(40) DEF Clocks, CallsTyped, ScoresTyped
  <1>6. ASSUME NEW t \in Tasks, Step(t) \/ Starts(t)
        PROVE  /\ UNCHANGED time
               /\ \/ UNCHANGED clock
                  \/ clock' = [clock EXCEPT ![t] = time] \/ clock' = [clock EXCEPT ![t] = 0]
    BY <1>6 DEF Step, Starts, Fold, MarkDirty, UsePin, Scan, Choose, NoneAlive, Pin, Push, Return,
       Record, Pick, BestAlternative, Call, Finish
  <1>7. CASE Flush \/ Writer \/ Hydrate \/ Restart \/ Tick \/ Done \/ UNCHANGED vars
    <2>1. \/ UNCHANGED <<clock, time>>
          \/ UNCHANGED time /\ clock' = [t \in Tasks |-> 0]
          \/ UNCHANGED clock /\ time' = time + 1
      BY <1>7 DEF Flush, Writer, Hydrate, Done, vars, taskVars, DrainStarts, Unmark, ReadScore,
         TakePins, SendScores, SendPins, WriterTakes, Commits, OperationFails, HydrateScores,
         HydratePins, HydrateFails, Restart, Tick
    <2> QED
      BY <1>2, <1>4, <1>5, <2>1, SMTT(40)
  <1> QED
    BY <1>2, <1>3, <1>6, <1>7 DEF Next

\* What a task found alive was alive since it began, and sick proxies still are.
Careful ==
    \A t \in Tasks :
        /\ \A p \in sick[t] : until[p] > time
        /\ found[t] \cap sick[t] = {}
        /\ at[t] = "idle" => found[t] = {}

LEMMA NextCareful ==
    Typed /\ Quiet /\ Clocks /\ Careful /\ [Next]_vars => Careful'
  <1> SUFFICES ASSUME Typed, Quiet, Clocks, Careful, [Next]_vars
               PROVE  Careful'
    OBVIOUS
  <1>1. ASSUME NEW t \in Tasks, Fold(t)
        PROVE  Careful'
    BY <1>1 DEF Fold, StillSick, Go, writerVars, tableVars, historyVars, Typed, CallsTyped,
       ScoresTyped, Careful, Clocks, Alive
  <1>2. ASSUME NEW t \in Tasks, MarkDirty(t)
        PROVE  Careful'
    BY <1>2 DEF MarkDirty, Finish, Go, writerVars, tableVars, historyVars, Typed, CallsTyped,
       ScoresTyped, Careful, Clocks, Alive
  <1>3. ASSUME NEW t \in Tasks, UsePin(t)
        PROVE  Careful'
    BY <1>3 DEF UsePin, Go, writerVars, routerVars, tableVars, historyVars, Typed, CallsTyped,
       ScoresTyped, Careful, Clocks, Alive
  <1>4. ASSUME NEW t \in Tasks, Scan(t)
        PROVE  Careful'
    BY <1>4 DEF Scan, writerVars, routerVars, tableVars, historyVars, Typed, CallsTyped,
       ScoresTyped, Careful, Clocks, Alive
  <1>5. ASSUME NEW t \in Tasks, Choose(t)
        PROVE  Careful'
    BY <1>5 DEF Choose, Go, writerVars, routerVars, tableVars, historyVars, Typed, CallsTyped,
       ScoresTyped, Careful, Clocks, Alive
  <1>6. ASSUME NEW t \in Tasks, NoneAlive(t)
        PROVE  Careful'
    BY <1>6 DEF NoneAlive, Finish, Go, writerVars, routerVars, tableVars, historyVars, Typed,
       CallsTyped, ScoresTyped, Careful, Clocks, Alive
  <1>7. ASSUME NEW t \in Tasks, Pin(t)
        PROVE  Careful'
    BY <1>7 DEF Pin, Go, writerVars, tableVars, Typed, CallsTyped, ScoresTyped, Careful, Clocks,
       Alive
  <1>8. ASSUME NEW t \in Tasks, Push(t)
        PROVE  Careful'
    BY <1>8 DEF Push, Go, writerVars, tableVars, historyVars, Typed, CallsTyped, ScoresTyped,
       Careful, Clocks, Alive
  <1>9. ASSUME NEW t \in Tasks, Return(t)
        PROVE  Careful'
    BY <1>9 DEF Return, Finish, Go, writerVars, routerVars, tableVars, historyVars, Typed,
       CallsTyped, ScoresTyped, Careful, Clocks, Alive
  <1>10. ASSUME NEW t \in Tasks, NEW p \in Proxies, NEW o \in Outcomes, Record(t, p, o)
         PROVE  Careful'
    BY <1>10 DEF Record, Call, Go, NoCall, writerVars, routerVars, tableVars, historyVars,
       Typed, CallsTyped, ScoresTyped, Careful, Clocks, Alive
  <1>11. ASSUME NEW t \in Tasks, NEW h \in Hosts, Pick(t, h)
         PROVE  Careful'
    BY <1>11 DEF Pick, Call, Go, NoCall, writerVars, routerVars, tableVars, historyVars, Typed,
       CallsTyped, ScoresTyped, Careful, Clocks, Alive
  <1>12. ASSUME NEW t \in Tasks, NEW h \in Hosts, NEW p \in Proxies, BestAlternative(t, h, p)
         PROVE  Careful'
    BY <1>12 DEF BestAlternative, Call, Go, NoCall, writerVars, routerVars, tableVars,
       historyVars, Typed, CallsTyped, ScoresTyped, Careful, Clocks, Alive
  <1>13. CASE DrainStarts
    BY <1>13 DEF DrainStarts, writerVars, routerVars, taskVars, tableVars, historyVars, Typed,
       CallsTyped, ScoresTyped, Careful, Clocks, Alive
  <1>14. CASE Unmark
    BY <1>14 DEF Unmark, writerVars, taskVars, tableVars, historyVars, Typed, CallsTyped,
       ScoresTyped, Careful, Clocks, Alive
  <1>15. CASE ReadScore
    BY <1>15 DEF ReadScore, writerVars, routerVars, taskVars, tableVars, historyVars, Typed,
       CallsTyped, ScoresTyped, Careful, Clocks, Alive
  <1>16. CASE TakePins
    BY <1>16 DEF TakePins, writerVars, taskVars, tableVars, historyVars, Typed, CallsTyped,
       ScoresTyped, Careful, Clocks, Alive
  <1>17. CASE SendScores
    BY <1>17 DEF SendScores, writerVars, routerVars, taskVars, tableVars, historyVars, Typed,
       CallsTyped, ScoresTyped, Careful, Clocks, Alive
  <1>18. CASE SendPins
    BY <1>18 DEF SendPins, NoFlush, writerVars, routerVars, taskVars, tableVars, historyVars,
       Typed, CallsTyped, ScoresTyped, Careful, Clocks, Alive
  <1>19. CASE WriterTakes
    BY <1>19 DEF WriterTakes, TakeBatch, routerVars, taskVars, tableVars, historyVars, Typed,
       CallsTyped, ScoresTyped, Careful, Clocks, Alive
  <1>20. CASE Commits
    BY <1>20 DEF Commits, EndBatch, routerVars, taskVars, historyVars, Typed, CallsTyped,
       ScoresTyped, Careful, Clocks, Alive
  <1>21. CASE OperationFails
    BY <1>21 DEF OperationFails, EndBatch, routerVars, taskVars, tableVars, Typed, CallsTyped,
       ScoresTyped, Careful, Clocks, Alive
  <1>22. CASE HydrateScores
    BY <1>22 DEF HydrateScores, taskVars, Careful, Quiet
  <1>23. CASE HydratePins
    BY <1>23 DEF HydratePins, writerVars, taskVars, tableVars, historyVars, Typed, CallsTyped,
       ScoresTyped, Careful, Clocks, Alive
  <1>24. CASE HydrateFails
    BY <1>24 DEF HydrateFails, writerVars, routerVars, taskVars, tableVars, Typed, CallsTyped,
       ScoresTyped, Careful, Clocks, Alive
  <1>25. CASE Restart
    BY <1>25 DEF Restart, LoseAll, NoFlush, NoCall, tableVars, historyVars, Typed, CallsTyped,
       ScoresTyped, Careful, Clocks, Alive
  <1>26. CASE Tick
    BY <1>26 DEF Tick, StillSick, writerVars, routerVars, tableVars, historyVars, Typed,
       CallsTyped, ScoresTyped, Careful, Clocks, Alive
  <1>27. CASE UNCHANGED vars
    BY <1>27 DEF vars, writerVars, routerVars, taskVars, tableVars, historyVars, Typed,
       CallsTyped, ScoresTyped, Careful, Clocks, Alive
  <1> QED
    BY <1>1, <1>2, <1>3, <1>4, <1>5, <1>6, <1>7, <1>8, <1>9, <1>10, <1>11, <1>12, <1>13, <1>14,
       <1>15, <1>16, <1>17, <1>18, <1>19, <1>20, <1>21, <1>22, <1>23, <1>24, <1>25, <1>26, <1>27
       DEF Next, Step, Starts, Flush, Writer, Hydrate, Done

(* Quarantines. *)

\* Rows of which the time was rounded at an instant that has passed, and of a
\* quarantine that was no longer than a challenge's.
GoodRows(now) ==
    {v \in Row : v.until # 0 => \E n \in 0 .. now : /\ v.until = ToUnix(v.exact, n)
                                                  /\ v.exact <= n + ChallengeQuarantine}

GoodOps(ops, now) ==
    \A n \in 1 .. Len(ops) : ops[n].kind = "scores" =>
        \A i \in 1 .. Len(ops[n].rows) : ops[n].rows[i].value \in GoodRows(now)

GoodEnd(end, now) == end <= now + ChallengeQuarantine

Windows ==
    /\ \A p \in Proxies : GoodEnd(until[p], time)
    /\ \A i \in 1 .. Len(flush.rows) : GoodEnd(flush.rows[i].value.until, time)
    /\ GoodOps(batch, time) /\ GoodOps(channel, time)
    /\ \A p \in Proxies : scoreRows[p] \in GoodRows(time)

LEMMA GoodLater ==
    ASSUME NEW now \in Nat, NEW later \in Nat, now <= later
    PROVE  /\ GoodRows(now) \subseteq GoodRows(later)
           /\ \A ops : GoodOps(ops, now) => GoodOps(ops, later)
           /\ \A end \in Int : GoodEnd(end, now) => GoodEnd(end, later)
  <1>1. 0 .. now \subseteq 0 .. later
    OBVIOUS
  <1>2. GoodRows(now) \subseteq GoodRows(later)
    BY <1>1 DEF GoodRows
  <1>3. \A end \in Int : GoodEnd(end, now) => GoodEnd(end, later)
    BY RouterAssumption DEF GoodEnd
  <1> QED
    BY <1>2, <1>3 DEF GoodOps

LEMMA Division ==
    ASSUME NEW x \in Nat, NEW s \in Nat \ {0}
    PROVE  /\ x \div s \in Nat
           /\ (x \div s) * s <= x
           /\ x < (x \div s) * s + s
  OBVIOUS

LEMMA DivisionGrows ==
    ASSUME NEW x \in Nat, NEW y \in Nat, x <= y, NEW s \in Nat \ {0}
    PROVE  (x \div s) * s <= (y \div s) * s
  <1> DEFINE a == x \div s
             b == y \div s
  <1>1. a \in Nat /\ b \in Nat /\ a * s <= x /\ y < b * s + s
    BY Division
  <1> HIDE DEF a, b
  <1>2. a * s < (b + 1) * s
    BY <1>1
  <1>3. a < b + 1
    BY <1>1, <1>2
  <1>4. a <= b
    BY <1>1, <1>3
  <1>5. a * s <= b * s
    BY <1>1, <1>4
  <1> QED
    BY <1>5 DEF a, b

\* What rounding twice does to the end of a quarantine.
LEMMA Rounding ==
    ASSUME NEW end \in Int, NEW n \in Nat, NEW now \in Nat, n <= now
    PROVE  LET back == FromUnix(ToUnix(end, n), now)
           IN  /\ back > end - 2 * Second
               /\ back < end + Second \/ back <= now
               /\ end <= n + ChallengeQuarantine => back <= now + ChallengeQuarantine
  <1> DEFINE S == Second
             q == n \div S
             r == now \div S
  <1>1. S \in Nat \ {0} /\ ChallengeQuarantine \in Nat
    BY RouterAssumption
  <1>2. /\ q \in Nat /\ q * S <= n /\ n < q * S + S
        /\ r \in Nat /\ r * S <= now /\ now < r * S + S
        /\ q * S <= r * S
    BY <1>1, Division, DivisionGrows
  <1>3. CASE end >= n
    <2> DEFINE d == (end - n) \div S
    <2>1. d \in Nat /\ d * S <= end - n /\ end - n < d * S + S
      BY <1>1, <1>3, Division
    <2>2. FromUnix(ToUnix(end, n), now) = now + ((q + d) - r) * S
      <3>1. PICK u : u = q + d
        OBVIOUS
      <3>2. ToUnix(end, n) = u
        BY <1>3, <3>1 DEF ToUnix, Unix
      <3>3. FromUnix(u, now) = now + (u - r) * S
        BY DEF FromUnix, Unix
      <3> HIDE DEF q, r, d, S
      <3>4. FromUnix(ToUnix(end, n), now) = now + (u - r) * S
        BY <3>2, <3>3
      <3> QED
        BY <3>1, <3>4
    <2> HIDE DEF q, r, d, S
    <2>3. ((q + d) - r) * S = q * S + d * S - r * S
      BY <1>1, <1>2, <2>1
    <2>4. q * S \in Int /\ d * S \in Int /\ r * S \in Int
      BY <1>1, <1>2, <2>1
    <2> DEFINE back == now + (q * S + d * S - r * S)
    <2>5. back > end - 2 * S /\ back < end + S
          /\ (end <= n + ChallengeQuarantine => back <= now + ChallengeQuarantine)
      BY <1>1, <1>2, <2>1, <2>4
    <2> QED
      BY <2>2, <2>3, <2>5 DEF S
  <1>4. CASE end < n
    <2> DEFINE d == (n - end) \div S
    <2>1. d \in Nat /\ d * S <= n - end /\ n - end < d * S + S
      BY <1>1, <1>4, Division
    <2>2. FromUnix(ToUnix(end, n), now) = now + (q - d - r) * S
      <3>1. PICK u : u = q - d
        OBVIOUS
      <3>2. ToUnix(end, n) = u
        BY <1>4, <3>1 DEF ToUnix, Unix
      <3>3. FromUnix(u, now) = now + (u - r) * S
        BY DEF FromUnix, Unix
      <3> HIDE DEF q, r, d, S
      <3>4. FromUnix(ToUnix(end, n), now) = now + (u - r) * S
        BY <3>2, <3>3
      <3> QED
        BY <3>1, <3>4
    <2> HIDE DEF q, r, d, S
    <2>3. (q - d - r) * S = q * S - d * S - r * S
      BY <1>1, <1>2, <2>1
    <2>4. q * S \in Int /\ d * S \in Nat /\ r * S \in Int
      BY <1>1, <1>2, <2>1
    <2> DEFINE back == now + (q * S - d * S - r * S)
    <2>5. back > end - 2 * S /\ back <= now
      BY <1>1, <1>2, <2>1, <2>4, <1>4
    <2>6. back <= now + ChallengeQuarantine
      BY <1>1, <2>4, <2>5, SMTT(40)
    <2> QED
      BY <2>2, <2>3, <2>5, <2>6 DEF S
  <1> QED
    BY <1>3, <1>4

\* Which steps change what the rows depend on.
LEMMA Changes ==
    ASSUME [Next]_vars
    PROVE  /\ UNCHANGED until \/ (\E t \in Tasks : Fold(t)) \/ HydrateScores \/ Restart
           /\ UNCHANGED flush \/ Flush \/ Restart
           /\ UNCHANGED <<channel, batch>> \/ SendScores \/ SendPins \/ Writer \/ Restart
           /\ UNCHANGED <<scoreRows, pinRows>> \/ Commits \/ OperationFails
           /\ UNCHANGED time \/ Tick
  BY ZenonT(60) DEF Next, Step, Starts, Flush, Writer, Hydrate, Done, vars, writerVars, routerVars, taskVars,
     tableVars, historyVars, Fold, MarkDirty, UsePin, Scan, Choose, NoneAlive, Pin, Push, Return,
     Record, Pick, BestAlternative, DrainStarts, Unmark, ReadScore, TakePins, SendScores, SendPins,
     WriterTakes, Commits, OperationFails, HydrateScores, HydratePins, HydrateFails, Restart, Tick

LEMMA EndAfter ==
    ASSUME NEW end \in Int, NEW n \in Nat, NEW now \in Nat, GoodEnd(end, time),
           now <= time, time \in Nat
    PROVE  /\ GoodEnd(Trip(end, n, now), time)
           /\ GoodEnd(Trip(now + ChallengeQuarantine, n, now), time)
           /\ Trip(end, n, now) >= end
           /\ Trip(now + ChallengeQuarantine, n, now) >= now + ChallengeQuarantine
  BY RouterAssumption DEF GoodEnd, Trip

LEMMA NextEnds ==
    ASSUME Typed, Clocks, Windows, [Next]_vars
    PROVE  \A p \in Proxies : GoodEnd(until'[p], time')
  <1> USE RouterAssumption
  <1>1. ScoresTyped /\ CallsTyped /\ TablesTyped
    BY DEF Typed
  <1>2. \A p \in Proxies : GoodEnd(until[p], time) /\ until[p] \in Int
    BY <1>1 DEF Windows, ScoresTyped
  <1>3. CASE UNCHANGED <<until, time>>
    BY <1>2, <1>3
  <1>4. ASSUME NEW t \in Tasks, Fold(t)
        PROVE  \A p \in Proxies : GoodEnd(until'[p], time')
    <2> DEFINE q == call[t].proxy
               n == FailsAfter(fails[q], call[t].outcome)
    <2>1. q \in Proxies /\ n \in Nat /\ clock[t] \in Nat /\ clock[t] <= time /\ time \in Nat
      BY <1>1, <1>4 DEF Fold, CallsTyped, ScoresTyped, Outcomes, FailsAfter, Clocks
    <2>2. until' = [until EXCEPT ![q] = UntilAfter(q, call[t].outcome, n, clock[t])]
          /\ time' = time
      BY <1>4 DEF Fold
    <2> HIDE DEF q, n
    <2>3. GoodEnd(UntilAfter(q, call[t].outcome, n, clock[t]), time)
      BY <1>2, <2>1, EndAfter DEF UntilAfter
    <2> QED
      BY <1>1, <1>2, <2>1, <2>2, <2>3 DEF ScoresTyped
  <1>5. CASE HydrateScores
    <2>1. ASSUME NEW p \in Proxies PROVE GoodEnd(until'[p], time')
      <3>1. time' = time /\ time \in Nat
        BY <1>1, <1>5 DEF HydrateScores, ScoresTyped
      <3>2. CASE scoreRows[p] = NoRow
        BY <1>2, <1>5, <3>1, <3>2 DEF HydrateScores
      <3>3. CASE scoreRows[p] # NoRow /\ scoreRows[p].until = 0
        BY <1>5, <3>1, <3>3 DEF HydrateScores, GoodEnd
      <3>4. CASE scoreRows[p] # NoRow /\ scoreRows[p].until # 0
        <4>1. PICK n \in 0 .. time : /\ scoreRows[p].until = ToUnix(scoreRows[p].exact, n)
                                     /\ scoreRows[p].exact <= n + ChallengeQuarantine
          BY <3>4 DEF Windows, GoodRows
        <4>2. scoreRows[p].exact \in Int /\ n \in Nat /\ n <= time
          BY <1>1, <3>1 DEF TablesTyped, Row
        <4>3. FromUnix(scoreRows[p].until, time) <= time + ChallengeQuarantine
          BY <3>1, <4>1, <4>2, Rounding
        <4> QED
          BY <1>5, <3>1, <3>4, <4>3 DEF HydrateScores, GoodEnd
      <3> QED
        BY <3>2, <3>3, <3>4
    <2> QED
      BY <2>1
  <1>6. CASE Restart
    BY <1>1, <1>6, SMTT(40) DEF Restart, GoodEnd, ScoresTyped
  <1>7. CASE Tick
    <2>1. UNCHANGED until /\ time' = time + 1 /\ time \in Nat
      BY <1>1, <1>7 DEF Tick, routerVars, ScoresTyped
    <2> QED
      BY <1>2, <2>1, GoodLater
  <1> QED
    BY <1>3, <1>4, <1>5, <1>6, <1>7, Changes DEF HydrateScores, Restart, Fold

LEMMA NextFlushEnds ==
    ASSUME Typed, Windows, [Next]_vars
    PROVE  \A i \in 1 .. Len(flush'.rows) : GoodEnd(flush'.rows[i].value.until, time')
  <1>1. ScoresTyped /\ FlushTyped
    BY DEF Typed
  <1> DEFINE Good(rows, now) == \A i \in 1 .. Len(rows) : GoodEnd(rows[i].value.until, now)
  <1>2. Good(flush.rows, time)
    BY DEF Windows
  <1>3. flush.rows \in Seq(Drained)
    BY <1>1 DEF FlushTyped
  <1>4. Good(<<>>, time)
    OBVIOUS
  <1>5. CASE UNCHANGED <<flush, time>>
    BY <1>2, <1>5
  <1>6. CASE ReadScore
    <2> DEFINE row == [key |-> flush.proxy, value |->
                        [folded |-> folded[flush.proxy], until |-> until[flush.proxy]]]
    <2>1. /\ flush'.rows = Append(flush.rows, row) /\ time' = time
          /\ row \in Drained /\ GoodEnd(row.value.until, time)
      BY <1>1, <1>6 DEF ReadScore, FlushTyped, ScoresTyped, Windows, Drained
    <2> HIDE DEF row
    <2>2. ASSUME NEW i \in 1 .. Len(Append(flush.rows, row))
          PROVE  GoodEnd(Append(flush.rows, row)[i].value.until, time)
      <3>1. /\ Len(flush.rows) \in Nat /\ Len(Append(flush.rows, row)) = Len(flush.rows) + 1
            /\ \A j \in 1 .. Len(flush.rows) : Append(flush.rows, row)[j] = flush.rows[j]
            /\ Append(flush.rows, row)[Len(flush.rows) + 1] = row
        BY <1>3, <2>1, AppendProperties, LenProperties
      <3>2. i \in 1 .. Len(flush.rows) \/ i = Len(flush.rows) + 1
        BY <3>1
      <3> QED
        BY <1>2, <2>1, <3>1, <3>2
    <2> QED
      BY <2>1, <2>2
  <1>7. CASE DrainStarts \/ Unmark \/ TakePins
    <2>1. flush'.rows = flush.rows /\ time' = time
      BY <1>1, <1>7 DEF DrainStarts, Unmark, TakePins, FlushTyped
    <2> QED
      BY <1>2, <2>1
  <1>8. CASE SendScores \/ SendPins \/ Restart
    <2>1. ASSUME SendScores PROVE flush'.rows = <<>>
      <3>1. "rows" \in DOMAIN flush
        BY <1>1 DEF FlushTyped
      <3> QED
        BY <2>1, <3>1 DEF SendScores
    <2>2. ASSUME SendPins PROVE flush'.rows = <<>>
      BY <2>2 DEF SendPins, NoFlush
    <2>3. ASSUME Restart PROVE flush'.rows = <<>>
      BY <2>3 DEF Restart, NoFlush
    <2>4. flush'.rows = <<>>
      BY <1>8, <2>1, <2>2, <2>3
    <2> QED
      BY <1>4, <1>8, <2>4 DEF SendScores, SendPins, Restart
  <1>9. CASE Tick
    <2>1. UNCHANGED flush /\ time' = time + 1 /\ time \in Nat
      BY <1>1, <1>9 DEF Tick, ScoresTyped
    <2>2. \A i \in 1 .. Len(flush.rows) : flush.rows[i].value.until \in Int
      <3>1. \A i \in 1 .. Len(flush.rows) : flush.rows[i] \in Drained
        BY <1>3, ElementOfSeq
      <3> QED
        BY <3>1 DEF Drained
    <2> QED
      BY <1>2, <2>1, <2>2, GoodLater
  <1>10. UNCHANGED <<flush, time>> \/ Flush \/ Restart \/ Tick
    BY Changes
  <1> QED
    BY <1>5, <1>6, <1>7, <1>8, <1>9, <1>10 DEF Flush

\* Rows that are packed are good, and stay so on their way.
LEMMA PackedGood ==
    ASSUME time \in Nat, NEW rows \in Seq(Drained),
           \A i \in 1 .. Len(rows) : GoodEnd(rows[i].value.until, time),
           NEW i \in 1 .. Len(rows)
    PROVE  Packed(rows[i]).value \in GoodRows(time)
  <1>1. rows[i] \in Drained /\ GoodEnd(rows[i].value.until, time)
    BY ElementOfSeq
  <1>2. rows[i].value.until \in Int /\ rows[i].value.folded \in Nat
    BY <1>1 DEF Drained
  <1>3. ToUnix(rows[i].value.until, time) \in Int
    BY <1>2, ToUnixType
  <1>4. Packed(rows[i]).value \in Row
    BY <1>2, <1>3 DEF Packed, Row
  <1>5. ASSUME rows[i].value.until # 0
        PROVE  /\ Packed(rows[i]).value.until = ToUnix(Packed(rows[i]).value.exact, time)
               /\ Packed(rows[i]).value.exact <= time + ChallengeQuarantine
    BY <1>1, <1>5 DEF Packed, GoodEnd
  <1>6. rows[i].value.until = 0 => Packed(rows[i]).value.until = 0
    BY DEF Packed
  <1> QED
    BY <1>4, <1>5, <1>6 DEF GoodRows

LEMMA NextGoodOps ==
    ASSUME Typed, Shape, Windows, [Next]_vars
    PROVE  GoodOps(channel', time') /\ GoodOps(batch', time')
  <1>1. ScoresTyped /\ FlushTyped /\ WriterTyped
    BY DEF Typed
  <1>2. GoodOps(channel, time) /\ GoodOps(batch, time) /\ time \in Nat
    BY <1>1 DEF Windows, ScoresTyped
  <1>3. GoodOps(<<>>, time)
    BY DEF GoodOps
  <1>4. ASSUME NEW op \in Op, Post(op), UNCHANGED time,
               op.kind = "scores" => \A i \in 1 .. Len(op.rows) : op.rows[i].value \in GoodRows(time)
        PROVE  GoodOps(channel', time') /\ GoodOps(batch', time')
    <2>1. /\ channel' = Append(channel, op) /\ batch' = batch /\ Len(channel) \in Nat
          /\ Len(channel') = Len(channel) + 1 /\ channel'[Len(channel) + 1] = op
          /\ \A n \in 1 .. Len(channel) : channel'[n] = channel[n]
      BY <1>1, <1>4, AppendProperties, LenProperties DEF Post, WriterTyped
    <2>2. ASSUME NEW n \in 1 .. Len(channel'), channel'[n].kind = "scores",
                 NEW i \in 1 .. Len(channel'[n].rows)
          PROVE  channel'[n].rows[i].value \in GoodRows(time)
      <3>1. n \in 1 .. Len(channel) \/ n = Len(channel) + 1
        BY <2>1
      <3> QED
        BY <1>2, <1>4, <2>1, <2>2, <3>1 DEF GoodOps
    <2> QED
      BY <1>2, <1>4, <2>1, <2>2 DEF GoodOps
  <1>5. CASE SendScores
    <2> DEFINE packed == [n \in DOMAIN flush.rows |-> Packed(flush.rows[n])]
    <2>1. /\ packed \in Seq([key : Proxies, value : Row]) /\ Len(packed) = Len(flush.rows)
          /\ \A i \in 1 .. Len(flush.rows) : packed[i] = Packed(flush.rows[i])
      BY <1>1, PackedType DEF ScoresTyped, FlushTyped
    <2>2. UNCHANGED time /\ (UNCHANGED writerVars \/ Post([kind |-> "scores", rows |-> packed]))
      BY <1>5 DEF SendScores
    <2>3. \A i \in 1 .. Len(packed) : packed[i].value \in GoodRows(time)
      <3> HIDE DEF packed
      <3>1. \A i \in 1 .. Len(flush.rows) : GoodEnd(flush.rows[i].value.until, time)
        BY DEF Windows
      <3>2. \A i \in 1 .. Len(flush.rows) : Packed(flush.rows[i]).value \in GoodRows(time)
        BY <1>1, <1>2, <3>1, PackedGood DEF FlushTyped
      <3> QED
        BY <2>1, <3>2
    <2> HIDE DEF packed
    <2>4. [kind |-> "scores", rows |-> packed] \in Op
      BY <2>1 DEF Op
    <2> QED
      BY <1>2, <1>4, <2>2, <2>3, <2>4 DEF writerVars
  <1>6. CASE SendPins
    <2>1. [kind |-> "pins", rows |-> flush.pins] \in Op
      BY <1>1 DEF FlushTyped, Op
    <2>2. UNCHANGED time
          /\ (UNCHANGED writerVars \/ Post([kind |-> "pins", rows |-> flush.pins]))
      BY <1>6 DEF SendPins
    <2> QED
      BY <1>2, <1>4, <2>1, <2>2 DEF writerVars
  <1>7. CASE WriterTakes
    <2>1. PICK k \in 1 .. Len(channel) :
             /\ batch' = SubSeq(channel, 1, k)
             /\ channel' = SubSeq(channel, k + 1, Len(channel))
      BY <1>7 DEF WriterTakes, TakeBatch
    <2>2. channel \in Seq(Op) /\ Len(channel) \in Nat /\ \A n \in 1 .. Len(channel) : channel[n] \in Op
      BY <1>1 DEF WriterTyped
    <2>3. /\ Len(batch') = k /\ \A n \in 1 .. k : batch'[n] = channel[n]
          /\ Len(channel') = Len(channel) - k
          /\ \A n \in 1 .. Len(channel) - k : channel'[n] = channel[k + n]
      BY <2>1, <2>2
    <2>4. \A n \in 1 .. Len(channel) - k : k + n \in 1 .. Len(channel)
      BY <2>2
    <2>5. \A n \in 1 .. k : n \in 1 .. Len(channel)
      BY <2>2
    <2>6. time' = time
      BY <1>7 DEF WriterTakes
    <2> QED
      BY <1>2, <2>3, <2>4, <2>5, <2>6, SMTT(40) DEF GoodOps
  <1>8. CASE Commits \/ OperationFails
    <2>1. channel' = channel /\ batch' = <<>> /\ time' = time
      BY <1>8 DEF Commits, OperationFails, EndBatch
    <2> QED
      BY <1>2, <1>3, <2>1
  <1>9. CASE Restart
    BY <1>3, <1>9 DEF Restart, LoseAll
  <1>10. CASE Tick
    <2>1. UNCHANGED <<channel, batch>> /\ time' = time + 1
      BY <1>10 DEF Tick, writerVars
    <2> QED
      BY <1>2, <2>1, GoodLater
  <1>11. CASE UNCHANGED <<channel, batch, time>>
    BY <1>2, <1>11
  <1> QED
    BY <1>5, <1>6, <1>7, <1>8, <1>9, <1>10, <1>11, Changes DEF Writer

LEMMA NextGoodTable ==
    ASSUME Typed, Windows, [Next]_vars
    PROVE  \A p \in Proxies : scoreRows'[p] \in GoodRows(time')
  <1>1. ScoresTyped /\ WriterTyped
    BY DEF Typed
  <1>2. GoodOps(batch, time) /\ time \in Nat /\ \A p \in Proxies : scoreRows[p] \in GoodRows(time)
    BY <1>1 DEF Windows, ScoresTyped
  <1>3. batch \in Seq(Posted)
    BY <1>1, PostedOps DEF WriterTyped
  <1>4. ASSUME NEW p \in Proxies PROVE After(scoreRows[p], batch, "scores", p) \in GoodRows(time)
    <2>1. ASSUME NEW m \in 1 .. Len(batch), NEW i \in 1 .. Len(batch[m].rows),
                 RowFor(batch, "scores", p, m, i)
          PROVE  batch[m].rows[i].value \in GoodRows(time)
      BY <1>2, <2>1 DEF RowFor, GoodOps
    <2> QED
      BY <1>2, <1>3, <2>1, AfterIn
  <1>5. ASSUME NEW p \in Proxies, NEW n \in 1 .. Len(batch), NEW c \in 1 .. Len(batch[n].rows)
        PROVE  After(scoreRows[p], Cut(batch, n, c), "scores", p) \in GoodRows(time)
    <2>1. Cut(batch, n, c) \in Seq(Posted) /\ Len(Cut(batch, n, c)) = Len(batch)
      BY <1>3, CutTypes
    <2>2. ASSUME NEW m \in 1 .. Len(batch), NEW i \in 1 .. Len(Cut(batch, n, c)[m].rows),
                 RowFor(Cut(batch, n, c), "scores", p, m, i)
          PROVE  Cut(batch, n, c)[m].rows[i].value \in GoodRows(time)
      <3>1. /\ i \in 1 .. Len(batch[m].rows)
            /\ Cut(batch, n, c)[m].rows[i] = batch[m].rows[i]
            /\ RowFor(batch, "scores", p, m, i)
        BY <1>3, <2>2, CutRows
      <3> QED
        BY <1>2, <3>1 DEF RowFor, GoodOps
    <2> QED
      BY <1>2, <2>1, <2>2, AfterIn
  <1>6. CASE Commits
    BY <1>4, <1>6 DEF Commits, Written
  <1>7. CASE OperationFails
    <2>1. CASE UNCHANGED tableVars
      BY <1>2, <1>7, <2>1 DEF OperationFails, tableVars
    <2>2. ASSUME NEW n \in 1 .. Len(batch), NEW c \in 1 .. Len(batch[n].rows),
                 Written(Cut(batch, n, c))
          PROVE  \A p \in Proxies : scoreRows'[p] \in GoodRows(time')
      BY <1>5, <1>7, <2>2 DEF OperationFails, Written
    <2> QED
      BY <1>7, <2>1, <2>2 DEF OperationFails, Cut
  <1>8. CASE UNCHANGED <<scoreRows, pinRows>>
    <2>1. time' \in Nat /\ time <= time'
      BY <1>2, Changes DEF Tick
    <2> QED
      BY <1>2, <1>8, <2>1, GoodLater
  <1> QED
    BY <1>6, <1>7, <1>8, Changes

LEMMA NextWindows == Typed /\ Shape /\ Clocks /\ Windows /\ [Next]_vars => Windows'
  BY NextEnds, NextFlushEnds, NextGoodOps, NextGoodTable DEF Windows

(* The invariants together. *)

Base == Typed /\ Shape /\ Quiet /\ Clocks /\ Careful /\ Windows

LEMMA InitBase == Init => Base
  <1> SUFFICES ASSUME Init
               PROVE  Base
    OBVIOUS
  <1> USE RouterAssumption
  <1>1. Typed
    BY InitType
  <1>2. flush = NoFlush /\ channel = <<>> /\ batch = <<>> /\ pins = <<>>
    BY DEF Init, MemoryInit, WriterInit
  <1>3. Shape
    BY <1>2 DEF Shape, NoFlush
  <1>4. Quiet
    BY <1>2 DEF Quiet, Init, MemoryInit
  <1>5. Clocks
    BY DEF Clocks, Init, MemoryInit, Start
  <1>6. Careful
    BY DEF Careful, Init, MemoryInit
  <1>7. Windows
    <2>1. time \in Nat /\ NoRow \in Row
      BY DEF Init, Start, NoRow, Row
    <2>2. \A p \in Proxies : until[p] = 0 /\ scoreRows[p] = NoRow
      BY DEF Init, MemoryInit
    <2>3. NoRow \in GoodRows(time)
      BY <2>1 DEF GoodRows, NoRow
    <2>4. GoodEnd(0, time)
      BY <2>1 DEF GoodEnd
    <2>5. flush.rows = <<>> /\ GoodOps(<<>>, time)
      BY <1>2 DEF NoFlush, GoodOps
    <2> QED
      BY <1>2, <2>2, <2>3, <2>4, <2>5 DEF Windows
  <1> QED
    BY <1>1, <1>3, <1>4, <1>5, <1>6, <1>7 DEF Base

LEMMA BaseHolds == Spec => []Base
  <1>1. Base /\ [Next]_vars => Base'
    BY NextType, NextShape, NextQuiet, NextClocks, NextCareful, NextWindows DEF Base
  <1> QED
    BY InitBase, <1>1, PTL DEF Spec

\* A proxy that a pick returns was alive at some time during the pick: what it
\* found alive it never found dead ever since its beginning.
THEOREM NeverDeadThroughout == Spec => []NotDeadThroughout
  <1>1. Base => NotDeadThroughout
    BY DEF Base, Careful, NotDeadThroughout
  <1> QED
    BY <1>1, BaseHolds, PTL

LEMMA OnlyHydrates == [Next]_vars /\ phase = "scores" /\ phase' = "pins" => HydrateScores
  BY DEF Next, Step, Starts, Flush, Writer, Hydrate, Done, vars, Fold, MarkDirty, UsePin, Scan,
     Choose, NoneAlive, Pin, Push, Return, Record, Pick, BestAlternative, DrainStarts, Unmark,
     ReadScore, TakePins, SendScores, SendPins, WriterTakes, Commits, OperationFails, HydratePins,
     HydrateFails, Restart, Tick

\* A quarantine comes back from its row less than two seconds early, and less
\* than one late or else already over, whatever the restarts in between.
THEOREM QuarantinesSurvive == Spec => QuarantineSurvives
  <1>1. ASSUME Base, [Next]_vars, phase = "scores", phase' = "pins",
               NEW p \in Proxies, scoreRows[p].until # 0
        PROVE  /\ until'[p] > scoreRows[p].exact - 2 * Second
               /\ until'[p] < scoreRows[p].exact + Second \/ until'[p] <= time
    <2>1. ScoresTyped /\ TablesTyped
      BY <1>1 DEF Base, Typed
    <2>2. scoreRows[p] # NoRow
      BY <1>1 DEF NoRow
    <2>3. until'[p] = FromUnix(scoreRows[p].until, time)
      BY <1>1, <2>2, OnlyHydrates DEF HydrateScores
    <2>4. PICK n \in 0 .. time : scoreRows[p].until = ToUnix(scoreRows[p].exact, n)
      BY <1>1 DEF Base, Windows, GoodRows
    <2>5. time \in Nat /\ n \in Nat /\ n <= time /\ scoreRows[p].exact \in Int
      BY <2>1 DEF ScoresTyped, TablesTyped, Row
    <2> QED
      BY <2>3, <2>4, <2>5, Rounding
  <1>2. Base /\ [Next]_vars =>
          [phase = "scores" /\ phase' = "pins" =>
             \A p \in Proxies : scoreRows[p].until # 0 =>
               /\ until'[p] > scoreRows[p].exact - 2 * Second
               /\ until'[p] < scoreRows[p].exact + Second \/ until'[p] <= time]_vars
    BY <1>1
  <1> QED
    BY <1>2, BaseHolds, PTL DEF Spec, QuarantineSurvives

LEMMA OnlyFolds ==
    ASSUME Typed, [Next]_vars, NEW t \in Tasks, at[t] = "fold", at'[t] = "mark"
    PROVE  Fold(t)
  <1>1. CallsTyped
    BY DEF Typed
  <1>2. ASSUME NEW u \in Tasks, Step(u) \/ Starts(u)
        PROVE  Fold(t)
    <2>1. \A s \in Tasks \ {u} : at'[s] = at[s]
      BY <1>1, <1>2 DEF Step, Starts, Fold, MarkDirty, UsePin, Scan, Choose, NoneAlive, Pin, Push,
         Return, Record, Pick, BestAlternative, Finish, Go, CallsTyped
    <2>2. u = t
      BY <2>1
    <2>3. CASE Fold(u)
      BY <2>2, <2>3
    <2>4. CASE ~Fold(u)
      BY <1>1, <1>2, <2>2, <2>4 DEF Step, Starts, MarkDirty, UsePin, Scan, Choose, NoneAlive, Pin,
         Push, Return, Record, Pick, BestAlternative, Call, Finish, Go, CallsTyped
    <2> QED
      BY <2>3, <2>4, SMTT(40)
  <1>3. CASE Restart
    BY <1>3, SMTT(40) DEF Restart
  <1>4. CASE Flush \/ Writer \/ Hydrate \/ Tick \/ Done \/ UNCHANGED vars
    BY <1>4 DEF Flush, Writer, Hydrate, Done, DrainStarts, Unmark, ReadScore, TakePins, SendScores,
       SendPins, WriterTakes, Commits, OperationFails, HydrateScores, HydratePins, HydrateFails,
       Tick, vars, taskVars
  <1> QED
    BY <1>2, <1>3, <1>4 DEF Next

\* An outcome cuts a quarantine short by no more than the age of the time its
\* caller read before the lock.
THEOREM QuarantinesKept == Spec => QuarantineKept
  <1>1. ASSUME Base, [Next]_vars, NEW t \in Tasks, at[t] = "fold", at'[t] = "mark"
        PROVE  until'[call[t].proxy] >= until[call[t].proxy] - (time - clock[t])
    <2> DEFINE q == call[t].proxy
               n == FailsAfter(fails[q], call[t].outcome)
    <2>1. Fold(t) /\ ScoresTyped /\ CallsTyped
      BY <1>1, OnlyFolds DEF Base, Typed
    <2>2. /\ q \in Proxies /\ n \in Nat /\ clock[t] \in Nat /\ clock[t] <= time /\ time \in Nat
          /\ until[q] \in Int
      BY <1>1, <2>1 DEF Fold, CallsTyped, ScoresTyped, Outcomes, FailsAfter, Clocks, Base
    <2>3. until'[q] = UntilAfter(q, call[t].outcome, n, clock[t])
      BY <2>1, <2>2 DEF Fold, ScoresTyped
    <2>4. until[q] <= time + ChallengeQuarantine
      BY <1>1, <2>2 DEF Base, Windows, GoodEnd
    <2> HIDE DEF q, n
    <2>5. /\ Trip(until[q], n, clock[t]) >= until[q]
          /\ Trip(clock[t] + ChallengeQuarantine, n, clock[t]) >= clock[t] + ChallengeQuarantine
      BY <2>2, RouterAssumption DEF Trip
    <2>6. /\ Trip(until[q], n, clock[t]) \in Int
          /\ Trip(clock[t] + ChallengeQuarantine, n, clock[t]) \in Int
          /\ ChallengeQuarantine \in Nat
      BY <2>2, RouterAssumption DEF Trip
    <2>7. until'[q] >= until[q] - (time - clock[t])
      BY <2>2, <2>3, <2>4, <2>5, <2>6 DEF UntilAfter
    <2> QED
      BY <2>7 DEF q
  <1>2. Base /\ [Next]_vars =>
          [\A t \in Tasks : at[t] = "fold" /\ at'[t] = "mark" =>
             LET p == call[t].proxy
             IN  until'[p] >= until[p] - (time - clock[t])]_vars
    BY <1>1
  <1> QED
    BY <1>2, BaseHolds, PTL DEF Spec, QuarantineKept

(* What is on its way to the rows. *)

\* The row of p, or the pin of h, once all that was handed over is written.
OnWay(p) == After(scoreRows[p], batch \o channel, "scores", p)
PinOnWay(h) == After(pinRows[h], batch \o channel, "pins", h)

LEMMA Empty ==
    ASSUME NEW s \in Seq(Posted)
    PROVE  <<>> \o s = s /\ s \o <<>> = s
  OBVIOUS

LEMMA NoOps == \A old, kind, k : After(old, <<>>, kind, k) = old
  <1>1. DOMAIN <<>> = {}
    OBVIOUS
  <1> QED
    BY <1>1, AfterNone

LEMMA NoRows ==
    ASSUME NEW old, NEW kind \in Kinds, NEW other, NEW k
    PROVE  After(old, Single(kind, <<>>), other, k) = old
  <1> DEFINE rows == <<>>
  <1>1. rows \in Seq(Entry) /\ Len(rows) = 0
    OBVIOUS
  <1> HIDE DEF rows
  <1>2. \A i \in 1 .. Len(rows) : rows[i].key # k
    BY <1>1
  <1>3. \A x : x \in Seq(Entry) /\ (\A i \in 1 .. Len(x) : x[i].key # k)
                => After(old, Single(kind, x), other, k) = old
    BY SingleNone
  <1>4. After(old, Single(kind, rows), other, k) = old
    BY <1>1, <1>2, <1>3
  <1> QED
    BY <1>4 DEF rows

LEMMA Split ==
    ASSUME NEW s \in Seq(Posted), NEW n \in 1 .. Len(s)
    PROVE  SubSeq(s, 1, n) \o SubSeq(s, n + 1, Len(s)) = s
  <1> DEFINE a == SubSeq(s, 1, n)
             b == SubSeq(s, n + 1, Len(s))
  <1>1. Len(s) \in Nat
    BY PostedTypes
  <1>2. /\ a \in Seq(Posted) /\ Len(a) = n /\ \A i \in 1 .. n : a[i] = s[i]
        /\ b \in Seq(Posted) /\ Len(b) = Len(s) - n /\ \A i \in 1 .. Len(s) - n : b[i] = s[n + i]
    BY <1>1, SubSeqProperties
  <1> HIDE DEF a, b
  <1>3. a \o b \in Seq(Posted) /\ Len(a \o b) = Len(s)
    <2>1. a \o b \in Seq(Posted) /\ Len(a \o b) = Len(a) + Len(b)
      BY <1>2, Joined
    <2> QED
      BY <1>1, <1>2, <2>1
  <1>4. ASSUME NEW i \in 1 .. Len(s) PROVE (a \o b)[i] = s[i]
    <2>1. CASE i \in 1 .. n
      BY <1>2, <2>1, Joined
    <2>2. CASE i \in n + 1 .. Len(s)
      <3>1. i \in Len(a) + 1 .. Len(a) + Len(b) /\ i - n \in 1 .. Len(s) - n
        BY <1>1, <1>2, <2>2
      <3>2. (a \o b)[i] = b[i - n] /\ b[i - n] = s[n + (i - n)]
        BY <1>2, <3>1, Joined
      <3> QED
        BY <1>1, <3>1, <3>2
    <2>3. i \in 1 .. n \/ i \in n + 1 .. Len(s)
      BY <1>1
    <2> QED
      BY <2>1, <2>2, <2>3
  <1>5. a \o b = s
    BY <1>3, <1>4, SeqEqual
  <1> QED
    BY <1>5 DEF a, b

LEMMA Writers ==
    ASSUME WriterTyped
    PROVE  /\ channel \in Seq(Posted) /\ batch \in Seq(Posted)
           /\ batch \o channel \in Seq(Posted)
  BY PostedOps, Joined DEF WriterTyped

\* An operation handed over comes after all that is on its way.
LEMMA PostOnWay ==
    ASSUME WriterTyped, NEW kind \in Kinds, NEW rows \in Seq(Entry),
           Post([kind |-> kind, rows |-> rows]), NEW old, NEW other, NEW k
    PROVE  After(old, batch' \o channel', other, k)
             = After(After(old, batch \o channel, other, k), Single(kind, rows), other, k)
  <1> DEFINE one == <<[kind |-> kind, rows |-> rows]>>
  <1>1. one \in Seq(Posted) /\ Single(kind, rows) = one
    BY SingleType DEF Single
  <1>2. channel \in Seq(Posted) /\ batch \in Seq(Posted) /\ batch \o channel \in Seq(Posted)
    BY Writers
  <1>3. batch' = batch /\ channel' = channel \o one
    BY <1>2, AppendIsConcat DEF Post
  <1> HIDE DEF one
  <1>4. channel \o one \in Seq(Posted)
    BY <1>1, <1>2, Joined
  <1>5. After(old, batch \o (channel \o one), other, k)
          = After(After(old, batch, other, k), channel \o one, other, k)
    <2> DEFINE both == channel \o one
    <2>1. both \in Seq(Posted)
      BY <1>4
    <2> HIDE DEF both
    <2>2. After(old, batch \o both, other, k) = After(After(old, batch, other, k), both, other, k)
      BY <1>2, <2>1, AfterConcat
    <2> QED
      BY <2>2 DEF both
  <1>6. After(After(old, batch, other, k), channel \o one, other, k)
          = After(After(After(old, batch, other, k), channel, other, k), one, other, k)
    BY <1>1, <1>2, AfterConcat
  <1>7. After(After(old, batch, other, k), channel, other, k)
          = After(old, batch \o channel, other, k)
    BY <1>2, AfterConcat
  <1> QED
    BY <1>1, <1>3, <1>5, <1>6, <1>7

\* For a key no row of which is lost, a transaction that ends wrote what was handed to it.
LEMMA Writes ==
    ASSUME Typed, Commits \/ OperationFails
    PROVE  /\ \A p \in Proxies \ lostScores' : scoreRows'[p] = After(scoreRows[p], batch, "scores", p)
           /\ \A h \in Hosts \ lostPins' : pinRows'[h] = After(pinRows[h], batch, "pins", h)
  <1>1. batch \in Seq(Posted)
    BY Writers DEF Typed
  <1>2. CASE Missing(batch) /\ UNCHANGED tableVars
    <2>1. ASSUME NEW p \in Proxies \ lostScores'
          PROVE  After(scoreRows[p], batch, "scores", p) = scoreRows'[p]
      BY <1>2, <2>1, AfterNone DEF Missing, tableVars
    <2>2. ASSUME NEW h \in Hosts \ lostPins'
          PROVE  After(pinRows[h], batch, "pins", h) = pinRows'[h]
      BY <1>2, <2>2, AfterNone DEF Missing, tableVars
    <2> QED
      BY <2>1, <2>2
  <1>3. ASSUME NEW n \in 1 .. Len(batch), NEW c \in 1 .. Len(batch[n].rows),
               Missing(<<[batch[n] EXCEPT !.rows = SubSeq(@, c, Len(batch[n].rows))]>>),
               Written(Cut(batch, n, c))
        PROVE  /\ \A p \in Proxies \ lostScores' :
                     scoreRows'[p] = After(scoreRows[p], batch, "scores", p)
               /\ \A h \in Hosts \ lostPins' : pinRows'[h] = After(pinRows[h], batch, "pins", h)
    <2> DEFINE rest == [batch[n] EXCEPT !.rows = SubSeq(@, c, Len(batch[n].rows))]
    <2>1. /\ batch[n] \in Posted /\ batch[n].rows \in Seq(Entry) /\ Len(batch[n].rows) \in Nat
      BY <1>1, PostedTypes
    <2>2. rest.kind = batch[n].kind /\ rest.rows = SubSeq(batch[n].rows, c, Len(batch[n].rows))
      BY <2>1 DEF Posted
    <2> HIDE DEF rest
    <2>3. /\ DOMAIN rest.rows = 1 .. Len(batch[n].rows) - c + 1
          /\ \A i \in 1 .. Len(batch[n].rows) - c + 1 : rest.rows[i] = batch[n].rows[c + i - 1]
      <3> DEFINE rows == batch[n].rows
      <3>1. rows \in Seq(Entry) /\ Len(rows) \in Nat /\ c \in 1 .. Len(rows)
        BY <2>1
      <3> HIDE DEF rows
      <3>2. /\ DOMAIN SubSeq(rows, c, Len(rows)) = 1 .. Len(rows) - c + 1
            /\ \A i \in 1 .. Len(rows) - c + 1 : SubSeq(rows, c, Len(rows))[i] = rows[c + i - 1]
        BY <3>1
      <3> QED
        BY <2>2, <3>2 DEF rows
    <2>4. ASSUME NEW kind, NEW k, ~Has(rest, kind, k)
          PROVE  batch[n].kind = kind =>
                   \A i \in c .. Len(batch[n].rows) : batch[n].rows[i].key # k
      <3>1. SUFFICES ASSUME batch[n].kind = kind, NEW i \in c .. Len(batch[n].rows)
                     PROVE  batch[n].rows[i].key # k
        OBVIOUS
      <3>2. (i - c) + 1 \in 1 .. Len(batch[n].rows) - c + 1
        BY <2>1
      <3>3. rest.rows[(i - c) + 1] = batch[n].rows[c + ((i - c) + 1) - 1]
        BY <2>3, <3>2
      <3>4. c + ((i - c) + 1) - 1 = i
        BY <2>1
      <3> QED
        BY <2>2, <2>3, <2>4, <3>1, <3>2, <3>3, <3>4 DEF Has, Keys
    <2>5. /\ lostScores' = lostScores
               \cup {p \in Proxies : \E m \in DOMAIN <<rest>> : Has(<<rest>>[m], "scores", p)}
          /\ lostPins' = lostPins
               \cup {h \in Hosts : \E m \in DOMAIN <<rest>> : Has(<<rest>>[m], "pins", h)}
      BY <1>3 DEF Missing, rest
    <2>6. 1 \in DOMAIN <<rest>> /\ <<rest>>[1] = rest
      OBVIOUS
    <2>7. ASSUME NEW p \in Proxies \ lostScores'
          PROVE  scoreRows'[p] = After(scoreRows[p], batch, "scores", p)
      <3>1. ~Has(rest, "scores", p)
        BY <2>5, <2>6
      <3>2. batch[n].kind = "scores" =>
              \A i \in c .. Len(batch[n].rows) : batch[n].rows[i].key # p
        BY <2>4, <3>1
      <3> QED
        BY <1>1, <1>3, <3>2, AfterCut DEF Written
    <2>8. ASSUME NEW h \in Hosts \ lostPins'
          PROVE  pinRows'[h] = After(pinRows[h], batch, "pins", h)
      <3>1. ~Has(rest, "pins", h)
        BY <2>5, <2>6
      <3>2. batch[n].kind = "pins" =>
              \A i \in c .. Len(batch[n].rows) : batch[n].rows[i].key # h
        BY <2>4, <3>1
      <3> QED
        BY <1>1, <1>3, <3>2, AfterCut DEF Written
    <2> QED
      BY <2>7, <2>8
  <1>4. CASE Commits
    BY <1>4 DEF Commits, Written
  <1>5. CASE OperationFails
    BY <1>2, <1>3, <1>5 DEF OperationFails, Cut
  <1> QED
    BY <1>4, <1>5

\* What the writer does with it changes nothing, if no row of the key is lost.
LEMMA WriterOnWay ==
    ASSUME Typed, Writer
    PROVE  /\ \A p \in Proxies \ lostScores' : OnWay(p)' = OnWay(p)
           /\ \A h \in Hosts \ lostPins' : PinOnWay(h)' = PinOnWay(h)
  <1>1. WriterTyped
    BY DEF Typed
  <1>2. channel \in Seq(Posted) /\ batch \in Seq(Posted) /\ batch \o channel \in Seq(Posted)
    BY <1>1, Writers
  <1>3. CASE WriterTakes
    <2>1. PICK k \in 1 .. Len(channel) :
             /\ batch' = SubSeq(channel, 1, k)
             /\ channel' = SubSeq(channel, k + 1, Len(channel))
      BY <1>3 DEF WriterTakes, TakeBatch
    <2>2. batch' \o channel' = channel
      BY <1>2, <2>1, Split
    <2>3. batch \o channel = channel
      BY <1>2, <1>3, Empty DEF WriterTakes, TakeBatch
    <2>4. scoreRows' = scoreRows /\ pinRows' = pinRows
      BY <1>3 DEF WriterTakes, tableVars
    <2> QED
      BY <2>2, <2>3, <2>4 DEF OnWay, PinOnWay
  <1>4. ASSUME batch' = <<>>, channel' = channel
        PROVE  batch' \o channel' = channel
    BY <1>2, <1>4, Empty
  <1>5. \A old, kind, k : After(old, batch \o channel, kind, k)
                            = After(After(old, batch, kind, k), channel, kind, k)
    BY <1>2, AfterConcat
  <1>6. CASE Commits \/ OperationFails
    <2>1. batch' \o channel' = channel
      BY <1>4, <1>6 DEF Commits, OperationFails, EndBatch
    <2> QED
      BY <1>5, <1>6, <2>1, Writes DEF OnWay, PinOnWay
  <1> QED
    BY <1>3, <1>6 DEF Writer

(* No score in memory is forgotten. *)

\* The outcomes of p that its row will count once all is written.
Due(p) == After(OnWay(p), Single("scores", flush.rows), "scores", p).folded

Marking(p) == \E t \in Tasks : at[t] = "mark" /\ call[t].proxy = p

Saved ==
    \A p \in Proxies \ lostScores :
        phase = "scores" \/ p \in dirty \/ flush.proxy = p \/ Marking(p) \/ Due(p) = folded[p]

\* What the checker folds before the scores are read stays marked until they are.
Early ==
    phase = "scores" => \A p \in Proxies : p \in dirty \/ Marking(p) \/ folded[p] = 0

LEMMA SavedIsSaved == Typed /\ Saved => SavedOrPending
  <1> SUFFICES ASSUME Typed, Saved
               PROVE  SavedOrPending
    OBVIOUS
  <1>1. WriterTyped /\ FlushTyped
    BY DEF Typed
  <1>2. flush.rows \in Seq(Entry) /\ "scores" \in Kinds
    BY <1>1, PostedOps DEF FlushTyped, Kinds
  <1>3. Single("scores", flush.rows) \in Seq(Posted)
    BY <1>2, SingleType
  <1>4. ASSUME NEW p \in Proxies
        PROVE  After(scoreRows[p], InFlight("scores", flush.rows), "scores", p).folded = Due(p)
    <2> DEFINE one == Single("scores", flush.rows)
               all == batch \o channel
    <2>1. InFlight("scores", flush.rows) = all \o one
      BY DEF InFlight, Single
    <2>2. all \in Seq(Posted) /\ one \in Seq(Posted)
      BY <1>1, <1>3, Writers
    <2>3. Due(p) = After(After(scoreRows[p], all, "scores", p), one, "scores", p).folded
      BY DEF Due, OnWay
    <2> HIDE DEF one, all
    <2>4. After(scoreRows[p], all \o one, "scores", p)
            = After(After(scoreRows[p], all, "scores", p), one, "scores", p)
      BY <2>2, AfterConcat
    <2> QED
      BY <2>1, <2>3, <2>4
  <1> QED
    BY <1>4 DEF Saved, SavedOrPending, Marking

LEMMA StillDue ==
    ASSUME UNCHANGED <<channel, batch, scoreRows>>, flush'.rows = flush.rows
    PROVE  \A p : Due(p)' = Due(p)
  BY DEF Due, OnWay

\* The steps that leave all of it alone.
LEMMA Elsewhere ==
    ASSUME Typed, NEW t \in Tasks, Step(t) \/ Starts(t), ~Fold(t), ~MarkDirty(t)
    PROVE  /\ UNCHANGED <<folded, dirty, flush, channel, batch, scoreRows, phase, lostScores>>
           /\ \A p : Marking(p) => Marking(p)'
  <1>1. CallsTyped
    BY SMTT(40) DEF Typed
  <1>2. UNCHANGED <<folded, dirty, flush, channel, batch, scoreRows, phase, lostScores>>
    BY DEF Step, Starts, UsePin, Scan, Choose, NoneAlive, Pin, Push, Return, Record, Pick,
       BestAlternative, Call, Finish, writerVars, routerVars, tableVars, historyVars
  <1>3. at[t] # "mark" /\ \A u \in Tasks \ {t} : at'[u] = at[u] /\ call'[u] = call[u]
    BY <1>1 DEF Step, Starts, UsePin, Scan, Choose, NoneAlive, Pin, Push, Return, Record, Pick,
       BestAlternative, Call, Finish, Go, CallsTyped
  <1>4. ASSUME NEW p, Marking(p) PROVE Marking(p)'
    <2>1. PICK u \in Tasks : at[u] = "mark" /\ call[u].proxy = p
      BY <1>4 DEF Marking
    <2>2. at'[u] = "mark" /\ call'[u].proxy = p
      BY <1>3, <2>1
    <2> QED
      BY <2>2 DEF Marking
  <1> QED
    BY <1>2, <1>4

LEMMA NextEarly == Typed /\ Quiet /\ Early /\ [Next]_vars => Early'
  <1> SUFFICES ASSUME Typed, Quiet, Early, [Next]_vars
               PROVE  Early'
    OBVIOUS
  <1>1. CallsTyped /\ ScoresTyped
    BY DEF Typed
  <1>2. ASSUME NEW t \in Tasks, Fold(t)
        PROVE  Early'
    <2>1. /\ phase' = phase /\ dirty' = dirty /\ call' = call /\ at' = [at EXCEPT ![t] = "mark"]
          /\ at[t] = "fold" /\ call[t].proxy \in Proxies
          /\ \A p \in Proxies : p # call[t].proxy => folded'[p] = folded[p]
      BY <1>1, <1>2 DEF Fold, Go, CallsTyped, ScoresTyped
    <2>2. \A p : Marking(p) \/ p = call[t].proxy => Marking(p)'
      BY <1>1, <2>1 DEF Marking, CallsTyped
    <2> QED
      BY <2>1, <2>2 DEF Early
  <1>3. ASSUME NEW t \in Tasks, MarkDirty(t)
        PROVE  Early'
    <2>1. /\ phase' = phase /\ folded' = folded /\ dirty' = dirty \cup {call[t].proxy}
          /\ \A u \in Tasks \ {t} : at'[u] = at[u] /\ call'[u] = call[u]
      BY <1>1, <1>3 DEF MarkDirty, Finish, Go, CallsTyped
    <2>2. \A p : Marking(p) => p = call[t].proxy \/ Marking(p)'
      BY <2>1 DEF Marking
    <2> QED
      BY <2>1, <2>2 DEF Early
  <1>4. ASSUME NEW t \in Tasks, Step(t) \/ Starts(t), ~Fold(t), ~MarkDirty(t)
        PROVE  Early'
    BY <1>4, Elsewhere DEF Early
  <1>5. CASE Restart
    BY <1>5 DEF Restart, Early
  <1>6. CASE Hydrate
    BY <1>6 DEF Hydrate, HydrateScores, HydratePins, HydrateFails, Early
  <1>7. CASE Flush
    <2>1. phase' = phase
      BY <1>7 DEF Flush, DrainStarts, Unmark, ReadScore, TakePins, SendScores, SendPins
    <2>2. phase = "up" \/ flush.at # "idle"
      BY <1>7 DEF Flush, DrainStarts, Unmark, ReadScore, TakePins, SendScores, SendPins
    <2> QED
      BY <2>1, <2>2 DEF Early, Quiet, NoFlush
  <1>8. CASE Writer \/ Tick \/ Done \/ UNCHANGED vars
    <2>1. UNCHANGED <<phase, dirty, folded, at, call>>
      BY <1>8 DEF Writer, WriterTakes, Commits, OperationFails, Tick, Done, vars, routerVars, taskVars
    <2> QED
      BY <2>1 DEF Early, Marking
  <1> QED
    BY <1>2, <1>3, <1>4, <1>5, <1>6, <1>7, <1>8 DEF Next

LEMMA NextSaved ==
    Typed /\ Shape /\ Quiet /\ Early /\ Saved /\ [Next]_vars => Saved'
  <1> SUFFICES ASSUME Typed, Shape, Quiet, Early, Saved, [Next]_vars
               PROVE  Saved'
    OBVIOUS
  <1>1. /\ WriterTyped /\ CallsTyped /\ ScoresTyped /\ FlushTyped /\ TablesTyped /\ RestTyped
        /\ None \notin Proxies
    BY RouterAssumption DEF Typed, None
  <1>2. flush.rows \in Seq(Entry) /\ flush.pins \in Seq(Entry) /\ "scores" \in Kinds /\ "pins" \in Kinds
    BY <1>1, PostedOps DEF FlushTyped, Kinds
  <1>3. ASSUME NEW t \in Tasks, Fold(t)
        PROVE  Saved'
    <2>1. /\ phase' = phase /\ dirty' = dirty /\ call' = call /\ at' = [at EXCEPT ![t] = "mark"]
          /\ UNCHANGED <<channel, batch, scoreRows, flush, lostScores>>
          /\ call[t].proxy \in Proxies
          /\ \A p \in Proxies : p # call[t].proxy => folded'[p] = folded[p]
      BY <1>1, <1>3 DEF Fold, Go, CallsTyped, ScoresTyped, writerVars, tableVars, historyVars
    <2>2. \A p : Marking(p) \/ p = call[t].proxy => Marking(p)'
      BY <1>1, <2>1 DEF Marking, CallsTyped
    <2>3. \A p : Due(p)' = Due(p)
      BY <2>1, StillDue
    <2> QED
      BY <2>1, <2>2, <2>3 DEF Saved
  <1>4. ASSUME NEW t \in Tasks, MarkDirty(t)
        PROVE  Saved'
    <2>1. /\ phase' = phase /\ folded' = folded /\ dirty' = dirty \cup {call[t].proxy}
          /\ UNCHANGED <<channel, batch, scoreRows, flush, lostScores>>
          /\ \A u \in Tasks \ {t} : at'[u] = at[u] /\ call'[u] = call[u]
      BY <1>1, <1>4 DEF MarkDirty, Finish, Go, CallsTyped, writerVars, tableVars, historyVars
    <2>2. \A p : Marking(p) => p = call[t].proxy \/ Marking(p)'
      BY <2>1 DEF Marking
    <2>3. \A p : Due(p)' = Due(p)
      BY <2>1, StillDue
    <2> QED
      BY <2>1, <2>2, <2>3 DEF Saved
  <1>5. ASSUME NEW t \in Tasks, Step(t) \/ Starts(t), ~Fold(t), ~MarkDirty(t)
        PROVE  Saved'
    <2>1. /\ UNCHANGED <<folded, dirty, flush, channel, batch, scoreRows, phase, lostScores>>
          /\ \A p : Marking(p) => Marking(p)'
      BY <1>5, Elsewhere
    <2>2. \A p : Due(p)' = Due(p)
      BY <2>1, StillDue
    <2> QED
      BY <2>1, <2>2 DEF Saved
  <1>6. CASE Tick \/ Done \/ UNCHANGED vars
    <2>1. UNCHANGED <<phase, dirty, folded, at, call, flush, channel, batch, scoreRows, lostScores>>
      BY <1>6 DEF Tick, Done, vars, routerVars, taskVars, writerVars, tableVars, historyVars
    <2>2. \A p : Due(p)' = Due(p)
      BY <2>1, StillDue
    <2> QED
      BY <2>1, <2>2 DEF Saved, Marking
  <1>7. CASE Flush
    <2>1. UNCHANGED <<phase, folded, at, call, scoreRows, lostScores>>
      BY <1>7 DEF Flush, DrainStarts, Unmark, ReadScore, TakePins, SendScores, SendPins,
         routerVars, taskVars, tableVars, historyVars
    <2>2. \A p : Marking(p)' <=> Marking(p)
      BY <2>1 DEF Marking
    <2>3. CASE DrainStarts \/ TakePins
      <3>1. /\ flush'.rows = flush.rows /\ flush'.proxy = flush.proxy
            /\ UNCHANGED <<dirty, channel, batch>>
        BY <1>1, <2>3 DEF DrainStarts, TakePins, FlushTyped, routerVars, writerVars
      <3>2. \A p : Due(p)' = Due(p)
        BY <2>1, <3>1, StillDue
      <3> QED
        BY <2>1, <2>2, <3>1, <3>2 DEF Saved
    <2>4. CASE Unmark
      <3>1. PICK q \in flush.todo :
               /\ dirty' = dirty \ {q}
               /\ flush' = [flush EXCEPT !.at = "read", !.todo = @ \ {q}, !.proxy = q]
        BY <2>4 DEF Unmark
      <3>2. flush'.rows = flush.rows /\ flush'.proxy = q /\ flush.proxy = None
        BY <1>1, <2>4, <3>1 DEF Unmark, FlushTyped, Shape
      <3>3. \A p : Due(p)' = Due(p)
        BY <2>1, <2>4, <3>2, StillDue DEF Unmark, writerVars
      <3> QED
        BY <1>1, <2>1, <2>2, <3>1, <3>2, <3>3 DEF Saved
    <2>5. CASE ReadScore
      <3> DEFINE e == [key |-> flush.proxy, value |->
                        [folded |-> folded[flush.proxy], until |-> until[flush.proxy]]]
      <3>1. /\ flush'.rows = Append(flush.rows, e) /\ flush'.proxy = None
            /\ flush.proxy \in Proxies /\ UNCHANGED <<dirty, channel, batch>>
        BY <1>1, <2>5 DEF ReadScore, FlushTyped, routerVars, writerVars
      <3>2. e \in Entry /\ e.key = flush.proxy /\ e.value.folded = folded[flush.proxy]
        BY <1>1, <3>1 DEF ScoresTyped, Entry
      <3> HIDE DEF e
      <3>3. \A p : OnWay(p)' = OnWay(p)
        BY <2>1, <3>1 DEF OnWay
      <3>4. ASSUME NEW p \in Proxies
            PROVE  Due(p)' = IF p = flush.proxy THEN folded[p] ELSE Due(p)
        <4>1. Due(p)' = After(OnWay(p), Single("scores", Append(flush.rows, e)), "scores", p).folded
          BY <3>1, <3>3 DEF Due
        <4>2. After(OnWay(p), Single("scores", Append(flush.rows, e)), "scores", p)
                = IF e.key = p THEN e.value ELSE After(OnWay(p), Single("scores", flush.rows), "scores", p)
          BY <1>2, <3>2, RowAdded
        <4> QED
          BY <3>2, <4>1, <4>2 DEF Due
      <3> QED
        BY <2>1, <2>2, <3>1, <3>4 DEF Saved
    <2>6. CASE SendScores
      <3> DEFINE packed == [n \in DOMAIN flush.rows |-> Packed(flush.rows[n])]
      <3>1. flush'.rows = <<>> /\ flush'.proxy = flush.proxy /\ UNCHANGED dirty
        <4>1. /\ flush' = [flush EXCEPT !.at = "pins", !.rows = <<>>]
              /\ UNCHANGED dirty
          BY <2>6 DEF SendScores, routerVars
        <4>2. "rows" \in DOMAIN flush /\ "proxy" \in DOMAIN flush
          BY <1>1 DEF FlushTyped
        <4> QED
          BY <4>1, <4>2
      <3>2. /\ packed \in Seq(Entry) /\ Len(packed) = Len(flush.rows)
            /\ \A i \in 1 .. Len(packed) : /\ packed[i].key = flush.rows[i].key
                                           /\ packed[i].value.folded = flush.rows[i].value.folded
        <4>1. flush.rows \in Seq(Drained) /\ time \in Nat
          BY <1>1 DEF FlushTyped, ScoresTyped
        <4>2. /\ packed \in Seq([key : Proxies, value : Row]) /\ Len(packed) = Len(flush.rows)
              /\ \A i \in 1 .. Len(flush.rows) :
                   /\ packed[i] = Packed(flush.rows[i])
                   /\ Packed(flush.rows[i]).key = flush.rows[i].key
                   /\ Packed(flush.rows[i]).value.folded = flush.rows[i].value.folded
          BY <4>1, PackedType
        <4> HIDE DEF packed
        <4> QED
          BY <4>2, PostedOps
      <3>3. IF flush.rows = <<>> THEN UNCHANGED <<channel, batch>>
            ELSE Post([kind |-> "scores", rows |-> packed])
        BY <2>6 DEF SendScores, writerVars
      <3> HIDE DEF packed
      <3>4. ASSUME NEW p \in Proxies PROVE Due(p)' = Due(p)
        <4>1. CASE flush.rows = <<>>
          BY <2>1, <3>1, <3>3, <4>1, StillDue
        <4>2. CASE flush.rows # <<>>
          <5>1. OnWay(p)' = After(OnWay(p), Single("scores", packed), "scores", p)
            BY <1>1, <1>2, <2>1, <3>2, <3>3, <4>2, PostOnWay DEF OnWay
          <5>2. Due(p)' = OnWay(p)'.folded
            BY <1>2, <3>1, NoRows DEF Due
          <5>3. After(OnWay(p), Single("scores", packed), "scores", p).folded
                  = After(OnWay(p), Single("scores", flush.rows), "scores", p).folded
            BY <1>2, <3>2, RowsAlike
          <5> QED
            BY <5>1, <5>2, <5>3 DEF Due
        <4> QED
          BY <4>1, <4>2
      <3> QED
        BY <2>1, <2>2, <3>1, <3>4 DEF Saved
    <2>7. CASE SendPins
      <3>1. flush'.rows = <<>> /\ flush.rows = <<>> /\ flush.proxy = None /\ UNCHANGED dirty
        BY <2>7 DEF SendPins, NoFlush, Shape, routerVars
      <3>2. IF flush.pins = <<>> THEN UNCHANGED <<channel, batch>>
            ELSE Post([kind |-> "pins", rows |-> flush.pins])
        BY <2>7 DEF SendPins, writerVars
      <3>3. ASSUME NEW p \in Proxies PROVE Due(p)' = Due(p)
        <4>1. CASE flush.pins = <<>>
          BY <2>1, <3>1, <3>2, <4>1, StillDue
        <4>2. CASE flush.pins # <<>>
          <5>1. OnWay(p)' = After(OnWay(p), Single("pins", flush.pins), "scores", p)
            BY <1>1, <1>2, <2>1, <3>2, <4>2, PostOnWay DEF OnWay
          <5>2. After(OnWay(p), Single("pins", flush.pins), "scores", p) = OnWay(p)
            <6>1. "pins" # "scores"
              OBVIOUS
            <6>2. \A old : After(old, Single("pins", flush.pins), "scores", p) = old
              BY <1>2, <6>1, SingleNone
            <6> QED
              BY <6>2
          <5> QED
            BY <3>1, <5>1, <5>2 DEF Due
        <4> QED
          BY <4>1, <4>2
      <3> QED
        BY <1>1, <2>1, <2>2, <3>1, <3>3 DEF Saved
    <2> QED
      BY <1>7, <2>3, <2>4, <2>5, <2>6, <2>7 DEF Flush
  <1>8. CASE Writer
    <2>1. UNCHANGED <<phase, folded, dirty, at, call, flush>>
      BY <1>8 DEF Writer, WriterTakes, Commits, OperationFails, routerVars, taskVars
    <2>2. lostScores \subseteq lostScores'
      BY <1>8 DEF Writer, WriterTakes, Commits, OperationFails, Missing, historyVars
    <2>3. \A p \in Proxies \ lostScores' : Due(p)' = Due(p)
      BY <1>8, <2>1, WriterOnWay DEF Due
    <2>4. \A p : Marking(p)' <=> Marking(p)
      BY <2>1 DEF Marking
    <2> QED
      BY <2>1, <2>2, <2>3, <2>4 DEF Saved
  <1>9. CASE HydrateScores
    <2>1. /\ UNCHANGED <<dirty, at, call, flush, channel, batch, scoreRows, lostScores>>
          /\ \A p \in Proxies : folded'[p] = IF scoreRows[p] = NoRow THEN folded[p]
                                             ELSE scoreRows[p].folded
      BY <1>9 DEF HydrateScores, writerVars, taskVars, tableVars, historyVars
    <2>2. channel = <<>> /\ batch = <<>> /\ flush = NoFlush /\ phase = "scores"
      BY <1>9 DEF HydrateScores, Quiet
    <2>3. \A p : Marking(p)' <=> Marking(p)
      BY <2>1 DEF Marking
    <2>4. ASSUME NEW p \in Proxies PROVE Due(p)' = scoreRows[p].folded
      <3>1. batch \o channel = <<>>
        BY <2>2
      <3>2. OnWay(p) = scoreRows[p]
        BY <3>1, NoOps DEF OnWay
      <3>3. Due(p) = scoreRows[p].folded
        BY <1>2, <2>2, <3>2, NoRows DEF Due, NoFlush
      <3> QED
        BY <2>1, <3>3, StillDue
    <2>5. NoRow.folded = 0
      BY DEF NoRow
    <2> QED
      BY <2>1, <2>2, <2>3, <2>4, <2>5 DEF Saved, Early
  <1>10. CASE HydratePins
    <2>1. /\ UNCHANGED <<folded, dirty, at, call, flush, channel, batch, scoreRows, lostScores>>
          /\ phase = "pins"
      BY <1>10 DEF HydratePins, writerVars, taskVars, tableVars, historyVars
    <2>2. \A p : Due(p)' = Due(p)
      BY <2>1, StillDue
    <2> QED
      BY <2>1, <2>2 DEF Saved, Marking
  <1>11. CASE HydrateFails
    <2>1. UNCHANGED <<folded, dirty, at, call, flush, channel, batch, scoreRows>>
      BY <1>11 DEF HydrateFails, writerVars, taskVars, tableVars, routerVars
    <2>2. \A p : Due(p)' = Due(p)
      BY <2>1, StillDue
    <2>3. CASE phase = "scores"
      BY <1>11, <2>3 DEF HydrateFails, Saved
    <2>4. CASE phase # "scores"
      BY <1>11, <2>1, <2>2, <2>4 DEF HydrateFails, Saved, Marking
    <2> QED
      BY <2>3, <2>4
  <1>12. CASE Restart
    BY <1>12 DEF Restart, Saved
  <1> QED
    BY <1>3, <1>4, <1>5, <1>6, <1>7, <1>8, <1>9, <1>10, <1>11, <1>12 DEF Next, Hydrate

\* No score in memory is forgotten: after the hydration and while no write and no
\* read failed, a score that the rows do not have yet is marked, being marked or
\* being read.
THEOREM ScoresReachTheirRows == Spec => []SavedOrPending
  <1>1. Init => Early /\ Saved
    BY DEF Init, MemoryInit, Early, Saved
  <1>2. Base /\ Early /\ Saved /\ [Next]_vars => Early' /\ Saved'
    BY NextEarly, NextSaved DEF Base
  <1>3. Base /\ Saved => SavedOrPending
    BY SavedIsSaved DEF Base
  <1> QED
    BY <1>1, <1>2, <1>3, BaseHolds, PTL DEF Spec

(* The last pin of a host is on its way. *)

\* The pin that the row of h will hold once all is written.
PinDue(h) == After(PinOnWay(h), Single("pins", flush.pins \o pins), "pins", h)

Pushing(h) == \E t \in Tasks : at[t] = "push" /\ call[t].host = h

\* Who is about to push pushes the pin, if no one else pinned the host meanwhile.
PushIsPin ==
    \A t \in Tasks : at[t] = "push" /\ call[t].host \notin crossed =>
        found[t] = {affinity[call[t].host]}

Pinned ==
    \A h \in Hosts \ (lostPins \cup crossed) :
        phase # "up" \/ Pushing(h) \/ PinDue(h) = affinity[h]

LEMMA PinRows ==
    ASSUME Typed
    PROVE  /\ flush.rows \in Seq(Entry) /\ flush.pins \in Seq(Entry) /\ pins \in Seq(Entry)
           /\ flush.pins \o pins \in Seq(Entry)
           /\ "scores" \in Kinds /\ "pins" \in Kinds
  BY PostedOps DEF Typed, FlushTyped, PinsTyped, Kinds

LEMMA AppendJoined ==
    ASSUME NEW a \in Seq(Entry), NEW b \in Seq(Entry), NEW e \in Entry
    PROVE  a \o Append(b, e) = Append(a \o b, e)
  <1> DEFINE one == <<e>>
  <1>1. one \in Seq(Entry) /\ a \o b \in Seq(Entry)
    OBVIOUS
  <1>2. Append(b, e) = b \o one /\ Append(a \o b, e) = (a \o b) \o one
    BY <1>1, AppendIsConcat
  <1> HIDE DEF one
  <1>3. (a \o b) \o one = a \o (b \o one)
    BY <1>1, ConcatAssociative, SMTT(40)
  <1> QED
    BY <1>2, <1>3

LEMMA PinnedIsPersisted == Typed /\ Pinned => PinsPersisted
  <1> SUFFICES ASSUME Typed, Pinned
               PROVE  PinsPersisted
    OBVIOUS
  <1>1. WriterTyped
    BY DEF Typed
  <1>2. Single("pins", flush.pins \o pins) \in Seq(Posted)
    BY PinRows, SingleType
  <1>3. ASSUME NEW h \in Hosts
        PROVE  After(pinRows[h], InFlight("pins", flush.pins \o pins), "pins", h) = PinDue(h)
    <2> DEFINE one == Single("pins", flush.pins \o pins)
               all == batch \o channel
    <2>1. InFlight("pins", flush.pins \o pins) = all \o one
      BY DEF InFlight, Single
    <2>2. all \in Seq(Posted) /\ one \in Seq(Posted)
      BY <1>1, <1>2, Writers
    <2>3. PinDue(h) = After(After(pinRows[h], all, "pins", h), one, "pins", h)
      BY DEF PinDue, PinOnWay
    <2> HIDE DEF one, all
    <2>4. After(pinRows[h], all \o one, "pins", h) = After(After(pinRows[h], all, "pins", h), one, "pins", h)
      BY <2>2, AfterConcat
    <2> QED
      BY <2>1, <2>3, <2>4
  <1> QED
    BY <1>3 DEF Pinned, PinsPersisted, Pushing

LEMMA StillPinDue ==
    ASSUME UNCHANGED <<channel, batch, pinRows, pins>>, flush'.pins = flush.pins
    PROVE  \A h : PinDue(h)' = PinDue(h)
  BY DEF PinDue, PinOnWay

\* The steps of a task that neither pin nor push.
LEMMA ElsewherePins ==
    ASSUME Typed, NEW t \in Tasks, Step(t) \/ Starts(t), ~Pin(t), ~Push(t)
    PROVE  /\ UNCHANGED <<affinity, pins, flush, channel, batch, pinRows, phase, lostPins, crossed>>
           /\ at[t] # "push" /\ at'[t] # "push"
           /\ \A u \in Tasks \ {t} : at'[u] = at[u] /\ call'[u] = call[u] /\ found'[u] = found[u]
  <1>1. CallsTyped
    BY DEF Typed
  <1>2. UNCHANGED <<affinity, pins, flush, channel, batch, pinRows, phase, lostPins, crossed>>
    BY ZenonT(60) DEF Step, Starts, Fold, MarkDirty, UsePin, Scan, Choose, NoneAlive, Return, Record, Pick,
       BestAlternative, Call, Finish, writerVars, routerVars, tableVars, historyVars
  <1>3. at[t] # "push" /\ at'[t] # "push"
    BY <1>1, ZenonT(60) DEF Step, Starts, Fold, MarkDirty, UsePin, Scan, Choose, NoneAlive, Return, Record, Pick,
       BestAlternative, Call, Finish, Go, CallsTyped
  <1>4. \A u \in Tasks \ {t} : at'[u] = at[u] /\ call'[u] = call[u] /\ found'[u] = found[u]
    BY <1>1 DEF Step, Starts, Fold, MarkDirty, UsePin, Scan, Choose, NoneAlive, Return, Record, Pick,
       BestAlternative, Call, Finish, Go, CallsTyped
  <1> QED
    BY <1>2, <1>3, <1>4, SMTT(40)

LEMMA PinStep ==
    ASSUME Typed, NEW t \in Tasks, Pin(t)
    PROVE  \E p \in Proxies :
             /\ found[t] = {p} /\ call[t].host \in Hosts
             /\ affinity' = [affinity EXCEPT ![call[t].host] = p]
             /\ at[t] = "pin" /\ at' = [at EXCEPT ![t] = "push"]
             /\ crossed \subseteq crossed'
             /\ (\E u \in Tasks \ {t} : at[u] = "push" /\ call[u].host = call[t].host) =>
                  call[t].host \in crossed'
             /\ UNCHANGED <<call, found, pins, flush, channel, batch, pinRows, phase, lostPins>>
  <1>1. CallsTyped /\ at[t] = "pin"
    BY DEF Typed, Pin
  <1>2. PICK p \in Proxies : found[t] = {p}
    BY <1>1 DEF CallsTyped
  <1>3. call[t].host \in Hosts
    BY <1>1 DEF CallsTyped
  <1> QED
    BY <1>1, <1>2, <1>3 DEF Pin, Go, writerVars, tableVars

LEMMA NextPushIsPin == Typed /\ Quiet /\ PushIsPin /\ [Next]_vars => PushIsPin'
  <1> SUFFICES ASSUME Typed, Quiet, PushIsPin, [Next]_vars
               PROVE  PushIsPin'
    OBVIOUS
  <1>1. CallsTyped /\ PinsTyped
    BY DEF Typed
  <1>2. ASSUME NEW t \in Tasks, Pin(t)
        PROVE  PushIsPin'
    <2> DEFINE h == call[t].host
    <2>1. PICK p \in Proxies :
             /\ found[t] = {p} /\ h \in Hosts
             /\ affinity' = [affinity EXCEPT ![h] = p]
             /\ at[t] = "pin" /\ at' = [at EXCEPT ![t] = "push"]
             /\ crossed \subseteq crossed'
             /\ (\E u \in Tasks \ {t} : at[u] = "push" /\ call[u].host = h) => h \in crossed'
             /\ UNCHANGED <<call, found>>
      BY <1>2, PinStep
    <2>2. affinity'[h] = p /\ \A g \in Hosts \ {h} : affinity'[g] = affinity[g]
      BY <1>1, <2>1 DEF PinsTyped
    <2>3. \A u \in Tasks \ {t} : at'[u] = at[u]
      BY <1>1, <2>1 DEF CallsTyped
    <2>4. \A u \in Tasks : at[u] = "push" => call[u].host \in Hosts
      BY <1>1 DEF CallsTyped
    <2>5. ASSUME NEW u \in Tasks, at'[u] = "push", call'[u].host \notin crossed'
          PROVE  found'[u] = {affinity'[call'[u].host]}
      <3>1. CASE u = t
        BY <2>1, <2>2, <3>1
      <3>2. CASE u # t
        BY <2>1, <2>2, <2>3, <2>4, <2>5, <3>2 DEF PushIsPin
      <3> QED
        BY <3>1, <3>2
    <2> QED
      BY <2>5 DEF PushIsPin
  <1>3. ASSUME NEW t \in Tasks, Push(t)
        PROVE  PushIsPin'
    <2>1. /\ UNCHANGED <<affinity, call, found, crossed>> /\ at' = [at EXCEPT ![t] = "done"]
      BY <1>3 DEF Push, Go, historyVars
    <2>2. at'[t] # "push" /\ \A u \in Tasks \ {t} : at'[u] = at[u]
      BY <1>1, <2>1 DEF CallsTyped
    <2> QED
      BY <2>1, <2>2 DEF PushIsPin
  <1>4. ASSUME NEW t \in Tasks, Step(t) \/ Starts(t), ~Pin(t), ~Push(t)
        PROVE  PushIsPin'
    BY <1>4, ElsewherePins DEF PushIsPin
  <1>5. CASE Restart
    BY <1>5 DEF Restart, PushIsPin
  <1>6. CASE HydratePins
    <2>1. \A t \in Tasks : at[t] # "push"
      BY <1>6 DEF HydratePins, Quiet
    <2> QED
      BY <1>6, <2>1 DEF HydratePins, taskVars, PushIsPin
  <1>7. CASE Flush \/ Writer \/ HydrateScores \/ HydrateFails \/ Tick \/ Done \/ UNCHANGED vars
    <2>1. UNCHANGED <<affinity, crossed, at, call, found>>
      BY <1>7 DEF Flush, DrainStarts, Unmark, ReadScore, TakePins, SendScores, SendPins, Writer,
         WriterTakes, Commits, OperationFails, Missing, HydrateScores, HydrateFails, Tick, Done, vars,
         routerVars, taskVars, historyVars
    <2> QED
      BY <2>1, SMTT(40) DEF PushIsPin
  <1> QED
    BY <1>2, <1>3, <1>4, <1>5, <1>6, <1>7 DEF Next, Hydrate

LEMMA NextPinned ==
    Typed /\ Shape /\ Quiet /\ PushIsPin /\ Pinned /\ [Next]_vars => Pinned'
  <1> SUFFICES ASSUME Typed, Shape, Quiet, PushIsPin, Pinned, [Next]_vars
               PROVE  Pinned'
    OBVIOUS
  <1>1. /\ WriterTyped /\ CallsTyped /\ ScoresTyped /\ PinsTyped /\ FlushTyped
    BY DEF Typed
  <1>2. /\ flush.rows \in Seq(Entry) /\ flush.pins \in Seq(Entry) /\ pins \in Seq(Entry)
        /\ flush.pins \o pins \in Seq(Entry)
        /\ "scores" \in Kinds /\ "pins" \in Kinds /\ "pins" # "scores"
    BY PinRows
  <1>3. ASSUME NEW t \in Tasks, Pin(t)
        PROVE  Pinned'
    <2> DEFINE h == call[t].host
    <2>1. PICK p \in Proxies :
             /\ h \in Hosts
             /\ affinity' = [affinity EXCEPT ![h] = p]
             /\ at[t] = "pin" /\ at' = [at EXCEPT ![t] = "push"]
             /\ crossed \subseteq crossed'
             /\ UNCHANGED <<call, pins, flush, channel, batch, pinRows, phase, lostPins>>
      BY <1>3, PinStep
    <2>2. \A g \in Hosts \ {h} : affinity'[g] = affinity[g]
      BY <1>1, <2>1 DEF PinsTyped
    <2>3. \A g : Pushing(g) \/ g = h => Pushing(g)'
      BY <1>1, <2>1 DEF Pushing, CallsTyped
    <2>4. \A g : PinDue(g)' = PinDue(g)
      BY <2>1, StillPinDue
    <2> HIDE DEF h
    <2> QED
      BY <2>1, <2>2, <2>3, <2>4 DEF Pinned
  <1>4. ASSUME NEW t \in Tasks, Push(t)
        PROVE  Pinned'
    <2> DEFINE h == call[t].host
    <2>1. PICK p \in found[t] : pins' = Append(pins, [key |-> h, value |-> p])
      BY <1>4 DEF Push
    <2>2. /\ p \in Proxies /\ h \in Hosts /\ found[t] = {p} /\ at[t] = "push"
      BY <1>1, <1>4, <2>1 DEF Push, CallsTyped
    <2>3. /\ UNCHANGED <<affinity, flush, channel, batch, pinRows, phase, lostPins, crossed, call>>
          /\ at' = [at EXCEPT ![t] = "done"]
      BY <1>4 DEF Push, Go, writerVars, tableVars, historyVars
    <2> DEFINE e == [key |-> h, value |-> p]
               rows == flush.pins \o pins
    <2>4. /\ e \in Entry /\ e.key = h /\ e.value = p /\ rows \in Seq(Entry)
      BY <1>2, <2>2 DEF Entry
    <2>5. flush'.pins \o pins' = Append(rows, e)
      <3>1. flush'.pins \o pins' = flush.pins \o Append(pins, e)
        BY <2>1, <2>3
      <3> HIDE DEF e
      <3> QED
        BY <1>2, <2>4, <3>1, AppendJoined
    <2>6. \A g : PinOnWay(g)' = PinOnWay(g)
      BY <2>3 DEF PinOnWay
    <2>7. \A g : PinDue(g) = After(PinOnWay(g), Single("pins", rows), "pins", g)
      BY DEF PinDue
    <2> HIDE DEF h, e, rows
    <2>8. ASSUME NEW g \in Hosts
          PROVE  PinDue(g)' = IF h = g THEN p ELSE PinDue(g)
      <3>1. PinDue(g)' = After(PinOnWay(g), Single("pins", Append(rows, e)), "pins", g)
        BY <2>5, <2>6 DEF PinDue
      <3>2. After(PinOnWay(g), Single("pins", Append(rows, e)), "pins", g)
              = IF e.key = g THEN e.value ELSE After(PinOnWay(g), Single("pins", rows), "pins", g)
        BY <1>2, <2>4, RowAdded
      <3> QED
        BY <2>4, <2>7, <3>1, <3>2
    <2>9. h \notin crossed => p = affinity[h]
      BY <2>2 DEF PushIsPin, h
    <2>10. \A g : Pushing(g) => g = h \/ Pushing(g)'
      BY <1>1, <2>3 DEF Pushing, CallsTyped, h
    <2> QED
      BY <2>3, <2>8, <2>9, <2>10 DEF Pinned
  <1>5. ASSUME NEW t \in Tasks, Step(t) \/ Starts(t), ~Pin(t), ~Push(t)
        PROVE  Pinned'
    <2>1. /\ UNCHANGED <<affinity, pins, flush, channel, batch, pinRows, phase, lostPins, crossed>>
          /\ at[t] # "push"
          /\ \A u \in Tasks \ {t} : at'[u] = at[u] /\ call'[u] = call[u]
      BY <1>5, ElsewherePins
    <2>2. \A h : Pushing(h) => Pushing(h)'
      BY <2>1 DEF Pushing
    <2>3. \A h : PinDue(h)' = PinDue(h)
      BY <2>1, StillPinDue
    <2> QED
      BY <2>1, <2>2, <2>3 DEF Pinned
  <1>6. CASE Tick \/ Done \/ UNCHANGED vars
    <2>1. UNCHANGED <<phase, affinity, pins, at, call, flush, channel, batch, pinRows, lostPins, crossed>>
      BY <1>6 DEF Tick, Done, vars, routerVars, taskVars, writerVars, tableVars, historyVars
    <2>2. \A h : PinDue(h)' = PinDue(h)
      BY <2>1, StillPinDue
    <2> QED
      BY <2>1, <2>2 DEF Pinned, Pushing
  <1>7. CASE Flush
    <2>1. UNCHANGED <<phase, affinity, at, call, pinRows, lostPins, crossed>>
      BY <1>7 DEF Flush, DrainStarts, Unmark, ReadScore, TakePins, SendScores, SendPins,
         routerVars, taskVars, tableVars, historyVars
    <2>2. \A h : Pushing(h)' <=> Pushing(h)
      BY <2>1 DEF Pushing
    <2>3. SUFFICES \A h \in Hosts : PinDue(h)' = PinDue(h)
      BY <2>1, <2>2 DEF Pinned
    <2>4. CASE DrainStarts \/ Unmark \/ ReadScore
      <3>1. flush'.pins = flush.pins /\ UNCHANGED <<pins, channel, batch>>
        BY <1>1, <2>4 DEF DrainStarts, Unmark, ReadScore, FlushTyped, routerVars, writerVars
      <3> QED
        BY <2>1, <3>1, StillPinDue
    <2>5. CASE TakePins
      <3>1. /\ flush'.pins = pins /\ pins' = <<>> /\ flush.pins = <<>>
            /\ UNCHANGED <<channel, batch>>
        BY <1>1, <2>5 DEF TakePins, FlushTyped, Shape, writerVars
      <3>2. flush'.pins \o pins' = flush.pins \o pins
        BY <1>2, <3>1
      <3> QED
        BY <2>1, <3>1, <3>2 DEF PinDue, PinOnWay
    <2>6. CASE SendScores
      <3> DEFINE packed == [n \in DOMAIN flush.rows |-> Packed(flush.rows[n])]
      <3>1. flush'.pins = flush.pins /\ UNCHANGED pins
        <4>1. /\ flush' = [flush EXCEPT !.at = "pins", !.rows = <<>>]
              /\ UNCHANGED pins
          BY <2>6 DEF SendScores, routerVars
        <4>2. "pins" \in DOMAIN flush
          BY <1>1 DEF FlushTyped
        <4> QED
          BY <4>1, <4>2
      <3>2. packed \in Seq(Entry)
        <4>1. flush.rows \in Seq(Drained) /\ time \in Nat
          BY <1>1 DEF FlushTyped, ScoresTyped
        <4>2. packed \in Seq([key : Proxies, value : Row])
          BY <4>1, PackedType
        <4> HIDE DEF packed
        <4> QED
          BY <4>2, PostedOps
      <3>3. UNCHANGED <<channel, batch>> \/ Post([kind |-> "scores", rows |-> packed])
        BY <2>6 DEF SendScores, writerVars
      <3> HIDE DEF packed
      <3>4. ASSUME NEW h \in Hosts, Post([kind |-> "scores", rows |-> packed])
            PROVE  PinOnWay(h)' = PinOnWay(h)
        <4>1. PinOnWay(h)' = After(PinOnWay(h), Single("scores", packed), "pins", h)
          BY <1>1, <1>2, <2>1, <3>2, <3>4, PostOnWay DEF PinOnWay
        <4>2. \A old : After(old, Single("scores", packed), "pins", h) = old
          BY <1>2, <3>2, SingleNone
        <4> QED
          BY <4>1, <4>2
      <3>5. UNCHANGED <<channel, batch>> => \A h : PinOnWay(h)' = PinOnWay(h)
        BY <2>1 DEF PinOnWay
      <3>6. \A h \in Hosts : PinOnWay(h)' = PinOnWay(h)
        BY <3>3, <3>4, <3>5
      <3> QED
        BY <3>1, <3>6 DEF PinDue
    <2>7. CASE SendPins
      <3>1. flush'.pins = <<>> /\ UNCHANGED pins
        BY <2>7 DEF SendPins, NoFlush, routerVars
      <3>2. IF flush.pins = <<>> THEN UNCHANGED <<channel, batch>>
            ELSE Post([kind |-> "pins", rows |-> flush.pins])
        BY <2>7 DEF SendPins, writerVars
      <3>3. flush'.pins \o pins' = pins
        BY <1>2, <3>1
      <3>4. ASSUME NEW h \in Hosts PROVE PinDue(h)' = PinDue(h)
        <4>1. CASE flush.pins = <<>>
          BY <2>1, <3>1, <3>2, <4>1, StillPinDue
        <4>2. CASE flush.pins # <<>>
          <5>1. PinOnWay(h)' = After(PinOnWay(h), Single("pins", flush.pins), "pins", h)
            BY <1>1, <1>2, <2>1, <3>2, <4>2, PostOnWay DEF PinOnWay
          <5>2. PinDue(h)' = After(PinOnWay(h)', Single("pins", pins), "pins", h)
            BY <3>3 DEF PinDue
          <5>3. \A old : After(old, Single("pins", flush.pins \o pins), "pins", h)
                  = After(After(old, Single("pins", flush.pins), "pins", h), Single("pins", pins), "pins", h)
            BY <1>2, RowsJoined
          <5> QED
            BY <5>1, <5>2, <5>3 DEF PinDue
        <4> QED
          BY <4>1, <4>2
      <3> QED
        BY <3>4
    <2> QED
      BY <1>7, <2>4, <2>5, <2>6, <2>7 DEF Flush
  <1>8. CASE Writer
    <2>1. UNCHANGED <<phase, affinity, pins, at, call, flush, crossed>>
      BY <1>8 DEF Writer, WriterTakes, Commits, OperationFails, Missing, routerVars, taskVars, historyVars
    <2>2. lostPins \subseteq lostPins'
      BY <1>8 DEF Writer, WriterTakes, Commits, OperationFails, Missing, historyVars
    <2>3. \A h \in Hosts \ lostPins' : PinDue(h)' = PinDue(h)
      BY <1>8, <2>1, WriterOnWay DEF PinDue
    <2>4. \A h : Pushing(h)' <=> Pushing(h)
      BY <2>1 DEF Pushing
    <2> QED
      BY <2>1, <2>2, <2>3, <2>4 DEF Pinned
  <1>9. CASE HydratePins
    <2>1. /\ UNCHANGED <<pins, flush, channel, batch, pinRows>>
          /\ \A h \in Hosts : affinity'[h] = IF pinRows[h] = None THEN affinity[h] ELSE pinRows[h]
      BY <1>9 DEF HydratePins, writerVars, tableVars
    <2>2. /\ channel = <<>> /\ batch = <<>> /\ flush = NoFlush /\ pins = <<>>
          /\ \A h \in Hosts : affinity[h] = None
      BY <1>9 DEF HydratePins, Quiet
    <2>3. ASSUME NEW h \in Hosts PROVE PinDue(h)' = pinRows[h]
      <3>1. batch \o channel = <<>> /\ flush.pins \o pins = <<>>
        BY <2>2 DEF NoFlush
      <3>2. PinOnWay(h) = pinRows[h]
        BY <3>1, NoOps DEF PinOnWay
      <3>3. PinDue(h) = pinRows[h]
        BY <1>2, <3>1, <3>2, NoRows DEF PinDue
      <3> QED
        BY <2>1, <3>3, StillPinDue
    <2> QED
      BY <2>1, <2>2, <2>3 DEF Pinned
  <1>10. CASE HydrateScores \/ Restart
    <2>1. phase' # "up"
      BY <1>10 DEF HydrateScores, Restart
    <2> QED
      BY <2>1 DEF Pinned
  <1>11. CASE HydrateFails
    <2>1. lostPins' = Hosts
      BY <1>11 DEF HydrateFails
    <2> QED
      BY <2>1 DEF Pinned
  <1> QED
    BY <1>3, <1>4, <1>5, <1>6, <1>7, <1>8, <1>9, <1>10, <1>11 DEF Next, Hydrate

\* The last pin of a host that was pinned by one task at a time is on its way to
\* its row, or there.
THEOREM PinsReachTheirRows == Spec => []PinsPersisted
  <1>1. Init => PushIsPin /\ Pinned
    BY DEF Init, MemoryInit, PushIsPin, Pinned
  <1>2. Base /\ PushIsPin /\ Pinned /\ [Next]_vars => PushIsPin' /\ Pinned'
    BY NextPushIsPin, NextPinned DEF Base
  <1>3. Base /\ Pinned => PinsPersisted
    BY PinnedIsPersisted DEF Base
  <1> QED
    BY <1>1, <1>2, <1>3, BaseHolds, PTL DEF Spec

(* A row is not replaced by one with fewer outcomes. *)

\* v is the count of a row for p.
RowCounts(rows, p, v) ==
    \E i \in 1 .. Len(rows) : rows[i].key = p /\ rows[i].value.folded = v

OpCounts(op, p, v) == op.kind = "scores" /\ RowCounts(op.rows, p, v)

Counts(ops, p, v) == \E n \in 1 .. Len(ops) : OpCounts(ops[n], p, v)

\* The counts for p only rise from row to row, and from operation to operation.
RowsRise(rows, p) ==
    \A i, j \in 1 .. Len(rows) :
        i < j /\ rows[i].key = p /\ rows[j].key = p => rows[i].value.folded <= rows[j].value.folded

OpsRise(ops, p) ==
    /\ \A n \in 1 .. Len(ops) : ops[n].kind = "scores" => RowsRise(ops[n].rows, p)
    /\ \A n, m \in 1 .. Len(ops) : n < m =>
         \A x, y : OpCounts(ops[n], p, x) /\ OpCounts(ops[m], p, y) => x <= y

\* From the row of p to its score.
Rising ==
    \A p \in Proxies \ lostScores :
        /\ OpsRise(batch \o channel, p)
        /\ RowsRise(flush.rows, p)
        /\ \A x, y : Counts(batch \o channel, p, x) /\ RowCounts(flush.rows, p, y) => x <= y
        /\ \A x : Counts(batch \o channel, p, x) \/ RowCounts(flush.rows, p, x) =>
             x \in Nat /\ scoreRows[p].folded <= x /\ x <= folded[p]
        /\ phase # "scores" => scoreRows[p].folded <= folded[p]

LEMMA CountsJoined ==
    ASSUME NEW s \in Seq(Posted), NEW t \in Seq(Posted), NEW p
    PROVE  /\ \A v : Counts(s \o t, p, v) <=> Counts(s, p, v) \/ Counts(t, p, v)
           /\ OpsRise(s \o t, p) <=>
                /\ OpsRise(s, p) /\ OpsRise(t, p)
                /\ \A x, y : Counts(s, p, x) /\ Counts(t, p, y) => x <= y
  <1> DEFINE u == s \o t
  <1>1. Len(s) \in Nat /\ Len(t) \in Nat
    BY PostedTypes
  <1>2. /\ Len(u) = Len(s) + Len(t)
        /\ \A n \in 1 .. Len(s) : u[n] = s[n]
        /\ \A n \in 1 .. Len(t) : u[Len(s) + n] = t[n]
    BY Joined
  <1> HIDE DEF u
  <1>3. \A n \in 1 .. Len(u) : n \in 1 .. Len(s) \/ \E m \in 1 .. Len(t) : n = Len(s) + m
    <2>1. ASSUME NEW n \in 1 .. Len(u), n \notin 1 .. Len(s)
          PROVE  n - Len(s) \in 1 .. Len(t) /\ n = Len(s) + (n - Len(s))
      BY <1>1, <1>2, <2>1
    <2> QED
      BY <2>1
  <1>4. (\A n \in 1 .. Len(s) : n \in 1 .. Len(u)) /\ \A n \in 1 .. Len(t) : Len(s) + n \in 1 .. Len(u)
    BY <1>1, <1>2
  <1>5. ASSUME NEW v PROVE Counts(u, p, v) <=> Counts(s, p, v) \/ Counts(t, p, v)
    BY <1>2, <1>3, <1>4 DEF Counts
  <1>6. ASSUME OpsRise(u, p)
        PROVE  /\ OpsRise(s, p) /\ OpsRise(t, p)
               /\ \A x, y : Counts(s, p, x) /\ Counts(t, p, y) => x <= y
    <2>1. OpsRise(s, p)
      BY <1>2, <1>4, <1>6 DEF OpsRise
    <2>2. OpsRise(t, p)
      <3>1. \A n, m \in 1 .. Len(t) : n < m => Len(s) + n < Len(s) + m
        BY <1>1
      <3> QED
        BY <1>2, <1>4, <1>6, <3>1 DEF OpsRise
    <2>3. ASSUME NEW x, NEW y, Counts(s, p, x), Counts(t, p, y) PROVE x <= y
      <3>1. PICK n \in 1 .. Len(s) : OpCounts(s[n], p, x)
        BY <2>3 DEF Counts
      <3>2. PICK m \in 1 .. Len(t) : OpCounts(t[m], p, y)
        BY <2>3 DEF Counts
      <3>3. n < Len(s) + m
        BY <1>1
      <3> QED
        BY <1>2, <1>4, <1>6, <3>1, <3>2, <3>3 DEF OpsRise
    <2> QED
      BY <2>1, <2>2, <2>3
  <1>7. ASSUME OpsRise(s, p), OpsRise(t, p),
               \A x, y : Counts(s, p, x) /\ Counts(t, p, y) => x <= y
        PROVE  OpsRise(u, p)
    <2>1. ASSUME NEW n \in 1 .. Len(u), u[n].kind = "scores" PROVE RowsRise(u[n].rows, p)
      BY <1>2, <1>3, <1>7, <2>1 DEF OpsRise
    <2>2. ASSUME NEW n \in 1 .. Len(u), NEW m \in 1 .. Len(u), n < m,
                 NEW x, NEW y, OpCounts(u[n], p, x), OpCounts(u[m], p, y)
          PROVE  x <= y
      <3>1. CASE n \in 1 .. Len(s) /\ m \in 1 .. Len(s)
        BY <1>2, <1>7, <2>2, <3>1 DEF OpsRise
      <3>2. ASSUME n \in 1 .. Len(s), NEW j \in 1 .. Len(t), m = Len(s) + j
            PROVE  x <= y
        <4>1. Counts(s, p, x) /\ Counts(t, p, y)
          BY <1>2, <2>2, <3>2 DEF Counts
        <4> QED
          BY <1>7, <4>1
      <3>3. ASSUME NEW i \in 1 .. Len(t), n = Len(s) + i, NEW j \in 1 .. Len(t), m = Len(s) + j
            PROVE  x <= y
        <4>1. i < j
          BY <1>1, <2>2, <3>3
        <4> QED
          BY <1>2, <1>7, <2>2, <3>3, <4>1 DEF OpsRise
      <3>4. ASSUME NEW i \in 1 .. Len(t), n = Len(s) + i, m \in 1 .. Len(s)
            PROVE  FALSE
        BY <1>1, <2>2, <3>4
      <3> QED
        BY <1>3, <3>1, <3>2, <3>3, <3>4
    <2> QED
      BY <2>1, <2>2 DEF OpsRise
  <1> QED
    BY <1>5, <1>6, <1>7 DEF u

LEMMA CountsSingle ==
    ASSUME NEW kind \in Kinds, NEW rows \in Seq(Entry), NEW p
    PROVE  /\ \A v : Counts(Single(kind, rows), p, v) <=> kind = "scores" /\ RowCounts(rows, p, v)
           /\ OpsRise(Single(kind, rows), p) <=> (kind = "scores" => RowsRise(rows, p))
  <1> DEFINE one == Single(kind, rows)
  <1>1. Len(one) = 1 /\ one[1].kind = kind /\ one[1].rows = rows
    BY SingleType
  <1> HIDE DEF one
  <1>2. 1 .. Len(one) = {1}
    BY <1>1
  <1>3. \A v : Counts(one, p, v) <=> kind = "scores" /\ RowCounts(rows, p, v)
    BY <1>1, <1>2 DEF Counts, OpCounts
  <1>4. OpsRise(one, p) <=> (kind = "scores" => RowsRise(rows, p))
    BY <1>1, <1>2 DEF OpsRise
  <1> QED
    BY <1>3, <1>4 DEF one

\* A transaction leaves the row it found, or one of its own.
LEMMA AfterCounts ==
    ASSUME NEW old, NEW ops \in Seq(Posted), NEW p
    PROVE  LET new == After(old, ops, "scores", p)
           IN  new = old \/ Counts(ops, p, new.folded)
  <1>1. CASE \A n \in DOMAIN ops : ~Has(ops[n], "scores", p)
    BY <1>1, AfterNone
  <1>2. CASE \E n \in DOMAIN ops : Has(ops[n], "scores", p)
    <2>1. PICK n \in 1 .. Len(ops) : \E i \in 1 .. Len(ops[n].rows) : LastAt(ops, "scores", p, n, i)
      BY <1>2, LastExists
    <2>2. PICK i \in 1 .. Len(ops[n].rows) : LastAt(ops, "scores", p, n, i)
      BY <2>1
    <2>3. After(old, ops, "scores", p) = ops[n].rows[i].value
      BY <2>2, AfterIs
    <2>4. ops[n].kind = "scores" /\ ops[n].rows[i].key = p
      BY <2>2 DEF LastAt, RowFor
    <2>5. RowCounts(ops[n].rows, p, ops[n].rows[i].value.folded)
      BY <2>4 DEF RowCounts
    <2> QED
      BY <2>3, <2>4, <2>5 DEF Counts, OpCounts
  <1> QED
    BY <1>1, <1>2

LEMMA CutCounts ==
    ASSUME NEW ops \in Seq(Posted), NEW n \in 1 .. Len(ops), NEW c \in 1 .. Len(ops[n].rows),
           NEW p, NEW v, Counts(Cut(ops, n, c), p, v)
    PROVE  Counts(ops, p, v)
  <1> DEFINE cut == Cut(ops, n, c)
  <1>1. cut \in Seq(Posted) /\ Len(cut) = Len(ops)
    BY CutTypes
  <1>2. PICK m \in 1 .. Len(ops) : OpCounts(cut[m], p, v)
    BY <1>1 DEF Counts
  <1>3. PICK i \in 1 .. Len(cut[m].rows) : cut[m].rows[i].key = p /\ cut[m].rows[i].value.folded = v
    BY <1>2 DEF OpCounts, RowCounts
  <1>4. RowFor(cut, "scores", p, m, i)
    BY <1>1, <1>2, <1>3, PostedTypes DEF OpCounts, RowFor
  <1>5. /\ i \in 1 .. Len(ops[m].rows) /\ cut[m].rows[i] = ops[m].rows[i]
        /\ RowFor(ops, "scores", p, m, i)
    BY <1>4, CutRows
  <1> HIDE DEF cut
  <1> QED
    BY <1>3, <1>5 DEF Counts, OpCounts, RowCounts, RowFor

LEMMA StillRising ==
    ASSUME Rising, [Next]_vars, lostScores \subseteq lostScores',
           UNCHANGED <<batch, channel, flush, scoreRows>>,
           phase' # "scores" => phase # "scores",
           \A p \in Proxies : folded[p] \in Nat /\ folded'[p] \in Nat /\ folded[p] <= folded'[p],
           \A p \in Proxies : scoreRows[p].folded \in Nat
    PROVE  Rising'
  <1>1. SUFFICES ASSUME NEW p \in Proxies \ lostScores'
                 PROVE  /\ OpsRise(batch \o channel, p)
                        /\ RowsRise(flush.rows, p)
                        /\ \A x, y : Counts(batch \o channel, p, x) /\ RowCounts(flush.rows, p, y) => x <= y
                        /\ \A x : Counts(batch \o channel, p, x) \/ RowCounts(flush.rows, p, x) =>
                             x \in Nat /\ scoreRows[p].folded <= x /\ x <= folded'[p]
                        /\ phase' # "scores" => scoreRows[p].folded <= folded'[p]
    BY DEF Rising
  <1>2. p \in Proxies \ lostScores
    OBVIOUS
  <1> QED
    BY <1>2 DEF Rising

LEMMA NextRising == Typed /\ Shape /\ Quiet /\ Rising /\ [Next]_vars => Rising'
  <1> SUFFICES ASSUME Typed, Shape, Quiet, Rising, [Next]_vars
               PROVE  Rising'
    OBVIOUS
  <1>1. WriterTyped /\ CallsTyped /\ ScoresTyped /\ FlushTyped /\ TablesTyped
    BY DEF Typed
  <1>2. /\ flush.rows \in Seq(Entry) /\ flush.pins \in Seq(Entry) /\ Len(flush.rows) \in Nat
        /\ "scores" \in Kinds /\ "pins" \in Kinds /\ "pins" # "scores"
    BY PinRows, LenProperties
  <1>3. batch \in Seq(Posted) /\ channel \in Seq(Posted) /\ batch \o channel \in Seq(Posted)
    BY <1>1, Writers
  <1>4. \A p \in Proxies : folded[p] \in Nat /\ scoreRows[p].folded \in Nat
    BY <1>1 DEF ScoresTyped, TablesTyped, Row
  <1>5. ASSUME UNCHANGED <<batch, channel, flush, scoreRows, folded, phase, lostScores>>
        PROVE  Rising'
    BY <1>5 DEF Rising
  <1>6. ASSUME NEW t \in Tasks, Fold(t)
        PROVE  Rising'
    <2>1. /\ UNCHANGED <<batch, channel, flush, scoreRows, phase, lostScores>>
          /\ call[t].proxy \in Proxies
          /\ folded' = [folded EXCEPT ![call[t].proxy] = @ + 1]
      BY <1>1, <1>6 DEF Fold, CallsTyped, writerVars, tableVars, historyVars
    <2>2. \A p \in Proxies : folded'[p] \in Nat /\ folded[p] <= folded'[p]
      BY <1>1, <2>1 DEF ScoresTyped
    <2> QED
      BY <1>4, <2>1, <2>2, StillRising
  <1>7. ASSUME NEW t \in Tasks, Step(t) \/ Starts(t), ~Fold(t)
        PROVE  Rising'
    <2>1. CASE MarkDirty(t)
      BY <1>5, <2>1 DEF MarkDirty, writerVars, tableVars, historyVars
    <2>2. CASE ~MarkDirty(t)
      BY <1>5, <1>7, <2>2, Elsewhere
    <2> QED
      BY <2>1, <2>2
  <1>8. CASE Tick \/ Done \/ UNCHANGED vars
    BY <1>5, <1>8 DEF Tick, Done, vars, writerVars, routerVars, tableVars, historyVars
  <1>9. CASE Flush
    <2>1. UNCHANGED <<phase, folded, scoreRows, lostScores>>
      BY <1>9 DEF Flush, DrainStarts, Unmark, ReadScore, TakePins, SendScores, SendPins,
         routerVars, tableVars, historyVars
    <2>2. CASE DrainStarts \/ Unmark \/ TakePins
      <3>1. flush'.rows = flush.rows /\ UNCHANGED <<batch, channel>>
        BY <1>1, <2>2 DEF DrainStarts, Unmark, TakePins, FlushTyped, writerVars
      <3> QED
        BY <2>1, <3>1 DEF Rising
    <2>3. CASE ReadScore
      <3> DEFINE e == [key |-> flush.proxy, value |->
                        [folded |-> folded[flush.proxy], until |-> until[flush.proxy]]]
                 rows == Append(flush.rows, e)
      <3>1. /\ flush'.rows = rows /\ UNCHANGED <<batch, channel>> /\ phase # "scores"
            /\ flush.proxy \in Proxies
        BY <1>1, <2>3 DEF ReadScore, FlushTyped, writerVars, Quiet, NoFlush
      <3>2. e.key = flush.proxy /\ e.value.folded = folded[flush.proxy] /\ e \in Entry
        BY <1>1, <3>1 DEF ScoresTyped, Entry
      <3> HIDE DEF e
      <3>3. /\ Len(rows) = Len(flush.rows) + 1
            /\ \A i \in 1 .. Len(flush.rows) : rows[i] = flush.rows[i]
            /\ rows[Len(flush.rows) + 1] = e
        BY <1>2, <3>2, AppendProperties
      <3> HIDE DEF rows
      <3>4. \A i \in 1 .. Len(rows) : i \in 1 .. Len(flush.rows) \/ i = Len(flush.rows) + 1
        BY <1>2, <3>3
      <3>5. ASSUME NEW p \in Proxies \ lostScores
            PROVE  \A v : RowCounts(rows, p, v) =>
                            RowCounts(flush.rows, p, v) \/ (p = flush.proxy /\ v = folded[p])
        BY <3>2, <3>3, <3>4 DEF RowCounts
      <3>6. ASSUME NEW p \in Proxies \ lostScores PROVE RowsRise(rows, p)
        <4>1. SUFFICES ASSUME NEW i \in 1 .. Len(rows), NEW j \in 1 .. Len(rows), i < j,
                              rows[i].key = p, rows[j].key = p
                       PROVE  rows[i].value.folded <= rows[j].value.folded
          BY DEF RowsRise
        <4>2. i \in 1 .. Len(flush.rows)
          BY <1>2, <3>3, <3>4, <4>1
        <4>3. CASE j \in 1 .. Len(flush.rows)
          BY <3>3, <4>1, <4>2, <4>3 DEF Rising, RowsRise
        <4>4. CASE j = Len(flush.rows) + 1
          <5>1. p = flush.proxy /\ rows[j].value.folded = folded[p]
            BY <3>2, <3>3, <4>1, <4>4
          <5>2. RowCounts(flush.rows, p, rows[i].value.folded)
            BY <3>3, <4>1, <4>2 DEF RowCounts
          <5> QED
            BY <5>1, <5>2 DEF Rising
        <4> QED
          BY <3>4, <4>3, <4>4
      <3>7. ASSUME NEW p \in Proxies \ lostScores
            PROVE  /\ OpsRise(batch \o channel, p)
                   /\ RowsRise(rows, p)
                   /\ \A x, y : Counts(batch \o channel, p, x) /\ RowCounts(rows, p, y) => x <= y
                   /\ \A x : Counts(batch \o channel, p, x) \/ RowCounts(rows, p, x) =>
                        x \in Nat /\ scoreRows[p].folded <= x /\ x <= folded[p]
                   /\ phase # "scores" => scoreRows[p].folded <= folded[p]
        <4>1. OpsRise(batch \o channel, p) /\ scoreRows[p].folded <= folded[p]
          BY <3>1 DEF Rising
        <4>2. ASSUME NEW x, NEW y, Counts(batch \o channel, p, x), RowCounts(rows, p, y)
              PROVE  x <= y
          BY <3>5, <4>2 DEF Rising
        <4>3. ASSUME NEW x, Counts(batch \o channel, p, x) \/ RowCounts(rows, p, x)
              PROVE  x \in Nat /\ scoreRows[p].folded <= x /\ x <= folded[p]
          <5>1. CASE Counts(batch \o channel, p, x) \/ RowCounts(flush.rows, p, x)
            BY <5>1 DEF Rising
          <5>2. CASE x = folded[p]
            BY <1>4, <4>1, <5>2
          <5> QED
            BY <3>5, <4>3, <5>1, <5>2
        <4> QED
          BY <3>6, <4>1, <4>2, <4>3
      <3> QED
        BY <2>1, <3>1, <3>7 DEF Rising
    <2>4. ASSUME NEW rows \in Seq(Entry), NEW kind \in Kinds,
                 Post([kind |-> kind, rows |-> rows]), flush'.rows = <<>>,
                 kind # "scores" => flush.rows = <<>>,
                 kind = "scores" => \A p : /\ \A v : RowCounts(rows, p, v) => RowCounts(flush.rows, p, v)
                                           /\ RowsRise(flush.rows, p) => RowsRise(rows, p)
          PROVE  Rising'
      <3> DEFINE s == batch \o channel
                 one == Single(kind, rows)
      <3>1. s \in Seq(Posted) /\ one \in Seq(Posted)
        BY <1>3, SingleType
      <3>2. batch' \o channel' = s \o one
        <4> DEFINE op == [kind |-> kind, rows |-> rows]
                   last == <<op>>
        <4>1. last \in Seq(Posted) /\ one = last
          BY <3>1 DEF Single
        <4>2. batch' = batch /\ channel' = channel \o last
          BY <1>3, AppendIsConcat, <2>4, <4>1 DEF Post
        <4> HIDE DEF last
        <4>3. batch \o (channel \o last) = (batch \o channel) \o last
          BY <1>3, <4>1, ConcatAssociative, SMTT(40)
        <4> QED
          BY <4>1, <4>2, <4>3
      <3>3. \A p, v : ~RowCounts(<<>>, p, v)
        BY DEF RowCounts
      <3>4. \A p : RowsRise(<<>>, p)
        BY DEF RowsRise
      <3>5. \A p, v : Counts(one, p, v) => RowCounts(flush.rows, p, v)
        BY <2>4, CountsSingle
      <3>6. \A p : RowsRise(flush.rows, p) => OpsRise(one, p)
        BY <2>4, CountsSingle
      <3> HIDE DEF s, one
      <3>7. ASSUME NEW p \in Proxies \ lostScores
            PROVE  /\ OpsRise(s \o one, p)
                   /\ \A x : Counts(s \o one, p, x) =>
                        x \in Nat /\ scoreRows[p].folded <= x /\ x <= folded[p]
        <4>1. /\ OpsRise(s, p) /\ RowsRise(flush.rows, p)
              /\ \A x, y : Counts(s, p, x) /\ RowCounts(flush.rows, p, y) => x <= y
              /\ \A x : Counts(s, p, x) \/ RowCounts(flush.rows, p, x) =>
                   x \in Nat /\ scoreRows[p].folded <= x /\ x <= folded[p]
          BY DEF Rising, s
        <4>2. /\ \A v : Counts(s \o one, p, v) <=> Counts(s, p, v) \/ Counts(one, p, v)
              /\ OpsRise(s \o one, p) <=>
                   /\ OpsRise(s, p) /\ OpsRise(one, p)
                   /\ \A x, y : Counts(s, p, x) /\ Counts(one, p, y) => x <= y
          BY <3>1, CountsJoined
        <4> QED
          BY <3>5, <3>6, <4>1, <4>2
      <3> QED
        BY <2>1, <2>4, <3>2, <3>3, <3>4, <3>7 DEF Rising
    <2>5. CASE SendScores
      <3> DEFINE packed == [n \in DOMAIN flush.rows |-> Packed(flush.rows[n])]
      <3>1. flush'.rows = <<>>
        BY <1>1, <2>5 DEF SendScores, FlushTyped
      <3>2. flush.rows \in Seq(Drained) /\ time \in Nat
        BY <1>1 DEF FlushTyped, ScoresTyped
      <3>3. /\ packed \in Seq([key : Proxies, value : Row]) /\ Len(packed) = Len(flush.rows)
            /\ \A i \in 1 .. Len(flush.rows) :
                 /\ packed[i] = Packed(flush.rows[i])
                 /\ Packed(flush.rows[i]).key = flush.rows[i].key
                 /\ Packed(flush.rows[i]).value.folded = flush.rows[i].value.folded
        BY <3>2, PackedType
      <3>4. IF flush.rows = <<>> THEN UNCHANGED <<channel, batch>>
            ELSE Post([kind |-> "scores", rows |-> packed])
        BY <2>5 DEF SendScores, writerVars
      <3> HIDE DEF packed
      <3>5. packed \in Seq(Entry)
        BY <3>3, PostedOps
      <3>6. \A p : /\ \A v : RowCounts(packed, p, v) => RowCounts(flush.rows, p, v)
                   /\ RowsRise(flush.rows, p) => RowsRise(packed, p)
        BY <3>3, SMTT(40) DEF RowCounts, RowsRise
      <3>7. CASE flush.rows = <<>>
        BY <2>1, <3>1, <3>4, <3>7 DEF Rising
      <3>8. CASE flush.rows # <<>>
        BY <1>2, <2>4, <3>1, <3>4, <3>5, <3>6, <3>8
      <3> QED
        BY <3>7, <3>8
    <2>6. CASE SendPins
      <3>1. flush'.rows = <<>> /\ flush.rows = <<>>
        BY <2>6 DEF SendPins, NoFlush, Shape
      <3>2. IF flush.pins = <<>> THEN UNCHANGED <<channel, batch>>
            ELSE Post([kind |-> "pins", rows |-> flush.pins])
        BY <2>6 DEF SendPins, writerVars
      <3>3. CASE flush.pins = <<>>
        BY <2>1, <3>1, <3>2, <3>3 DEF Rising
      <3>4. CASE flush.pins # <<>>
        BY <1>2, <2>4, <3>1, <3>2, <3>4
      <3> QED
        BY <3>3, <3>4
    <2> QED
      BY <1>9, <2>2, <2>3, <2>5, <2>6 DEF Flush
  <1>10. CASE WriterTakes
    <2>1. PICK k \in 1 .. Len(channel) :
             /\ batch' = SubSeq(channel, 1, k)
             /\ channel' = SubSeq(channel, k + 1, Len(channel))
      BY <1>10 DEF WriterTakes, TakeBatch
    <2>2. batch' \o channel' = channel
      BY <1>3, <2>1, Split
    <2>3. batch \o channel = channel
      BY <1>3, <1>10, Empty DEF WriterTakes, TakeBatch
    <2>4. UNCHANGED <<flush, scoreRows, folded, phase, lostScores>>
      BY <1>10 DEF WriterTakes, routerVars, tableVars, historyVars
    <2> QED
      BY <2>2, <2>3, <2>4 DEF Rising
  <1>11. CASE Commits \/ OperationFails
    <2>1. UNCHANGED <<flush, folded, phase, channel>> /\ batch' = <<>>
      BY <1>11 DEF Commits, OperationFails, EndBatch, routerVars
    <2>2. lostScores \subseteq lostScores'
      BY <1>11 DEF Commits, OperationFails, Missing, historyVars
    <2>3. batch' \o channel' = channel
      BY <1>3, <2>1, Empty
    <2>4. \A p \in Proxies \ lostScores' : scoreRows'[p] = After(scoreRows[p], batch, "scores", p)
      BY <1>11, Writes
    <2>5. ASSUME NEW p \in Proxies \ lostScores'
          PROVE  /\ OpsRise(channel, p)
                 /\ RowsRise(flush.rows, p)
                 /\ \A x, y : Counts(channel, p, x) /\ RowCounts(flush.rows, p, y) => x <= y
                 /\ \A x : Counts(channel, p, x) \/ RowCounts(flush.rows, p, x) =>
                      x \in Nat /\ scoreRows'[p].folded <= x /\ x <= folded[p]
                 /\ phase # "scores" => scoreRows'[p].folded <= folded[p]
      <3> DEFINE s == batch \o channel
                 new == scoreRows'[p].folded
      <3>1. /\ p \in Proxies \ lostScores
        BY <2>2
      <3>2. /\ OpsRise(s, p) /\ RowsRise(flush.rows, p)
            /\ \A x, y : Counts(s, p, x) /\ RowCounts(flush.rows, p, y) => x <= y
            /\ \A x : Counts(s, p, x) \/ RowCounts(flush.rows, p, x) =>
                 x \in Nat /\ scoreRows[p].folded <= x /\ x <= folded[p]
            /\ phase # "scores" => scoreRows[p].folded <= folded[p]
        BY <3>1 DEF Rising
      <3>3. /\ \A v : Counts(s, p, v) <=> Counts(batch, p, v) \/ Counts(channel, p, v)
            /\ OpsRise(s, p) <=>
                 /\ OpsRise(batch, p) /\ OpsRise(channel, p)
                 /\ \A x, y : Counts(batch, p, x) /\ Counts(channel, p, y) => x <= y
        BY <1>3, CountsJoined
      <3>4. new = scoreRows[p].folded \/ Counts(batch, p, new)
        BY <1>3, <2>4, AfterCounts
      <3> HIDE DEF s, new
      <3>5. /\ \A x : Counts(channel, p, x) \/ RowCounts(flush.rows, p, x) => new <= x
            /\ phase # "scores" => new <= folded[p]
        BY <3>2, <3>3, <3>4
      <3> QED
        BY <3>2, <3>3, <3>5 DEF new
    <2> QED
      BY <2>1, <2>3, <2>5 DEF Rising
  <1>12. CASE HydrateScores
    <2>1. /\ UNCHANGED <<flush, channel, batch, scoreRows, lostScores>>
          /\ \A p \in Proxies : folded'[p] = IF scoreRows[p] = NoRow THEN folded[p]
                                             ELSE scoreRows[p].folded
      BY <1>12 DEF HydrateScores, writerVars, tableVars, historyVars
    <2>2. channel = <<>> /\ batch = <<>> /\ flush = NoFlush
      BY <1>12 DEF HydrateScores, Quiet
    <2>3. batch \o channel = <<>> /\ flush.rows = <<>>
      BY <2>2 DEF NoFlush
    <2>4. \A p, v : ~Counts(<<>>, p, v) /\ ~RowCounts(<<>>, p, v)
      BY DEF Counts, RowCounts
    <2>5. \A p \in Proxies : scoreRows[p].folded <= folded'[p]
      BY <1>4, <2>1 DEF NoRow
    <2> QED
      BY <2>1, <2>3, <2>4, <2>5 DEF Rising
  <1>13. CASE HydratePins
    <2>1. UNCHANGED <<batch, channel, flush, scoreRows, folded, lostScores>> /\ phase = "pins"
      BY <1>13 DEF HydratePins, writerVars, tableVars, historyVars
    <2> QED
      BY <1>4, <2>1, StillRising
  <1>14. CASE HydrateFails
    <2>1. UNCHANGED <<batch, channel, flush, scoreRows, folded>>
      BY <1>14 DEF HydrateFails, writerVars, tableVars, routerVars
    <2>2. CASE phase = "scores"
      BY <1>14, <2>2 DEF HydrateFails, Rising
    <2>3. CASE phase # "scores"
      BY <1>4, <1>14, <2>1, <2>3, StillRising DEF HydrateFails
    <2> QED
      BY <2>2, <2>3
  <1>15. CASE Restart
    <2>1. /\ batch' = <<>> /\ channel' = <<>> /\ flush'.rows = <<>> /\ phase' = "scores"
      BY <1>15 DEF Restart, LoseAll, NoFlush
    <2>2. batch' \o channel' = <<>>
      BY <2>1
    <2>3. \A p : /\ \A v : ~Counts(<<>>, p, v) /\ ~RowCounts(<<>>, p, v)
                 /\ OpsRise(<<>>, p) /\ RowsRise(<<>>, p)
      BY DEF Counts, RowCounts, OpsRise, RowsRise
    <2> QED
      BY <2>1, <2>2, <2>3 DEF Rising
  <1> QED
    BY <1>6, <1>7, <1>8, <1>9, <1>10, <1>11, <1>12, <1>13, <1>14, <1>15 DEF Next, Hydrate, Writer

LEMMA InitRising == Init => Rising
  <1> SUFFICES ASSUME Init
               PROVE  Rising
    OBVIOUS
  <1>1. batch = <<>> /\ channel = <<>> /\ flush.rows = <<>> /\ phase = "scores"
    BY DEF Init, MemoryInit, WriterInit, NoFlush
  <1>2. batch \o channel = <<>>
    BY <1>1
  <1>3. \A p : /\ \A v : ~Counts(<<>>, p, v) /\ ~RowCounts(<<>>, p, v)
               /\ OpsRise(<<>>, p) /\ RowsRise(<<>>, p)
    BY DEF Counts, RowCounts, OpsRise, RowsRise
  <1> QED
    BY <1>1, <1>2, <1>3 DEF Rising

\* A row is not replaced by one with fewer outcomes, through restarts and all,
\* unless the rows were not read at the start or a write failed.
THEOREM RowsNeverGoBack == Spec => SavedNeverGoesBack
  <1>1. ASSUME Base, Rising, [Next]_vars, NEW p \in Proxies \ lostScores
        PROVE  scoreRows'[p].folded >= scoreRows[p].folded
    <2>1. batch \in Seq(Posted) /\ channel \in Seq(Posted) /\ scoreRows[p].folded \in Nat
      BY <1>1, Writers DEF Base, Typed, TablesTyped, Row
    <2>2. \A v : Counts(batch, p, v) => v \in Nat /\ scoreRows[p].folded <= v
      BY <1>1, <2>1, CountsJoined DEF Rising
    <2>3. CASE UNCHANGED scoreRows
      BY <2>1, <2>3
    <2>4. CASE Commits
      <3>1. scoreRows'[p] = After(scoreRows[p], batch, "scores", p)
        BY <2>4 DEF Commits, Written
      <3>2. scoreRows'[p] = scoreRows[p] \/ Counts(batch, p, scoreRows'[p].folded)
        BY <2>1, <3>1, AfterCounts
      <3> QED
        BY <2>1, <2>2, <3>2
    <2>5. ASSUME NEW n \in 1 .. Len(batch), NEW c \in 1 .. Len(batch[n].rows),
                 Written(Cut(batch, n, c))
          PROVE  scoreRows'[p].folded >= scoreRows[p].folded
      <3> DEFINE cut == Cut(batch, n, c)
      <3>1. scoreRows'[p] = After(scoreRows[p], cut, "scores", p)
        BY <2>5 DEF Written
      <3>2. cut \in Seq(Posted)
        BY <2>1, CutTypes
      <3>3. \A v : Counts(cut, p, v) => Counts(batch, p, v)
        BY <2>1, CutCounts
      <3> HIDE DEF cut
      <3>4. scoreRows'[p] = scoreRows[p] \/ Counts(cut, p, scoreRows'[p].folded)
        BY <3>1, <3>2, AfterCounts
      <3> QED
        BY <2>1, <2>2, <3>3, <3>4
    <2>6. CASE OperationFails
      BY <2>3, <2>5, <2>6 DEF OperationFails, Cut, tableVars
    <2> QED
      BY <1>1, <2>3, <2>4, <2>6, Changes
  <1>2. Base /\ Rising /\ [Next]_vars => Rising'
    BY NextRising DEF Base
  <1>3. Base /\ Rising /\ [Next]_vars =>
          [\A p \in Proxies \ lostScores : scoreRows'[p].folded >= scoreRows[p].folded]_vars
    BY <1>1
  <1> QED
    BY InitRising, <1>2, <1>3, BaseHolds, PTL DEF Spec, SavedNeverGoesBack
====
