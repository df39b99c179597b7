---------------------------- MODULE Entry_proofs ----------------------------
(***************************************************************************)
(* Proofs about what a request meets before its handler runs.              *)
(***************************************************************************)
EXTENDS MCEntry, TempStore, TLAPS, SequenceTheorems, FiniteSetTheorems

-----------------------------------------------------------------------------
(***************************************************************************)
(* TempStore                                                               *)
(***************************************************************************)

\* What a store holds: entries of different keys, each with the timer that was set
\* for it, which has not fired.
Clocks(K, V) == [key : K, value : V, due : Int]
Items(K, V) == [key : K, value : V, timer : Clocks(K, V)]

Held(s) == {s.entry[i] : i \in DOMAIN s.entry}

Sound(s, K, V) ==
    /\ s \in [entry : Seq(Items(K, V)), timer : SUBSET Clocks(K, V)]
    /\ \A i \in DOMAIN s.entry :
         /\ s.entry[i].timer \in s.timer /\ s.entry[i].timer.key = s.entry[i].key
         /\ \A j \in DOMAIN s.entry : s.entry[j].key = s.entry[i].key => j = i

\* What is known of the entries of a sound store.
LEMMA HeldFacts ==
    ASSUME NEW K, NEW V, NEW s, Sound(s, K, V)
    PROVE  /\ s.entry \in Seq(Items(K, V)) /\ s.timer \subseteq Clocks(K, V)
           /\ DOMAIN s.entry = 1 .. Len(s.entry) /\ Len(s.entry) \in Nat
           /\ \A i \in DOMAIN s.entry : s.entry[i] \in Items(K, V)
           /\ Held(s) \subseteq Items(K, V)
           /\ \A e \in Held(s) : e.timer \in s.timer /\ e.timer.key = e.key
           /\ \A e, f \in Held(s) : e.key = f.key => e = f
           /\ KeysOf(s) = {e.key : e \in Held(s)}
<1>1. s.entry \in Seq(Items(K, V)) /\ s.timer \subseteq Clocks(K, V)
  BY DEF Sound
<1>2. DOMAIN s.entry = 1 .. Len(s.entry) /\ Len(s.entry) \in Nat
  BY <1>1, LenProperties
<1>3. \A i \in DOMAIN s.entry : s.entry[i] \in Items(K, V)
  BY <1>1, <1>2, ElementOfSeq
<1>4. \A e \in Held(s) : e.timer \in s.timer /\ e.timer.key = e.key
  BY DEF Sound, Held
<1>5. \A e, f \in Held(s) : e.key = f.key => e = f
  BY DEF Sound, Held
<1>6. KeysOf(s) = {e.key : e \in Held(s)}
  BY DEF KeysOf, Held
<1>7. QED BY <1>1, <1>2, <1>3, <1>4, <1>5, <1>6 DEF Held

\* The entry of a key is the one that is found.
LEMMA PlaceFacts ==
    ASSUME NEW K, NEW V, NEW s, Sound(s, K, V), NEW key \in KeysOf(s)
    PROVE  /\ Place(s, key) \in DOMAIN s.entry
           /\ EntryOf(s, key) \in Held(s) /\ EntryOf(s, key).key = key
           /\ \A i \in DOMAIN s.entry : s.entry[i].key = key => i = Place(s, key)
           /\ \A e \in Held(s) : e.key = key => e = EntryOf(s, key)
<1>1. Place(s, key) \in DOMAIN s.entry /\ s.entry[Place(s, key)].key = key
  BY DEF KeysOf, Place
<1>2. EntryOf(s, key) \in Held(s) /\ EntryOf(s, key).key = key
  BY <1>1 DEF EntryOf, Held
<1>3. \A i \in DOMAIN s.entry : s.entry[i].key = key => i = Place(s, key)
  BY <1>1 DEF Sound
<1>4. QED BY <1>1, <1>2, <1>3, HeldFacts

\* A sequence without its element at i.
LEMMA RemoveAtFacts ==
    ASSUME NEW S, NEW q \in Seq(S), NEW i \in 1 .. Len(q)
    PROVE  /\ RemoveAt(q, i) \in Seq(S)
           /\ Len(RemoveAt(q, i)) = Len(q) - 1
           /\ \A j \in 1 .. Len(q) - 1 : RemoveAt(q, i)[j] = IF j < i THEN q[j] ELSE q[j + 1]
<1>1. Len(q) \in Nat /\ \A j \in 1 .. Len(q) : q[j] \in S
  BY LenProperties, ElementOfSeq
<1> DEFINE a == SubSeq(q, 1, i - 1)
           b == SubSeq(q, i + 1, Len(q))
<1>2. /\ a \in Seq(S) /\ Len(a) = i - 1
      /\ \A j \in 1 .. i - 1 : a[j] = q[j]
  <2>1. \A j \in 1 .. i - 1 : q[j] \in S
    BY <1>1
  <2>2. /\ a \in Seq(S) /\ Len(a) = IF 1 <= i - 1 THEN (i - 1) - 1 + 1 ELSE 0
        /\ \A j \in 1 .. (i - 1) - 1 + 1 : a[j] = q[1 + j - 1]
    BY <2>1, SubSeqProperties
  <2> HIDE DEF a
  <2>3. QED BY <2>2
<1>3. /\ b \in Seq(S) /\ Len(b) = Len(q) - i
      /\ \A j \in 1 .. Len(q) - i : b[j] = q[i + j]
  <2>1. \A j \in i + 1 .. Len(q) : q[j] \in S
    BY <1>1
  <2>2. PICK n \in Nat : n = Len(q)
    BY <1>1
  <2>3. /\ b \in Seq(S) /\ Len(b) = IF i + 1 <= n THEN n - (i + 1) + 1 ELSE 0
        /\ \A j \in 1 .. n - (i + 1) + 1 : b[j] = q[i + 1 + j - 1]
    BY <2>1, <2>2, SubSeqProperties
  <2>4. \A j \in 1 .. n - i : j \in 1 .. n - (i + 1) + 1 /\ i + 1 + j - 1 = i + j
    BY <2>2
  <2>5. (IF i + 1 <= n THEN n - (i + 1) + 1 ELSE 0) = n - i
    BY <2>2
  <2> HIDE DEF b
  <2>6. QED BY <2>2, <2>3, <2>4, <2>5
<1>4. RemoveAt(q, i) = a \o b
  BY DEF RemoveAt
<1> HIDE DEF a, b
<1>5. /\ a \o b \in Seq(S) /\ Len(a \o b) = Len(a) + Len(b)
      /\ \A j \in 1 .. Len(a) + Len(b) : (a \o b)[j] = IF j <= Len(a) THEN a[j] ELSE b[j - Len(a)]
  BY <1>2, <1>3, ConcatProperties
<1>6. PICK c : c = a \o b
  OBVIOUS
<1>7. ASSUME NEW j \in 1 .. Len(q) - 1 PROVE c[j] = IF j < i THEN q[j] ELSE q[j + 1]
  <2>1. PICK n \in Nat : n = Len(q)
    BY <1>1
  <2>2. i \in 1 .. n /\ j \in 1 .. n - 1 /\ Len(a) = i - 1 /\ Len(b) = n - i
    BY <1>2, <1>3, <2>1
  <2>3. c[j] = IF j <= i - 1 THEN a[j] ELSE b[j - (i - 1)]
    BY <1>5, <1>6, <2>2
  <2>4. CASE j < i
    <3>1. j \in 1 .. i - 1
      BY <2>2, <2>4
    <3>2. c[j] = a[j]
      BY <2>3, <3>1
    <3>3. QED BY <1>2, <2>4, <3>1, <3>2
  <2>5. CASE ~(j < i)
    <3>1. PICK k \in 1 .. n - i : k = j - (i - 1)
      BY <2>2, <2>5
    <3>2. c[j] = b[k] /\ i + k = j + 1
      BY <2>2, <2>3, <2>5, <3>1
    <3>3. b[k] = q[i + k]
      BY <1>3, <2>1, <3>1
    <3>4. QED BY <2>5, <3>2, <3>3
  <2>6. QED BY <2>4, <2>5
<1>8. /\ c \in Seq(S) /\ Len(c) = Len(q) - 1
  BY <1>1, <1>2, <1>3, <1>5, <1>6
<1>9. QED BY <1>4, <1>6, <1>7, <1>8

\* Where the elements of a sequence of n without the one at i come from.
Shifts(f, q, i, n) ==
    /\ f \in [1 .. n - 1 -> 1 .. n \ {i}]
    /\ \A j \in 1 .. n - 1 : RemoveAt(q, i)[j] = q[f[j]]
    /\ \A j, k \in 1 .. n - 1 : f[j] = f[k] => j = k
    /\ \A k \in 1 .. n \ {i} : \E j \in 1 .. n - 1 : f[j] = k

LEMMA RemoveAtMap ==
    ASSUME NEW S, NEW q \in Seq(S), NEW n \in Nat, n = Len(q), NEW i \in 1 .. n
    PROVE  \E f : Shifts(f, q, i, n)
<1> DEFINE f == [j \in 1 .. n - 1 |-> IF j < i THEN j ELSE j + 1]
<1>2. f \in [1 .. n - 1 -> 1 .. n \ {i}]
  OBVIOUS
<1>3. \A j \in 1 .. n - 1 : RemoveAt(q, i)[j] = q[f[j]]
  BY RemoveAtFacts
<1>4. \A j, k \in 1 .. n - 1 : f[j] = f[k] => j = k
  OBVIOUS
<1>5. ASSUME NEW k \in 1 .. n \ {i} PROVE \E j \in 1 .. n - 1 : f[j] = k
  <2>1. CASE k < i
    <3>1. k \in 1 .. n - 1 /\ f[k] = k
      BY <2>1
    <3>2. QED BY <3>1
  <2>2. CASE k > i
    <3>1. k - 1 \in 1 .. n - 1 /\ f[k - 1] = k
      BY <2>2
    <3>2. QED BY <3>1
  <2>3. QED BY <2>1, <2>2
<1> HIDE DEF f
<1>6. QED BY <1>2, <1>3, <1>4, <1>5 DEF Shifts

\* An entry that is removed goes with its timer, and the others stay.
LEMMA WithoutFacts ==
    ASSUME NEW K, NEW V, NEW s, Sound(s, K, V), NEW key
    PROVE  /\ Sound(Without(s, key), K, V)
           /\ Held(Without(s, key)) = {e \in Held(s) : e.key # key}
           /\ Without(s, key).timer \subseteq s.timer
<1>1. CASE key \notin KeysOf(s)
  <2>1. Without(s, key) = s
    BY <1>1 DEF Without
  <2>2. QED BY <2>1, <1>1, HeldFacts
<1>2. CASE key \in KeysOf(s)
  <2> DEFINE i == Place(s, key)
             q == RemoveAt(s.entry, i)
             r == [entry |-> q, timer |-> s.timer \ {EntryOf(s, key).timer}]
  <2>1. Without(s, key) = r
    BY <1>2 DEF Without
  <2>2. /\ i \in 1 .. Len(s.entry) /\ s.entry[i] = EntryOf(s, key) /\ EntryOf(s, key).key = key
        /\ \A j \in DOMAIN s.entry : s.entry[j].key = key => j = i
    BY <1>2, PlaceFacts, HeldFacts DEF EntryOf
  <2> HIDE DEF i
  <2>3. q \in Seq(Items(K, V)) /\ Len(q) = Len(s.entry) - 1 /\ DOMAIN q = 1 .. Len(s.entry) - 1
    BY <2>2, HeldFacts, RemoveAtFacts, LenProperties
  <2> PICK n \in Nat : n = Len(s.entry)
    BY HeldFacts
  <2>4. PICK f \in [1 .. n - 1 -> 1 .. n \ {i}] :
             /\ \A j \in 1 .. n - 1 : q[j] = s.entry[f[j]]
             /\ \A j, k \in 1 .. n - 1 : f[j] = f[k] => j = k
             /\ \A k \in 1 .. n \ {i} : \E j \in 1 .. n - 1 : f[j] = k
    <3>1. PICK S : S = Items(K, V)
      OBVIOUS
    <3>2. PICK p \in Seq(S) : p = s.entry
      BY <3>1, HeldFacts
    <3>3. PICK k \in 1 .. n : k = i
      BY <2>2
    <3>4. n = Len(p)
      BY <3>2
    <3>5. \E f : Shifts(f, p, k, n)
      BY <3>4, RemoveAtMap
    <3>6. PICK f : Shifts(f, s.entry, i, n)
      BY <3>2, <3>3, <3>5
    <3>7. QED BY <3>6 DEF Shifts
  <2> HIDE DEF q
  <2>5. \A j \in DOMAIN q : f[j] \in DOMAIN s.entry /\ f[j] # i /\ q[j] = s.entry[f[j]]
    <3>1. DOMAIN q = 1 .. n - 1 /\ DOMAIN s.entry = 1 .. n
      BY <2>3, HeldFacts
    <3>2. QED BY <3>1, <2>4
  <2>6. r.entry = q /\ r.timer = s.timer \ {EntryOf(s, key).timer}
    OBVIOUS
  <2>7. r \in [entry : Seq(Items(K, V)), timer : SUBSET Clocks(K, V)]
    BY <2>3, HeldFacts
  <2> HIDE DEF r
  <2>8. ASSUME NEW j \in DOMAIN q
        PROVE  /\ q[j].timer \in r.timer /\ q[j].timer.key = q[j].key
               /\ \A k \in DOMAIN q : q[k].key = q[j].key => k = j
    <3>1. f[j] \in DOMAIN s.entry /\ f[j] # i /\ q[j] = s.entry[f[j]]
      BY <2>5
    <3>2. q[j].timer \in s.timer /\ q[j].timer.key = q[j].key /\ q[j].key # key
      BY <3>1, <2>2 DEF Sound
    <3>3. EntryOf(s, key).timer.key = key
      BY <2>2, HeldFacts, <1>2, PlaceFacts
    <3>4. ASSUME NEW k \in DOMAIN q, q[k].key = q[j].key PROVE k = j
      <4>1. f[k] \in DOMAIN s.entry /\ q[k] = s.entry[f[k]]
        BY <2>5
      <4>2. f[k] = f[j]
        BY <3>1, <4>1, <3>4 DEF Sound
      <4>3. QED BY <4>2, <2>3, <2>4
    <3>5. QED BY <2>6, <3>2, <3>3, <3>4
  <2>9. Sound(r, K, V)
    BY <2>6, <2>7, <2>8 DEF Sound
  <2>10. Held(r) = {e \in Held(s) : e.key # key}
    <3>1. ASSUME NEW e \in Held(r) PROVE e \in Held(s) /\ e.key # key
      BY <2>2, <2>5, <2>6 DEF Held
    <3>2. ASSUME NEW e \in Held(s), e.key # key PROVE e \in Held(r)
      <4>1. PICK k \in DOMAIN s.entry : e = s.entry[k]
        BY DEF Held
      <4>2. k \in 1 .. Len(s.entry) \ {i}
        BY <4>1, <3>2, <2>2, HeldFacts
      <4>3. PICK j \in 1 .. n - 1 : f[j] = k
        BY <4>2, <2>4
      <4>4. j \in DOMAIN q /\ q[j] = s.entry[k]
        BY <4>3, <2>3, <2>4
      <4>5. QED BY <4>1, <4>4, <2>6 DEF Held
    <3>3. QED BY <3>1, <3>2
  <2>11. QED BY <2>1, <2>6, <2>9, <2>10
<1>3. QED BY <1>1, <1>2

\* The timer of a key takes the entry of the key, whatever it was set for.
LEMMA FiredFacts ==
    ASSUME NEW K, NEW V, NEW s, Sound(s, K, V), NEW t \in s.timer
    PROVE  /\ Sound(Fired(s, t), K, V)
           /\ Held(Fired(s, t)) = {e \in Held(s) : e.key # t.key}
           /\ Fired(s, t).timer \subseteq s.timer \ {t}
<1> DEFINE r == Without(s, t.key)
           a == [s EXCEPT !.timer = @ \ {t}]
<1>1. a.entry = s.entry /\ a.timer = s.timer \ {t} /\ s = [entry |-> s.entry, timer |-> s.timer]
  BY DEF Sound
<1>2. PICK u : u = Fired(s, t)
  OBVIOUS
<1>3. u.entry = r.entry /\ u.timer = r.timer \ {t} /\ u = [entry |-> r.entry, timer |-> r.timer \ {t}]
  <2> HIDE DEF a
  <2>1. KeysOf(a) = KeysOf(s) /\ EntryOf(a, t.key) = EntryOf(s, t.key) /\ Place(a, t.key) = Place(s, t.key)
    BY <1>1 DEF KeysOf, EntryOf, Place
  <2>2. u = Without(a, t.key)
    BY <1>2 DEF Fired, a
  <2>3. CASE t.key \in KeysOf(s)
    BY <1>1, <2>1, <2>2, <2>3 DEF Without
  <2>4. CASE t.key \notin KeysOf(s)
    <3>1. u = a /\ r = s
      BY <2>1, <2>2, <2>4 DEF Without
    <3>2. a = [entry |-> s.entry, timer |-> s.timer \ {t}]
      BY <1>1 DEF a
    <3>3. QED BY <1>1, <3>1, <3>2
  <2>5. QED BY <2>3, <2>4
<1>4. /\ Sound(r, K, V) /\ Held(r) = {e \in Held(s) : e.key # t.key}
      /\ r.timer \subseteq s.timer
  BY WithoutFacts
<1> HIDE DEF r
<1>5. \A i \in DOMAIN r.entry : r.entry[i].timer # t
  BY <1>4, HeldFacts DEF Held
<1>6. Sound(u, K, V)
  BY <1>3, <1>4, <1>5 DEF Sound
<1>7. Held(u) = Held(r)
  BY <1>3 DEF Held
<1>8. QED BY <1>2, <1>3, <1>4, <1>6, <1>7

\* An entry that is written over keeps its place, a new one is the last.
Written(s, e) ==
    [entry |-> IF e.key \in KeysOf(s)
               THEN [i \in DOMAIN s.entry |-> IF s.entry[i].key = e.key THEN e ELSE s.entry[i]]
               ELSE Append(s.entry, e),
     timer |-> s.timer \cup {e.timer}]

LEMMA WrittenFacts ==
    ASSUME NEW K, NEW V, NEW s, Sound(s, K, V), NEW e \in Items(K, V), e.timer.key = e.key
    PROVE  /\ Sound(Written(s, e), K, V)
           /\ Held(Written(s, e)) = {f \in Held(s) : f.key # e.key} \cup {e}
           /\ Written(s, e).timer = s.timer \cup {e.timer}
<1>0. PICK I : I = Items(K, V)
  OBVIOUS
<1> PICK r : r = Written(s, e)
  OBVIOUS
<1> PICK q : q = s.entry
  OBVIOUS
<1> PICK n \in Nat : n = Len(q)
  BY HeldFacts
<1>1. q \in Seq(I) /\ DOMAIN q = 1 .. n /\ e \in I /\ \A i \in 1 .. n : q[i] \in I
  BY <1>0, HeldFacts
<1>2. e.timer \in Clocks(K, V)
  BY DEF Items
<1>3. r = [entry |-> r.entry, timer |-> s.timer \cup {e.timer}] /\ r.timer = s.timer \cup {e.timer}
  BY DEF Written
<1>4. CASE e.key \in KeysOf(s)
  <2>1. r.entry = [i \in DOMAIN q |-> IF q[i].key = e.key THEN e ELSE q[i]]
    BY <1>4 DEF Written
  <2>2. PICK p : p = r.entry
    OBVIOUS
  <2>3. /\ p \in [1 .. n -> I] /\ DOMAIN p = 1 .. n
        /\ \A i \in 1 .. n : p[i] = IF q[i].key = e.key THEN e ELSE q[i]
    BY <1>1, <2>1, <2>2
  <2>4. p \in Seq(I)
    BY <2>3
  <2>5. r \in [entry : Seq(I), timer : SUBSET Clocks(K, V)]
    BY <1>2, <1>3, <2>2, <2>4, HeldFacts
  <2>6. ASSUME NEW i \in 1 .. n
        PROVE  /\ p[i].timer \in r.timer /\ p[i].timer.key = p[i].key
               /\ p[i].key = q[i].key
    BY <1>1, <1>3, <2>3 DEF Sound
  <2>7. \A i, j \in 1 .. n : p[i].key = p[j].key => i = j
    BY <1>1, <2>6 DEF Sound
  <2>8. Sound(r, K, V)
    BY <1>0, <2>2, <2>3, <2>5, <2>6, <2>7 DEF Sound
  <2>9. PICK i \in 1 .. n : q[i].key = e.key
    BY <1>1, <1>4 DEF KeysOf
  <2>10. e \in Held(r)
    BY <2>2, <2>3, <2>9 DEF Held
  <2>11. \A f \in Held(s) : f.key # e.key => f \in Held(r)
    BY <1>1, <2>2, <2>3 DEF Held
  <2>12. \A f \in Held(r) : f = e \/ (f \in Held(s) /\ f.key # e.key)
    BY <1>1, <2>2, <2>3 DEF Held
  <2>13. Held(r) = {f \in Held(s) : f.key # e.key} \cup {e}
    BY <2>10, <2>11, <2>12
  <2>14. QED BY <1>3, <2>8, <2>13
<1>5. CASE e.key \notin KeysOf(s)
  <2>1. r.entry = Append(q, e)
    BY <1>5 DEF Written
  <2>2. PICK p : p = r.entry
    OBVIOUS
  <2>3. /\ p \in Seq(I) /\ DOMAIN p = 1 .. n + 1
        /\ \A i \in 1 .. n : p[i] = q[i]
        /\ p[n + 1] = e
    BY <1>1, <2>1, <2>2, AppendProperties, LenProperties
  <2>4. r \in [entry : Seq(I), timer : SUBSET Clocks(K, V)]
    BY <1>2, <1>3, <2>2, <2>3, HeldFacts
  <2>5. \A i \in 1 .. n : q[i].key # e.key
    BY <1>1, <1>5 DEF KeysOf
  <2>6. ASSUME NEW i \in 1 .. n + 1
        PROVE  /\ p[i].timer \in r.timer /\ p[i].timer.key = p[i].key
               /\ \A j \in 1 .. n + 1 : p[j].key = p[i].key => j = i
    <3>1. i \in 1 .. n \/ i = n + 1
      OBVIOUS
    <3>2. \A j \in 1 .. n + 1 : j \in 1 .. n \/ j = n + 1
      OBVIOUS
    <3>3. QED BY <3>1, <3>2, <1>1, <1>3, <2>3, <2>5 DEF Sound
  <2>7. Sound(r, K, V)
    BY <1>0, <2>2, <2>3, <2>4, <2>6 DEF Sound
  <2>8. n + 1 \in DOMAIN p /\ \A i \in 1 .. n : i \in DOMAIN p
    BY <2>3
  <2>9. e \in Held(r)
    BY <2>2, <2>3, <2>8 DEF Held
  <2>10. \A f \in Held(s) : f \in Held(r) /\ f.key # e.key
    BY <1>1, <2>2, <2>3, <2>5, <2>8 DEF Held
  <2>11. \A f \in Held(r) : f = e \/ f \in Held(s)
    <3>1. \A i \in DOMAIN p : i \in 1 .. n \/ i = n + 1
      BY <2>3
    <3>2. QED BY <1>1, <2>2, <2>3, <3>1 DEF Held
  <2>12. Held(r) = {f \in Held(s) : f.key # e.key} \cup {e}
    BY <2>9, <2>10, <2>11
  <2>13. QED BY <1>3, <2>7, <2>12
<1>6. QED BY <1>4, <1>5

\* A store that is full drops its oldest entry, to write one of another key.
LEMMA PutFacts ==
    ASSUME NEW K, NEW V, NEW s, Sound(s, K, V), NEW key \in K, NEW value \in V, NEW due \in Int,
           NEW size \in Nat, NEW e, e = [key |-> key, value |-> value, timer |-> Timer(key, value, due)]
    PROVE  /\ Sound(Put(s, key, value, due, size), K, V)
           /\ e \in Held(Put(s, key, value, due, size))
           /\ \A f \in Held(Put(s, key, value, due, size)) : f = e \/ (f \in Held(s) /\ f.key # key)
           /\ \A f \in Held(s) : \/ f \in Held(Put(s, key, value, due, size)) \/ f.key = key
                                 \/ Full(s, key, size) /\ f.key = Head(s.entry).key
           /\ Put(s, key, value, due, size).timer \subseteq s.timer \cup {e.timer}
<1>1. e \in Items(K, V) /\ e.key = key /\ e.timer = Timer(key, value, due) /\ e.timer.key = key
  BY DEF Items, Clocks, Timer
<1>2. PICK t : t = IF Full(s, key, size) THEN Without(s, Head(s.entry).key) ELSE s
  OBVIOUS
<1>3. /\ Sound(t, K, V) /\ Held(t) \subseteq Held(s) /\ t.timer \subseteq s.timer
      /\ \A f \in Held(s) : f \in Held(t) \/ (Full(s, key, size) /\ f.key = Head(s.entry).key)
  <2>1. CASE Full(s, key, size)
    <3>1. t = Without(s, Head(s.entry).key)
      BY <1>2, <2>1
    <3>2. QED BY <2>1, <3>1, WithoutFacts
  <2>2. CASE ~Full(s, key, size)
    BY <1>2, <2>2
  <2>3. QED BY <2>1, <2>2
<1>4. Put(s, key, value, due, size) = Written(t, e)
  BY <1>1, <1>2 DEF Put, Written
<1>5. PICK r : r = Put(s, key, value, due, size)
  OBVIOUS
<1>6. /\ Sound(r, K, V) /\ Held(r) = {f \in Held(t) : f.key # e.key} \cup {e}
      /\ r.timer = t.timer \cup {e.timer}
  BY <1>1, <1>3, <1>4, <1>5, WrittenFacts
<1>7. QED BY <1>1, <1>3, <1>5, <1>6

\* A timer is put off with its entry.
LEMMA PostponedFacts ==
    ASSUME NEW K, NEW V, NEW s, Sound(s, K, V), NEW key \in K, NEW due \in Int
    PROVE  /\ Sound(Postponed(s, key, due), K, V)
           /\ KeysOf(Postponed(s, key, due)) = KeysOf(s)
           /\ \A f \in Held(Postponed(s, key, due)) :
                IF f.key = key
                THEN f.timer.due = due /\ \E g \in Held(s) : g.key = key /\ g.value = f.value
                ELSE f \in Held(s)
           /\ \A t \in Postponed(s, key, due).timer : t \in s.timer \/ t.due = due
<1>0. PICK I : I = Items(K, V)
  OBVIOUS
<1>1. CASE key \notin KeysOf(s)
  <2>1. Postponed(s, key, due) = s
    BY <1>1 DEF Postponed
  <2>2. \A f \in Held(s) : f.key # key
    BY <1>1, HeldFacts
  <2>3. QED BY <2>1, <2>2
<1>2. CASE key \in KeysOf(s)
  <2> PICK q : q = s.entry
    OBVIOUS
  <2> PICK n \in Nat : n = Len(q)
    BY HeldFacts
  <2>1. q \in Seq(I) /\ DOMAIN q = 1 .. n /\ \A i \in 1 .. n : q[i] \in Items(K, V)
    BY <1>0, HeldFacts
  <2>2. PICK g : g = EntryOf(s, key)
    OBVIOUS
  <2>3. /\ g \in Held(s) /\ g.key = key /\ g.timer \in s.timer /\ g.timer.key = key
        /\ g \in Items(K, V)
    BY <1>2, <2>2, PlaceFacts, HeldFacts
  <2>4. PICK m : m = [g.timer EXCEPT !.due = due]
    OBVIOUS
  <2>5. m \in Clocks(K, V) /\ m.key = key /\ m.due = due
    BY <2>3, <2>4 DEF Items, Clocks
  <2>6. PICK p : p = [i \in DOMAIN q |-> IF q[i].key = key THEN [q[i] EXCEPT !.timer = m] ELSE q[i]]
    OBVIOUS
  <2>7. PICK r : r = [entry |-> p, timer |-> (s.timer \ {g.timer}) \cup {m}]
    OBVIOUS
  <2>8. Postponed(s, key, due) = r
    BY <1>2, <2>2, <2>3, <2>4, <2>6, <2>7 DEF Postponed
  <2>9. ASSUME NEW x \in Items(K, V)
        PROVE  /\ [x EXCEPT !.timer = m] \in Items(K, V)
               /\ [x EXCEPT !.timer = m].key = x.key
               /\ [x EXCEPT !.timer = m].value = x.value
               /\ [x EXCEPT !.timer = m].timer = m
    BY <2>5 DEF Items
  <2>10. ASSUME NEW i \in 1 .. n
         PROVE  /\ p[i] \in I /\ p[i].key = q[i].key /\ p[i].value = q[i].value
                /\ q[i].key = key => p[i].timer = m
                /\ q[i].key # key => p[i] = q[i]
    <3>1. p[i] = IF q[i].key = key THEN [q[i] EXCEPT !.timer = m] ELSE q[i]
      BY <2>1, <2>6
    <3>2. QED BY <1>0, <2>1, <2>9, <3>1
  <2>11. p \in Seq(I) /\ DOMAIN p = 1 .. n
    <3>1. p \in [1 .. n -> I]
      BY <2>1, <2>6, <2>10
    <3>2. QED BY <3>1
  <2>12. r \in [entry : Seq(I), timer : SUBSET Clocks(K, V)] /\ r.entry = p
         /\ r.timer = (s.timer \ {g.timer}) \cup {m}
    <3>1. (s.timer \ {g.timer}) \cup {m} \in SUBSET Clocks(K, V)
      BY <2>5, HeldFacts
    <3>2. QED BY <2>7, <2>11, <3>1
  <2>13. \A i, j \in 1 .. n : p[i].key = p[j].key => i = j
    BY <2>1, <2>10 DEF Sound
  <2>14. ASSUME NEW i \in 1 .. n PROVE p[i].timer \in r.timer /\ p[i].timer.key = p[i].key
    <3>1. q[i].timer \in s.timer /\ q[i].timer.key = q[i].key
      BY <2>1 DEF Sound
    <3>2. QED BY <2>3, <2>5, <2>10, <2>12, <3>1
  <2>15. Sound(r, K, V)
    BY <1>0, <2>11, <2>12, <2>13, <2>14 DEF Sound
  <2>16. KeysOf(r) = KeysOf(s)
    BY <2>1, <2>10, <2>11, <2>12 DEF KeysOf
  <2>17. ASSUME NEW f \in Held(r)
         PROVE  IF f.key = key
                THEN f.timer.due = due /\ \E h \in Held(s) : h.key = key /\ h.value = f.value
                ELSE f \in Held(s)
    <3>1. PICK i \in 1 .. n : f = p[i]
      BY <2>11, <2>12 DEF Held
    <3>2. q[i] \in Held(s)
      BY <2>1 DEF Held
    <3>3. QED BY <2>5, <2>10, <3>1, <3>2
  <2>18. \A t \in r.timer : t \in s.timer \/ t.due = due
    BY <2>5, <2>12
  <2>19. QED BY <2>8, <2>15, <2>16, <2>17, <2>18
<1>3. QED BY <1>1, <1>2

-----------------------------------------------------------------------------
(***************************************************************************)
(* TwoFactor                                                               *)
(***************************************************************************)

Secret == Second!Secret

\* The code accepted last is remembered for as long as it is good, or was forgotten.
CodesInv ==
    /\ clock \in Nat /\ last \in Int /\ last <= Second!Step(clock) + 1
    /\ Sound(used, {Secret}, Int)
    /\ forgotten \in BOOLEAN
    /\ ~forgotten /\ last # Second!NoCode =>
         \/ last + 1 < Second!Step(clock)
         \/ \E e \in Held(used) : e.value = last /\ e.timer.due >= 2 * (last - 1) + 2 * CodeLife

LEMMA CodeLifeFacts == CodeLife \in Nat /\ CodeLife >= 3
  BY EntryAssumption DEF Second!CodesAssumption

\* The operations of the instance are those of TempStore.
LEMMA SecondStore ==
    /\ \A s : Second!KeysOf(s) = KeysOf(s)
    /\ \A s, key : Second!Value(s, key) = Value(s, key) /\ Second!EntryOf(s, key) = EntryOf(s, key)
    /\ \A s, key, due : Second!Postponed(s, key, due) = Postponed(s, key, due)
    /\ \A s, key, value, due, size :
         Second!Put(s, key, value, due, size) = Put(s, key, value, due, size)
    /\ \A s, t : Second!Fired(s, t) = Fired(s, t)
    /\ \A s, t : Second!Due(s, t) = Due(s, t)
    /\ Second!Empty = Empty
<1>1. \A s : Second!KeysOf(s) = KeysOf(s)
  BY DEF Second!KeysOf, KeysOf
<1>2. \A s, key : Second!Place(s, key) = Place(s, key)
  BY DEF Second!Place, Place
<1>3. \A s, key : Second!EntryOf(s, key) = EntryOf(s, key)
  BY <1>2 DEF Second!EntryOf, EntryOf
<1>4. ASSUME NEW s, NEW key PROVE Second!Without(s, key) = Without(s, key)
  <2>1. Second!KeysOf(s) = KeysOf(s) /\ Second!Place(s, key) = Place(s, key)
        /\ Second!EntryOf(s, key) = EntryOf(s, key)
    BY <1>1, <1>2, <1>3
  <2>2. QED BY <2>1 DEF Second!Without, Without, Second!RemoveAt, RemoveAt
<1>0. \A s, key, size : Second!Full(s, key, size) = Full(s, key, size)
  BY <1>1 DEF Second!Full, Full
<1>5. \A s, key : Second!Value(s, key) = Value(s, key)
  BY <1>3 DEF Second!Value, Value
<1>6. ASSUME NEW s, NEW key, NEW due PROVE Second!Postponed(s, key, due) = Postponed(s, key, due)
  <2>1. Second!KeysOf(s) = KeysOf(s) /\ Second!EntryOf(s, key) = EntryOf(s, key)
    BY <1>1, <1>3
  <2>2. QED BY <2>1 DEF Second!Postponed, Postponed
<1>7. ASSUME NEW s, NEW key, NEW value, NEW due, NEW size
      PROVE  Second!Put(s, key, value, due, size) = Put(s, key, value, due, size)
  <2>1. PICK t : t = IF Full(s, key, size) THEN Without(s, Head(s.entry).key) ELSE s
    OBVIOUS
  <2>2. t = IF Second!Full(s, key, size) THEN Second!Without(s, Head(s.entry).key) ELSE s
    BY <2>1, <1>0, <1>4
  <2>3. Second!KeysOf(t) = KeysOf(t) /\ Second!Timer(key, value, due) = Timer(key, value, due)
    BY <1>1 DEF Second!Timer, Timer
  <2>4. QED BY <2>1, <2>2, <2>3 DEF Second!Put, Put
<1>8. \A s, t : Second!Fired(s, t) = Fired(s, t)
  BY <1>4 DEF Second!Fired, Fired
<1>9. \A s, t : Second!Due(s, t) = Due(s, t)
  BY DEF Second!Due, Due
<1>10. QED BY <1>1, <1>3, <1>5, <1>6, <1>7, <1>8, <1>9 DEF Second!Empty, Empty

LEMMA EmptyFacts ==
    ASSUME NEW K, NEW V
    PROVE  Sound(Empty, K, V) /\ Held(Empty) = {}
<1>1. << >> \in Seq(Items(K, V))
  BY EmptySeq
<1>2. Empty.entry = << >> /\ Empty.timer = {} /\ DOMAIN << >> = {}
  BY DEF Empty
<1>3. Empty \in [entry : Seq(Items(K, V)), timer : SUBSET Clocks(K, V)]
  BY <1>1 DEF Empty
<1>4. QED BY <1>2, <1>3 DEF Sound, Held

\* Looking at the store puts the timer of the entry off, and keeps its value.
LEMMA LookedFacts ==
    ASSUME CodesInv
    PROVE  /\ Sound(Second!Looked, {Secret}, Int)
           /\ \A e \in Held(used) :
                \E f \in Held(Second!Looked) : f.value = e.value /\ f.timer.due = clock + 2 * CodeLife
<1> PICK due \in Int : due = clock + 2 * CodeLife
  BY CodeLifeFacts DEF CodesInv
<1> PICK K : K = {Secret}
  OBVIOUS
<1> PICK s : s = Second!Looked
  OBVIOUS
<1> PICK u : u = used
  OBVIOUS
<1>1. s = Postponed(u, Secret, due)
  BY SecondStore DEF Second!Looked, Secret
<1>2. Sound(u, K, Int) /\ Secret \in K
  BY DEF CodesInv
<1>3. /\ Sound(s, K, Int) /\ KeysOf(s) = KeysOf(u)
      /\ \A f \in Held(s) : f.key = Secret =>
           f.timer.due = due /\ \E g \in Held(u) : g.key = Secret /\ g.value = f.value
  BY <1>1, <1>2, PostponedFacts
<1>4. ASSUME NEW e \in Held(u)
      PROVE  \E f \in Held(s) : f.value = e.value /\ f.timer.due = due
  <2>1. e.key = Secret
    <3>1. e \in Items(K, Int)
      BY <1>2, HeldFacts
    <3>2. QED BY <3>1 DEF Items
  <2>2. PICK f \in Held(s) : f.key = Secret
    <3>1. Secret \in KeysOf(s)
      BY <2>1, <1>2, <1>3, HeldFacts
    <3>2. KeysOf(s) = {g.key : g \in Held(s)}
      BY <1>3, HeldFacts
    <3>3. QED BY <3>1, <3>2
  <2>3. PICK g \in Held(u) : g.key = Secret /\ g.value = f.value
    BY <1>3, <2>2
  <2>4. g = e
    BY <2>1, <2>3, <1>2, HeldFacts
  <2>5. QED BY <1>3, <2>2, <2>3, <2>4
<1>5. QED BY <1>3, <1>4

LEMMA CodesBegin ==
    ASSUME Second!Init
    PROVE  CodesInv
<1>1. used = Empty /\ clock = 0 /\ last = -2 /\ forgotten = FALSE
  BY SecondStore DEF Second!Init, Second!NoCode
<1>2. Sound(used, {Secret}, Int)
  BY <1>1, EmptyFacts
<1>3. Second!Step(clock) = 0 /\ Second!NoCode = -2
  BY <1>1 DEF Second!Step, Second!NoCode
<1>4. clock \in Nat /\ last \in Int /\ last <= Second!Step(clock) + 1 /\ last = Second!NoCode
  BY <1>1, <1>3
<1>5. forgotten \in BOOLEAN
  BY <1>1
<1>6. QED BY <1>2, <1>4, <1>5, Zenon DEF CodesInv

LEMMA CodesAccept ==
    ASSUME CodesInv, NEW code \in Second!Codes, Second!Accept(code)
    PROVE  CodesInv'
<1> PICK due \in Int : due = clock + 2 * CodeLife
  BY CodeLifeFacts DEF CodesInv
<1> PICK K : K = {Secret}
  OBVIOUS
<1> PICK s : s = Second!Looked
  OBVIOUS
<1> PICK u : u = used'
  OBVIOUS
<1> PICK e : e = [key |-> Secret, value |-> code, timer |-> Timer(Secret, code, due)]
  OBVIOUS
<1>1. code \in Int
  BY DEF Second!Codes
<1>2. Sound(s, K, Int) /\ Secret \in K
  BY LookedFacts
<1>3. u = Put(s, Secret, code, due, 0)
  BY SecondStore DEF Second!Accept, Secret
<1>4. Sound(u, K, Int) /\ e \in Held(u)
  <2>1. PICK size \in Nat : size = 0
    OBVIOUS
  <2>2. PICK key \in K : key = Secret
    BY <1>2
  <2>3. PICK value \in Int : value = code
    BY <1>1
  <2>4. Sound(Put(s, key, value, due, size), K, Int) /\ e \in Held(Put(s, key, value, due, size))
    BY <1>2, <2>2, <2>3, PutFacts
  <2>5. QED BY <1>3, <2>1, <2>2, <2>3, <2>4
<1>5. e.value = code /\ e.timer.due = due
  BY DEF Timer
<1>6. clock' = clock /\ last' = code /\ forgotten' = FALSE /\ clock \in Nat
  BY DEF Second!Accept, CodesInv
<1>7. code <= Second!Step(clock) + 1 /\ 2 * Second!Step(clock) <= clock /\ Second!Step(clock) \in Nat
  BY <1>1, <1>6 DEF Second!Accept, Second!Good, Second!Step
<1>8. due >= 2 * (code - 1) + 2 * CodeLife
  BY <1>1, <1>6, <1>7, CodeLifeFacts
<1>9. Second!Step(clock)' = Second!Step(clock)
  BY <1>6 DEF Second!Step
<1>10. \E f \in Held(u) : f.value = last' /\ f.timer.due >= 2 * (last' - 1) + 2 * CodeLife
  BY <1>4, <1>5, <1>6, <1>8
<1>11. Held(u) = Held(used)' /\ Sound(used, {Secret}, Int)'
  BY <1>4 DEF Held
<1>12. QED BY <1>1, <1>6, <1>7, <1>9, <1>10, <1>11 DEF CodesInv

LEMMA CodesRefuse ==
    ASSUME CodesInv, NEW code \in Second!Codes, Second!Refuse(code)
    PROVE  CodesInv'
<1> PICK u : u = used'
  OBVIOUS
<1>1. u = Second!Looked /\ clock' = clock /\ last' = last /\ forgotten' = forgotten
  BY DEF Second!Refuse
<1>2. Sound(u, {Secret}, Int)
  BY <1>1, LookedFacts
<1>3. Second!Step(clock)' = Second!Step(clock) /\ 2 * Second!Step(clock) <= clock
  BY <1>1 DEF Second!Step, CodesInv
<1>4. clock + 2 * CodeLife >= 2 * (last - 1) + 2 * CodeLife
  BY <1>3, CodeLifeFacts DEF CodesInv, Second!Step
<1>5. ASSUME NEW e \in Held(used), e.value = last
      PROVE  \E f \in Held(u) : f.value = last /\ f.timer.due >= 2 * (last - 1) + 2 * CodeLife
  BY <1>1, <1>4, <1>5, LookedFacts
<1>6. Held(u) = Held(used)' /\ Sound(used, {Secret}, Int)'
  BY <1>2 DEF Held
<1>7. ~forgotten /\ last # Second!NoCode =>
         \/ last + 1 < Second!Step(clock)
         \/ \E f \in Held(u) : f.value = last /\ f.timer.due >= 2 * (last - 1) + 2 * CodeLife
  BY <1>5 DEF CodesInv
<1>8. QED BY <1>1, <1>3, <1>6, <1>7 DEF CodesInv, Second!NoCode

LEMMA CodesFire ==
    ASSUME CodesInv, Second!Fire
    PROVE  CodesInv'
<1>1. clock' = clock /\ last' = last /\ Second!Step(clock)' = Second!Step(clock)
  BY DEF Second!Fire, Second!Step
<1>2. PICK t \in Due(used, clock) :
        /\ used' = Fired(used, t)
        /\ forgotten' = (forgotten \/ (Secret \in KeysOf(used) /\ EntryOf(used, Secret).timer # t))
  BY SecondStore DEF Second!Fire, Secret
<1> PICK u : u = used'
  OBVIOUS
<1>3. t \in used.timer /\ t.due <= clock
  BY <1>2 DEF Due
<1>4. Sound(u, {Secret}, Int)
  BY <1>2, <1>3, FiredFacts DEF CodesInv
<1>5. Held(u) = Held(used)' /\ Sound(used, {Secret}, Int)'
  BY <1>4 DEF Held
<1>6. forgotten' \in BOOLEAN
  BY <1>2, Zenon
<1>7. ASSUME ~forgotten', last # Second!NoCode PROVE last + 1 < Second!Step(clock)
  <2>1. SUFFICES ASSUME NEW e \in Held(used), e.timer.due >= 2 * (last - 1) + 2 * CodeLife
                 PROVE  last + 1 < Second!Step(clock)
    BY <1>2, <1>7 DEF CodesInv
  <2>2. Sound(used, {Secret}, Int)
    BY DEF CodesInv
  <2>3. e \in Items({Secret}, Int)
    BY <2>2, HeldFacts
  <2>4. e.key = Secret /\ e.timer.due \in Int
    BY <2>3 DEF Items, Clocks
  <2>5. Secret \in KeysOf(used)
    BY <2>2, <2>4, HeldFacts
  <2>6. e = EntryOf(used, Secret)
    BY <2>2, <2>4, <2>5, PlaceFacts
  <2>7. e.timer = t
    BY <1>2, <1>7, <2>5, <2>6, Zenon
  <2>8. clock >= 2 * (last - 1) + 2 * CodeLife
    BY <1>3, <2>1, <2>4, <2>7, CodeLifeFacts DEF CodesInv
  <2>9. QED BY <2>8, CodeLifeFacts DEF CodesInv, Second!Step
<1>8. QED BY <1>1, <1>5, <1>6, <1>7 DEF CodesInv, Second!NoCode

LEMMA CodesTick ==
    ASSUME CodesInv, Second!Tick
    PROVE  CodesInv'
<1>1. clock' = clock + 1 /\ UNCHANGED <<used, last, forgotten>>
  BY DEF Second!Tick
<1>2. Second!Step(clock)' >= Second!Step(clock) /\ Second!Step(clock)' \in Nat
  BY <1>1 DEF Second!Step, CodesInv
<1>3. Held(used)' = Held(used) /\ Sound(used, {Secret}, Int)'
  <2>1. PICK u : u = used'
    OBVIOUS
  <2>2. Sound(u, {Secret}, Int) /\ Held(u) = Held(used)
    BY <1>1, <2>1 DEF CodesInv
  <2>3. QED BY <2>1, <2>2 DEF Held
<1>4. QED BY <1>1, <1>2, <1>3 DEF CodesInv, Second!Step, Second!NoCode

LEMMA CodesStep ==
    ASSUME CodesInv, [MCNext]_allVars
    PROVE  CodesInv'
<1>1. CASE Second!Next
  <2>1. CASE \E code \in Second!Codes : Second!Accept(code) \/ Second!Refuse(code)
    BY <2>1, CodesAccept, CodesRefuse
  <2>2. CASE Second!Fire
    BY <2>2, CodesFire
  <2>3. CASE Second!Tick
    BY <2>3, CodesTick
  <2>4. QED BY <1>1, <2>1, <2>2, <2>3 DEF Second!Next
<1>2. CASE UNCHANGED second
  <2>1. UNCHANGED <<clock, used, last, forgotten>>
    BY <1>2 DEF second
  <2>2. Second!Step(clock)' = Second!Step(clock)
    BY <2>1 DEF Second!Step
  <2>3. Held(used)' = Held(used) /\ Sound(used, {Secret}, Int)'
    <3>1. PICK u : u = used'
      OBVIOUS
    <3>2. Sound(u, {Secret}, Int) /\ Held(u) = Held(used)
      BY <2>1, <3>1 DEF CodesInv
    <3>3. QED BY <3>1, <3>2 DEF Held
  <2>4. QED BY <2>1, <2>2, <2>3 DEF CodesInv, Second!NoCode
<1>3. QED BY <1>1, <1>2 DEF MCNext, allVars

\* With any timeout of three steps or more, the code accepted last is not accepted a
\* second time as long as it is good, but where the timer of an entry that was written
\* over has taken away the one that remembers it.
THEOREM NotRepeated == MCSpec => CodeNotRepeated
<1>1. MCInit => CodesInv
  BY CodesBegin DEF MCInit
<1>2. CodesInv /\ [MCNext]_allVars => CodesInv'
  BY CodesStep
<1>3. CodesInv /\ [MCNext]_allVars =>
        [\A code \in Second!Codes : Second!Accept(code) => code # last \/ forgotten]_(Second!vars)
  <2> SUFFICES ASSUME CodesInv, NEW code \in Second!Codes, Second!Accept(code), code = last, ~forgotten
               PROVE  FALSE
    BY Zenon DEF Second!vars
  <2>1. code \in Nat /\ ~(last + 1 < Second!Step(clock))
    BY DEF Second!Accept, Second!Good, Second!Step, Second!Codes, CodesInv
  <2>2. PICK e \in Held(used) : e.value = last
    BY <2>1 DEF CodesInv, Second!NoCode
  <2>3. Sound(used, {Secret}, Int)
    BY DEF CodesInv
  <2>4. e \in Items({Secret}, Int)
    BY <2>3, HeldFacts
  <2>5. e.key = Secret
    BY <2>4 DEF Items
  <2>6. Secret \in KeysOf(used)
    BY <2>3, <2>5, HeldFacts
  <2>7. e = EntryOf(used, Secret)
    BY <2>3, <2>5, <2>6, PlaceFacts
  <2>8. QED BY <2>2, <2>6, <2>7, SecondStore DEF Second!Accept, Second!Again, Second!Value, Secret
<1>4. QED BY <1>1, <1>2, <1>3, PTL DEF MCSpec, CodeNotRepeated, Second!CodeNotRepeated

-----------------------------------------------------------------------------
(***************************************************************************)
(* Gateway                                                                 *)
(***************************************************************************)

LEMMA GateLimits ==
    /\ MaxAge \in Nat /\ MaxFuture \in Nat /\ TokenLife \in Nat /\ MaxProofs \in Nat /\ MaxTokens \in Nat
    /\ Gate!NoClient \notin Clients
  BY EntryAssumption DEF Gate!GatewayAssumption

\* The operations of the instance are those of TempStore.
LEMMA GateStore ==
    /\ \A s : Gate!KeysOf(s) = KeysOf(s)
    /\ \A s, key : Gate!Value(s, key) = Value(s, key) /\ Gate!EntryOf(s, key) = EntryOf(s, key)
    /\ \A s, key, due : Gate!Postponed(s, key, due) = Postponed(s, key, due)
    /\ \A s, key, value, due, size :
         Gate!Put(s, key, value, due, size) = Put(s, key, value, due, size)
    /\ \A s, t : Gate!Fired(s, t) = Fired(s, t)
    /\ \A s, t : Gate!Due(s, t) = Due(s, t)
    /\ \A s, key, size : Gate!Full(s, key, size) = Full(s, key, size)
    /\ \A s, key : Gate!Without(s, key) = Without(s, key)
    /\ Gate!Empty = Empty
<1>1. \A s : Gate!KeysOf(s) = KeysOf(s)
  BY DEF Gate!KeysOf, KeysOf
<1>2. \A s, key : Gate!Place(s, key) = Place(s, key)
  BY DEF Gate!Place, Place
<1>3. \A s, key : Gate!EntryOf(s, key) = EntryOf(s, key)
  BY <1>2 DEF Gate!EntryOf, EntryOf
<1>4. ASSUME NEW s, NEW key PROVE Gate!Without(s, key) = Without(s, key)
  <2>1. Gate!KeysOf(s) = KeysOf(s) /\ Gate!Place(s, key) = Place(s, key)
        /\ Gate!EntryOf(s, key) = EntryOf(s, key)
    BY <1>1, <1>2, <1>3
  <2>2. QED BY <2>1 DEF Gate!Without, Without, Gate!RemoveAt, RemoveAt
<1>0. \A s, key, size : Gate!Full(s, key, size) = Full(s, key, size)
  BY <1>1 DEF Gate!Full, Full
<1>5. \A s, key : Gate!Value(s, key) = Value(s, key)
  BY <1>3 DEF Gate!Value, Value
<1>6. ASSUME NEW s, NEW key, NEW due PROVE Gate!Postponed(s, key, due) = Postponed(s, key, due)
  <2>1. Gate!KeysOf(s) = KeysOf(s) /\ Gate!EntryOf(s, key) = EntryOf(s, key)
    BY <1>1, <1>3
  <2>2. QED BY <2>1 DEF Gate!Postponed, Postponed
<1>7. ASSUME NEW s, NEW key, NEW value, NEW due, NEW size
      PROVE  Gate!Put(s, key, value, due, size) = Put(s, key, value, due, size)
  <2>1. PICK t : t = IF Full(s, key, size) THEN Without(s, Head(s.entry).key) ELSE s
    OBVIOUS
  <2>2. t = IF Gate!Full(s, key, size) THEN Gate!Without(s, Head(s.entry).key) ELSE s
    BY <2>1, <1>0, <1>4
  <2>3. Gate!KeysOf(t) = KeysOf(t) /\ Gate!Timer(key, value, due) = Timer(key, value, due)
    BY <1>1 DEF Gate!Timer, Timer
  <2>4. QED BY <2>1, <2>2, <2>3 DEF Gate!Put, Put
<1>8. \A s, t : Gate!Fired(s, t) = Fired(s, t)
  BY <1>4 DEF Gate!Fired, Fired
<1>9. \A s, t : Gate!Due(s, t) = Due(s, t)
  BY DEF Gate!Due, Due
<1>10. QED BY <1>0, <1>1, <1>3, <1>4, <1>5, <1>6, <1>7, <1>8, <1>9 DEF Gate!Empty, Empty

\* A proof that was accepted, is not dropped and is not dated furthest ahead, is
\* remembered until it is stale: the timers of its key do not fire before.
JtiInv ==
    /\ now \in Nat /\ proofs \in [Proofs -> Int]
    /\ accepted \in [times : [Proofs -> 0 .. 2], spared : SUBSET Proofs]
    /\ Sound(jti, Proofs, {Gate!NoClient})
    /\ \A t \in jti.timer :
         /\ proofs[t.key] # Gate!Unsigned
         /\ t.key \in accepted.spared \/ t.due >= 2 * (proofs[t.key] + 1 + MaxAge)
    /\ \A p \in Proofs \ accepted.spared :
         /\ accepted.times[p] <= 1
         /\ accepted.times[p] = 1 =>
              /\ proofs[p] # Gate!Unsigned
              /\ p \in KeysOf(jti) \/ proofs[p] + MaxAge < Gate!Unit(now)

\* Accepting a proof keeps the invariant.
LEMMA JtiVerified ==
    ASSUME JtiInv, NEW p \in Proofs, Gate!Verified(p), UNCHANGED <<now, proofs>>
    PROVE  JtiInv'
<1> PICK s : s = jti
  OBVIOUS
<1> PICK u : u = jti'
  OBVIOUS
<1> PICK n \in Nat : n = now
  BY DEF JtiInv
<1> PICK date \in Int : date = proofs[p]
  BY DEF JtiInv
<1> PICK due \in Int : due = n + 2 * (MaxAge + MaxFuture)
  BY GateLimits
<1> PICK V : V = {Gate!NoClient}
  OBVIOUS
<1> PICK size \in Nat : size = MaxProofs
  BY GateLimits
<1> PICK e : e = [key |-> p, value |-> Gate!NoClient, timer |-> Timer(p, Gate!NoClient, due)]
  OBVIOUS
<1>1. /\ Sound(s, Proofs, V) /\ Gate!NoClient \in V
      /\ p \notin KeysOf(s)
  BY GateStore DEF JtiInv, Gate!Verified
<1>2. u = Put(s, p, Gate!NoClient, due, size)
  BY GateStore DEF Gate!Verified, Gate!Remembered, Gate!Ticks
<1>3. /\ Sound(u, Proofs, V) /\ e \in Held(u) /\ u.timer \subseteq s.timer \cup {e.timer}
      /\ \A f \in Held(s) : f \in Held(u) \/ f.key = p \/ (Full(s, p, size) /\ f.key = Head(s.entry).key)
  <2>1. PICK value \in V : value = Gate!NoClient
    BY <1>1
  <2>2. e = [key |-> p, value |-> value, timer |-> Timer(p, value, due)]
    BY <2>1
  <2>3. /\ Sound(Put(s, p, value, due, size), Proofs, V)
        /\ e \in Held(Put(s, p, value, due, size))
        /\ Put(s, p, value, due, size).timer \subseteq s.timer \cup {e.timer}
        /\ \A f \in Held(s) : \/ f \in Held(Put(s, p, value, due, size)) \/ f.key = p
                              \/ Full(s, p, size) /\ f.key = Head(s.entry).key
    BY <1>1, <2>1, <2>2, PutFacts
  <2>4. QED BY <1>2, <2>1, <2>3
<1>4. Full(s, p, size) => Head(s.entry).key \in Proofs
  <2>1. SUFFICES ASSUME Full(s, p, size) PROVE Head(s.entry).key \in Proofs
    OBVIOUS
  <2>2. s.entry \in Seq(Items(Proofs, V)) /\ Len(s.entry) >= size /\ size # 0
    BY <1>1, <2>1, HeldFacts DEF Full
  <2>3. s.entry # << >>
    BY <2>2, EmptySeq
  <2>4. Head(s.entry) \in Items(Proofs, V)
    BY <2>2, <2>3, HeadTailProperties
  <2>5. QED BY <2>4 DEF Items
<1> DEFINE extra == (IF date = Gate!Unit(n) + MaxFuture THEN {p} ELSE {})
                    \cup (IF Full(s, p, size) THEN {Head(s.entry).key} ELSE {})
<1>5. accepted' = [accepted EXCEPT !.times[p] = IF @ = 0 THEN 1 ELSE 2,
                                   !.spared = @ \cup (IF date = Gate!Unit(n) + MaxFuture THEN {p} ELSE {})
                                                \cup (IF Full(s, p, size) THEN {Head(s.entry).key} ELSE {})]
  BY GateStore DEF Gate!Verified
<1>6. extra \subseteq Proofs
  BY <1>4
<1>7. accepted.times \in [Proofs -> 0 .. 2] /\ accepted.spared \subseteq Proofs
      /\ accepted = [times |-> accepted.times, spared |-> accepted.spared]
  BY DEF JtiInv
<1>8. PICK times \in [Proofs -> 0 .. 2] :
        times = [accepted.times EXCEPT ![p] = IF @ = 0 THEN 1 ELSE 2]
  <2>1. PICK one \in 0 .. 2 : one = IF accepted.times[p] = 0 THEN 1 ELSE 2
    OBVIOUS
  <2>2. [accepted.times EXCEPT ![p] = one] \in [Proofs -> 0 .. 2]
    BY <1>7
  <2>3. [accepted.times EXCEPT ![p] = one] = [accepted.times EXCEPT ![p] = IF @ = 0 THEN 1 ELSE 2]
    BY <2>1
  <2>4. QED BY <2>2, <2>3
<1>9. accepted' = [times |-> times, spared |-> accepted.spared \cup extra]
  BY <1>5, <1>7, <1>8
<1>10. (date = Gate!Unit(n) + MaxFuture => p \in extra)
       /\ (Full(s, p, size) => Head(s.entry).key \in extra)
  OBVIOUS
<1> HIDE DEF extra
<1>11. /\ accepted'.times = times /\ accepted'.spared = accepted.spared \cup extra
       /\ accepted' \in [times : [Proofs -> 0 .. 2], spared : SUBSET Proofs]
  BY <1>6, <1>7, <1>9
<1>12. date # Gate!Unsigned /\ date >= Gate!Unit(n) - MaxAge /\ date <= Gate!Unit(n) + MaxFuture
  BY DEF Gate!Verified, Gate!Fresh
<1>13. ASSUME NEW t \in u.timer
       PROVE  /\ proofs[t.key] # Gate!Unsigned
              /\ t.key \in accepted'.spared \/ t.due >= 2 * (proofs[t.key] + 1 + MaxAge)
  <2>1. CASE t \in s.timer
    BY <2>1, <1>11 DEF JtiInv
  <2>2. CASE t = e.timer
    <3>1. t.key = p /\ t.due = due
      BY <2>2 DEF Timer
    <3>2. CASE date = Gate!Unit(n) + MaxFuture
      BY <3>1, <3>2, <1>10, <1>11, <1>12
    <3>3. CASE date # Gate!Unit(n) + MaxFuture
      <4>1. PICK unit \in Nat : unit = Gate!Unit(n) /\ 2 * unit <= n
        BY DEF Gate!Unit
      <4>2. date + 1 <= unit + MaxFuture
        BY <3>3, <4>1, <1>12, GateLimits
      <4>3. 2 * (date + 1 + MaxAge) <= 2 * unit + 2 * (MaxAge + MaxFuture)
        BY <4>1, <4>2, GateLimits
      <4>4. due >= 2 * (date + 1 + MaxAge)
        BY <4>1, <4>3, GateLimits
      <4>5. QED BY <3>1, <4>4, <1>12
    <3>4. QED BY <3>2, <3>3
  <2>3. QED BY <1>3, <2>1, <2>2
<1>14. ASSUME NEW q \in Proofs \ accepted'.spared
       PROVE  /\ times[q] <= 1
              /\ times[q] = 1 =>
                   /\ proofs[q] # Gate!Unsigned
                   /\ q \in KeysOf(u) \/ proofs[q] + MaxAge < Gate!Unit(n)
  <2>1. q \in Proofs \ accepted.spared /\ q \notin extra
    BY <1>11
  <2>2. CASE q = p
    <3>1. ~(date + MaxAge < Gate!Unit(n))
      BY <1>12, GateLimits DEF Gate!Unit
    <3>2. accepted.times[p] = 0
      BY <2>1, <2>2, <3>1, <1>1, <1>7 DEF JtiInv
    <3>3. times[p] = 1
      BY <3>2, <1>7, <1>8
    <3>4. p \in KeysOf(u)
      BY <1>3, HeldFacts
    <3>5. QED BY <2>2, <3>3, <3>4, <1>12
  <2>3. CASE q # p
    <3>1. times[q] = accepted.times[q]
      BY <2>3, <1>7, <1>8
    <3>2. q \in KeysOf(s) => q \in KeysOf(u)
      <4>1. SUFFICES ASSUME q \in KeysOf(s) PROVE q \in KeysOf(u)
        OBVIOUS
      <4>2. PICK f \in Held(s) : f.key = q
        BY <4>1, <1>1, HeldFacts
      <4>3. f \in Held(u)
        BY <4>2, <2>1, <2>3, <1>3, <1>10
      <4>4. QED BY <4>2, <4>3, <1>3, HeldFacts
    <3>3. QED BY <2>1, <3>1, <3>2 DEF JtiInv
  <2>4. QED BY <2>2, <2>3
<1>15. KeysOf(u) = KeysOf(jti)' /\ Sound(jti, Proofs, {Gate!NoClient})'
  BY <1>3 DEF KeysOf
<1>16. Gate!Unit(now)' = Gate!Unit(n)
  BY DEF Gate!Unit
<1>17. QED BY <1>11, <1>13, <1>14, <1>15, <1>16 DEF JtiInv, Gate!Unsigned

LEMMA JtiFire ==
    ASSUME JtiInv, NEW t \in Due(jti, now), jti' = Fired(jti, t), UNCHANGED <<now, proofs, accepted>>
    PROVE  JtiInv'
<1> PICK s : s = jti
  OBVIOUS
<1> PICK u : u = jti'
  OBVIOUS
<1> PICK V : V = {Gate!NoClient}
  OBVIOUS
<1>1. Sound(s, Proofs, V) /\ t \in s.timer /\ t.due <= now
  BY DEF JtiInv, Due
<1>2. /\ Sound(u, Proofs, V) /\ Held(u) = {e \in Held(s) : e.key # t.key}
      /\ u.timer \subseteq s.timer \ {t}
  BY <1>1, FiredFacts
<1>3. ASSUME NEW q \in Proofs \ accepted.spared, q \in KeysOf(s)
      PROVE  q \in KeysOf(u) \/ proofs[q] + MaxAge < Gate!Unit(now)
  <2>1. PICK f \in Held(s) : f.key = q
    BY <1>1, <1>3, HeldFacts
  <2>2. CASE q # t.key
    <3>1. f \in Held(u)
      BY <1>2, <2>1, <2>2
    <3>2. QED BY <1>2, <2>1, <3>1, HeldFacts
  <2>3. CASE q = t.key
    <3>1. t.due >= 2 * (proofs[q] + 1 + MaxAge)
      BY <1>1, <2>3 DEF JtiInv
    <3>2. t.due \in Int
      BY <1>1, HeldFacts DEF Clocks
    <3>3. QED BY <1>1, <3>1, <3>2, GateLimits DEF JtiInv, Gate!Unit
  <2>4. QED BY <2>2, <2>3
<1>4. \A q \in Proofs \ accepted.spared :
         /\ accepted.times[q] <= 1
         /\ accepted.times[q] = 1 =>
              /\ proofs[q] # Gate!Unsigned
              /\ q \in KeysOf(u) \/ proofs[q] + MaxAge < Gate!Unit(now)
  BY <1>3 DEF JtiInv
<1>5. \A c \in u.timer : c \in jti.timer
  BY <1>2
<1>6. KeysOf(u) = KeysOf(jti)' /\ Sound(jti, Proofs, {Gate!NoClient})'
  BY <1>2 DEF KeysOf
<1>7. Gate!Unit(now)' = Gate!Unit(now)
  BY DEF Gate!Unit
<1>8. QED BY <1>4, <1>5, <1>6, <1>7 DEF JtiInv, Gate!Unsigned

\* Dividing by two keeps the order.
LEMMA Halves ==
    ASSUME NEW a \in Nat, NEW b \in Nat, b >= a
    PROVE  b \div 2 >= a \div 2 /\ b \div 2 \in Nat /\ a \div 2 \in Nat
  OBVIOUS

\* Signing a proof and the passing of time keep the invariant.
LEMMA JtiSameStore ==
    ASSUME JtiInv, UNCHANGED <<jti, accepted>>, now' \in Nat, now' >= now,
           proofs' \in [Proofs -> Int],
           \A p \in Proofs : proofs[p] # Gate!Unsigned => proofs'[p] = proofs[p]
    PROVE  JtiInv'
<1> PICK u : u = jti'
  OBVIOUS
<1> PICK signed \in [Proofs -> Int] : signed = proofs'
  OBVIOUS
<1> PICK later \in Nat : later = now'
  OBVIOUS
<1>1. /\ Sound(u, Proofs, {Gate!NoClient}) /\ KeysOf(u) = KeysOf(jti)
      /\ u.timer = jti.timer
  BY DEF JtiInv
<1>2. Gate!Unit(later) >= Gate!Unit(now) /\ Gate!Unit(later) \in Nat /\ Gate!Unit(now) \in Nat
  <2>1. PICK n \in Nat : n = now /\ later >= n
    BY DEF JtiInv
  <2>2. later \div 2 >= n \div 2 /\ later \div 2 \in Nat /\ n \div 2 \in Nat
    BY <2>1, Halves
  <2>3. QED BY <2>1, <2>2 DEF Gate!Unit
<1>3. ASSUME NEW t \in u.timer
      PROVE  /\ signed[t.key] # Gate!Unsigned
             /\ t.key \in accepted.spared \/ t.due >= 2 * (signed[t.key] + 1 + MaxAge)
  <2>1. t.key \in Proofs
    BY <1>1, HeldFacts DEF Clocks
  <2>2. signed[t.key] = proofs[t.key]
    BY <1>1, <2>1 DEF JtiInv
  <2>3. QED BY <1>1, <2>2 DEF JtiInv
<1>4. ASSUME NEW p \in Proofs \ accepted.spared
      PROVE  /\ accepted.times[p] <= 1
             /\ accepted.times[p] = 1 =>
                  /\ signed[p] # Gate!Unsigned
                  /\ p \in KeysOf(u) \/ signed[p] + MaxAge < Gate!Unit(later)
  <2>1. CASE accepted.times[p] = 1
    <3>1. proofs[p] # Gate!Unsigned /\ signed[p] = proofs[p] /\ proofs[p] \in Int
      BY <2>1 DEF JtiInv
    <3>2. p \in KeysOf(jti) \/ proofs[p] + MaxAge < Gate!Unit(now)
      BY <2>1 DEF JtiInv
    <3>3. p \in KeysOf(u) \/ signed[p] + MaxAge < Gate!Unit(later)
      BY <1>1, <1>2, <3>1, <3>2, GateLimits
    <3>4. QED BY <2>1, <3>1, <3>3
  <2>2. CASE accepted.times[p] # 1
    BY <2>2 DEF JtiInv
  <2>3. QED BY <2>1, <2>2
<1>5. KeysOf(u) = KeysOf(jti)' /\ Sound(jti, Proofs, {Gate!NoClient})'
  BY <1>1 DEF KeysOf
<1>6. Gate!Unit(now)' = Gate!Unit(later)
  BY DEF Gate!Unit
<1>7. QED BY <1>3, <1>4, <1>5, <1>6 DEF JtiInv, Gate!Unsigned

LEMMA JtiBegin ==
    ASSUME Gate!Init
    PROVE  JtiInv
<1>1. /\ now = 0 /\ jti = Empty /\ proofs = [p \in Proofs |-> Gate!Unsigned]
      /\ accepted = [times |-> [p \in Proofs |-> 0], spared |-> {}]
  BY GateStore DEF Gate!Init
<1>2. Sound(jti, Proofs, {Gate!NoClient}) /\ jti.timer = {}
  BY <1>1, EmptyFacts DEF Empty
<1>3. Gate!Unsigned \in Int
  BY DEF Gate!Unsigned
<1>4. accepted \in [times : [Proofs -> 0 .. 2], spared : SUBSET Proofs]
      /\ \A p \in Proofs : accepted.times[p] = 0
  BY <1>1
<1>5. proofs \in [Proofs -> Int]
  BY <1>1, <1>3
<1>6. QED BY <1>1, <1>2, <1>4, <1>5 DEF JtiInv

LEMMA JtiStep ==
    ASSUME JtiInv, [MCNext]_allVars
    PROVE  JtiInv'
<1>1. ASSUME NEW p \in Proofs, Gate!Sign(p) PROVE JtiInv'
  <2>1. PICK date \in 0 .. Gate!Unit(now) + MaxFuture : proofs' = [proofs EXCEPT ![p] = date]
    BY <1>1 DEF Gate!Sign
  <2>2. proofs[p] = Gate!Unsigned /\ UNCHANGED <<jti, accepted, now>>
    BY <1>1 DEF Gate!Sign
  <2>3. date \in Int
    BY <2>1
  <2>4. /\ proofs' \in [Proofs -> Int]
        /\ \A q \in Proofs : proofs[q] # Gate!Unsigned => proofs'[q] = proofs[q]
    BY <2>1, <2>2, <2>3 DEF JtiInv
  <2>5. now' \in Nat /\ now' >= now
    BY <2>2 DEF JtiInv
  <2>6. QED BY <2>2, <2>4, <2>5, JtiSameStore
<1>2. ASSUME NEW p \in Proofs, NEW c \in Clients, Gate!Login(c, p) PROVE JtiInv'
  BY <1>2, JtiVerified DEF Gate!Login
<1>3. ASSUME UNCHANGED <<now, proofs, jti, accepted>> PROVE JtiInv'
  <2>1. /\ now' \in Nat /\ now' >= now /\ proofs' \in [Proofs -> Int]
        /\ \A q \in Proofs : proofs'[q] = proofs[q]
    BY <1>3 DEF JtiInv
  <2>2. QED BY <1>3, <2>1, JtiSameStore
<1>4. ASSUME NEW p \in Proofs, NEW c \in Clients, Gate!Mint(c, p) PROVE JtiInv'
  <2>1. CASE Gate!Verified(p)
    BY <1>4, <2>1, JtiVerified DEF Gate!Mint
  <2>2. CASE UNCHANGED <<jti, proved, accepted>>
    BY <1>3, <1>4, <2>2 DEF Gate!Mint
  <2>3. QED BY <1>4, <2>1, <2>2 DEF Gate!Mint
<1>5. CASE Gate!Fire
  <2>1. CASE \E t \in Gate!Due(jti, now) : jti' = Gate!Fired(jti, t) /\ UNCHANGED <<gwtokens>>
    BY <1>5, <2>1, GateStore, JtiFire DEF Gate!Fire
  <2>2. CASE UNCHANGED jti
    BY <1>3, <1>5, <2>2 DEF Gate!Fire
  <2>3. QED BY <1>5, <2>1, <2>2 DEF Gate!Fire
<1>6. CASE Gate!Tick
  <2>1. now' = now + 1 /\ UNCHANGED <<jti, proofs, accepted>>
    BY <1>6 DEF Gate!Tick
  <2>2. /\ now' \in Nat /\ now' >= now /\ proofs' \in [Proofs -> Int]
        /\ \A q \in Proofs : proofs'[q] = proofs[q]
    BY <2>1 DEF JtiInv
  <2>3. QED BY <2>1, <2>2, JtiSameStore
<1>7. ASSUME NEW c \in Clients, Gate!Close(c) PROVE JtiInv'
  BY <1>3, <1>7 DEF Gate!Close
<1>8. ASSUME NEW t \in 1 .. Mints, Gate!Exchange(t) \/ Gate!Redeem(t) PROVE JtiInv'
  BY <1>3, <1>8 DEF Gate!Exchange, Gate!Redeem
<1>9. CASE UNCHANGED gate
  BY <1>3, <1>9 DEF gate
<1>10. CASE Gate!Next
  BY <1>1, <1>2, <1>4, <1>5, <1>6, <1>7, <1>8, <1>10 DEF Gate!Next
<1>11. QED BY <1>9, <1>10 DEF MCNext, allVars

\* A token's timer is set when the token is made, and no timer is overdue: what stands
\* for a session was made within a token's life of the proof that the client showed.
TokenInv ==
    /\ now \in Nat /\ minted \in Nat
    /\ proved \in [Clients -> Nat] /\ \A c \in Clients : proved[c] <= now
    /\ Sound(gwtokens, Nat, Clients \cup {Gate!NoClient})
    /\ \A t \in gwtokens.timer : now <= t.due
    /\ \A e \in Held(gwtokens) :
         e.value \in Clients => e.timer.due <= proved[e.value] + 2 * TokenLife

\* A new token that stands for nothing, or for the session of a client that has just
\* shown its proof, keeps what holds of the tokens there are.
LEMMA TokenPut ==
    ASSUME NEW s, Sound(s, Nat, Clients \cup {Gate!NoClient}),
           NEW n \in Nat, NEW shown \in [Clients -> Nat], NEW key \in Nat,
           NEW value \in Clients \cup {Gate!NoClient}, value \in Clients => shown[value] = n,
           \A t \in s.timer : n <= t.due,
           \A e \in Held(s) : e.value \in Clients => e.timer.due <= shown[e.value] + 2 * TokenLife,
           NEW u, u = Put(s, key, value, n + 2 * TokenLife, MaxTokens)
    PROVE  /\ Sound(u, Nat, Clients \cup {Gate!NoClient})
           /\ \A t \in u.timer : n <= t.due
           /\ \A e \in Held(u) : e.value \in Clients => e.timer.due <= shown[e.value] + 2 * TokenLife
<1> PICK due \in Int : due = n + 2 * TokenLife
  BY GateLimits
<1> PICK V : V = Clients \cup {Gate!NoClient}
  OBVIOUS
<1> PICK size \in Nat : size = MaxTokens
  BY GateLimits
<1> PICK e : e = [key |-> key, value |-> value, timer |-> Timer(key, value, due)]
  OBVIOUS
<1>1. Sound(s, Nat, V) /\ value \in V /\ u = Put(s, key, value, due, size)
  OBVIOUS
<1>2. /\ Sound(u, Nat, V) /\ u.timer \subseteq s.timer \cup {e.timer}
      /\ \A f \in Held(u) : f = e \/ f \in Held(s)
  BY <1>1, PutFacts
<1>3. e.timer.due = due /\ e.value = value
  BY DEF Timer
<1>4. due >= n
  BY GateLimits
<1>5. \A t \in u.timer : n <= t.due
  BY <1>2, <1>3, <1>4
<1>6. ASSUME NEW f \in Held(u), f.value \in Clients
      PROVE  f.timer.due <= shown[f.value] + 2 * TokenLife
  <2>1. CASE f = e
    BY <1>3, <1>6, <2>1, GateLimits
  <2>2. CASE f \in Held(s)
    BY <1>6, <2>2
  <2>3. QED BY <1>2, <2>1, <2>2
<1>7. QED BY <1>2, <1>5, <1>6

\* What is taken out of the store leaves the rest as it was.
LEMMA TokenLess ==
    ASSUME TokenInv, NEW u, Sound(u, Nat, Clients \cup {Gate!NoClient}),
           Held(u) \subseteq Held(gwtokens), u.timer \subseteq gwtokens.timer,
           u = gwtokens', UNCHANGED <<now, minted, proved>>
    PROVE  TokenInv'
<1>1. Held(u) = Held(gwtokens)' /\ Sound(gwtokens, Nat, Clients \cup {Gate!NoClient})'
  BY DEF Held
<1>2. \A t \in u.timer : now <= t.due
  BY DEF TokenInv
<1>3. \A e \in Held(u) : e.value \in Clients => e.timer.due <= proved[e.value] + 2 * TokenLife
  BY DEF TokenInv
<1>4. QED BY <1>1, <1>2, <1>3 DEF TokenInv

LEMMA TokenSame ==
    ASSUME TokenInv, UNCHANGED <<gwtokens, minted>>, now' \in Nat, now' >= now,
           \A t \in gwtokens.timer : now' <= t.due,
           proved' \in [Clients -> Nat],
           \A c \in Clients : proved[c] <= proved'[c] /\ proved'[c] <= now'
    PROVE  TokenInv'
<1> PICK u : u = gwtokens'
  OBVIOUS
<1> PICK shown \in [Clients -> Nat] : shown = proved'
  OBVIOUS
<1>1. Sound(u, Nat, Clients \cup {Gate!NoClient}) /\ Held(u) = Held(gwtokens)
  BY DEF TokenInv
<1>2. Held(u) = Held(gwtokens)' /\ Sound(gwtokens, Nat, Clients \cup {Gate!NoClient})'
  BY <1>1 DEF Held
<1>3. ASSUME NEW e \in Held(u), e.value \in Clients
      PROVE  e.timer.due <= shown[e.value] + 2 * TokenLife
  <2>1. e.timer.due <= proved[e.value] + 2 * TokenLife
    BY <1>1, <1>3 DEF TokenInv
  <2>2. e \in Items(Nat, Clients \cup {Gate!NoClient})
    BY <1>1, HeldFacts
  <2>3. e.timer.due \in Int /\ proved[e.value] \in Nat /\ shown[e.value] \in Nat
    BY <1>3, <2>2 DEF TokenInv, Items, Clocks
  <2>4. QED BY <1>3, <2>1, <2>3, GateLimits
<1>4. QED BY <1>2, <1>3 DEF TokenInv

LEMMA TokenBegin ==
    ASSUME Gate!Init
    PROVE  TokenInv
<1>1. now = 0 /\ gwtokens = Empty /\ minted = 0 /\ proved = [c \in Clients |-> 0]
  BY GateStore DEF Gate!Init
<1>2. Sound(gwtokens, Nat, Clients \cup {Gate!NoClient}) /\ gwtokens.timer = {} /\ Held(gwtokens) = {}
  BY <1>1, EmptyFacts DEF Empty
<1>3. QED BY <1>1, <1>2 DEF TokenInv

LEMMA TokenMint ==
    ASSUME TokenInv, NEW c \in Clients, NEW p \in Proofs, Gate!Mint(c, p)
    PROVE  TokenInv'
<1> PICK s : s = gwtokens
  OBVIOUS
<1> PICK u : u = gwtokens'
  OBVIOUS
<1> PICK n \in Nat : n = now
  BY DEF TokenInv
<1> PICK key \in Nat : key = minted + 1
  BY DEF TokenInv
<1> PICK V : V = Clients \cup {Gate!NoClient}
  OBVIOUS
<1>1. /\ Sound(s, Nat, V)
      /\ \A t \in s.timer : n <= t.due
      /\ \A e \in Held(s) : e.value \in Clients => e.timer.due <= proved[e.value] + 2 * TokenLife
  BY DEF TokenInv
<1>2. now' = n /\ minted' = key
  BY DEF Gate!Mint
<1>3. \E shown \in [Clients -> Nat] :
        /\ shown = proved' /\ \A d \in Clients : proved[d] <= shown[d] /\ shown[d] <= n
        /\ Sound(u, Nat, V)
        /\ \A t \in u.timer : n <= t.due
        /\ \A e \in Held(u) : e.value \in Clients => e.timer.due <= shown[e.value] + 2 * TokenLife
  <2>1. CASE /\ gwtokens' = Gate!Put(gwtokens, minted + 1, c, now + Gate!Ticks(TokenLife), MaxTokens)
             /\ proved' = [proved EXCEPT ![c] = now]
    <3>1. PICK shown \in [Clients -> Nat] : shown = proved'
      BY <2>1 DEF TokenInv
    <3>2. \A d \in Clients : proved[d] <= shown[d] /\ shown[d] <= n
      BY <2>1, <3>1 DEF TokenInv
    <3>3. shown[c] = n
      BY <2>1, <3>1 DEF TokenInv
    <3>4. u = Put(s, key, c, n + 2 * TokenLife, MaxTokens)
      BY <2>1, GateStore DEF Gate!Ticks
    <3>5. ASSUME NEW e \in Held(s), e.value \in Clients
          PROVE  e.timer.due <= shown[e.value] + 2 * TokenLife
      <4>1. e.timer.due <= proved[e.value] + 2 * TokenLife
        BY <1>1, <3>5
      <4>2. e \in Items(Nat, V)
        BY <1>1, HeldFacts
      <4>3. e.timer.due \in Int /\ proved[e.value] \in Nat /\ shown[e.value] \in Nat
        BY <3>5, <4>2 DEF TokenInv, Items, Clocks
      <4>4. QED BY <3>2, <3>5, <4>1, <4>3, GateLimits
    <3>6. PICK value \in Clients : value = c
      OBVIOUS
    <3>7. /\ Sound(u, Nat, V)
          /\ \A t \in u.timer : n <= t.due
          /\ \A e \in Held(u) : e.value \in Clients => e.timer.due <= shown[e.value] + 2 * TokenLife
      BY <1>1, <3>3, <3>4, <3>5, TokenPut
    <3>8. QED BY <3>1, <3>2, <3>7
  <2>2. CASE /\ gwtokens' = Gate!Put(gwtokens, minted + 1, Gate!NoClient,
                                     now + Gate!Ticks(TokenLife), MaxTokens)
             /\ proved' = proved
    <3>1. PICK shown \in [Clients -> Nat] : shown = proved'
      BY <2>2 DEF TokenInv
    <3>2. \A d \in Clients : proved[d] <= shown[d] /\ shown[d] <= n
      BY <2>2, <3>1 DEF TokenInv
    <3>3. PICK value \in V : value = Gate!NoClient
      OBVIOUS
    <3>4. value \notin Clients
      BY <3>3, GateLimits
    <3>5. u = Put(s, key, value, n + 2 * TokenLife, MaxTokens)
      BY <2>2, <3>3, GateStore DEF Gate!Ticks
    <3>6. \A e \in Held(s) : e.value \in Clients => e.timer.due <= shown[e.value] + 2 * TokenLife
      BY <1>1, <2>2, <3>1
    <3>7. /\ Sound(u, Nat, V)
          /\ \A t \in u.timer : n <= t.due
          /\ \A e \in Held(u) : e.value \in Clients => e.timer.due <= shown[e.value] + 2 * TokenLife
      BY <1>1, <3>4, <3>5, <3>6, TokenPut
    <3>8. QED BY <3>1, <3>2, <3>7
  <2>3. QED BY <2>1, <2>2 DEF Gate!Mint
<1>4. Held(u) = Held(gwtokens)'
  BY DEF Held
<1>5. QED BY <1>2, <1>3, <1>4 DEF TokenInv

LEMMA TokenExchange ==
    ASSUME TokenInv, NEW k \in 1 .. Mints, Gate!Exchange(k)
    PROVE  TokenInv'
<1> PICK s : s = Without(gwtokens, k)
  OBVIOUS
<1> PICK u : u = gwtokens'
  OBVIOUS
<1> PICK n \in Nat : n = now
  BY DEF TokenInv
<1> PICK key \in Nat : key = minted + 1
  BY DEF TokenInv
<1> PICK V : V = Clients \cup {Gate!NoClient}
  OBVIOUS
<1> PICK value \in V : value = Gate!NoClient
  OBVIOUS
<1>1. now' = n /\ minted' = key /\ proved' = proved
  BY DEF Gate!Exchange
<1>2. u = Put(s, key, value, n + 2 * TokenLife, MaxTokens)
  BY GateStore DEF Gate!Exchange, Gate!Exchanged, Gate!Ticks
<1>3. Sound(gwtokens, Nat, V)
  BY DEF TokenInv
<1>4. Sound(s, Nat, V) /\ Held(s) \subseteq Held(gwtokens) /\ s.timer \subseteq gwtokens.timer
  BY <1>3, WithoutFacts
<1>5. /\ \A t \in s.timer : n <= t.due
      /\ \A e \in Held(s) : e.value \in Clients => e.timer.due <= proved[e.value] + 2 * TokenLife
  BY <1>4 DEF TokenInv
<1>6. value \notin Clients
  BY GateLimits
<1>7. PICK shown \in [Clients -> Nat] : shown = proved
  BY DEF TokenInv
<1>8. /\ Sound(u, Nat, V)
      /\ \A t \in u.timer : n <= t.due
      /\ \A e \in Held(u) : e.value \in Clients => e.timer.due <= shown[e.value] + 2 * TokenLife
  BY <1>2, <1>4, <1>5, <1>6, <1>7, TokenPut
<1>9. Held(u) = Held(gwtokens)'
  BY DEF Held
<1>10. QED BY <1>1, <1>7, <1>8, <1>9 DEF TokenInv

LEMMA TokenStep ==
    ASSUME TokenInv, [MCNext]_allVars
    PROVE  TokenInv'
<1>1. ASSUME UNCHANGED <<now, gwtokens, minted, proved>> PROVE TokenInv'
  <2>1. /\ now' \in Nat /\ now' >= now /\ \A t \in gwtokens.timer : now' <= t.due
        /\ proved' \in [Clients -> Nat]
        /\ \A c \in Clients : proved[c] <= proved'[c] /\ proved'[c] <= now'
    BY <1>1 DEF TokenInv
  <2>2. QED BY <1>1, <2>1, TokenSame
<1>2. ASSUME NEW p \in Proofs, Gate!Sign(p) PROVE TokenInv'
  BY <1>1, <1>2 DEF Gate!Sign
<1>3. ASSUME NEW p \in Proofs, NEW c \in Clients, Gate!Login(c, p) PROVE TokenInv'
  <2>1. proved' = [proved EXCEPT ![c] = now] /\ UNCHANGED <<now, gwtokens, minted>>
    BY <1>3 DEF Gate!Login
  <2>2. /\ now' \in Nat /\ now' >= now /\ \A t \in gwtokens.timer : now' <= t.due
        /\ proved' \in [Clients -> Nat]
        /\ \A d \in Clients : proved[d] <= proved'[d] /\ proved'[d] <= now'
    BY <2>1 DEF TokenInv
  <2>3. QED BY <2>1, <2>2, TokenSame
<1>4. ASSUME NEW c \in Clients, Gate!Close(c) PROVE TokenInv'
  BY <1>1, <1>4 DEF Gate!Close
<1>5. ASSUME NEW t \in 1 .. Mints, Gate!Redeem(t) PROVE TokenInv'
  <2>1. PICK u : u = gwtokens'
    OBVIOUS
  <2>2. u = Without(gwtokens, t) /\ UNCHANGED <<now, minted, proved>>
    BY <1>5, <2>1, GateStore DEF Gate!Redeem
  <2>3. /\ Sound(u, Nat, Clients \cup {Gate!NoClient}) /\ u.timer \subseteq gwtokens.timer
        /\ Held(u) \subseteq Held(gwtokens)
    BY <2>2, WithoutFacts DEF TokenInv
  <2>4. QED BY <2>1, <2>2, <2>3, TokenLess
<1>6. CASE Gate!Fire
  <2>1. CASE gwtokens' = gwtokens
    BY <1>1, <1>6, <2>1 DEF Gate!Fire
  <2>2. ASSUME NEW t \in Gate!Due(gwtokens, now), gwtokens' = Gate!Fired(gwtokens, t) PROVE TokenInv'
    <3>1. PICK u : u = gwtokens'
      OBVIOUS
    <3>2. u = Fired(gwtokens, t) /\ t \in gwtokens.timer /\ UNCHANGED <<now, minted, proved>>
      BY <1>6, <2>2, <3>1, GateStore DEF Gate!Fire, Due
    <3>3. /\ Sound(u, Nat, Clients \cup {Gate!NoClient}) /\ u.timer \subseteq gwtokens.timer
          /\ Held(u) \subseteq Held(gwtokens)
      BY <3>2, FiredFacts DEF TokenInv
    <3>4. QED BY <3>1, <3>2, <3>3, TokenLess
  <2>3. QED BY <1>6, <2>1, <2>2 DEF Gate!Fire
<1>7. CASE Gate!Tick
  <2>1. now' = now + 1 /\ UNCHANGED <<gwtokens, minted, proved>> /\ Due(gwtokens, now) = {}
    BY <1>7, GateStore DEF Gate!Tick
  <2>2. Sound(gwtokens, Nat, Clients \cup {Gate!NoClient})
    BY DEF TokenInv
  <2>3. ASSUME NEW t \in gwtokens.timer PROVE now + 1 <= t.due
    <3>1. t.due \in Int
      BY <2>2, HeldFacts DEF Clocks
    <3>2. ~(t.due <= now)
      BY <2>1 DEF Due
    <3>3. QED BY <3>1, <3>2 DEF TokenInv
  <2>4. /\ now' \in Nat /\ now' >= now /\ \A t \in gwtokens.timer : now' <= t.due
        /\ proved' \in [Clients -> Nat]
        /\ \A c \in Clients : proved[c] <= proved'[c] /\ proved'[c] <= now'
    BY <2>1, <2>3 DEF TokenInv
  <2>5. QED BY <2>1, <2>4, TokenSame
<1>8. CASE UNCHANGED gate
  BY <1>1, <1>8 DEF gate
<1>9. CASE Gate!Next
  BY <1>2, <1>3, <1>4, <1>5, <1>6, <1>7, <1>9, TokenMint, TokenExchange DEF Gate!Next
<1>10. QED BY <1>8, <1>9 DEF MCNext, allVars

\* For any lives of proofs and tokens and any sizes of their stores: a proof is accepted
\* once, unless it was dropped to make room or dated furthest ahead, and what a token
\* stands for ends a token's life after its client showed a proof, whatever chain of
\* tokens it was exchanged through.
THEOREM ProofsAndTokens == MCSpec => ProofsHold
<1>1. MCInit => JtiInv /\ TokenInv
  BY JtiBegin, TokenBegin DEF MCInit
<1>2. JtiInv /\ TokenInv /\ [MCNext]_allVars => JtiInv' /\ TokenInv'
  BY JtiStep, TokenStep
<1>3. JtiInv => (part = "gate" => Gate!ProofOnce)
  BY DEF JtiInv, Gate!ProofOnce
<1>4. JtiInv /\ TokenInv /\ [MCNext]_allVars =>
        [\A t \in Gate!KeysOf(gwtokens) :
           Gate!Redeem(t) /\ Gate!StandsFor(t) # Gate!NoClient =>
             now <= proved[Gate!StandsFor(t)] + Gate!Ticks(TokenLife)]_(Gate!vars)
  <2> SUFFICES ASSUME TokenInv, NEW k \in Gate!KeysOf(gwtokens), Gate!StandsFor(k) # Gate!NoClient
                 PROVE  now <= proved[Gate!StandsFor(k)] + Gate!Ticks(TokenLife)
    BY Zenon
  <2> PICK s : s = gwtokens
    OBVIOUS
  <2> PICK V : V = Clients \cup {Gate!NoClient}
    OBVIOUS
  <2>1. Sound(s, Nat, V) /\ k \in KeysOf(s)
    BY GateStore DEF TokenInv
  <2>2. PICK e : e = EntryOf(s, k)
    OBVIOUS
  <2>3. e \in Held(s) /\ e \in Items(Nat, V) /\ e.timer \in s.timer
    BY <2>1, <2>2, PlaceFacts, HeldFacts
  <2>4. Gate!StandsFor(k) = e.value
    BY <2>2, GateStore DEF Gate!StandsFor, Value
  <2>5. e.value \in Clients
    BY <2>3, <2>4 DEF Items
  <2>6. now <= e.timer.due /\ e.timer.due <= proved[e.value] + 2 * TokenLife
    BY <2>3, <2>5 DEF TokenInv
  <2>7. e.timer.due \in Int /\ now \in Nat /\ proved[e.value] \in Nat
    BY <2>3, <2>5 DEF TokenInv, Items, Clocks
  <2>8. now <= proved[e.value] + 2 * TokenLife
    BY <2>6, <2>7, GateLimits
  <2>9. QED BY <2>4, <2>8 DEF Gate!Ticks
<1>5. QED BY <1>1, <1>2, <1>3, <1>4, PTL DEF MCSpec, ProofsHold, Gate!TokenEnds

-----------------------------------------------------------------------------
(***************************************************************************)
(* Tenants                                                                 *)
(***************************************************************************)

Row == Serving!Row
NameOrNone == Names \cup {Serving!NoName}
Copy == [sub : NameOrNone, host : NameOrNone, version : Nat, names : SUBSET Names]

\* What a request at work carries, by what it is at.
WorkTyped(b) ==
    /\ b.at \in {"answer", "got"} => b.tid \in Tids
    /\ b.at \in {"update", "activate", "wizard"} => b.tid \in Tids \ {Root}
    /\ b.at = "update" => b.name \in Names /\ b.active \in BOOLEAN
    /\ b.at = "signup" => b.name \in Names /\ b.gone \subseteq Tids \ {Root}

\* Every tenant was initialised at most once (done is 0 or 1), the tenants there are
\* are the first ones, and the root is there and has no link of activation.
TenantsInv ==
    /\ db \in [Tids -> Row] /\ ~db[Root].token
    /\ fresh \in Nat /\ Root <= fresh
    /\ \A t \in Tids : t > fresh => db[t] = Serving!NoTenant
    /\ DOMAIN writing = Workers /\ \A w \in Workers : WorkTyped(writing[w])
    /\ DOMAIN refresh = Threads
    /\ \A r \in Threads : refresh[r].at \in {"read", "map"} => refresh[r].tids \subseteq Tids
    /\ DOMAIN memory = {"tenant", "loaded", "names"} /\ memory.loaded \subseteq Tids
    /\ memory.tenant \in [Tids -> Copy] /\ DOMAIN memory.names = Names
    /\ DOMAIN answers = Tids

LEMMA Counted == \A S : Serving!Cardinality(S) = Cardinality(S) /\ Serving!IsFiniteSet(S) = IsFiniteSet(S)
  BY DEF Serving!Cardinality, Cardinality, Serving!IsFiniteSet, IsFiniteSet

LEMMA Conditions ==
    /\ Tids \subseteq Nat \ {0} /\ IsFiniteSet(Tids) /\ Root \in Tids
    /\ \A d \in Seeds :
         /\ d \in [Tids -> Row] /\ Serving!There(d, Root) /\ ~d[Root].token
         /\ \A t \in Tids : Serving!There(d, t) <=> t <= Cardinality({u \in Tids : Serving!There(d, u)})
  BY EntryAssumption, Counted DEF Serving!TenantsAssumption, Row

LEMMA NoTenantRow ==
    /\ Serving!NoTenant \in Row
    /\ Serving!NoTenant.version = 0 /\ ~Serving!NoTenant.active /\ ~Serving!NoTenant.token
    /\ Serving!NoTenant.done = 0
  BY DEF Serving!NoTenant, Row, Serving!Row, Serving!NoName

LEMMA CopyFacts ==
    /\ Serving!Unloaded \in Copy
    /\ \A row \in Row : [sub |-> row.sub, host |-> row.host, version |-> row.version,
                         names |-> Serving!NamesOf(row)] \in Copy
<1>1. Serving!Unloaded \in Copy
  BY DEF Serving!Unloaded, Copy, NameOrNone, Serving!NoName
<1>2. ASSUME NEW row \in Row
      PROVE  [sub |-> row.sub, host |-> row.host, version |-> row.version,
              names |-> Serving!NamesOf(row)] \in Copy
  <2>1. row.sub \in NameOrNone /\ row.host \in NameOrNone /\ row.version \in Nat
    BY DEF Row, Serving!Row, NameOrNone
  <2>2. Serving!NamesOf(row) \in SUBSET Names
    BY <2>1 DEF Serving!NamesOf, NameOrNone
  <2>3. QED BY <2>1, <2>2 DEF Copy
<1>3. QED BY <1>1, <1>2

LEMMA TenantsBegin ==
    ASSUME Serving!Init
    PROVE  TenantsInv
<1> PICK d \in Seeds : d = db
  BY DEF Serving!Init
<1>1. d \in [Tids -> Row] /\ ~d[Root].token /\ Serving!There(d, Root) /\ Tids \subseteq Nat /\ Root \in Tids
  BY Conditions
<1> PICK n : n = Cardinality({t \in Tids : Serving!There(d, t)})
  OBVIOUS
<1>2. \A t \in Tids : Serving!There(d, t) <=> t <= n
  BY Conditions
<1>3. fresh = n
  BY Counted DEF Serving!Init
<1>4. n \in Nat
  <2>1. IsFiniteSet(Tids) /\ {t \in Tids : Serving!There(d, t)} \subseteq Tids
    BY Conditions
  <2>2. IsFiniteSet({t \in Tids : Serving!There(d, t)})
    BY <2>1, FS_Subset
  <2>3. QED BY <2>2, FS_CardinalityType
<1>5. \A t \in Tids : t > fresh => db[t] = Serving!NoTenant
  BY <1>1, <1>2, <1>3, <1>4 DEF Serving!There
<1>6. Root <= fresh
  BY <1>1, <1>2, <1>3
<1>7. /\ DOMAIN writing = Workers /\ \A w \in Workers : WorkTyped(writing[w])
      /\ DOMAIN refresh = Threads
      /\ \A r \in Threads : refresh[r].at = "idle"
  BY DEF Serving!Init, Serving!Unoccupied, WorkTyped
<1>8. /\ DOMAIN memory = {"tenant", "loaded", "names"} /\ DOMAIN memory.names = Names
      /\ memory.loaded = Serving!Active(db)
      /\ memory.tenant = [t \in Tids |-> IF db[t].active
                    THEN [sub |-> db[t].sub, host |-> db[t].host, version |-> db[t].version,
                          names |-> Serving!NamesOf(db[t])]
                    ELSE Serving!Unloaded]
  BY DEF Serving!Init
<1>9. memory.tenant \in [Tids -> Copy]
  BY <1>1, <1>8, CopyFacts
<1>10. memory.loaded \subseteq Tids
  BY <1>8 DEF Serving!Active
<1>11. DOMAIN answers = Tids
  BY DEF Serving!Init
<1>12. QED BY <1>1, <1>3, <1>4, <1>5, <1>6, <1>7, <1>8, <1>9, <1>10, <1>11 DEF TenantsInv

\* What a write does to the rows: it keeps their form, and leaves the root without a link.
Rows(d, n) ==
    /\ d \in [Tids -> Row] /\ ~d[Root].token
    /\ \A t \in Tids : t > n => d[t] = Serving!NoTenant

LEMMA RowEdits ==
    ASSUME NEW row \in Row
    PROVE  /\ \A x \in BOOLEAN, n \in Names :
                /\ [[row EXCEPT !.active = x] EXCEPT !.sub = n] \in Row
                /\ [[row EXCEPT !.active = x] EXCEPT !.sub = n].version = row.version
                /\ [[row EXCEPT !.active = x] EXCEPT !.sub = n].token = row.token
           /\ [row EXCEPT !.version = @ + 1] \in Row
           /\ [row EXCEPT !.version = @ + 1].token = row.token
<1>1. ASSUME NEW x \in BOOLEAN, NEW n \in Names
      PROVE  /\ [[row EXCEPT !.active = x] EXCEPT !.sub = n] \in Row
             /\ [[row EXCEPT !.active = x] EXCEPT !.sub = n].version = row.version
             /\ [[row EXCEPT !.active = x] EXCEPT !.sub = n].token = row.token
  BY DEF Row, Serving!Row
<1>2. [row EXCEPT !.version = @ + 1] \in Row /\ [row EXCEPT !.version = @ + 1].token = row.token
  BY DEF Row, Serving!Row
<1>3. QED BY <1>1, <1>2

LEMMA CreateRows ==
    ASSUME TenantsInv, NEW w \in Workers, Serving!Create(w)
    PROVE  /\ Rows(db', fresh') /\ fresh' \in Nat /\ Root <= fresh'
           /\ \E d : Serving!Commit(w, Root, d)
<1>1. PICK name \in Names :
        /\ fresh + 1 \in Tids
        /\ Serving!AtOnce(w, Root, [db EXCEPT ![fresh + 1] =
              [Serving!NoTenant EXCEPT !.active = TRUE, !.sub = name, !.host = name, !.done = 1]])
        /\ fresh' = fresh + 1
  BY DEF Serving!Create
<1>2. PICK row : row = [Serving!NoTenant EXCEPT !.active = TRUE, !.sub = name, !.host = name, !.done = 1]
  OBVIOUS
<1>3. row \in Row
  BY <1>2 DEF Row, Serving!Row, Serving!NoTenant, Serving!NoName
<1>4. PICK k \in Tids : k = fresh + 1 /\ k # Root
  BY <1>1, Conditions DEF TenantsInv
<1>5. PICK d : d = [db EXCEPT ![k] = row]
  OBVIOUS
<1>6. Serving!Commit(w, Root, d)
  BY <1>1, <1>2, <1>4, <1>5 DEF Serving!AtOnce
<1>7. db' = d
  BY <1>6 DEF Serving!Commit
<1>8. d \in [Tids -> Row] /\ d[Root] = db[Root] /\ \A t \in Tids : t # k => d[t] = db[t]
  BY <1>3, <1>4, <1>5, Conditions DEF TenantsInv
<1>9. \A t \in Tids : t > fresh + 1 => d[t] = Serving!NoTenant
  BY <1>4, <1>8, Conditions DEF TenantsInv
<1>10. ~d[Root].token
  BY <1>8 DEF TenantsInv
<1>11. Rows(d, fresh + 1)
  BY <1>8, <1>9, <1>10 DEF Rows
<1>12. fresh + 1 \in Nat /\ Root <= fresh + 1
  BY Conditions DEF TenantsInv
<1>13. QED BY <1>1, <1>6, <1>7, <1>11, <1>12

LEMMA UpdateRows ==
    ASSUME TenantsInv, NEW w \in Workers, Serving!UpdateCommit(w)
    PROVE  /\ Rows(db', fresh) /\ writing[w].at = "update"
           /\ \E d : Serving!Commit(w, Root, d)
<1>1. PICK t \in Tids \ {Root} : t = writing[w].tid
  BY DEF Serving!UpdateCommit, TenantsInv, WorkTyped
<1>2. PICK x \in BOOLEAN : x = IF writing[w].active # writing[w].was.active THEN writing[w].active ELSE db[t].active
  BY DEF Serving!UpdateCommit, TenantsInv, WorkTyped, Row, Serving!Row
<1>3. PICK n \in Names : n = writing[w].name
  BY DEF Serving!UpdateCommit, TenantsInv, WorkTyped
<1>4. PICK row \in Row : row = [[db[t] EXCEPT !.active = x] EXCEPT !.sub = n]
  BY RowEdits DEF TenantsInv
<1>5. PICK d : d = [db EXCEPT ![t] = row]
  OBVIOUS
<1>6. Serving!Commit(w, Root, d)
  BY <1>1, <1>2, <1>3, <1>4, <1>5 DEF Serving!UpdateCommit, TenantsInv
<1>7. db' = d
  BY <1>6 DEF Serving!Commit
<1>8. d \in [Tids -> Row] /\ d[Root] = db[Root] /\ \A u \in Tids : u # t => d[u] = db[u]
  BY <1>1, <1>5, Conditions DEF TenantsInv
<1>9. t <= fresh
  BY <1>1, Conditions DEF Serving!UpdateCommit, Serving!There, TenantsInv
<1>10. \A u \in Tids : u > fresh => d[u] = Serving!NoTenant
  BY <1>8, <1>9, Conditions DEF TenantsInv
<1>11. QED BY <1>6, <1>7, <1>8, <1>10 DEF TenantsInv, Rows, Serving!UpdateCommit

LEMMA DeleteRows ==
    ASSUME TenantsInv, NEW w \in Workers, Serving!Delete(w)
    PROVE  /\ Rows(db', fresh) /\ \E d : Serving!Commit(w, Root, d)
<1>1. PICK t \in Tids \ {Root} : Serving!AtOnce(w, Root, [db EXCEPT ![t] = Serving!NoTenant])
  BY DEF Serving!Delete
<1>2. PICK d : d = [db EXCEPT ![t] = Serving!NoTenant]
  OBVIOUS
<1>3. Serving!Commit(w, Root, d) /\ db' = d
  BY <1>1, <1>2 DEF Serving!AtOnce, Serving!Commit
<1>4. Rows(d, fresh)
  BY <1>2, NoTenantRow, Conditions DEF TenantsInv, Rows
<1>5. QED BY <1>3, <1>4

LEMMA ConfigureRows ==
    ASSUME TenantsInv, NEW w \in Workers, Serving!Configure(w)
    PROVE  \E t \in Tids : \E d :
             /\ Serving!Commit(w, t, d) /\ Rows(d, fresh) /\ db' = d
             /\ \A u \in Tids : u # t => d[u] = db[u]
             /\ d[t].active = db[t].active /\ d[t].sub = db[t].sub /\ d[t].host = db[t].host
<1>1. PICK t \in Tids : Serving!There(db, t) /\ Serving!AtOnce(w, t, [db EXCEPT ![t].version = @ + 1])
  BY DEF Serving!Configure, TenantsInv
<1>2. PICK row \in Row : row = [db[t] EXCEPT !.version = @ + 1]
  BY RowEdits DEF TenantsInv
<1>3. row.token = db[t].token /\ row.active = db[t].active /\ row.sub = db[t].sub /\ row.host = db[t].host
  BY <1>2 DEF TenantsInv, Row, Serving!Row
<1>4. PICK d : d = [db EXCEPT ![t] = row]
  OBVIOUS
<1>5. Serving!Commit(w, t, d) /\ db' = d
  BY <1>1, <1>2, <1>4 DEF Serving!AtOnce, Serving!Commit
<1>6. t <= fresh
  BY <1>1, Conditions DEF TenantsInv, Serving!There
<1>7. d \in [Tids -> Row] /\ d[t] = row /\ \A u \in Tids : u # t => d[u] = db[u]
  BY <1>4 DEF TenantsInv
<1>8. ~d[Root].token
  BY <1>3, <1>7, Conditions DEF TenantsInv
<1>9. \A u \in Tids : u > fresh => d[u] = Serving!NoTenant
  BY <1>6, <1>7, Conditions DEF TenantsInv
<1>10. QED BY <1>3, <1>5, <1>7, <1>8, <1>9 DEF Rows

LEMMA WizardRows ==
    ASSUME TenantsInv, NEW w \in Workers, Serving!WizardCommit(w)
    PROVE  \E t \in Tids \ {Root} : \E d :
             /\ Serving!Commit(w, t, d) /\ Rows(d, fresh) /\ db' = d
             /\ \A u \in Tids : u # t => d[u] = db[u]
             /\ d[t].active = db[t].active
             /\ d[t].version = db[t].version
<1>1. PICK t \in Tids \ {Root} : t = writing[w].tid
  BY DEF Serving!WizardCommit, TenantsInv, WorkTyped
<1>2. PICK one \in {0, 1} : one = IF db[t].done = 0 THEN 1 ELSE db[t].done
  BY DEF TenantsInv, Row, Serving!Row
<1>3. PICK row : row = [[db[t] EXCEPT !.host = db[t].sub] EXCEPT !.done = one]
  OBVIOUS
<1>4. row \in Row /\ row.active = db[t].active /\ row.version = db[t].version
  <2>1. PICK old \in Row : old = db[t]
    BY DEF TenantsInv
  <2>2. PICK n \in Names \cup {Serving!NoName} : n = old.sub
    BY <2>1 DEF Row, Serving!Row
  <2>3. row = [[old EXCEPT !.host = n] EXCEPT !.done = one]
    BY <1>3, <2>1, <2>2
  <2>4. row \in Row /\ row.active = old.active /\ row.version = old.version
    BY <2>1, <2>3 DEF Row, Serving!Row
  <2>5. QED BY <2>1, <2>4
<1>5. PICK d : d = [db EXCEPT ![t] = row]
  OBVIOUS
<1>6. Serving!Commit(w, t, d)
  BY <1>1, <1>2, <1>3, <1>5 DEF Serving!WizardCommit, TenantsInv
<1>7. db' = d
  BY <1>6 DEF Serving!Commit
<1>8. t <= fresh
  BY <1>1, Conditions DEF Serving!WizardCommit, Serving!There, TenantsInv
<1>9. d \in [Tids -> Row] /\ d[t] = row /\ \A u \in Tids : u # t => d[u] = db[u]
  BY <1>4, <1>5 DEF TenantsInv
<1>10. \A u \in Tids : u > fresh => d[u] = Serving!NoTenant
  BY <1>8, <1>9, Conditions DEF TenantsInv
<1>11. ~d[Root].token
  BY <1>9, Conditions DEF TenantsInv
<1>12. QED BY <1>4, <1>6, <1>7, <1>9, <1>10, <1>11 DEF Rows

\* The row is written only when the tenant is found not to be initialised.
LEMMA ActivateRows ==
    ASSUME TenantsInv, NEW w \in Workers, Serving!ActivateCommit(w)
    PROVE  /\ Rows(db', fresh) /\ writing[w].at = "activate"
           /\ \E d : Serving!Commit(w, Root, d)
<1>1. PICK t \in Tids \ {Root} : t = writing[w].tid
  BY DEF Serving!ActivateCommit, TenantsInv, WorkTyped
<1>2. db[t] \in Row /\ db[t].done = 0
  BY <1>1 DEF Serving!ActivateCommit, Serving!Initialised, TenantsInv, Row, Serving!Row
<1>3. PICK row : row = [[[[db[t] EXCEPT !.active = TRUE] EXCEPT !.token = FALSE] EXCEPT !.host = db[t].sub]
                          EXCEPT !.done = 1]
  OBVIOUS
<1>4. row \in Row
  BY <1>2, <1>3 DEF Row, Serving!Row
<1>5. PICK d : d = [db EXCEPT ![t] = row]
  OBVIOUS
<1>6. Serving!Commit(w, Root, d)
  <2>1. Serving!Commit(w, Root, [db EXCEPT ![t].active = TRUE, ![t].token = FALSE, ![t].host = db[t].sub,
                                           ![t].done = @ + 1])
    BY <1>1 DEF Serving!ActivateCommit
  <2>2. [db EXCEPT ![t].active = TRUE, ![t].token = FALSE, ![t].host = db[t].sub, ![t].done = @ + 1] = d
    <3> PICK old \in Row : old = db[t]
      BY <1>2
    <3>1. t \in Tids /\ db \in [Tids -> Row] /\ old.done + 1 = 1
      BY <1>2 DEF TenantsInv
    <3>2. [db EXCEPT ![t].active = TRUE, ![t].token = FALSE, ![t].host = db[t].sub, ![t].done = @ + 1]
            = [db EXCEPT ![t] = [[[[old EXCEPT !.active = TRUE] EXCEPT !.token = FALSE] EXCEPT !.host = db[t].sub]
                          EXCEPT !.done = old.done + 1]]
      BY <3>1 DEF Row, Serving!Row
    <3>3. QED BY <1>3, <1>5, <3>1, <3>2
  <2>3. QED BY <2>1, <2>2
<1>7. db' = d
  BY <1>6 DEF Serving!Commit
<1>8. t <= fresh
  BY <1>1, Conditions DEF Serving!ActivateCommit, Serving!There, TenantsInv
<1>9. d \in [Tids -> Row] /\ d[t] = row /\ \A u \in Tids : u # t => d[u] = db[u]
  BY <1>4, <1>5 DEF TenantsInv
<1>10. \A u \in Tids : u > fresh => d[u] = Serving!NoTenant
  BY <1>8, <1>9, Conditions DEF TenantsInv
<1>11. ~d[Root].token
  BY <1>9, Conditions DEF TenantsInv
<1>12. QED BY <1>6, <1>7, <1>9, <1>10, <1>11 DEF Rows, Serving!ActivateCommit

LEMMA SignupRows ==
    ASSUME TenantsInv, NEW w \in Workers, Serving!SignupCommit(w)
    PROVE  /\ Rows(db', fresh') /\ fresh' = fresh + 1 /\ fresh + 1 \in Tids
           /\ writing[w].gone \subseteq Tids \ {Root}
           /\ \A t \in Tids : t # fresh + 1 =>
                db'[t] = IF t \in writing[w].gone THEN Serving!NoTenant ELSE db[t]
           /\ ~db'[fresh + 1].active /\ db'[fresh + 1].version = 0
<1>1. /\ writing[w].name \in Names /\ writing[w].gone \subseteq Tids \ {Root}
      /\ fresh + 1 \in Tids /\ fresh' = fresh + 1
  BY DEF Serving!SignupCommit, TenantsInv, WorkTyped
<1>2. PICK k \in Tids : k = fresh + 1 /\ k # Root
  BY <1>1, Conditions DEF TenantsInv
<1>3. PICK row : row = [Serving!NoTenant EXCEPT !.sub = writing[w].name, !.signup = writing[w].name, !.token = TRUE]
  OBVIOUS
<1>4. row \in Row /\ ~row.active /\ row.version = 0
  BY <1>1, <1>3 DEF Row, Serving!Row, Serving!NoTenant, Serving!NoName
<1>5. PICK left : left = [t \in Tids |-> IF t \in writing[w].gone THEN Serving!NoTenant ELSE db[t]]
  OBVIOUS
<1>6. left \in [Tids -> Row] /\ left[Root] = db[Root]
  BY <1>1, <1>5, NoTenantRow, Conditions DEF TenantsInv
<1>7. db' = [left EXCEPT ![k] = row]
  BY <1>2, <1>3, <1>5 DEF Serving!SignupCommit
<1>8. PICK d : d = db'
  OBVIOUS
<1>9. d \in [Tids -> Row] /\ d[k] = row /\ \A t \in Tids : t # k => d[t] = left[t]
  BY <1>2, <1>4, <1>6, <1>7, <1>8
<1>10. ~d[Root].token
  BY <1>2, <1>6, <1>9, Conditions DEF TenantsInv
<1>11. \A t \in Tids : t > fresh + 1 => d[t] = Serving!NoTenant
  BY <1>2, <1>5, <1>9, Conditions DEF TenantsInv
<1>12. QED BY <1>1, <1>2, <1>4, <1>5, <1>8, <1>9, <1>10, <1>11 DEF Rows

\* Commit leaves the memory, the kept answers and the other requests alone.
LEMMA CommitFacts ==
    ASSUME TenantsInv, NEW w \in Workers, NEW t \in Tids, NEW d, Serving!Commit(w, t, d)
    PROVE  /\ db' = d /\ memory' = memory /\ answers' = answers
           /\ DOMAIN writing' = Workers /\ \A v \in Workers : WorkTyped(writing'[v])
<1>1. db' = d /\ memory' = memory /\ answers' = answers
  BY DEF Serving!Commit
<1>2. DOMAIN writing' = Workers /\ \A v \in Workers \ {w} : writing'[v] = writing[v]
  BY DEF Serving!Commit, TenantsInv
<1>3. writing'[w] = [at |-> "answer", tid |-> t] \/ writing'[w] = [at |-> "idle"]
  BY DEF Serving!Commit, Serving!Unoccupied, TenantsInv
<1>4. WorkTyped(writing'[w])
  BY <1>3 DEF WorkTyped
<1>5. QED BY <1>1, <1>2, <1>4 DEF TenantsInv

\* A request that is begun, and a refresh that is started.
LEMMA BeginFacts ==
    ASSUME TenantsInv, NEW w \in Workers, NEW b, WorkTyped(b), writing' = [writing EXCEPT ![w] = b]
    PROVE  DOMAIN writing' = Workers /\ \A v \in Workers : WorkTyped(writing'[v])
  BY DEF TenantsInv

LEMMA DueFacts ==
    ASSUME TenantsInv, NEW r \in Threads, NEW t, refresh' = [refresh EXCEPT ![r] = [at |-> "due", of |-> t]]
    PROVE  /\ DOMAIN refresh' = Threads
           /\ \A s \in Threads : refresh'[s].at \in {"read", "map"} => refresh'[s].tids \subseteq Tids
  BY DEF TenantsInv

\* What a write leaves of the invariant, given what it does to the rows.
LEMMA RowsWritten ==
    ASSUME TenantsInv, Rows(db', fresh'), fresh' \in Nat, Root <= fresh',
           memory' = memory, answers' = answers,
           DOMAIN writing' = Workers, \A w \in Workers : WorkTyped(writing'[w]),
           DOMAIN refresh' = Threads,
           \A r \in Threads : refresh'[r].at \in {"read", "map"} => refresh'[r].tids \subseteq Tids
    PROVE  TenantsInv'
  BY DEF TenantsInv, Rows

LEMMA TenantsWrite ==
    ASSUME TenantsInv, NEW w \in Workers,
           \/ Serving!Create(w) \/ Serving!UpdateCommit(w) \/ Serving!Delete(w)
           \/ Serving!Configure(w) \/ Serving!WizardCommit(w) \/ Serving!ActivateCommit(w)
    PROVE  TenantsInv'
<1>1. CASE Serving!Create(w)
  <2>1. PICK d : Serving!Commit(w, Root, d)
    BY <1>1, CreateRows
  <2>2. refresh' = refresh
    BY <1>1 DEF Serving!Create, Serving!AtOnce
  <2>3. QED BY <1>1, <2>1, <2>2, CreateRows, CommitFacts, RowsWritten, Conditions DEF TenantsInv
<1>2. CASE Serving!UpdateCommit(w)
  <2>1. PICK d : Serving!Commit(w, Root, d)
    BY <1>2, UpdateRows
  <2>2. refresh' = refresh /\ fresh' = fresh
    BY <1>2 DEF Serving!UpdateCommit
  <2>3. QED BY <1>2, <2>1, <2>2, UpdateRows, CommitFacts, RowsWritten, Conditions DEF TenantsInv
<1>3. CASE Serving!Delete(w)
  <2>1. PICK d : Serving!Commit(w, Root, d)
    BY <1>3, DeleteRows
  <2>2. refresh' = refresh /\ fresh' = fresh
    BY <1>3 DEF Serving!Delete, Serving!AtOnce
  <2>3. QED BY <1>3, <2>1, <2>2, DeleteRows, CommitFacts, RowsWritten, Conditions DEF TenantsInv
<1>4. CASE Serving!Configure(w)
  <2>1. PICK t \in Tids : \E d : Serving!Commit(w, t, d) /\ Rows(d, fresh) /\ db' = d
    BY <1>4, ConfigureRows
  <2>2. refresh' = refresh /\ fresh' = fresh
    BY <1>4 DEF Serving!Configure, Serving!AtOnce
  <2>3. QED BY <2>1, <2>2, CommitFacts, RowsWritten DEF TenantsInv
<1>5. CASE Serving!WizardCommit(w)
  <2>1. PICK t \in Tids : \E d : Serving!Commit(w, t, d) /\ Rows(d, fresh) /\ db' = d
    BY <1>5, WizardRows
  <2>2. refresh' = refresh /\ fresh' = fresh
    BY <1>5 DEF Serving!WizardCommit
  <2>3. QED BY <2>1, <2>2, CommitFacts, RowsWritten DEF TenantsInv
<1>6. CASE Serving!ActivateCommit(w)
  <2>1. PICK d : Serving!Commit(w, Root, d)
    BY <1>6, ActivateRows
  <2>2. fresh' = fresh
    BY <1>6 DEF Serving!ActivateCommit
  <2>3. PICK r \in Threads : refresh' = [refresh EXCEPT ![r] = [at |-> "due", of |-> 0]]
    BY <1>6 DEF Serving!ActivateCommit
  <2>4. QED BY <1>6, <2>1, <2>2, <2>3, ActivateRows, CommitFacts, DueFacts, RowsWritten, Conditions DEF TenantsInv
<1>7. QED BY <1>1, <1>2, <1>3, <1>4, <1>5, <1>6

LEMMA BegunFacts ==
    ASSUME NEW w \in Workers, NEW b, Serving!Begin(w, b)
    PROVE  writing' = [writing EXCEPT ![w] = b] /\ writing[w].at # "answer"
  BY DEF Serving!Begin, Serving!Unoccupied

\* The steps that write no row and touch no refresh.
LEMMA TenantsRequest ==
    ASSUME TenantsInv, NEW w \in Workers,
           \/ Serving!UpdateBegin(w) \/ Serving!SignupBegin(w) \/ Serving!ActivateBegin(w)
           \/ Serving!WizardBegin(w) \/ Serving!Abort(w) \/ Serving!Get(w)
    PROVE  /\ TenantsInv'
           /\ UNCHANGED <<db, memory, answers, refresh, fresh, outdated, unsettled>>
           /\ \A v \in Workers : writing'[v].at = "answer" <=> writing[v].at = "answer"
           /\ \A v \in Workers : writing'[v].at = "answer" => writing'[v] = writing[v]
<1>1. UNCHANGED <<db, memory, answers, refresh, fresh, outdated, unsettled>>
  BY DEF Serving!UpdateBegin, Serving!SignupBegin, Serving!ActivateBegin, Serving!WizardBegin,
         Serving!Abort, Serving!Get, Serving!Begin
<1>2. \E b : /\ WorkTyped(b) /\ writing' = [writing EXCEPT ![w] = b]
             /\ writing[w].at # "answer" /\ b.at # "answer"
  <2>1. CASE Serving!UpdateBegin(w)
    <3>1. PICK t \in Tids \ {Root}, name \in Names, active \in BOOLEAN :
            Serving!Begin(w, [at |-> "update", tid |-> t, name |-> name, active |-> active,
               was |-> db[t], free |-> {n \in Names : ~Serving!InUse(db, n, {t})}])
      BY <2>1 DEF Serving!UpdateBegin
    <3>2. PICK b : b = [at |-> "update", tid |-> t, name |-> name, active |-> active,
               was |-> db[t], free |-> {n \in Names : ~Serving!InUse(db, n, {t})}]
      OBVIOUS
    <3>3. WorkTyped(b) /\ b.at # "answer"
      BY <3>2 DEF WorkTyped
    <3>4. QED BY <3>1, <3>2, <3>3, BegunFacts
  <2>2. CASE Serving!SignupBegin(w)
    <3>1. PICK name \in Names :
            Serving!Begin(w, [at |-> "signup", name |-> name, gone |-> Serving!Pending(db, name)])
      BY <2>2 DEF Serving!SignupBegin
    <3>2. Serving!Pending(db, name) \subseteq Tids \ {Root}
      BY DEF Serving!Pending, TenantsInv
    <3>3. PICK b : b = [at |-> "signup", name |-> name, gone |-> Serving!Pending(db, name)]
      OBVIOUS
    <3>4. WorkTyped(b) /\ b.at # "answer"
      BY <3>2, <3>3 DEF WorkTyped
    <3>5. QED BY <3>1, <3>3, <3>4, BegunFacts
  <2>3. CASE Serving!ActivateBegin(w)
    <3>1. PICK t \in Tids :
            db[t].token /\ Serving!Begin(w, [at |-> "activate", tid |-> t, was |-> db[t]])
      BY <2>3 DEF Serving!ActivateBegin
    <3>2. t # Root
      BY <3>1 DEF TenantsInv
    <3>3. PICK b : b = [at |-> "activate", tid |-> t, was |-> db[t]]
      OBVIOUS
    <3>4. WorkTyped(b) /\ b.at # "answer"
      BY <3>2, <3>3 DEF WorkTyped
    <3>5. QED BY <3>1, <3>3, <3>4, BegunFacts
  <2>4. CASE Serving!WizardBegin(w)
    <3>1. PICK t \in memory.loaded \ {Root} : Serving!Begin(w, [at |-> "wizard", tid |-> t])
      BY <2>4 DEF Serving!WizardBegin
    <3>2. PICK b : b = [at |-> "wizard", tid |-> t]
      OBVIOUS
    <3>3. WorkTyped(b) /\ b.at # "answer"
      BY <3>2 DEF WorkTyped, TenantsInv
    <3>4. QED BY <3>1, <3>2, <3>3, BegunFacts
  <2>5. CASE Serving!Abort(w)
    <3>1. PICK b : b = [at |-> "idle"]
      OBVIOUS
    <3>2. WorkTyped(b) /\ b.at # "answer"
      BY <3>1 DEF WorkTyped
    <3>3. writing' = [writing EXCEPT ![w] = b] /\ writing[w].at # "answer"
      BY <2>5, <3>1 DEF Serving!Abort, Serving!Unoccupied
    <3>4. QED BY <3>2, <3>3
  <2>6. CASE Serving!Get(w)
    <3>1. PICK t \in Tids : /\ writing[w] = Serving!Unoccupied
            /\ writing' = [writing EXCEPT ![w] = [at |-> "got", tid |-> t, answer |-> Serving!Content(db, t)]]
      BY <2>6 DEF Serving!Get, TenantsInv
    <3>2. PICK b : b = [at |-> "got", tid |-> t, answer |-> Serving!Content(db, t)]
      OBVIOUS
    <3>3. WorkTyped(b) /\ b.at # "answer"
      BY <3>2 DEF WorkTyped
    <3>4. writing' = [writing EXCEPT ![w] = b] /\ writing[w].at # "answer"
      BY <3>1, <3>2 DEF Serving!Unoccupied
    <3>5. QED BY <3>3, <3>4
  <2>7. QED BY <2>1, <2>2, <2>3, <2>4, <2>5, <2>6
<1>3. PICK b : /\ WorkTyped(b) /\ writing' = [writing EXCEPT ![w] = b]
               /\ writing[w].at # "answer" /\ b.at # "answer"
  BY <1>2
<1>4. TenantsInv'
  BY <1>1, <1>3, BeginFacts DEF TenantsInv
<1>5. DOMAIN writing = Workers
  BY DEF TenantsInv
<1>6. QED BY <1>1, <1>3, <1>4, <1>5

LEMMA TenantsStep ==
    ASSUME TenantsInv, Serving!Next
    PROVE  TenantsInv'
<1>1. ASSUME NEW w \in Workers, Serving!SignupCommit(w)
      PROVE  TenantsInv'
  <2>1. PICK b : b = [at |-> "idle"]
    OBVIOUS
  <2>2. WorkTyped(b) /\ writing' = [writing EXCEPT ![w] = b] /\ UNCHANGED <<memory, answers, refresh>>
    BY <1>1, <2>1 DEF WorkTyped, Serving!SignupCommit, Serving!Unoccupied
  <2>3. Rows(db', fresh') /\ fresh' = fresh + 1
    BY <1>1, SignupRows
  <2> PICK n : n = fresh'
    OBVIOUS
  <2>5. n \in Nat /\ Root <= n
    BY <2>3, Conditions DEF TenantsInv
  <2>4. QED BY <2>2, <2>3, <2>5, BeginFacts, RowsWritten DEF TenantsInv
<1>2. ASSUME NEW w \in Workers, Serving!Answer(w)
      PROVE  TenantsInv'
  <2>1. PICK b : b = [at |-> "idle"]
    OBVIOUS
  <2>2. /\ WorkTyped(b) /\ writing' = [writing EXCEPT ![w] = b] /\ UNCHANGED <<db, memory, fresh>>
        /\ DOMAIN answers' = Tids
    BY <1>2, <2>1 DEF WorkTyped, Serving!Answer, Serving!Unoccupied
  <2>3. PICK r \in Threads : refresh' = [refresh EXCEPT ![r] = [at |-> "due", of |-> writing[w].tid]]
    BY <1>2 DEF Serving!Answer
  <2>4. QED BY <2>2, <2>3, BeginFacts, DueFacts DEF TenantsInv
<1>3. ASSUME NEW w \in Workers, Serving!Keep(w)
      PROVE  TenantsInv'
  <2>1. PICK b : b = [at |-> "idle"]
    OBVIOUS
  <2>2. /\ WorkTyped(b) /\ writing' = [writing EXCEPT ![w] = b] /\ UNCHANGED <<db, memory, fresh, refresh>>
        /\ DOMAIN answers' = Tids
    BY <1>3, <2>1 DEF WorkTyped, Serving!Keep, Serving!Unoccupied, TenantsInv
  <2>3. QED BY <2>2, BeginFacts DEF TenantsInv
<1>4. ASSUME NEW r \in Threads, Serving!RefreshBegin(r)
      PROVE  TenantsInv'
  <2>1. PICK tids : tids = IF refresh[r].of = Root THEN Serving!Active(db) ELSE {refresh[r].of} \cap Serving!Active(db)
    OBVIOUS
  <2>2. tids \subseteq Tids
    BY <2>1 DEF Serving!Active
  <2>3. UNCHANGED <<db, answers, writing, fresh>>
    BY <1>4 DEF Serving!RefreshBegin
  <2>4. refresh' = [refresh EXCEPT ![r] = IF tids = {} THEN [at |-> "idle"] ELSE [at |-> "read", tids |-> tids]]
    BY <1>4, <2>1 DEF Serving!RefreshBegin, Serving!Unoccupied
  <2>5. /\ DOMAIN refresh' = Threads
        /\ \A s \in Threads : refresh'[s].at \in {"read", "map"} => refresh'[s].tids \subseteq Tids
    BY <2>2, <2>4 DEF TenantsInv
  <2>6. PICK gone, lost :
          memory' = [loaded |-> (memory.loaded \ gone) \cup tids,
                  names |-> [n \in Names |-> IF n \in lost THEN 0 ELSE memory.names[n]],
                  tenant |-> [t \in Tids |->
                     IF t \in gone THEN Serving!Unloaded
                     ELSE IF t \in tids THEN [memory.tenant[t] EXCEPT !.names = {}]
                     ELSE memory.tenant[t]]]
    BY <1>4, <2>1 DEF Serving!RefreshBegin
  <2>7. /\ DOMAIN memory' = {"tenant", "loaded", "names"} /\ memory'.loaded \subseteq Tids
        /\ DOMAIN memory'.names = Names
    BY <2>2, <2>6 DEF TenantsInv
  <2>8. memory'.tenant \in [Tids -> Copy]
    <3>1. \A x \in Copy : [x EXCEPT !.names = {}] \in Copy
      BY DEF Copy
    <3>2. QED BY <2>6, <3>1, CopyFacts DEF TenantsInv
  <2>9. QED BY <2>3, <2>5, <2>7, <2>8 DEF TenantsInv
<1>5. ASSUME NEW r \in Threads, Serving!RefreshRead(r)
      PROVE  TenantsInv'
  <2>1. UNCHANGED <<db, answers, writing, fresh>>
    BY <1>5 DEF Serving!RefreshRead
  <2>2. PICK some \in SUBSET Tids : memory' = [memory EXCEPT !.tenant =
            [t \in Tids |-> IF t \in some THEN Serving!Loaded(t) ELSE memory.tenant[t]]]
    BY <1>5 DEF Serving!RefreshRead, TenantsInv
  <2>3. /\ DOMAIN refresh' = Threads
        /\ \A s \in Threads : refresh'[s].at \in {"read", "map"} => refresh'[s].tids \subseteq Tids
    <3>1. PICK x : x = IF refresh[r].tids \subseteq memory.loaded
                       THEN [at |-> "map", tids |-> refresh[r].tids] ELSE [at |-> "idle"]
      OBVIOUS
    <3>2. x.at \in {"read", "map"} => x.tids \subseteq Tids
      BY <1>5, <3>1 DEF Serving!RefreshRead, TenantsInv
    <3>3. refresh' = [refresh EXCEPT ![r] = x]
      BY <1>5, <3>1 DEF Serving!RefreshRead, Serving!Unoccupied
    <3>4. QED BY <3>2, <3>3 DEF TenantsInv
  <2>4. \A t \in Tids : Serving!Loaded(t) \in Copy
    <3> SUFFICES ASSUME NEW t \in Tids PROVE Serving!Loaded(t) \in Copy
      OBVIOUS
    <3>1. PICK x \in Copy : x = memory.tenant[t]
      BY DEF TenantsInv
    <3>2. PICK row \in Row : row = db[t]
      BY DEF TenantsInv
    <3>3. row.sub \in NameOrNone /\ row.host \in NameOrNone /\ row.version \in Nat
      BY DEF Row, Serving!Row, NameOrNone
    <3>4. Serving!Loaded(t) = [[[x EXCEPT !.version = row.version] EXCEPT !.sub = row.sub] EXCEPT !.host = row.host]
      BY <3>1, <3>2 DEF Serving!Loaded
    <3>5. QED BY <3>3, <3>4 DEF Copy
  <2>5. /\ memory'.tenant \in [Tids -> Copy] /\ memory'.loaded = memory.loaded
        /\ memory'.names = memory.names /\ DOMAIN memory' = {"tenant", "loaded", "names"}
    BY <2>2, <2>4 DEF TenantsInv
  <2>6. QED BY <2>1, <2>3, <2>5 DEF TenantsInv
<1>6. ASSUME NEW r \in Threads, Serving!RefreshMap(r)
      PROVE  TenantsInv'
  <2>1. /\ UNCHANGED <<db, answers, writing, fresh>>
        /\ refresh' = [refresh EXCEPT ![r] = [at |-> "idle"]]
    BY <1>6 DEF Serving!RefreshMap, Serving!Unoccupied
  <2>2. /\ DOMAIN refresh' = Threads
        /\ \A s \in Threads : refresh'[s].at \in {"read", "map"} => refresh'[s].tids \subseteq Tids
    BY <2>1 DEF TenantsInv
  <2>3. PICK tids : memory'.tenant = [t \in Tids |-> IF t \in tids
                        THEN [memory.tenant[t] EXCEPT !.names = @ \cup Serving!NamesOf(memory.tenant[t])]
                        ELSE memory.tenant[t]]
    BY <1>6 DEF Serving!RefreshMap, TenantsInv
  <2> /\ memory'.loaded = memory.loaded
      /\ DOMAIN memory'.names = Names /\ DOMAIN memory' = {"tenant", "loaded", "names"}
    BY <1>6 DEF Serving!RefreshMap, TenantsInv
  <2>4. \A t \in Tids : [memory.tenant[t] EXCEPT !.names = @ \cup Serving!NamesOf(memory.tenant[t])] \in Copy
    <3> SUFFICES ASSUME NEW t \in Tids
                 PROVE  [memory.tenant[t] EXCEPT !.names = @ \cup Serving!NamesOf(memory.tenant[t])] \in Copy
      OBVIOUS
    <3>1. PICK x \in Copy : x = memory.tenant[t]
      BY DEF TenantsInv
    <3>2. Serving!NamesOf(x) \subseteq Names
      BY DEF Serving!NamesOf, Copy, NameOrNone
    <3>3. PICK ns \in SUBSET Names : ns = x.names \cup Serving!NamesOf(x)
      BY <3>2 DEF Copy
    <3>4. [x EXCEPT !.names = ns] \in Copy
      BY DEF Copy
    <3>5. QED BY <3>1, <3>3, <3>4
  <2>5. memory'.tenant \in [Tids -> Copy]
    BY <2>3, <2>4 DEF TenantsInv
  <2>6. QED BY <2>1, <2>2, <2>5 DEF TenantsInv
<1>7. QED BY <1>1, <1>2, <1>3, <1>4, <1>5, <1>6, TenantsWrite, TenantsRequest DEF Serving!Next

LEMMA TenantsKept ==
    ASSUME TenantsInv, [MCNext]_allVars
    PROVE  TenantsInv'
<1>1. CASE UNCHANGED serving
  BY <1>1 DEF serving, TenantsInv, WorkTyped
<1>2. CASE Serving!Next
  BY <1>2, TenantsStep
<1>3. QED BY <1>1, <1>2 DEF MCNext, allVars, serving

\* A tenant is initialised once, however often the link of its activation is followed
\* (signup_activation and db_wizard).
THEOREM Initialised == MCSpec => []InitialisedOnce
<1>1. MCInit => TenantsInv
  BY TenantsBegin DEF MCInit
<1>2. TenantsInv /\ [MCNext]_allVars => TenantsInv'
  BY TenantsKept
<1>3. TenantsInv => InitialisedOnce
  BY DEF TenantsInv, InitialisedOnce, Serving!InitialisedOnce, Row, Serving!Row
<1>4. QED BY <1>1, <1>2, <1>3, PTL DEF MCSpec

-----------------------------------------------------------------------------
\* The answers that are kept.
KeptInv == TenantsInv /\ Serving!AnswersUpToDate

LEMMA KeptWrite ==
    ASSUME KeptInv, NEW w \in Workers, NEW t \in Tids, NEW d, Serving!Commit(w, t, d),
           writing[w].at # "answer", t # Root => d[Root].version = db[Root].version,
           t # Root => \A u \in Tids : u # t => d[u].version = db[u].version
    PROVE  Serving!AnswersUpToDate'
<1>1. db' = d /\ answers' = answers
  BY DEF Serving!Commit
<1>2. \A u \in Tids : u \notin Serving!Served(t) => Serving!Content(d, u) = Serving!Content(db, u)
  BY DEF Serving!Served, Serving!Content
<1>3. CASE writing' = [writing EXCEPT ![w] = [at |-> "answer", tid |-> t]] /\ outdated' = outdated
  <2>1. /\ writing'[w].at = "answer" /\ writing'[w].tid = t
        /\ \A v \in Workers : writing[v].at = "answer" => writing'[v] = writing[v]
    BY <1>3 DEF KeptInv, TenantsInv
  <2>2. QED BY <1>1, <1>2, <1>3, <2>1 DEF KeptInv, Serving!AnswersUpToDate
<1>4. CASE /\ writing' = [writing EXCEPT ![w] = Serving!Unoccupied]
           /\ outdated' = outdated \cup Serving!Served(t)
  <2>1. \A v \in Workers : writing[v].at = "answer" => writing'[v] = writing[v]
    BY <1>4 DEF KeptInv, TenantsInv
  <2>2. QED BY <1>1, <1>2, <1>4, <2>1 DEF KeptInv, Serving!AnswersUpToDate
<1>5. QED BY <1>3, <1>4 DEF Serving!Commit

LEMMA NotAnswering ==
    ASSUME NEW w \in Workers,
           \/ Serving!Create(w) \/ Serving!UpdateCommit(w) \/ Serving!Delete(w)
           \/ Serving!Configure(w) \/ Serving!WizardCommit(w) \/ Serving!ActivateCommit(w)
    PROVE  writing[w].at # "answer"
<1>1. CASE Serving!Create(w) \/ Serving!Delete(w) \/ Serving!Configure(w)
  <2>1. writing[w] = [at |-> "idle"]
    BY <1>1 DEF Serving!Create, Serving!Delete, Serving!Configure, Serving!AtOnce, Serving!Unoccupied
  <2>2. QED BY <2>1
<1>2. CASE Serving!UpdateCommit(w)
  BY <1>2 DEF Serving!UpdateCommit
<1>3. CASE Serving!WizardCommit(w)
  BY <1>3 DEF Serving!WizardCommit
<1>4. CASE Serving!ActivateCommit(w)
  BY <1>4 DEF Serving!ActivateCommit
<1>5. QED BY <1>1, <1>2, <1>3, <1>4

LEMMA KeptStep ==
    ASSUME KeptInv, Serving!Next
    PROVE  Serving!AnswersUpToDate'
<1> TenantsInv /\ Serving!AnswersUpToDate
  BY DEF KeptInv
<1>1. ASSUME NEW w \in Workers,
             \/ Serving!Create(w) \/ Serving!UpdateCommit(w) \/ Serving!Delete(w) \/ Serving!ActivateCommit(w)
      PROVE  Serving!AnswersUpToDate'
  <2>1. writing[w].at # "answer"
    BY <1>1, NotAnswering
  <2>2. \E d : Serving!Commit(w, Root, d)
    BY <1>1, CreateRows, UpdateRows, DeleteRows, ActivateRows
  <2>3. QED BY <2>1, <2>2, KeptWrite, Conditions
<1>2. ASSUME NEW w \in Workers, Serving!Configure(w) \/ Serving!WizardCommit(w)
      PROVE  Serving!AnswersUpToDate'
  <2>1. writing[w].at # "answer"
    BY <1>2, NotAnswering
  <2>2. PICK t \in Tids : \E d : Serving!Commit(w, t, d) /\ \A u \in Tids : u # t => d[u] = db[u]
    BY <1>2, ConfigureRows, WizardRows
  <2>3. QED BY <2>1, <2>2, KeptWrite, Conditions
<1>3. ASSUME NEW w \in Workers, Serving!SignupCommit(w)
      PROVE  Serving!AnswersUpToDate'
  <2>1. /\ answers' = answers /\ outdated' = outdated \cup writing[w].gone
        /\ \A v \in Workers : writing[v].at = "answer" => writing'[v] = writing[v]
    BY <1>3 DEF Serving!SignupCommit, TenantsInv
  <2>2. PICK k \in Tids : k = fresh + 1
    BY <1>3, SignupRows
  <2>3. k # Root /\ db[k].version = 0
    BY <2>2, NoTenantRow, Conditions DEF TenantsInv
  <2>4. /\ db'[k].version = 0 /\ writing[w].gone \subseteq Tids \ {Root}
        /\ \A u \in Tids : u # k /\ u \notin writing[w].gone => db'[u] = db[u]
    BY <1>3, <2>2, SignupRows
  <2>5. \A u \in Tids : u \notin writing[w].gone => Serving!Content(db', u) = Serving!Content(db, u)
    BY <2>3, <2>4, Conditions DEF Serving!Content
  <2>6. QED BY <2>1, <2>5 DEF Serving!AnswersUpToDate
<1>4. ASSUME NEW w \in Workers, Serving!Answer(w)
      PROVE  Serving!AnswersUpToDate'
  <2>1. PICK t : t = writing[w].tid
    OBVIOUS
  <2>2. /\ answers' = [u \in Tids |-> IF u \in Serving!Served(t) THEN Serving!NoResponse ELSE answers[u]]
        /\ db' = db /\ outdated' = outdated \ Serving!Served(t)
        /\ \A v \in Workers \ {w} : writing'[v] = writing[v]
    BY <1>4, <2>1 DEF Serving!Answer, Serving!Dropped, TenantsInv
  <2>3. QED BY <2>1, <2>2 DEF Serving!AnswersUpToDate
<1>5. ASSUME NEW w \in Workers, Serving!Keep(w)
      PROVE  Serving!AnswersUpToDate'
  <2>1. PICK t \in Tids : t = writing[w].tid
    BY <1>5 DEF Serving!Keep, TenantsInv, WorkTyped
  <2>2. /\ answers' = [answers EXCEPT ![t] = writing[w].answer] /\ db' = db
        /\ outdated' = IF writing[w].answer = Serving!Content(db, t) THEN outdated ELSE outdated \cup {t}
        /\ \A v \in Workers : writing[v].at = "answer" => writing'[v] = writing[v]
    BY <1>5, <2>1 DEF Serving!Keep, TenantsInv
  <2>3. DOMAIN answers = Tids
    BY DEF TenantsInv
  <2>4. QED BY <2>1, <2>2, <2>3 DEF Serving!AnswersUpToDate
<1>6. ASSUME NEW w \in Workers,
             \/ Serving!UpdateBegin(w) \/ Serving!SignupBegin(w) \/ Serving!ActivateBegin(w)
             \/ Serving!WizardBegin(w) \/ Serving!Abort(w) \/ Serving!Get(w)
      PROVE  Serving!AnswersUpToDate'
  <2>1. /\ UNCHANGED <<db, answers, outdated>>
        /\ \A v \in Workers : writing'[v].at = "answer" <=> writing[v].at = "answer"
        /\ \A v \in Workers : writing'[v].at = "answer" => writing'[v] = writing[v]
    BY <1>6, TenantsRequest
  <2>2. QED BY <2>1 DEF Serving!AnswersUpToDate
<1>7. ASSUME NEW r \in Threads, Serving!RefreshBegin(r) \/ Serving!RefreshRead(r) \/ Serving!RefreshMap(r)
      PROVE  Serving!AnswersUpToDate'
  <2>1. UNCHANGED <<db, answers, writing, outdated>>
    BY <1>7 DEF Serving!RefreshBegin, Serving!RefreshRead, Serving!RefreshMap
  <2>2. QED BY <2>1 DEF Serving!AnswersUpToDate
<1>8. QED BY <1>1, <1>2, <1>3, <1>4, <1>5, <1>6, <1>7 DEF Serving!Next

-----------------------------------------------------------------------------
\* The routes.  A write of the root, or of one tenant, has yet to be told; a refresh
\* reads the tenant's row, or has read it and has yet to write the maps.
RootTold ==
    \/ \E w \in Workers : writing[w].at = "answer" /\ writing[w].tid = Root
    \/ \E r \in Threads : refresh[r].at = "due" /\ refresh[r].of = Root
Told(t) ==
    \/ RootTold
    \/ \E w \in Workers : writing[w].at = "answer" /\ writing[w].tid = t
    \/ \E r \in Threads : refresh[r].at = "due" /\ refresh[r].of = t
InHand(r) == refresh[r].at \in {"read", "map"}
Reading(t) == \E r \in Threads : refresh[r].at = "read" /\ t \in refresh[r].tids
Mapping(t) == \E r \in Threads : refresh[r].at = "map" /\ t \in refresh[r].tids
Matches(m, row) == m.sub = row.sub /\ m.host = row.host /\ m.version = row.version
Sole(n, t) == \A u \in Serving!Active(db) : n \in Serving!NamesOf(db[u]) => u = t

\* While nothing is amiss, refreshes come one at a time, the tenants that are loaded are
\* the active ones, what is read of a tenant names no tenant but by a name it has, and
\* a name that is of one tenant only leads to it.
Route ==
    /\ \A r, q \in Threads : InHand(r) /\ InHand(q) => r = q
    /\ \A r \in Threads : InHand(r) => refresh[r].tids \subseteq memory.loaded
    /\ ~RootTold => memory.loaded = Serving!Active(db)
    /\ \A t \in Serving!Active(db) : ~RootTold /\ ~Reading(t) =>
         Serving!NamesOf(memory.tenant[t]) \subseteq Serving!NamesOf(db[t])
    /\ \A t \in Serving!Active(db) : ~Told(t) /\ ~Reading(t) => Matches(memory.tenant[t], db[t])
    /\ \A t \in Serving!Active(db) : ~Told(t) /\ ~Reading(t) /\ ~Mapping(t) =>
         \A n \in Serving!NamesOf(db[t]) : Sole(n, t) => memory.names[n] = t

RouteInv == ~unsettled => Route

LEMMA RouteBegin ==
    ASSUME Serving!Init, TenantsInv
    PROVE  RouteInv
<1>1. /\ \A w \in Workers : writing[w].at = "idle"
      /\ \A r \in Threads : refresh[r].at = "idle"
  BY DEF Serving!Init, Serving!Unoccupied
<1>2. ~RootTold /\ \A t : ~Reading(t) /\ ~Mapping(t) /\ ~Told(t)
  BY <1>1 DEF RootTold, Told, Reading, Mapping
<1>3. \A r \in Threads : ~InHand(r)
  BY <1>1 DEF InHand
<1>4. memory.loaded = Serving!Active(db) /\ Serving!Active(db) \subseteq Tids
  BY DEF Serving!Init, Serving!Active
<1>5. \A t \in Serving!Active(db) :
        memory.tenant[t] = [sub |-> db[t].sub, host |-> db[t].host, version |-> db[t].version,
                            names |-> Serving!NamesOf(db[t])]
  BY DEF Serving!Init, Serving!Active
<1>6. \A t \in Serving!Active(db) : /\ Matches(memory.tenant[t], db[t])
                                    /\ Serving!NamesOf(memory.tenant[t]) = Serving!NamesOf(db[t])
  <2> SUFFICES ASSUME NEW t \in Serving!Active(db)
               PROVE  /\ Matches(memory.tenant[t], db[t])
                      /\ Serving!NamesOf(memory.tenant[t]) = Serving!NamesOf(db[t])
    OBVIOUS
  <2>1. PICK m : m = memory.tenant[t]
    OBVIOUS
  <2>2. PICK row : row = db[t]
    OBVIOUS
  <2>3. PICK names : names = Serving!NamesOf(row)
    OBVIOUS
  <2>4. m = [sub |-> row.sub, host |-> row.host, version |-> row.version, names |-> names]
    BY <1>5, <2>1, <2>2, <2>3
  <2>5. m.sub = row.sub /\ m.host = row.host /\ m.version = row.version
    BY <2>4
  <2>6. QED BY <2>1, <2>2, <2>5 DEF Matches, Serving!NamesOf
<1>7. ASSUME NEW t \in Serving!Active(db), NEW n \in Serving!NamesOf(db[t]), Sole(n, t)
      PROVE  memory.names[n] = t
  <2>1. n \in Names
    BY <1>4 DEF TenantsInv, Row, Serving!Row, Serving!NamesOf
  <2>2. PICK owners : owners = {u \in Serving!Active(db) : n \in Serving!NamesOf(db[u])}
    OBVIOUS
  <2>3. owners = {t}
    BY <1>7, <2>2 DEF Sole
  <2>4. memory.names[n] = IF \E u \in Serving!Active(db) : n \in Serving!NamesOf(db[u])
                    THEN CHOOSE u \in Serving!Active(db) : n \in Serving!NamesOf(db[u]) ELSE 0
    BY <2>1 DEF Serving!Init
  <2>5. (CHOOSE u \in Serving!Active(db) : n \in Serving!NamesOf(db[u])) = t
    BY <1>7 DEF Sole
  <2>6. QED BY <2>4, <2>5
<1>8. QED BY <1>2, <1>3, <1>4, <1>6, <1>7 DEF RouteInv, Route

\* A step that touches neither the memory nor the rows of the active tenants, and
\* that leaves what has yet to be told and the refreshes in hand as they are.
LEMMA RouteQuiet ==
    ASSUME RouteInv, unsettled => unsettled', memory' = memory,
           Serving!Active(db') = Serving!Active(db),
           \A t \in Serving!Active(db) : db'[t] = db[t],
           RootTold => RootTold', \A t : Told(t) => Told(t)',
           \A r \in Threads : InHand(r)' <=> InHand(r),
           \A r \in Threads : InHand(r) => refresh'[r] = refresh[r]
    PROVE  RouteInv'
<1> SUFFICES ASSUME ~unsettled' PROVE Route'
  BY DEF RouteInv
<1>1. Route
  BY DEF RouteInv
<1>2. \A t : (Reading(t)' <=> Reading(t)) /\ (Mapping(t)' <=> Mapping(t))
  BY DEF Reading, Mapping, InHand
<1>3. \A n, t : Sole(n, t)' <=> Sole(n, t)
  BY DEF Sole
<1>4. QED BY <1>1, <1>2, <1>3 DEF Route, InHand

\* A write of the root: everything is to be refreshed.
LEMMA RouteRoot ==
    ASSUME RouteInv, TenantsInv, NEW w \in Workers, NEW d, Serving!Commit(w, Root, d),
           \/ refresh' = refresh
           \/ \E r \in Threads : /\ refresh[r] = Serving!Unoccupied
                                 /\ refresh' = [refresh EXCEPT ![r] = [at |-> "due", of |-> 0]]
    PROVE  RouteInv'
<1> SUFFICES ASSUME ~unsettled' PROVE Route'
  BY DEF RouteInv
<1>1. Route /\ memory' = memory /\ writing' = [writing EXCEPT ![w] = [at |-> "answer", tid |-> Root]]
  BY DEF Serving!Commit, RouteInv
<1>2. writing'[w].at = "answer" /\ writing'[w].tid = Root
  BY <1>1 DEF TenantsInv
<1>3. RootTold' /\ \A t : Told(t)'
  BY <1>2 DEF RootTold, Told
<1>4. \A r \in Threads : InHand(r)' => InHand(r) /\ refresh'[r] = refresh[r]
  BY DEF InHand, TenantsInv
<1>5. QED BY <1>1, <1>3, <1>4 DEF Route

\* A write of one tenant other than the root, which gives up no name.
LEMMA RouteOwn ==
    ASSUME RouteInv, TenantsInv, NEW w \in Workers, NEW k \in Tids \ {Root}, NEW d, Serving!Commit(w, k, d),
           writing[w].at # "answer", refresh' = refresh, d \in [Tids -> Row],
           \A u \in Tids : u # k => d[u] = db[u], d[k].active = db[k].active
    PROVE  RouteInv'
<1> SUFFICES ASSUME ~unsettled' PROVE Route'
  BY DEF RouteInv
<1>1. Route /\ memory' = memory /\ db' = d /\ writing' = [writing EXCEPT ![w] = [at |-> "answer", tid |-> k]]
  BY DEF Serving!Commit, RouteInv
<1>2. Serving!NamesOf(db[k]) \subseteq Serving!NamesOf(d[k])
  BY DEF Serving!Commit, Serving!GivesUp
<1>3. /\ writing'[w].at = "answer" /\ writing'[w].tid = k
      /\ \A v \in Workers \ {w} : writing'[v] = writing[v]
  BY <1>1 DEF TenantsInv
<1>4. RootTold => RootTold'
  BY <1>3 DEF RootTold
<1>5. Told(k)' /\ \A t : Told(t) => Told(t)'
  BY <1>3, <1>4 DEF Told
<1>6. \A t : (Reading(t)' <=> Reading(t)) /\ (Mapping(t)' <=> Mapping(t))
  BY DEF Reading, Mapping
<1>7. Serving!Active(d) = Serving!Active(db) /\ Serving!Active(db) \subseteq Tids
  BY DEF Serving!Active
<1>8. ASSUME NEW t \in Tids, NEW n, t # k, Sole(n, t)' PROVE Sole(n, t)
  <2>1. \A u \in Serving!Active(d) : n \in Serving!NamesOf(d[u]) => u = t
    BY <1>1, <1>8 DEF Sole
  <2>2. \A u \in Tids : n \in Serving!NamesOf(db[u]) => n \in Serving!NamesOf(d[u])
    BY <1>2
  <2>3. QED BY <1>7, <2>1, <2>2 DEF Sole
<1>9. \A r \in Threads : InHand(r)' <=> InHand(r)
  BY DEF InHand
<1>10. /\ \A r, q \in Threads : InHand(r)' /\ InHand(q)' => r = q
       /\ \A r \in Threads : InHand(r)' => refresh'[r].tids \subseteq memory'.loaded
       /\ ~RootTold' => memory'.loaded = Serving!Active(db')
  BY <1>1, <1>4, <1>7, <1>9 DEF Route
<1>11. \A t \in Serving!Active(db') : ~RootTold' /\ ~Reading(t)' =>
         Serving!NamesOf(memory'.tenant[t]) \subseteq Serving!NamesOf(db'[t])
  BY <1>1, <1>2, <1>4, <1>6, <1>7 DEF Route
<1>12. \A t \in Serving!Active(db') : ~Told(t)' /\ ~Reading(t)' => Matches(memory'.tenant[t], db'[t])
  BY <1>1, <1>5, <1>6, <1>7 DEF Route
<1>13. \A t \in Serving!Active(db') : ~Told(t)' /\ ~Reading(t)' /\ ~Mapping(t)' =>
         \A n \in Serving!NamesOf(db'[t]) : Sole(n, t)' => memory'.names[n] = t
  BY <1>1, <1>5, <1>6, <1>7, <1>8 DEF Route
<1>14. QED BY <1>10, <1>11, <1>12, <1>13 DEF Route

LEMMA RouteWrite ==
    ASSUME RouteInv, TenantsInv, NEW w \in Workers,
           \/ Serving!Create(w) \/ Serving!UpdateCommit(w) \/ Serving!Delete(w)
           \/ Serving!Configure(w) \/ Serving!WizardCommit(w) \/ Serving!ActivateCommit(w)
    PROVE  RouteInv'
<1>1. CASE Serving!Create(w) \/ Serving!UpdateCommit(w) \/ Serving!Delete(w) \/ Serving!ActivateCommit(w)
  <2>1. \E d : Serving!Commit(w, Root, d)
    BY <1>1, CreateRows, UpdateRows, DeleteRows, ActivateRows
  <2>2. \/ refresh' = refresh
        \/ \E r \in Threads : /\ refresh[r] = Serving!Unoccupied
                              /\ refresh' = [refresh EXCEPT ![r] = [at |-> "due", of |-> 0]]
    BY <1>1 DEF Serving!Create, Serving!UpdateCommit, Serving!Delete, Serving!ActivateCommit, Serving!AtOnce
  <2>3. QED BY <2>1, <2>2, RouteRoot
<1>2. CASE Serving!Configure(w) \/ Serving!WizardCommit(w)
  <2>1. PICK t \in Tids : \E d :
          /\ Serving!Commit(w, t, d) /\ Rows(d, fresh) /\ d[t].active = db[t].active
          /\ \A u \in Tids : u # t => d[u] = db[u]
    BY <1>2, ConfigureRows, WizardRows
  <2>2. refresh' = refresh
    BY <1>2 DEF Serving!Configure, Serving!WizardCommit, Serving!AtOnce
  <2>3. writing[w].at # "answer"
    BY <1>2, NotAnswering
  <2>4. QED BY <2>1, <2>2, <2>3, RouteRoot, RouteOwn DEF Rows
<1>3. QED BY <1>1, <1>2

\* The steps of requests that refresh nothing.
LEMMA RouteSteps ==
    ASSUME RouteInv, TenantsInv, NEW w \in Workers,
           \/ Serving!UpdateBegin(w) \/ Serving!SignupBegin(w) \/ Serving!ActivateBegin(w)
           \/ Serving!WizardBegin(w) \/ Serving!Abort(w) \/ Serving!Get(w)
           \/ Serving!Keep(w) \/ Serving!Answer(w) \/ Serving!SignupCommit(w)
    PROVE  RouteInv'
<1>1. CASE \/ Serving!UpdateBegin(w) \/ Serving!SignupBegin(w) \/ Serving!ActivateBegin(w)
           \/ Serving!WizardBegin(w) \/ Serving!Abort(w) \/ Serving!Get(w)
  <2>1. /\ UNCHANGED <<db, memory, refresh, unsettled>>
        /\ \A v \in Workers : writing[v].at = "answer" => writing'[v] = writing[v]
    BY <1>1, TenantsRequest
  <2>2. (RootTold => RootTold') /\ \A t : Told(t) => Told(t)'
    BY <2>1 DEF RootTold, Told
  <2>3. QED BY <2>1, <2>2, RouteQuiet DEF InHand
<1>2. CASE Serving!Keep(w)
  <2>1. /\ UNCHANGED <<db, memory, refresh, unsettled>>
        /\ \A v \in Workers : writing[v].at = "answer" => writing'[v] = writing[v]
    BY <1>2 DEF Serving!Keep, TenantsInv
  <2>2. (RootTold => RootTold') /\ \A t : Told(t) => Told(t)'
    BY <2>1 DEF RootTold, Told
  <2>3. QED BY <2>1, <2>2, RouteQuiet DEF InHand
<1>3. CASE Serving!Answer(w)
  <2>1. PICK k : k = writing[w].tid
    OBVIOUS
  <2>2. PICK r \in Threads : /\ refresh[r] = [at |-> "idle"]
                             /\ refresh' = [refresh EXCEPT ![r] = [at |-> "due", of |-> k]]
    BY <1>3, <2>1 DEF Serving!Answer, Serving!Unoccupied
  <2>3. UNCHANGED <<db, memory, unsettled>> /\ \A v \in Workers \ {w} : writing'[v] = writing[v]
    BY <1>3 DEF Serving!Answer, TenantsInv
  <2>4. refresh'[r] = [at |-> "due", of |-> k] /\ \A s \in Threads \ {r} : refresh'[s] = refresh[s]
    BY <2>2 DEF TenantsInv
  <2>5. refresh'[r].at = "due" /\ refresh'[r].of = k /\ refresh[r].at = "idle"
    BY <2>2, <2>4
  <2>6. RootTold => RootTold'
    BY <2>1, <2>3, <2>4, <2>5 DEF RootTold
  <2>7. \A t : Told(t) => Told(t)'
    BY <2>1, <2>3, <2>4, <2>5, <2>6 DEF Told
  <2>8. \A s \in Threads : (InHand(s)' <=> InHand(s)) /\ (InHand(s) => refresh'[s] = refresh[s])
    BY <2>4, <2>5 DEF InHand
  <2>9. QED BY <2>3, <2>6, <2>7, <2>8, RouteQuiet
<1>4. CASE Serving!SignupCommit(w)
  <2>1. /\ UNCHANGED <<memory, refresh>> /\ unsettled' = (unsettled \/ writing[w].gone \cap Serving!Active(db) # {})
        /\ \A v \in Workers : writing[v].at = "answer" => writing'[v] = writing[v]
    BY <1>4 DEF Serving!SignupCommit, TenantsInv
  <2>2. (RootTold => RootTold') /\ \A t : Told(t) => Told(t)'
    BY <2>1 DEF RootTold, Told
  <2>3. CASE unsettled'
    BY <2>3 DEF RouteInv
  <2>4. CASE ~unsettled'
    <3>1. writing[w].gone \cap Serving!Active(db) = {}
      BY <2>1, <2>4
    <3>2. PICK k \in Tids : k = fresh + 1
      BY <1>4, SignupRows
    <3>3. db[k] = Serving!NoTenant
      BY <3>2, Conditions DEF TenantsInv
    <3>4. ~db[k].active /\ ~db'[k].active
      BY <1>4, <3>2, <3>3, SignupRows, NoTenantRow
    <3>5. \A t \in Tids \ {k} : db'[t] = IF t \in writing[w].gone THEN Serving!NoTenant ELSE db[t]
      BY <1>4, <3>2, SignupRows
    <3>6. Serving!Active(db') = Serving!Active(db)
      BY <3>1, <3>4, <3>5, NoTenantRow DEF Serving!Active
    <3>7. \A t \in Serving!Active(db) : db'[t] = db[t]
      BY <3>1, <3>4, <3>5 DEF Serving!Active
    <3>8. QED BY <2>1, <2>2, <3>6, <3>7, RouteQuiet DEF InHand
  <2>5. QED BY <2>3, <2>4
<1>5. QED BY <1>1, <1>2, <1>3, <1>4

LEMMA RouteRefreshBegin ==
    ASSUME RouteInv, TenantsInv, NEW r \in Threads, Serving!RefreshBegin(r)
    PROVE  RouteInv'
<1> SUFFICES ASSUME ~unsettled' PROVE Route'
  BY DEF RouteInv
<1>1. PICK of : of = refresh[r].of
  OBVIOUS
<1>2. PICK active : active = Serving!Active(db)
  OBVIOUS
<1>3. PICK tids : tids = IF of = Root THEN active ELSE {of} \cap active
  OBVIOUS
<1>4. PICK gone : gone = memory.loaded \ active
  OBVIOUS
<1>5. /\ refresh[r].at = "due" /\ UNCHANGED <<db, writing>>
      /\ refresh' = [refresh EXCEPT ![r] = IF tids = {} THEN [at |-> "idle"] ELSE [at |-> "read", tids |-> tids]]
  BY <1>1, <1>2, <1>3 DEF Serving!RefreshBegin, Serving!Unoccupied
<1>6. \A q \in Threads : ~InHand(q)
  BY DEF Serving!RefreshBegin, Serving!InProgress, InHand
<1>7. of # Root => Route
  BY <1>1 DEF Serving!RefreshBegin, RouteInv
<1>8. /\ memory'.loaded = (memory.loaded \ gone) \cup tids
      /\ memory'.tenant = [t \in Tids |->
                     IF t \in gone THEN Serving!Unloaded
                     ELSE IF t \in tids THEN [memory.tenant[t] EXCEPT !.names = {}]
                     ELSE memory.tenant[t]]
      /\ gone = {} => \A n \in Names : memory'.names[n] = memory.names[n]
  BY <1>1, <1>2, <1>3, <1>4 DEF Serving!RefreshBegin
<1>9. active \subseteq Tids /\ tids \subseteq active
  BY <1>2, <1>3 DEF Serving!Active
<1>10. /\ \A q \in Threads \ {r} : refresh'[q] = refresh[q]
       /\ refresh'[r] = IF tids = {} THEN [at |-> "idle"] ELSE [at |-> "read", tids |-> tids]
  BY <1>5 DEF TenantsInv
<1>11. /\ tids = {} => refresh'[r].at = "idle"
       /\ tids # {} => refresh'[r].at = "read" /\ refresh'[r].tids = tids
  BY <1>10
<1>12. \A q, s \in Threads : InHand(q)' /\ InHand(s)' => q = s
  BY <1>6, <1>10 DEF InHand
<1>13. \A q \in Threads : InHand(q)' => q = r /\ refresh'[q].tids = tids
  BY <1>6, <1>10, <1>11 DEF InHand
<1>14. \A q \in Threads : InHand(q)' => refresh'[q].tids \subseteq memory'.loaded
  BY <1>8, <1>13
<1>15. \A t \in tids : Reading(t)'
  BY <1>11 DEF Reading
<1>16. Serving!Active(db') = active
  BY <1>2, <1>5
<1>17. CASE of = Root
  <2>1. tids = active /\ memory'.loaded = active
    BY <1>3, <1>4, <1>8, <1>17
  <2>2. QED BY <1>12, <1>14, <1>15, <1>16, <2>1 DEF Route
<1>18. CASE of # Root
  <2> Route
    BY <1>7, <1>18
  <2>1. RootTold => RootTold'
    BY <1>1, <1>5, <1>10, <1>18 DEF RootTold
  <2>2. \A t \in active : Told(t) => Told(t)' \/ t \in tids
    BY <1>1, <1>3, <1>5, <1>10, <1>18, <2>1 DEF Told
  <2>3. ~RootTold' => memory.loaded = active /\ gone = {}
    BY <1>2, <1>4, <2>1 DEF Route
  <2>4. ~RootTold' => memory'.loaded = active
    BY <1>8, <1>9, <2>3
  <2>5. ASSUME NEW t \in active, ~RootTold'
        PROVE  /\ memory'.tenant[t].sub = memory.tenant[t].sub
               /\ memory'.tenant[t].host = memory.tenant[t].host
               /\ memory'.tenant[t].version = memory.tenant[t].version
               /\ Serving!NamesOf(memory'.tenant[t]) = Serving!NamesOf(memory.tenant[t])
    <3>1. PICK m \in Copy : m = memory.tenant[t]
      BY <1>9 DEF TenantsInv
    <3>2. PICK x : x = memory'.tenant[t]
      OBVIOUS
    <3>3. x = [m EXCEPT !.names = {}] \/ x = m
      BY <1>8, <1>9, <2>3, <2>5, <3>1, <3>2
    <3>4. x.sub = m.sub /\ x.host = m.host /\ x.version = m.version
      BY <3>3 DEF Copy
    <3>5. QED BY <3>1, <3>2, <3>4 DEF Serving!NamesOf
  <2>6. \A t : ~Reading(t) /\ ~Mapping(t)
    BY <1>6 DEF Reading, Mapping, InHand
  <2>7. \A t : ~Told(t)' => ~RootTold'
    BY DEF Told
  <2>8. \A t \in active : ~RootTold' =>
          Serving!NamesOf(memory'.tenant[t]) \subseteq Serving!NamesOf(db'[t])
    BY <1>2, <1>5, <2>1, <2>5, <2>6 DEF Route
  <2>9. \A t \in active : ~Told(t)' /\ ~Reading(t)' => Matches(memory'.tenant[t], db'[t])
    BY <1>2, <1>5, <1>15, <2>2, <2>5, <2>6, <2>7 DEF Route, Matches
  <2>10. ASSUME NEW t \in active, ~Told(t)', ~Reading(t)', NEW n \in Serving!NamesOf(db'[t]), Sole(n, t)'
         PROVE  memory'.names[n] = t
    <3>1. n \in Names
      BY <1>5, <1>9, <2>10 DEF TenantsInv, Row, Serving!Row, Serving!NamesOf
    <3>2. Sole(n, t)
      BY <1>2, <1>5, <1>16, <2>10 DEF Sole
    <3>3. ~Told(t)
      BY <1>15, <2>2, <2>10
    <3>4. memory.names[n] = t
      BY <1>2, <1>5, <2>6, <2>10, <3>2, <3>3 DEF Route
    <3>5. QED BY <1>8, <2>3, <2>7, <2>10, <3>1, <3>4
  <2>11. QED BY <1>12, <1>14, <1>16, <2>4, <2>8, <2>9, <2>10 DEF Route
<1>19. QED BY <1>17, <1>18

LEMMA RouteRefreshRead ==
    ASSUME RouteInv, TenantsInv, NEW r \in Threads, Serving!RefreshRead(r)
    PROVE  RouteInv'
<1> SUFFICES ASSUME ~unsettled' PROVE Route'
  BY DEF RouteInv
<1>1. UNCHANGED <<db, writing, unsettled>> /\ refresh[r].at = "read" /\ Route
  BY DEF Serving!RefreshRead, RouteInv
<1>2. PICK tids \in SUBSET Tids : tids = refresh[r].tids
  BY <1>1 DEF TenantsInv
<1>3. /\ tids \subseteq memory.loaded
      /\ \A q \in Threads : InHand(q) => q = r
  BY <1>1, <1>2 DEF Route, InHand
<1>4. memory'.loaded = memory.loaded /\ memory'.names = memory.names
  BY DEF Serving!RefreshRead, TenantsInv
<1>5. memory'.tenant = [t \in Tids |-> IF t \in tids THEN Serving!Loaded(t) ELSE memory.tenant[t]]
  BY <1>2, <1>3 DEF Serving!RefreshRead, TenantsInv
<1>6. /\ refresh'[r] = [at |-> "map", tids |-> tids]
      /\ \A q \in Threads \ {r} : refresh'[q] = refresh[q]
  BY <1>2, <1>3 DEF Serving!RefreshRead, TenantsInv
<1>7. refresh'[r].at = "map" /\ refresh'[r].tids = tids
  BY <1>6
<1>8. /\ \A q \in Threads : InHand(q)' => q = r
      /\ \A t : ~Reading(t)'
      /\ \A t : Mapping(t)' <=> t \in tids
      /\ \A t : ~Mapping(t)
      /\ \A t : Reading(t) <=> t \in tids
  BY <1>1, <1>2, <1>3, <1>6, <1>7 DEF InHand, Reading, Mapping
<1>9. (RootTold' <=> RootTold) /\ \A t : Told(t)' <=> Told(t)
  <2>1. \A q \in Threads : refresh'[q].at = "due" \/ refresh[q].at = "due" => refresh'[q] = refresh[q]
    BY <1>1, <1>6, <1>7
  <2>2. RootTold' <=> RootTold
    BY <1>1, <2>1 DEF RootTold
  <2>3. QED BY <1>1, <2>1, <2>2 DEF Told
<1>10. /\ \A q, s \in Threads : InHand(q)' /\ InHand(s)' => q = s
       /\ \A q \in Threads : InHand(q)' => refresh'[q].tids \subseteq memory'.loaded
       /\ ~RootTold' => memory'.loaded = Serving!Active(db')
  BY <1>1, <1>3, <1>4, <1>7, <1>8, <1>9 DEF Route
<1>11. ASSUME NEW t \in tids
       PROVE  /\ Matches(memory'.tenant[t], db[t])
              /\ Serving!NamesOf(memory'.tenant[t]) = Serving!NamesOf(db[t])
  <2>1. PICK m \in Copy : m = memory.tenant[t]
    BY DEF TenantsInv
  <2>2. PICK row : row = db[t]
    OBVIOUS
  <2>3. PICK x : x = memory'.tenant[t]
    OBVIOUS
  <2>4. x = [[[m EXCEPT !.version = row.version] EXCEPT !.sub = row.sub] EXCEPT !.host = row.host]
    BY <1>5, <2>1, <2>2, <2>3 DEF Serving!Loaded
  <2>5. x.sub = row.sub /\ x.host = row.host /\ x.version = row.version
    BY <2>4 DEF Copy
  <2>6. QED BY <2>2, <2>3, <2>5 DEF Matches, Serving!NamesOf
<1>12. \A t \in Tids \ tids : memory'.tenant[t] = memory.tenant[t]
  BY <1>5
<1>13. Serving!Active(db) \subseteq Tids
  BY DEF Serving!Active
<1>14. \A t \in Serving!Active(db') : ~RootTold' /\ ~Reading(t)' =>
         Serving!NamesOf(memory'.tenant[t]) \subseteq Serving!NamesOf(db'[t])
  BY <1>1, <1>8, <1>9, <1>11, <1>12, <1>13 DEF Route
<1>15. \A t \in Serving!Active(db') : ~Told(t)' /\ ~Reading(t)' => Matches(memory'.tenant[t], db'[t])
  BY <1>1, <1>8, <1>9, <1>11, <1>12, <1>13 DEF Route
<1>16. \A n, t : Sole(n, t)' <=> Sole(n, t)
  BY <1>1 DEF Sole
<1>17. \A t \in Serving!Active(db') : ~Told(t)' /\ ~Reading(t)' /\ ~Mapping(t)' =>
         \A n \in Serving!NamesOf(db'[t]) : Sole(n, t)' => memory'.names[n] = t
  BY <1>1, <1>4, <1>8, <1>9, <1>16 DEF Route
<1>18. QED BY <1>10, <1>14, <1>15, <1>17 DEF Route

LEMMA RouteRefreshMap ==
    ASSUME RouteInv, TenantsInv, NEW r \in Threads, Serving!RefreshMap(r)
    PROVE  RouteInv'
<1> SUFFICES ASSUME ~unsettled' PROVE Route'
  BY DEF RouteInv
<1>1. UNCHANGED <<db, writing, unsettled>> /\ refresh[r].at = "map" /\ Route
  BY DEF Serving!RefreshMap, RouteInv
<1>2. PICK tids \in SUBSET Tids : tids = refresh[r].tids
  BY <1>1 DEF TenantsInv
<1>3. /\ tids \subseteq memory.loaded
      /\ \A q \in Threads : InHand(q) => q = r
  BY <1>1, <1>2 DEF Route, InHand
<1>4. memory'.loaded = memory.loaded
  BY DEF Serving!RefreshMap, TenantsInv
<1>5. Serving!Reached(refresh[r].tids) = tids
  BY <1>2, <1>3 DEF Serving!Reached
<1>6. memory'.tenant = [t \in Tids |-> IF t \in tids
                   THEN [memory.tenant[t] EXCEPT !.names = @ \cup Serving!NamesOf(memory.tenant[t])]
                   ELSE memory.tenant[t]]
  BY <1>5 DEF Serving!RefreshMap, TenantsInv
<1>7. \A n : Serving!Named(n, tids) = {t \in tids : n \in Serving!NamesOf(memory.tenant[t])}
  BY DEF Serving!Named
<1>8. \A n \in Names : memory'.names[n] = IF Serving!Named(n, tids) = {} THEN memory.names[n]
                                    ELSE Serving!Latest(Serving!Named(n, tids))
  BY <1>5, <1>7 DEF Serving!RefreshMap, TenantsInv
<1>9. /\ refresh'[r] = [at |-> "idle"]
      /\ \A q \in Threads \ {r} : refresh'[q] = refresh[q]
  BY DEF Serving!RefreshMap, TenantsInv, Serving!Unoccupied
<1>10. refresh'[r].at = "idle"
  BY <1>9
<1>11. /\ \A q \in Threads : ~InHand(q)'
       /\ \A t : ~Reading(t)' /\ ~Mapping(t)' /\ ~Reading(t)
       /\ \A t : Mapping(t) <=> t \in tids
  BY <1>1, <1>2, <1>3, <1>9, <1>10 DEF InHand, Reading, Mapping
<1>12. (RootTold' <=> RootTold) /\ \A t : Told(t)' <=> Told(t)
  <2>1. \A q \in Threads : refresh'[q].at = "due" \/ refresh[q].at = "due" => refresh'[q] = refresh[q]
    BY <1>1, <1>9, <1>10
  <2>2. RootTold' <=> RootTold
    BY <1>1, <2>1 DEF RootTold
  <2>3. QED BY <1>1, <2>1, <2>2 DEF Told
<1>13. ASSUME NEW t \in Tids
       PROVE  /\ memory'.tenant[t].sub = memory.tenant[t].sub
              /\ memory'.tenant[t].host = memory.tenant[t].host
              /\ memory'.tenant[t].version = memory.tenant[t].version
              /\ Serving!NamesOf(memory'.tenant[t]) = Serving!NamesOf(memory.tenant[t])
  <2>1. PICK m \in Copy : m = memory.tenant[t]
    BY DEF TenantsInv
  <2>2. PICK x : x = memory'.tenant[t]
    OBVIOUS
  <2>3. PICK names : names = m.names \cup Serving!NamesOf(m)
    OBVIOUS
  <2>4. x = [m EXCEPT !.names = names] \/ x = m
    BY <1>6, <2>1, <2>2, <2>3
  <2>5. x.sub = m.sub /\ x.host = m.host /\ x.version = m.version
    BY <2>4 DEF Copy
  <2>6. QED BY <2>1, <2>2, <2>5 DEF Serving!NamesOf
<1>14. Serving!Active(db) \subseteq Tids /\ Serving!Active(db') = Serving!Active(db)
  BY <1>1 DEF Serving!Active
<1>15. /\ \A q, s \in Threads : InHand(q)' /\ InHand(s)' => q = s
       /\ \A q \in Threads : InHand(q)' => refresh'[q].tids \subseteq memory'.loaded
       /\ ~RootTold' => memory'.loaded = Serving!Active(db')
  BY <1>1, <1>4, <1>11, <1>12 DEF Route
<1>16. \A t \in Serving!Active(db') : ~RootTold' /\ ~Reading(t)' =>
         Serving!NamesOf(memory'.tenant[t]) \subseteq Serving!NamesOf(db'[t])
  BY <1>1, <1>11, <1>12, <1>13, <1>14 DEF Route
<1>17. \A t \in Serving!Active(db') : ~Told(t)' /\ ~Reading(t)' => Matches(memory'.tenant[t], db'[t])
  BY <1>1, <1>11, <1>12, <1>13, <1>14 DEF Route, Matches
<1>18. ASSUME NEW t \in Serving!Active(db), ~Told(t)', NEW n \in Serving!NamesOf(db[t]), Sole(n, t)'
       PROVE  memory'.names[n] = t
  <2>1. n \in Names
    BY <1>14 DEF TenantsInv, Row, Serving!Row, Serving!NamesOf
  <2>2. Sole(n, t)
    BY <1>1, <1>18 DEF Sole
  <2>3. ~Told(t) /\ ~RootTold
    BY <1>12, <1>18 DEF Told
  <2>4. memory.loaded = Serving!Active(db)
    BY <1>1, <2>3 DEF Route
  <2>5. \A u \in Serving!Named(n, tids) : u = t
    <3> SUFFICES ASSUME NEW u \in Serving!Named(n, tids) PROVE u = t
      OBVIOUS
    <3>1. u \in tids /\ n \in Serving!NamesOf(memory.tenant[u])
      BY <1>7, <2>1
    <3>2. u \in Serving!Active(db)
      BY <1>3, <2>4, <3>1
    <3>3. n \in Serving!NamesOf(db[u])
      BY <1>1, <1>11, <2>3, <3>1, <3>2 DEF Route
    <3>4. QED BY <2>2, <3>2, <3>3 DEF Sole
  <2>6. CASE t \in tids
    <3>1. Matches(memory.tenant[t], db[t])
      BY <1>1, <1>11, <2>3 DEF Route
    <3>2. n \in Serving!NamesOf(memory.tenant[t])
      BY <3>1 DEF Matches, Serving!NamesOf
    <3>3. Serving!Named(n, tids) = {t}
      BY <1>7, <2>1, <2>5, <2>6, <3>2
    <3>4. t \in Nat
      BY <1>14, Conditions
    <3>5. Serving!Latest({t}) = t
      BY <3>4 DEF Serving!Latest
    <3>6. QED BY <1>8, <2>1, <3>3, <3>5
  <2>7. CASE t \notin tids
    <3>1. Serving!Named(n, tids) = {}
      BY <1>7, <2>1, <2>5, <2>7
    <3>2. memory.names[n] = t
      BY <1>1, <1>11, <2>2, <2>3, <2>7 DEF Route
    <3>3. QED BY <1>8, <2>1, <3>1, <3>2
  <2>8. QED BY <2>6, <2>7
<1>19. QED BY <1>1, <1>14, <1>15, <1>16, <1>17, <1>18 DEF Route

LEMMA RouteStep ==
    ASSUME RouteInv, TenantsInv, Serving!Next
    PROVE  RouteInv'
  BY RouteWrite, RouteSteps, RouteRefreshBegin, RouteRefreshRead, RouteRefreshMap DEF Serving!Next

ServedInv == KeptInv /\ RouteInv

LEMMA ServedKept ==
    ASSUME ServedInv, [MCNext]_allVars
    PROVE  ServedInv'
<1>1. CASE UNCHANGED serving
  <2>1. UNCHANGED <<db, memory, answers, writing, refresh, outdated, unsettled>>
    BY <1>1 DEF serving
  <2>2. Serving!AnswersUpToDate'
    BY <2>1 DEF ServedInv, KeptInv, Serving!AnswersUpToDate
  <2>3. (RootTold => RootTold') /\ \A t : Told(t) => Told(t)'
    BY <2>1 DEF RootTold, Told
  <2>4. RouteInv'
    BY <2>1, <2>3, RouteQuiet DEF ServedInv, InHand
  <2>5. QED BY <2>2, <2>4, TenantsKept DEF ServedInv, KeptInv
<1>2. CASE Serving!Next
  BY <1>2, TenantsStep, KeptStep, RouteStep DEF ServedInv, KeptInv
<1>3. QED BY <1>1, <1>2 DEF MCNext, allVars, serving

LEMMA RoutedWell ==
    ASSUME TenantsInv, RouteInv
    PROVE  Serving!RoutedToOwner
<1> SUFFICES ASSUME Serving!Settled, Serving!NamesApart
             PROVE  /\ memory.loaded = Serving!Active(db)
                    /\ \A t \in Serving!Active(db) : \A n \in Serving!NamesOf(db[t]) :
                         memory.names[n] = t /\ memory.tenant[t].version = db[t].version
  BY DEF Serving!RoutedToOwner
<1>1. Route /\ \A w \in Workers : writing[w].at # "answer"
  BY DEF Serving!Settled, RouteInv
<1>2. \A r \in Threads : refresh[r].at = "idle"
  BY DEF Serving!Settled, Serving!Unoccupied
<1>3. ~RootTold /\ \A t : ~Told(t) /\ ~Reading(t) /\ ~Mapping(t)
  BY <1>1, <1>2 DEF RootTold, Told, Reading, Mapping
<1>4. memory.loaded = Serving!Active(db)
  BY <1>1, <1>3 DEF Route
<1>5. ASSUME NEW t \in Serving!Active(db), NEW n \in Serving!NamesOf(db[t])
      PROVE  memory.names[n] = t /\ memory.tenant[t].version = db[t].version
  <2>1. ASSUME NEW u \in Serving!Active(db), n \in Serving!NamesOf(db[u]), u # t
        PROVE  FALSE
    <3>1. t \in Tids /\ u \in Tids
      BY DEF Serving!Active
    <3>2. n \in {db[t].sub, db[t].host} \cap {db[u].sub, db[u].host} /\ n # Serving!NoName
      BY <2>1 DEF Serving!NamesOf
    <3>3. QED BY <2>1, <3>1, <3>2 DEF Serving!NamesApart
  <2>2. Sole(n, t)
    BY <2>1 DEF Sole
  <2>3. QED BY <1>1, <1>3, <2>2 DEF Route, Matches
<1>6. QED BY <1>4, <1>5

\* Once every write has been told, requests are routed to the tenant that has the name,
\* and an answer that is kept is what the database holds (db_refresh_tenant_cache,
\* decorator_cache_get and decorator_cache_invalidate).
THEOREM Served == MCSpec => []TenantsServed
<1>1. MCInit => ServedInv
  <2> SUFFICES ASSUME MCInit PROVE ServedInv
    OBVIOUS
  <2>1. TenantsInv /\ RouteInv
    BY TenantsBegin, RouteBegin DEF MCInit
  <2>2. Serving!AnswersUpToDate
    BY DEF MCInit, Serving!Init, Serving!AnswersUpToDate
  <2>3. QED BY <2>1, <2>2 DEF ServedInv, KeptInv
<1>2. ServedInv /\ [MCNext]_allVars => ServedInv'
  BY ServedKept
<1>3. ServedInv => TenantsServed
  BY RoutedWell DEF ServedInv, KeptInv, TenantsServed
<1>4. QED BY <1>1, <1>2, <1>3, PTL DEF MCSpec

-----------------------------------------------------------------------------
(***************************************************************************)
(* Limits                                                                  *)
(***************************************************************************)

\* The limits and the periods are numbers.
LEMMA LimitFacts ==
    ASSUME NEW kind \in Limited!Kinds
    PROVE  MCLimit(kind) \in Nat /\ MCPeriod(kind) \in Nat
  BY EntryAssumption DEF Limited!LimitsAssumption

\* The limits a request meets.
LEMMA OrderFacts ==
    ASSUME NEW a, NEW t, NEW o, o = Limited!Order(class, a, t)
    PROVE  /\ class = "operation" => o = Limited!OfReport(a)
           /\ class = "csp" =>
                o = IF a = Tor THEN <<Limited!System>> ELSE <<Limited!OfAddress(a), Limited!System>>
           /\ class = "signup" =>
                o = IF a = Tor THEN <<Limited!System>>
                    ELSE <<Limited!AtOnce(a), Limited!OfAddress(a), Limited!System>>
           /\ class \notin {"operation", "csp", "signup"} =>
                o = IF a = Tor THEN <<Limited!OfTenant(t), Limited!System>>
                    ELSE <<Limited!Own(a, t), Limited!OfAddress(a), Limited!OfTenant(t), Limited!System>>
<1>1. class = "operation" => o = Limited!OfReport(a)
  BY DEF Limited!Order
<1>2. class = "csp" =>
        o = IF a = Tor THEN <<Limited!System>> ELSE <<Limited!OfAddress(a), Limited!System>>
  BY DEF Limited!Order
<1>3. class = "signup" =>
        o = IF a = Tor THEN <<Limited!System>>
            ELSE <<Limited!AtOnce(a), Limited!OfAddress(a), Limited!System>>
  BY DEF Limited!Order
<1>4. class \notin {"operation", "csp", "signup"} =>
        o = IF a = Tor THEN <<Limited!OfTenant(t), Limited!System>>
            ELSE <<Limited!Own(a, t), Limited!OfAddress(a), Limited!OfTenant(t), Limited!System>>
  BY DEF Limited!Order
<1>5. QED BY <1>1, <1>2, <1>3, <1>4

\* Their number and their kinds.
LEMMA OrderLength ==
    ASSUME NEW a, NEW t, NEW o, o = Limited!Order(class, a, t)
    PROVE  \E n \in 0 .. 4 : /\ o \in [1 .. n -> Range(o)]
                             /\ \A i \in 1 .. n : o[i][1] \in Limited!Kinds
<1>0. DEFINE K == Limited!Kinds
<1>1. CASE class = "operation"
  <2>1. o = Limited!OfReport(a)
    BY <1>1, OrderFacts
  <2>2. o \in [1 .. 3 -> Range(o)] /\ \A i \in 1 .. 3 : o[i][1] \in K
    BY <2>1 DEF Limited!OfReport, Limited!Kinds, Range
  <2>3. QED BY <2>2
<1>2. CASE class = "csp"
  <2>1. o = IF a = Tor THEN <<Limited!System>> ELSE <<Limited!OfAddress(a), Limited!System>>
    BY <1>2, OrderFacts
  <2>2. CASE a = Tor
    <3>1. o \in [1 .. 1 -> Range(o)] /\ \A i \in 1 .. 1 : o[i][1] \in K
      BY <2>1, <2>2 DEF Limited!System, Limited!Kinds, Range
    <3>2. QED BY <3>1
  <2>3. CASE a # Tor
    <3>1. o \in [1 .. 2 -> Range(o)] /\ \A i \in 1 .. 2 : o[i][1] \in K
      BY <2>1, <2>3 DEF Limited!System, Limited!OfAddress, Limited!Kinds, Range
    <3>2. QED BY <3>1
  <2>4. QED BY <2>2, <2>3
<1>3. CASE class = "signup"
  <2>1. o = IF a = Tor THEN <<Limited!System>>
            ELSE <<Limited!AtOnce(a), Limited!OfAddress(a), Limited!System>>
    BY <1>3, OrderFacts
  <2>2. CASE a = Tor
    <3>1. o \in [1 .. 1 -> Range(o)] /\ \A i \in 1 .. 1 : o[i][1] \in K
      BY <2>1, <2>2 DEF Limited!System, Limited!Kinds, Range
    <3>2. QED BY <3>1
  <2>3. CASE a # Tor
    <3>1. o \in [1 .. 3 -> Range(o)] /\ \A i \in 1 .. 3 : o[i][1] \in K
      BY <2>1, <2>3 DEF Limited!System, Limited!OfAddress, Limited!AtOnce, Limited!Kinds, Range
    <3>2. QED BY <3>1
  <2>4. QED BY <2>2, <2>3
<1>4. CASE class \notin {"operation", "csp", "signup"}
  <2>1. o = IF a = Tor THEN <<Limited!OfTenant(t), Limited!System>>
            ELSE <<Limited!Own(a, t), Limited!OfAddress(a), Limited!OfTenant(t), Limited!System>>
    BY <1>4, OrderFacts
  <2>2. CASE a = Tor
    <3>1. o \in [1 .. 2 -> Range(o)] /\ \A i \in 1 .. 2 : o[i][1] \in K
      BY <2>1, <2>2 DEF Limited!System, Limited!OfTenant, Limited!Kinds, Range
    <3>2. QED BY <3>1
  <2>3. CASE a # Tor
    <3>1. o \in [1 .. 4 -> Range(o)] /\ \A i \in 1 .. 4 : o[i][1] \in K
      BY <2>1, <2>3 DEF Limited!System, Limited!OfAddress, Limited!Own, Limited!OfTenant,
                        Limited!Kinds, Range
    <3>2. QED BY <3>1
  <2>4. QED BY <2>2, <2>3
<1>5. QED BY <1>1, <1>2, <1>3, <1>4

LEMMA KeyFacts ==
    /\ \A k \in Limited!Keys : \E a \in Addresses, t \in {1, 2} : k \in Range(Limited!Order(class, a, t))
    /\ \A a \in Addresses, t \in {1, 2} : Range(Limited!Order(class, a, t)) \subseteq Limited!Keys
    /\ \A k \in Limited!Keys : k[1] \in Limited!Kinds
<1>1. Limited!Keys = UNION {Range(Limited!Order(class, c[1], c[2])) : c \in Addresses \X {1, 2}}
  BY DEF Limited!Keys, Limited!Callers, Limited!Range, Range
<1>2. \A k \in Limited!Keys : \E a \in Addresses, t \in {1, 2} : k \in Range(Limited!Order(class, a, t))
  BY <1>1
<1>3. \A a \in Addresses, t \in {1, 2} : Range(Limited!Order(class, a, t)) \subseteq Limited!Keys
  <2> SUFFICES ASSUME NEW a \in Addresses, NEW t \in {1, 2}
               PROVE  Range(Limited!Order(class, a, t)) \subseteq Limited!Keys
    OBVIOUS
  <2>1. PICK c \in Addresses \X {1, 2} : c = <<a, t>>
    OBVIOUS
  <2>2. c[1] = a /\ c[2] = t
    BY <2>1
  <2>3. QED BY <1>1, <2>2
<1>4. ASSUME NEW k \in Limited!Keys PROVE k[1] \in Limited!Kinds
  <2>1. PICK a \in Addresses, t \in {1, 2} : k \in Range(Limited!Order(class, a, t))
    BY <1>2
  <2>2. PICK o : o = Limited!Order(class, a, t)
    OBVIOUS
  <2>3. PICK n \in 0 .. 4 : o \in [1 .. n -> Range(o)] /\ \A i \in 1 .. n : o[i][1] \in Limited!Kinds
    BY <2>2, OrderLength
  <2>4. QED BY <2>1, <2>2, <2>3 DEF Range
<1>5. QED BY <1>2, <1>3, <1>4

\* What a request that comes to a limit of the address has passed.
LEMMA NarrowerFirst ==
    ASSUME NEW a \in Addresses \ {Tor}, NEW t \in {1, 2}, NEW o, o = Limited!Order(class, a, t),
           NEW n \in Limited!Keys, NEW w \in Limited!Keys, Limited!Narrower(n, w, a),
           NEW j \in DOMAIN o, o[j] = w
    PROVE  \E i \in DOMAIN o : i < j /\ o[i] = n
<1> PICK b \in Addresses, u \in {1, 2} : n \in Range(Limited!Order(class, b, u))
  BY KeyFacts
<1> PICK p : p = Limited!Order(class, b, u)
  OBVIOUS
<1> USE DEF Limited!OfAddress, Limited!System, Limited!AtOnce, Limited!Own, Limited!OfTenant, Limited!OfReport
<1>1. CASE class = "operation"
  <2>1. o = Limited!OfReport(a) /\ p = Limited!OfReport(b)
    BY <1>1, OrderFacts
  <2>2. n \in {<<"second", b, 0>>, <<"minute", b, 0>>, <<"hour", b, 0>>}
    BY <2>1 DEF Range
  <2>3. DOMAIN o = 1 .. 3
    BY <2>1
  <2>4. PICK i, k \in 1 .. 3 : i < k /\ n = o[i] /\ w = o[k]
    BY <1>1, <2>1, <2>2 DEF Limited!Narrower
  <2>5. k = j
    BY <2>1, <2>3, <2>4
  <2>6. QED BY <2>3, <2>4, <2>5
<1>2. CASE class = "csp"
  <2>1. o = <<Limited!OfAddress(a), Limited!System>>
    BY <1>2, OrderFacts
  <2>2. n[1] \in {"ip", "system"}
    BY <1>2, OrderFacts DEF Range
  <2>3. n = Limited!OfAddress(a) /\ w = Limited!System
    BY <1>2, <2>2 DEF Limited!Narrower
  <2>4. j = 2 /\ o[1] = n /\ 1 \in DOMAIN o
    BY <2>1, <2>3
  <2>5. QED BY <2>4
<1>3. CASE class = "signup"
  <2>1. o = <<Limited!AtOnce(a), Limited!OfAddress(a), Limited!System>>
    BY <1>3, OrderFacts
  <2>2. n[1] \in {"ip_minute", "ip", "system"}
    BY <1>3, OrderFacts DEF Range
  <2>3. \/ n = Limited!OfAddress(a) /\ w = Limited!System
        \/ n = Limited!AtOnce(a) /\ w \in {Limited!OfAddress(a), Limited!System}
    BY <1>3, <2>2 DEF Limited!Narrower
  <2>4. DOMAIN o = 1 .. 3 /\ o[1] = Limited!AtOnce(a) /\ o[2] = Limited!OfAddress(a) /\ o[3] = Limited!System
    BY <2>1
  <2>5. QED BY <2>3, <2>4
<1>4. CASE class \notin {"operation", "csp", "signup"}
  <2>1. o = <<Limited!Own(a, t), Limited!OfAddress(a), Limited!OfTenant(t), Limited!System>>
    BY <1>4, OrderFacts
  <2>2. n[1] \in {"tenant_ip", "ip", "tenant", "system"}
    BY <1>4, OrderFacts DEF Range
  <2>3. \/ n = Limited!OfAddress(a) /\ w = Limited!System
        \/ \E s \in {1, 2} : n = Limited!Own(a, s) /\ w = Limited!OfTenant(s)
    BY <1>4, <2>2 DEF Limited!Narrower
  <2>4. /\ DOMAIN o = 1 .. 4 /\ o[1] = Limited!Own(a, t) /\ o[2] = Limited!OfAddress(a)
        /\ o[3] = Limited!OfTenant(t) /\ o[4] = Limited!System
    BY <2>1
  <2>5. QED BY <2>3, <2>4
<1>5. QED BY <1>1, <1>2, <1>3, <1>4

LEMMA Products ==
    ASSUME NEW x \in Nat, NEW y \in Nat, NEW p \in Nat, NEW l \in Nat, NEW at \in Nat, NEW now1 \in Nat
    PROVE  /\ x * p \in Nat
           /\ (x + 1) * p = x * p + p
           /\ l * (p + now1) = l * (p + at) + (now1 - at) * l
           /\ x <= y => x * p <= y * p
  OBVIOUS

\* A bucket has given no more than it was filled with, and what an address takes of a
\* wider limit it takes of its own.
BucketsInv ==
    /\ day \in Nat
    /\ charged \in [Limited!Keys -> [Addresses -> Nat]]
    /\ ~dropped =>
         /\ \A k \in DOMAIN cache :
              k \in Limited!Keys /\ cache[k].parts \in Nat /\ cache[k].at \in Nat /\ cache[k].at <= day
         /\ \A k \in Limited!Keys : \A a \in Addresses :
              IF k \in DOMAIN cache
              THEN charged[k][a] * MCPeriod(k[1]) + cache[k].parts
                     <= MCLimit(k[1]) * (MCPeriod(k[1]) + cache[k].at)
              ELSE charged[k][a] = 0
         /\ \A a \in Addresses \ {Tor} : \A n, w \in Limited!Keys :
              Limited!Narrower(n, w, a) => charged[w][a] <= charged[n][a]

\* What a bucket holds when it is looked at: no more than its limit has filled it with,
\* less what was taken.
LEMMA PartsFacts ==
    ASSUME BucketsInv, ~dropped, NEW k \in Limited!Keys
    PROVE  /\ Limited!Parts(k) \in Nat /\ MCPeriod(k[1]) \in Nat /\ MCLimit(k[1]) \in Nat
           /\ \A a \in Addresses : charged[k][a] \in Nat
           /\ \A a \in Addresses : charged[k][a] * MCPeriod(k[1]) + Limited!Parts(k)
                                    <= MCLimit(k[1]) * (MCPeriod(k[1]) + day)
<1> PICK p, l : p = MCPeriod(k[1]) /\ l = MCLimit(k[1])
  OBVIOUS
<1>1. p \in Nat /\ l \in Nat /\ day \in Nat /\ Burst \in Nat
  BY KeyFacts, LimitFacts, EntryAssumption DEF BucketsInv, Limited!LimitsAssumption
<1>2. \A a \in Addresses : charged[k][a] \in Nat
  BY DEF BucketsInv
<1> PICK b : b = Limited!Bucket(k)
  OBVIOUS
<1>3. /\ b.parts \in Nat /\ b.at \in Nat /\ b.at <= day
      /\ \A a \in Addresses : charged[k][a] * p + b.parts <= l * (p + b.at)
  <2>1. CASE k \in DOMAIN cache
    <3>1. b = cache[k]
      BY <2>1 DEF Limited!Bucket, Limited!Known
    <3>2. QED BY <2>1, <3>1 DEF BucketsInv
  <2>2. CASE k \notin DOMAIN cache
    <3>1. b = [parts |-> l * p, at |-> day]
      BY <2>2 DEF Limited!Bucket, Limited!Known
    <3>2. \A a \in Addresses : charged[k][a] = 0
      BY <2>2 DEF BucketsInv
    <3>3. l * p \in Nat /\ l * p <= l * (p + day) /\ 0 * p = 0
      BY <1>1
    <3>4. QED BY <1>1, <3>1, <3>2, <3>3
  <2>3. QED BY <2>1, <2>2
<1> PICK full \in Nat : full = Burst * p
  BY <1>1
<1> PICK filled \in Nat : filled = b.parts + (day - b.at) * l
  <2>1. PICK d \in Nat : d = day - b.at
    BY <1>1, <1>3
  <2>2. d * l \in Nat
    BY <1>1
  <2>3. QED BY <1>3, <2>1, <2>2
<1>4. Limited!Parts(k) = Limited!Min({full, filled})
  BY DEF Limited!Parts
<1>5. Limited!Parts(k) \in Nat /\ Limited!Parts(k) <= filled
  <2>1. \E x \in {full, filled} : \A y \in {full, filled} : x <= y
    OBVIOUS
  <2>2. PICK m : m = Limited!Min({full, filled})
    OBVIOUS
  <2>3. m \in {full, filled} /\ \A y \in {full, filled} : m <= y
    BY <2>1, <2>2 DEF Limited!Min
  <2>4. QED BY <1>4, <2>2, <2>3
<1>6. ASSUME NEW a \in Addresses PROVE charged[k][a] * p + Limited!Parts(k) <= l * (p + day)
  <2>1. PICK x \in Nat : x = charged[k][a]
    BY <1>2
  <2>2. x * p \in Nat
    BY <1>1
  <2>3. l * (p + day) = l * (p + b.at) + (day - b.at) * l
    BY <1>1, <1>3, Products
  <2>4. PICK r \in Int, f \in Int, g \in Int : r = l * (p + b.at) /\ f = (day - b.at) * l /\ g = l * (p + day)
    BY <1>1, <1>3
  <2>5. x * p + b.parts <= r /\ filled = b.parts + f /\ g = r + f
    BY <1>3, <2>1, <2>3, <2>4
  <2>6. x * p + Limited!Parts(k) <= g
    BY <1>3, <1>5, <2>2, <2>5
  <2>7. QED BY <2>1, <2>4, <2>6
<1>7. QED BY <1>1, <1>2, <1>5, <1>6

\* The limits that are looked at are the first ones of those a request meets; all but
\* the last one let it pass.
LEMMA AskedFacts ==
    ASSUME NEW a \in Addresses, NEW t \in {1, 2}, NEW o, o = Limited!Order(class, a, t),
           NEW s, s = Limited!Asked(a, t)
    PROVE  /\ Range(s) \subseteq Range(o)
           /\ \A k \in Range(s) : \E j \in DOMAIN o :
                o[j] = k /\ \A i \in DOMAIN o : i < j => o[i] \in Range(s) /\ Limited!Free(o[i])
<1> PICK n \in 0 .. 4 : o \in [1 .. n -> Range(o)]
  BY OrderLength
<1> PICK S : S = Range(o)
  OBVIOUS
<1> DEFINE refuse == {i \in 1 .. n : ~Limited!Free(o[i])}
<1>1. o \in Seq(S) /\ DOMAIN o = 1 .. n /\ Len(o) = n /\ \A i \in 1 .. n : o[i] \in S
  <2>1. o \in Seq(S)
    OBVIOUS
  <2>2. QED BY <2>1, LenProperties
<1> PICK m : m = IF refuse = {} THEN n ELSE Limited!Min(refuse)
  OBVIOUS
<1>2. s = SubSeq(o, 1, m)
  BY <1>1 DEF Limited!Asked
<1>3. m \in 0 .. n /\ \A i \in 1 .. n : i < m => Limited!Free(o[i])
  <2>1. CASE refuse = {}
    BY <2>1
  <2>2. CASE refuse # {}
    <3> PICK R : R = refuse
      OBVIOUS
    <3> HIDE DEF refuse
    <3>1. R \subseteq 1 .. 4 /\ R # {}
      BY <2>2 DEF refuse
    <3>2. \E x \in R : \A y \in R : x <= y
      <4>1. \A y \in R : y = 1 \/ y = 2 \/ y = 3 \/ y = 4
        BY <3>1
      <4>2. PICK x : x = IF 1 \in R THEN 1 ELSE IF 2 \in R THEN 2 ELSE IF 3 \in R THEN 3 ELSE 4
        OBVIOUS
      <4>3. x \in R
        BY <3>1, <4>1, <4>2
      <4>4. \A y \in R : x <= y
        BY <4>1, <4>2
      <4>5. QED BY <4>3, <4>4
    <3>3. m \in R /\ \A y \in R : m <= y
      BY <2>2, <3>2 DEF Limited!Min
    <3>4. m \in 1 .. n
      BY <3>3 DEF refuse
    <3>5. \A i \in 1 .. n : i < m => i \notin R
      BY <3>3, <3>4
    <3>6. \A i \in 1 .. n : i \notin R => Limited!Free(o[i])
      BY DEF refuse
    <3>7. QED BY <3>4, <3>5, <3>6
  <2>3. QED BY <2>1, <2>2
<1> HIDE DEF refuse
<1>4. DOMAIN s = 1 .. m /\ \A i \in 1 .. m : s[i] = o[i]
  <2>1. \A i \in 1 .. m : o[i] \in S
    BY <1>1, <1>3
  <2>2. /\ SubSeq(o, 1, m) \in Seq(S)
        /\ Len(SubSeq(o, 1, m)) = IF 1 <= m THEN m - 1 + 1 ELSE 0
        /\ \A i \in 1 .. m - 1 + 1 : SubSeq(o, 1, m)[i] = o[1 + i - 1]
    BY <1>1, <1>3, <2>1, SubSeqProperties
  <2>3. s \in Seq(S) /\ Len(s) = m /\ \A i \in 1 .. m : s[i] = o[i]
    BY <1>2, <1>3, <2>2
  <2>4. QED BY <2>3, LenProperties
<1>5. Range(s) \subseteq Range(o)
  <2>1. \A i \in DOMAIN s : i \in DOMAIN o /\ s[i] = o[i]
    BY <1>1, <1>3, <1>4
  <2>2. QED BY <2>1 DEF Range
<1>6. ASSUME NEW k \in Range(s)
      PROVE  \E j \in DOMAIN o :
               o[j] = k /\ \A i \in DOMAIN o : i < j => o[i] \in Range(s) /\ Limited!Free(o[i])
  <2>1. PICK j \in 1 .. m : s[j] = k
    BY <1>4 DEF Range
  <2>2. j \in DOMAIN o /\ o[j] = k
    BY <1>1, <1>3, <1>4, <2>1
  <2>3. ASSUME NEW i \in DOMAIN o, i < j PROVE o[i] \in Range(s) /\ Limited!Free(o[i])
    <3>1. i \in 1 .. m /\ i \in 1 .. n /\ i < m
      BY <1>1, <1>3, <2>1, <2>3
    <3>2. QED BY <1>3, <1>4, <3>1 DEF Range
  <2>4. QED BY <2>2, <2>3
<1>7. QED BY <1>5, <1>6

LEMMA BucketsRequest ==
    ASSUME BucketsInv, ~dropped, NEW c \in Addresses, NEW t \in {1, 2}, Limited!Request(c, t)
    PROVE  BucketsInv'
<1> PICK s : s = Limited!Asked(c, t)
  OBVIOUS
<1> PICK o : o = Limited!Order(class, c, t)
  OBVIOUS
<1> PICK R : R = Range(s)
  OBVIOUS
<1>1. R \subseteq Limited!Keys
  BY AskedFacts, KeyFacts
<1>2. day' = day /\ class' = class /\ Limited!Keys' = Limited!Keys /\ day \in Nat
  BY DEF Limited!Request, Limited!Keys, BucketsInv
<1>3. charged' = [k \in Limited!Keys |->
          IF k \notin R \/ ~Limited!Free(k) THEN charged[k] ELSE [charged[k] EXCEPT ![c] = @ + 1]]
  BY DEF Limited!Request, BucketsInv, Limited!Range, Range
<1>4. ASSUME NEW k \in Limited!Keys, NEW a \in Addresses
      PROVE  /\ charged[k][a] \in Nat
             /\ charged'[k][a] = IF k \in R /\ Limited!Free(k) /\ a = c
                                 THEN charged[k][a] + 1 ELSE charged[k][a]
             /\ charged'[k] \in [Addresses -> Nat]
  <2>1. PICK f \in [Addresses -> Nat] : f = charged[k]
    BY DEF BucketsInv
  <2>2. charged'[k] = IF k \notin R \/ ~Limited!Free(k) THEN f ELSE [f EXCEPT ![c] = @ + 1]
    BY <1>3, <2>1
  <2>3. QED BY <2>1, <2>2
<1>5. charged' \in [Limited!Keys -> [Addresses -> Nat]]
  BY <1>3, <1>4
<1> SUFFICES ASSUME ~dropped'
             PROVE  /\ \A k \in DOMAIN cache' :
                         /\ k \in Limited!Keys /\ cache'[k].parts \in Nat
                         /\ cache'[k].at \in Nat /\ cache'[k].at <= day
                    /\ \A k \in Limited!Keys : \A a \in Addresses :
                         IF k \in DOMAIN cache'
                         THEN charged'[k][a] * MCPeriod(k[1]) + cache'[k].parts
                                <= MCLimit(k[1]) * (MCPeriod(k[1]) + cache'[k].at)
                         ELSE charged'[k][a] = 0
                    /\ \A a \in Addresses \ {Tor} : \A n, w \in Limited!Keys :
                         Limited!Narrower(n, w, a) => charged'[w][a] <= charged'[n][a]
  BY <1>2, <1>5 DEF BucketsInv, Limited!Narrower
<1>6. DOMAIN cache' = DOMAIN cache \cup R
  <2>1. DOMAIN cache \cup R \subseteq DOMAIN cache'
    BY DEF Limited!Request, Limited!Range, Range
  <2>2. cache' = Limited!After(s)
    BY DEF Limited!Request
  <2>3. DOMAIN cache' \subseteq DOMAIN cache \cup R
    BY <2>2 DEF Limited!After, Limited!Range, Range
  <2>4. QED BY <2>1, <2>3
<1>7. ASSUME NEW k \in DOMAIN cache'
      PROVE  IF k \in R
             THEN /\ cache'[k].at = day
                  /\ cache'[k].parts = IF Limited!Free(k) THEN Limited!Parts(k) - MCPeriod(k[1])
                                       ELSE Limited!Parts(k)
             ELSE cache'[k].at = cache[k].at /\ cache'[k].parts = cache[k].parts
  <2>1. PICK b : b = IF k \in R THEN Limited!Looked(k) ELSE cache[k]
    OBVIOUS
  <2>2. cache'[k] = [parts |-> b.parts, at |-> b.at, age |-> Limited!Age(s, k)]
    BY <1>7, <2>1 DEF Limited!Request, Limited!After, Limited!Range, Range
  <2>3. cache'[k].parts = b.parts /\ cache'[k].at = b.at
    BY <2>2
  <2>4. QED BY <2>1, <2>3 DEF Limited!Looked
<1>8. ASSUME NEW k \in R
      PROVE  /\ cache'[k].parts \in Nat /\ cache'[k].at \in Nat /\ cache'[k].at <= day
             /\ \A a \in Addresses :
                  charged'[k][a] * MCPeriod(k[1]) + cache'[k].parts
                    <= MCLimit(k[1]) * (MCPeriod(k[1]) + cache'[k].at)
  <2>1. k \in Limited!Keys
    BY <1>1
  <2>2. PICK q \in Nat, p \in Nat, l \in Nat :
             q = Limited!Parts(k) /\ p = MCPeriod(k[1]) /\ l = MCLimit(k[1])
    BY <2>1, PartsFacts
  <2>3. Limited!Free(k) <=> q >= p
    BY <2>2 DEF Limited!Free
  <2>4. cache'[k].at = day /\ cache'[k].parts = IF Limited!Free(k) THEN q - p ELSE q
    BY <1>6, <1>7, <2>2
  <2>5. ASSUME NEW a \in Addresses
        PROVE  charged'[k][a] * p + cache'[k].parts <= l * (p + day)
    <3>1. PICK x \in Nat : x = charged[k][a]
      BY <1>4, <2>1
    <3>2. x * p \in Nat /\ (x + 1) * p = x * p + p /\ l * (p + day) \in Nat
      BY <1>2, <2>2, Products
    <3>3. PICK y \in Nat, z \in Nat : y = x * p /\ z = l * (p + day)
      BY <3>2
    <3>4. y + q <= z
      BY <2>1, <2>2, <3>1, <3>3, PartsFacts
    <3>5. charged'[k][a] = x \/ (charged'[k][a] = x + 1 /\ Limited!Free(k))
      BY <1>4, <2>1, <3>1
    <3>6. CASE charged'[k][a] = x
      BY <2>2, <2>3, <2>4, <3>3, <3>4, <3>6
    <3>7. CASE charged'[k][a] = x + 1 /\ Limited!Free(k)
      <4>1. charged'[k][a] * p = y + p /\ cache'[k].parts = q - p
        BY <2>4, <3>2, <3>3, <3>7
      <4>2. QED BY <2>2, <3>3, <3>4, <4>1
    <3>8. QED BY <3>5, <3>6, <3>7
  <2>6. QED BY <1>2, <2>2, <2>3, <2>4, <2>5
<1>9. \A k \in DOMAIN cache' :
        k \in Limited!Keys /\ cache'[k].parts \in Nat /\ cache'[k].at \in Nat /\ cache'[k].at <= day
  BY <1>1, <1>6, <1>7, <1>8 DEF BucketsInv
<1>10. ASSUME NEW k \in Limited!Keys, NEW a \in Addresses
       PROVE  IF k \in DOMAIN cache'
              THEN charged'[k][a] * MCPeriod(k[1]) + cache'[k].parts
                     <= MCLimit(k[1]) * (MCPeriod(k[1]) + cache'[k].at)
              ELSE charged'[k][a] = 0
  <2>1. CASE k \in R
    BY <1>6, <1>8, <2>1
  <2>2. CASE k \notin R
    <3>1. charged'[k][a] = charged[k][a]
      BY <1>4, <2>2
    <3>2. k \in DOMAIN cache' <=> k \in DOMAIN cache
      BY <1>6, <2>2
    <3>3. CASE k \in DOMAIN cache
      BY <1>7, <2>2, <3>1, <3>2, <3>3 DEF BucketsInv
    <3>4. CASE k \notin DOMAIN cache
      BY <3>1, <3>2, <3>4 DEF BucketsInv
    <3>5. QED BY <3>3, <3>4
  <2>3. QED BY <2>1, <2>2
<1>11. ASSUME NEW a \in Addresses \ {Tor}, NEW n \in Limited!Keys, NEW w \in Limited!Keys,
              Limited!Narrower(n, w, a)
       PROVE  charged'[w][a] <= charged'[n][a]
  <2>1. charged[w][a] <= charged[n][a] /\ charged[w][a] \in Nat /\ charged[n][a] \in Nat
    BY <1>4, <1>11 DEF BucketsInv
  <2>2. CASE w \in R /\ Limited!Free(w) /\ a = c
    <3>1. PICK j \in DOMAIN o : o[j] = w /\ \A i \in DOMAIN o : i < j => o[i] \in R /\ Limited!Free(o[i])
      BY <2>2, AskedFacts
    <3>2. PICK i \in DOMAIN o : i < j /\ o[i] = n
      BY <1>11, <2>2, <3>1, NarrowerFirst
    <3>3. n \in R /\ Limited!Free(n)
      BY <3>1, <3>2
    <3>4. charged'[n][a] = charged[n][a] + 1 /\ charged'[w][a] = charged[w][a] + 1
      BY <1>4, <2>2, <3>3
    <3>5. QED BY <2>1, <3>4
  <2>3. CASE ~(w \in R /\ Limited!Free(w) /\ a = c)
    BY <1>4, <2>1, <2>3
  <2>4. QED BY <2>2, <2>3
<1>12. QED BY <1>9, <1>10, <1>11

LEMMA BucketsStep ==
    ASSUME BucketsInv, Limited!Next
    PROVE  BucketsInv'
<1>1. CASE Limited!Tick
  <2>1. /\ day' = day + 1 /\ UNCHANGED <<class, cache, charged, dropped>>
        /\ Limited!Keys' = Limited!Keys
    BY <1>1 DEF Limited!Tick, Limited!Keys
  <2>2. \A n, w, a : Limited!Narrower(n, w, a)' <=> Limited!Narrower(n, w, a)
    BY <2>1 DEF Limited!Narrower
  <2>3. \A x \in Nat : x <= day => x <= day'
    BY <2>1 DEF BucketsInv
  <2>4. QED BY <2>1, <2>2, <2>3 DEF BucketsInv
<1>2. CASE \E c \in Limited!Callers : ~dropped /\ Limited!Request(c[1], c[2])
  <2>1. PICK a \in Addresses, t \in {1, 2} : ~dropped /\ Limited!Request(a, t)
    BY <1>2 DEF Limited!Callers
  <2>2. QED BY <2>1, BucketsRequest
<1>3. QED BY <1>1, <1>2 DEF Limited!Next

\* What an address takes of a limit it shares is bounded by its own limit, whatever it is
\* refused and whatever others take (decorator_rate_limit, TokenBucket.update).
THEOREM OwnShares == MCSpec => []OwnShare
<1>1. MCInit => BucketsInv
  <2> SUFFICES ASSUME MCInit PROVE BucketsInv
    OBVIOUS
  <2>1. /\ day = 0 /\ cache = << >> /\ DOMAIN cache = {}
        /\ charged = [k \in Limited!Keys |-> [a \in Addresses |-> 0]]
    BY DEF MCInit, Limited!Init
  <2>2. QED BY <2>1 DEF BucketsInv
<1>2. BucketsInv /\ [MCNext]_allVars => BucketsInv'
  <2> SUFFICES ASSUME BucketsInv, [MCNext]_allVars PROVE BucketsInv'
    OBVIOUS
  <2>1. CASE UNCHANGED limited
    <3>1. UNCHANGED <<day, class, cache, charged, dropped>>
      BY <2>1 DEF limited
    <3>2. Limited!Keys' = Limited!Keys
      BY <3>1 DEF Limited!Keys
    <3>3. \A n, w, a : Limited!Narrower(n, w, a)' <=> Limited!Narrower(n, w, a)
      BY <3>1 DEF Limited!Narrower
    <3>4. QED BY <3>1, <3>2, <3>3 DEF BucketsInv
  <2>2. CASE Limited!Next
    BY <2>2, BucketsStep
  <2>3. QED BY <2>1, <2>2 DEF MCNext, allVars, limited
<1>3. BucketsInv => OwnShare
  <2> SUFFICES ASSUME BucketsInv, ~dropped, NEW a \in Addresses \ {Tor}, NEW n \in Limited!Keys,
                      NEW w \in Limited!Keys, Limited!Narrower(n, w, a)
               PROVE  charged[w][a] * MCPeriod(n[1]) <= MCLimit(n[1]) * (MCPeriod(n[1]) + day)
    BY DEF OwnShare, Limited!OwnShare, BucketsInv
  <2>1. PICK q \in Nat, p \in Nat, l \in Nat :
             q = Limited!Parts(n) /\ p = MCPeriod(n[1]) /\ l = MCLimit(n[1])
    BY PartsFacts
  <2>2. PICK x \in Nat, y \in Nat : x = charged[w][a] /\ y = charged[n][a] /\ x <= y
    BY DEF BucketsInv
  <2>3. PICK z \in Int : z = l * (p + day) /\ y * p + q <= z
    <3>1. y * p + q <= l * (p + day) /\ l * (p + day) \in Int
      BY <2>1, <2>2, PartsFacts DEF BucketsInv
    <3>2. QED BY <3>1
  <2>4. x * p <= y * p /\ x * p \in Nat /\ y * p \in Nat
    BY <2>1, <2>2, Products
  <2>5. x * p <= z
    BY <2>1, <2>3, <2>4
  <2>6. QED BY <2>1, <2>2, <2>3, <2>5
<1>4. QED BY <1>1, <1>2, <1>3, PTL DEF MCSpec
=============================================================================
