---------------------------- MODULE IngestProofs ----------------------------
(***************************************************************************)
(* The safety of the client's intake, for any accounts, logs, limits and   *)
(* number of pending calls: its type, what is stored for whom, what the    *)
(* filter remembers and what the cursor passes.                            *)
(***************************************************************************)
EXTENDS ClientIngest, SequenceTheorems, NaturalsInduction, WellFoundedInduction, TLAPS

-----------------------------------------------------------------------------
(* Numbers and sequences.                                                  *)

\* A nonempty set of numbers has a least element.
LEMMA LeastNumber ==
  ASSUME NEW T \in SUBSET Nat, T # {}
  PROVE  \E x \in T : \A y \in T : x <= y
<1>1. IsWellFoundedOn(OpToRel(<, Nat), Nat)
  BY NatLessThanWellFounded
<1>2. PICK x \in T : \A y \in T : ~ (<<y, x>> \in OpToRel(<, Nat))
  BY <1>1, WFMin, Zenon
<1>3. \A y \in T : ~(y < x)
  BY <1>2 DEF OpToRel
<1>4. QED
  BY <1>3

\* The youngest n entries of a sequence.
LEMMA LastFacts ==
  ASSUME NEW S, NEW s \in Seq(S), NEW n \in Nat
  PROVE  /\ last(n, s) \in Seq(S) /\ Len(s) \in Nat
         /\ Len(last(n, s)) = IF Len(s) > n THEN n ELSE Len(s)
         /\ \A i \in 1..Len(last(n, s)) : last(n, s)[i] = s[i + (Len(s) - Len(last(n, s)))]
<1> DEFINE from == IF Len(s) > n THEN Len(s) - n + 1 ELSE 1
           r == SubSeq(s, from, Len(s))
<1>1. Len(s) \in Nat
  BY LenProperties
<1>2. from \in 1..Len(s) + 1 /\ (Len(s) - from) + 1 = IF Len(s) > n THEN n ELSE Len(s)
  BY <1>1
<1> HIDE DEF from
<1>3. /\ r \in Seq(S) /\ Len(r) = (Len(s) - from) + 1
      /\ \A i \in 1..(Len(s) - from) + 1 : r[i] = s[from + i - 1]
  BY <1>1, <1>2, SubSeqProperties
<1>4. ASSUME NEW i \in 1..Len(r)
      PROVE  r[i] = s[i + (Len(s) - Len(r))]
  <2>1. from + i - 1 = i + (Len(s) - Len(r))
    BY <1>1, <1>2, <1>3
  <2>2. QED
    BY <1>3, <2>1
<1>5. last(n, s) = r
  BY DEF last, from
<1>6. QED
  BY <1>1, <1>2, <1>3, <1>4, <1>5

\* What entered last is the same, whether one looks at all entries or at the last ones.
LEMMA LastOfLast ==
  ASSUME NEW S, NEW s \in Seq(S), NEW n \in Nat
  PROVE  last(n, last(n, s)) = last(n, s)
<1> DEFINE r == last(n, s)
<1>1. r \in Seq(S) /\ Len(r) \in Nat /\ Len(r) <= n
  BY LastFacts, LenProperties
<1> HIDE DEF r
<1>2. last(n, r) \in Seq(S) /\ Len(last(n, r)) = Len(r)
      /\ \A i \in 1..Len(last(n, r)) : last(n, r)[i] = r[i + (Len(r) - Len(last(n, r)))]
  BY <1>1, LastFacts
<1>3. \A i \in 1..Len(r) : last(n, r)[i] = r[i]
  BY <1>1, <1>2
<1>4. last(n, r) = r
  BY <1>1, <1>2, <1>3, SeqEqual
<1>5. QED
  BY <1>4 DEF r

\* What entered last can be kept up to date from itself alone.
LEMMA LastOfAppend ==
  ASSUME NEW S, NEW s \in Seq(S), NEW n \in Nat \ {0}, NEW x \in S
  PROVE  last(n, Append(last(n, s), x)) = last(n, Append(s, x))
<1> DEFINE r == last(n, s)
           a == Append(r, x)
           b == Append(s, x)
           ls == Len(s)
           lr == Len(r)
           k == ls - lr
<1>1. /\ r \in Seq(S) /\ ls \in Nat /\ lr \in Nat /\ lr = (IF ls > n THEN n ELSE ls)
      /\ \A i \in 1..lr : r[i] = s[i + k]
  BY LastFacts, LenProperties
<1> HIDE DEF r, ls, lr
<1>2. k \in Nat /\ ls = lr + k /\ lr <= n /\ (k = 0 \/ lr = n)
  BY <1>1
<1>3. /\ a \in Seq(S) /\ Len(a) = lr + 1 /\ a[lr + 1] = x /\ \A i \in 1..lr : a[i] = r[i]
      /\ b \in Seq(S) /\ Len(b) = ls + 1 /\ b[ls + 1] = x /\ \A i \in 1..ls : b[i] = s[i]
  BY <1>1, AppendProperties DEF ls, lr
<1> HIDE DEF k
<1>4. \A i \in 1..lr + 1 : a[i] = b[i + k]
  <2> SUFFICES ASSUME NEW i \in 1..lr + 1 PROVE a[i] = b[i + k]
    OBVIOUS
  <2>1. CASE i = lr + 1
    <3>1. i + k = ls + 1
      BY <1>1, <1>2, <2>1
    <3>2. QED
      BY <1>3, <2>1, <3>1
  <2>2. CASE i # lr + 1
    <3>1. i \in 1..lr /\ i + k \in 1..ls
      BY <1>1, <1>2, <2>2
    <3>2. QED
      BY <1>1, <1>3, <3>1
  <2>3. QED
    BY <2>1, <2>2
<1> HIDE DEF a, b
<1> DEFINE p == last(n, a)
           q == last(n, b)
           len == Len(p)
<1>5. /\ p \in Seq(S) /\ len = (IF lr + 1 > n THEN n ELSE lr + 1)
      /\ \A i \in 1..len : p[i] = a[i + (lr + 1 - len)]
      /\ q \in Seq(S) /\ Len(q) = (IF ls + 1 > n THEN n ELSE ls + 1)
      /\ \A i \in 1..Len(q) : q[i] = b[i + (ls + 1 - Len(q))]
  <2>1. /\ p \in Seq(S) /\ len = (IF Len(a) > n THEN n ELSE Len(a))
        /\ \A i \in 1..len : p[i] = a[i + (Len(a) - len)]
    BY <1>3, LastFacts
  <2>2. /\ q \in Seq(S) /\ Len(q) = (IF Len(b) > n THEN n ELSE Len(b))
        /\ \A i \in 1..Len(q) : q[i] = b[i + (Len(b) - Len(q))]
    BY <1>3, LastFacts
  <2> HIDE DEF p, q, len
  <2>3. QED
    BY <1>1, <1>3, <2>1, <2>2
<1> HIDE DEF p, q, len
<1>6. len \in Nat /\ Len(q) = len /\ len <= lr + 1
  BY <1>1, <1>2, <1>5
<1>7. ASSUME NEW i \in 1..len
      PROVE  p[i] = q[i]
  <2>1. i + (lr + 1 - len) \in 1..lr + 1 /\ (i + (lr + 1 - len)) + k = i + (ls + 1 - len)
    BY <1>1, <1>2, <1>6
  <2>2. p[i] = a[i + (lr + 1 - len)] /\ q[i] = b[i + (ls + 1 - len)]
    BY <1>5, <1>6
  <2>3. QED
    BY <1>4, <2>1, <2>2
<1>8. p = q
  BY <1>5, <1>6, <1>7, SeqEqual DEF len
<1>9. QED
  BY <1>8 DEF a, b, p, q, r

\* The elements of a sequence, and when it has no duplicates.
LEMMA SetOfSeq ==
  ASSUME NEW S, NEW s \in Seq(S)
  PROVE  /\ DOMAIN s = 1..Len(s) /\ Len(s) \in Nat
         /\ ToSet(s) = {s[i] : i \in 1..Len(s)} /\ ToSet(s) \subseteq S
         /\ IsInjective(s) <=> \A i, j \in 1..Len(s) : s[i] = s[j] => i = j
<1>1. DOMAIN s = 1..Len(s) /\ Len(s) \in Nat /\ \A i \in 1..Len(s) : s[i] \in S
  BY LenProperties, ElementOfSeq
<1>2. QED
  BY <1>1 DEF ToSet, IsInjective

\* The last entries of a list without duplicates are one, and nothing else is in it.
LEMMA LastKeeps ==
  ASSUME NEW S, NEW s \in Seq(S), NEW n \in Nat
  PROVE  /\ ToSet(last(n, s)) \subseteq ToSet(s)
         /\ IsInjective(s) => IsInjective(last(n, s))
<1> DEFINE r == last(n, s)
           k == Len(s) - Len(r)
<1>1. /\ r \in Seq(S) /\ Len(s) \in Nat /\ Len(r) \in Nat
      /\ Len(r) = (IF Len(s) > n THEN n ELSE Len(s))
      /\ \A i \in 1..Len(r) : r[i] = s[i + k]
  BY LastFacts, LenProperties
<1> HIDE DEF r
<1>2. \A i \in 1..Len(r) : i + k \in 1..Len(s)
  BY <1>1
<1> HIDE DEF k
<1>3. ToSet(r) \subseteq ToSet(s)
  <2>1. ToSet(r) = {r[i] : i \in 1..Len(r)} /\ ToSet(s) = {s[i] : i \in 1..Len(s)}
    BY <1>1, SetOfSeq
  <2>2. QED
    BY <1>1, <1>2, <2>1
<1>4. ASSUME IsInjective(s), NEW i \in 1..Len(r), NEW j \in 1..Len(r), r[i] = r[j]
      PROVE  i = j
  <2>1. s[i + k] = s[j + k] /\ i + k \in 1..Len(s) /\ j + k \in 1..Len(s)
    BY <1>1, <1>2, <1>4
  <2>2. i + k = j + k
    BY <1>4, <2>1, SetOfSeq
  <2>3. QED
    BY <1>1, <2>2 DEF k
<1>5. QED
  BY <1>1, <1>3, <1>4, SetOfSeq DEF r

\* An eviction keeps at least one id and no more than the limit.
LEMMA KeptFacts == Kept \in Nat \ {0} /\ Kept <= SeenMax /\ SeenMax \in Nat
  BY ClientAssumption DEF Kept

\* An id enters the filter.
LEMMA Enters ==
  ASSUME NEW S, NEW q \in Seq(S), IsInjective(q), Len(q) <= SeenMax, NEW x \in S, x \notin ToSet(q),
         NEW e, e = evict(Append(q, x))
  PROVE  /\ e \in Seq(S) /\ IsInjective(e) /\ Len(e) <= SeenMax
         /\ ToSet(e) \subseteq ToSet(q) \cup {x}
         /\ last(Kept, Append(last(Kept, q), x)) = last(Kept, e)
<1> DEFINE b == Append(q, x)
<1>1. /\ Len(q) \in Nat /\ b \in Seq(S) /\ Len(b) = Len(q) + 1 /\ b[Len(q) + 1] = x
      /\ \A i \in 1..Len(q) : b[i] = q[i]
  BY AppendProperties, LenProperties
<1>2. last(Kept, Append(last(Kept, q), x)) = last(Kept, b)
  BY LastOfAppend, KeptFacts
<1> HIDE DEF b
<1>3. ToSet(b) \subseteq ToSet(q) \cup {x}
  <2> SUFFICES ASSUME NEW i \in 1..Len(q) + 1 PROVE b[i] \in ToSet(q) \cup {x}
    BY <1>1, SetOfSeq
  <2>1. i = Len(q) + 1 \/ i \in 1..Len(q)
    BY <1>1
  <2>2. QED
    BY <1>1, <2>1, SetOfSeq
<1>4. IsInjective(b)
  <2> SUFFICES ASSUME NEW i \in 1..Len(b), NEW j \in 1..Len(b), b[i] = b[j] PROVE i = j
    BY <1>1, SetOfSeq
  <2>1. \A l \in 1..Len(q) : q[l] # x
    BY SetOfSeq
  <2>2. (i = Len(q) + 1 \/ i \in 1..Len(q)) /\ (j = Len(q) + 1 \/ j \in 1..Len(q))
    BY <1>1
  <2>3. CASE i \in 1..Len(q) /\ j \in 1..Len(q)
    BY <1>1, <2>3, SetOfSeq
  <2>4. CASE ~(i \in 1..Len(q) /\ j \in 1..Len(q))
    BY <1>1, <2>1, <2>2, <2>4
  <2>5. QED
    BY <2>3, <2>4
<1>5. CASE Len(b) > SeenMax
  <2>1. e = last(Kept, b)
    BY <1>5 DEF evict, b
  <2>2. last(Kept, e) = last(Kept, b)
    BY <1>1, <2>1, KeptFacts, LastOfLast
  <2>3. e \in Seq(S) /\ Len(e) <= SeenMax
    BY <1>1, <1>5, <2>1, KeptFacts, LastFacts
  <2>4. IsInjective(e) /\ ToSet(e) \subseteq ToSet(b)
    BY <1>1, <1>4, <2>1, KeptFacts, LastKeeps
  <2>5. QED
    BY <1>2, <1>3, <2>2, <2>3, <2>4
<1>6. CASE ~(Len(b) > SeenMax)
  <2>1. e = b
    BY <1>6 DEF evict, b
  <2>2. Len(e) <= SeenMax
    BY <1>1, <1>6, <2>1, KeptFacts
  <2>3. QED
    BY <1>1, <1>2, <1>3, <1>4, <2>1, <2>2
<1>7. QED
  BY <1>5, <1>6

-----------------------------------------------------------------------------
(* A batch.                                                                *)

Ids(a) == {m.msgId : m \in Messages(a)}

\* On record, or its write failed.
Covered(s) == s.stored \cup s.failed

\* What the filter of a knows has been dealt with, and what entered it last is its end.
Good(a, s) ==
  /\ s.seen \in Seq(Ids(a)) /\ IsInjective(s.seen) /\ Len(s.seen) <= SeenMax
  /\ s.recent = last(Kept, s.seen)
  /\ s.stored \subseteq Messages(a) /\ s.failed \subseteq Messages(a)
  /\ a \in Declared => \A m \in s.stored : m.kind # "ownDM"
  /\ \A m \in Messages(a) : wanted(m) /\ m.msgId \in ToSet(s.seen) => m \in Covered(s)

\* r has dealt with whatever s has.
Beyond(r, s) == s.stored \subseteq r.stored /\ Covered(s) \subseteq Covered(r)

\* One message of a batch: a wanted one is dealt with, and nothing is forgotten.
LEMMA OneMessage ==
  ASSUME NEW a \in Accounts, NEW s, Good(a, s), NEW m \in Messages(a), NEW w, a \in Declared => w = a,
         NEW broken, NEW r, r = ingestOne(a, w, broken, s, m)
  PROVE  Good(a, r) /\ Beyond(r, s) /\ (wanted(m) => m \in Covered(r))
<1>1. CASE m.msgId \in ToSet(s.seen) \/ ~typeAllowed(m)
  <2>1. r = s
    BY <1>1 DEF ingestOne
  <2>2. wanted(m) => typeAllowed(m)
    BY DEF wanted, typeAllowed
  <2>3. QED
    BY <1>1, <2>1, <2>2 DEF Good, Beyond
<1>2. CASE ~(m.msgId \in ToSet(s.seen) \/ ~typeAllowed(m))
  <2> DEFINE e == evict(Append(s.seen, m.msgId))
  <2>1. /\ r.seen = e /\ r.recent = last(Kept, Append(s.recent, m.msgId))
        /\ r.stored = (IF ownDM(a, w, m) \/ m \in broken THEN s.stored ELSE s.stored \cup {m})
        /\ r.failed = (IF ~ownDM(a, w, m) /\ m \in broken \ s.stored THEN s.failed \cup {m} ELSE s.failed)
    BY <1>2 DEF ingestOne
  <2>2. m.msgId \in Ids(a) /\ m.msgId \notin ToSet(s.seen)
    BY <1>2 DEF Ids
  <2>3. /\ e \in Seq(Ids(a)) /\ IsInjective(e) /\ Len(e) <= SeenMax
        /\ ToSet(e) \subseteq ToSet(s.seen) \cup {m.msgId}
        /\ last(Kept, Append(s.recent, m.msgId)) = last(Kept, e)
    BY <2>2, Enters DEF Good
  <2> HIDE DEF e
  <2>4. wanted(m) => ~ownDM(a, w, m)
    BY DEF wanted, ownDM
  <2>5. Beyond(r, s) /\ (wanted(m) => m \in Covered(r))
    BY <2>1, <2>4 DEF Beyond, Covered
  <2>6. r.stored \subseteq Messages(a) /\ r.failed \subseteq Messages(a)
    BY <2>1 DEF Good
  <2>7. a \in Declared => \A o \in r.stored : o.kind # "ownDM"
    BY <2>1 DEF Good, ownDM
  <2>8. ASSUME NEW o \in Messages(a), wanted(o), o.msgId \in ToSet(r.seen)
        PROVE  o \in Covered(r)
    <3>1. CASE o.msgId \in ToSet(s.seen)
      BY <2>5, <2>8, <3>1 DEF Good, Beyond
    <3>2. CASE o.msgId = m.msgId
      <4>1. o = m
        BY <3>2, ClientAssumption
      <4>2. QED
        BY <2>5, <2>8, <4>1
    <3>3. QED
      BY <2>1, <2>3, <2>8, <3>1, <3>2
  <2>9. QED
    BY <2>1, <2>3, <2>5, <2>6, <2>7, <2>8 DEF Good
<1>3. QED
  BY <1>1, <1>2

\* f is what the first messages of a batch make of a state s, for up to n of them.
Loop(a, w, broken, s, batch, n, f) ==
  f = [i \in 0..n |-> IF i = 0 THEN s ELSE ingestOne(a, w, broken, f[i - 1], batch[i])]

\* The loop over a batch is well defined: from a state s it gets somewhere.
LEMMA LoopExists ==
  ASSUME NEW a, NEW w, NEW broken, NEW s, NEW batch, NEW n \in Nat
  PROVE  \E f : Loop(a, w, broken, s, batch, n, f)
<1> DEFINE One(x, i) == ingestOne(a, w, broken, x, batch[i])
           To(l, f) == f = [i \in 0..l |-> IF i = 0 THEN s ELSE One(f[i - 1], i)]
           bad == {l \in Nat : ~\E f : To(l, f)}
<1> HIDE DEF One
<1>1. To(0, [i \in 0..0 |-> s])
  OBVIOUS
<1>2. ASSUME NEW l \in Nat, NEW g, To(l, g)
      PROVE  \E f : To(l + 1, f)
  <2> DEFINE f == [i \in 0..l + 1 |-> IF i = l + 1 THEN One(g[l], l + 1) ELSE g[i]]
  <2>1. \A i \in 0..l : f[i] = g[i]
    OBVIOUS
  <2>2. \A i \in 0..l : g[i] = IF i = 0 THEN s ELSE One(g[i - 1], i)
    BY <1>2
  <2>3. ASSUME NEW i \in 0..l + 1
        PROVE  f[i] = IF i = 0 THEN s ELSE One(f[i - 1], i)
    <3>1. CASE i = l + 1
      BY <2>1, <3>1
    <3>2. CASE i # l + 1
      <4>1. i \in 0..l /\ (i # 0 => i - 1 \in 0..l)
        BY <3>2
      <4>2. QED
        BY <2>1, <2>2, <4>1
    <3>3. QED
      BY <3>1, <3>2
  <2>4. f = [i \in 0..l + 1 |-> f[i]]
    OBVIOUS
  <2> HIDE DEF f
  <2>5. To(l + 1, f)
    BY <2>3, <2>4
  <2>6. QED
    BY <2>5
<1>3. bad = {}
  <2> SUFFICES ASSUME bad # {} PROVE FALSE
    OBVIOUS
  <2>1. PICK l \in bad : \A k \in bad : l <= k
    BY LeastNumber
  <2> HIDE DEF To
  <2>2. l \in Nat /\ l # 0 /\ ~\E f : To(l, f)
    BY <1>1, <2>1
  <2>3. l - 1 \in Nat /\ (l - 1) + 1 = l /\ ~(l <= l - 1)
    BY <2>2
  <2>4. PICK p \in Nat : p + 1 = l /\ ~(l <= p)
    BY <2>3
  <2>5. p \notin bad
    BY <2>1, <2>4, Zenon
  <2>6. PICK g : To(p, g)
    BY <2>5
  <2>7. \E f : To(p + 1, f)
    BY <1>2, <2>6
  <2>8. QED
    BY <2>2, <2>4, <2>7
<1>4. QED
  BY <1>3 DEF One, Loop

\* The loop deals with every wanted message of its batch, and forgets nothing.
LEMMA LoopFacts ==
  ASSUME NEW a \in Accounts, NEW s, Good(a, s), NEW batch \in Seq(Messages(a)),
         NEW w, a \in Declared => w = a, NEW broken, NEW f,
         Loop(a, w, broken, s, batch, Len(batch), f)
  PROVE  /\ Good(a, f[Len(batch)]) /\ Beyond(f[Len(batch)], s)
         /\ \A m \in ToSet(batch) : wanted(m) => m \in Covered(f[Len(batch)])
<1> DEFINE n == Len(batch)
           Done(i) == /\ Good(a, f[i]) /\ Beyond(f[i], s)
                      /\ \A j \in 1..i : wanted(batch[j]) => batch[j] \in Covered(f[i])
           bad == {i \in 0..n : ~Done(i)}
<1>1. n \in Nat /\ ToSet(batch) = {batch[i] : i \in 1..n} /\ \A i \in 1..n : batch[i] \in Messages(a)
  BY SetOfSeq, ElementOfSeq
<1> HIDE DEF n
<1>2. Done(0)
  <2>1. f[0] = s
    BY <1>1 DEF n, Loop
  <2>2. QED
    BY <2>1 DEF Beyond
<1>3. ASSUME NEW l \in Nat, l + 1 \in 1..n, Done(l)
      PROVE  Done(l + 1)
  <2>1. f[l + 1] = ingestOne(a, w, broken, f[l], batch[l + 1])
    <3>1. l + 1 \in 0..n /\ l + 1 # 0 /\ (l + 1) - 1 = l
      BY <1>1, <1>3
    <3> HIDE DEF Done
    <3>2. QED
      BY <3>1 DEF n, Loop
  <2> DEFINE x == f[l]
             y == f[l + 1]
             m == batch[l + 1]
  <2>2. Good(a, x) /\ Beyond(x, s) /\ \A j \in 1..l : wanted(batch[j]) => batch[j] \in Covered(x)
    BY <1>3
  <2>3. y = ingestOne(a, w, broken, x, m) /\ m \in Messages(a)
    BY <1>1, <1>3, <2>1
  <2> HIDE DEF x, y, m
  <2>4. Good(a, y) /\ Beyond(y, x) /\ (wanted(m) => m \in Covered(y))
    BY <2>2, <2>3, OneMessage
  <2>5. Beyond(y, s)
    BY <2>2, <2>4 DEF Beyond
  <2>6. ASSUME NEW j \in 1..l + 1, wanted(batch[j])
        PROVE  batch[j] \in Covered(y)
    <3>1. CASE j = l + 1
      BY <2>4, <2>6, <3>1 DEF m
    <3>2. CASE j # l + 1
      <4>1. j \in 1..l
        BY <3>2
      <4>2. QED
        BY <2>2, <2>4, <2>6, <4>1 DEF Beyond
    <3>3. QED
      BY <3>1, <3>2
  <2>7. QED
    BY <2>4, <2>5, <2>6 DEF y
<1> HIDE DEF Done
<1>4. bad = {}
  <2> SUFFICES ASSUME bad # {} PROVE FALSE
    OBVIOUS
  <2>1. PICK l \in bad : \A k \in bad : l <= k
    <3>1. bad \in SUBSET Nat
      BY <1>1
    <3> HIDE DEF bad
    <3>2. QED
      BY <3>1, LeastNumber
  <2>2. l \in 0..n /\ ~Done(l) /\ l # 0
    BY <1>2, <2>1
  <2>3. l - 1 \in Nat /\ (l - 1) + 1 = l /\ l - 1 \in 0..n /\ ~(l <= l - 1)
    BY <1>1, <2>2
  <2>4. PICK p \in Nat : p + 1 = l /\ p \in 0..n /\ ~(l <= p)
    BY <2>3
  <2>5. Done(p)
    BY <2>1, <2>4
  <2>6. p + 1 \in 1..n
    BY <1>1, <2>2, <2>4
  <2>7. Done(p + 1)
    BY <1>3, <2>5, <2>6
  <2>8. QED
    BY <2>2, <2>4, <2>7
<1>5. Done(n)
  BY <1>1, <1>4
<1>6. QED
  BY <1>1, <1>5 DEF Done, n

-----------------------------------------------------------------------------
(* The invariant.                                                          *)

\* What ingestSyncMessages works on, as it is for account a.
Now(a) == [seen |-> seen[a], recent |-> recent[a], stored |-> stored[a], failed |-> failed[a]]

IsOfAccounts(f) == f = [a \in Accounts |-> f[a]]

Shape ==
  /\ IsOfAccounts(wxid) /\ IsOfAccounts(synckey) /\ IsOfAccounts(seen) /\ IsOfAccounts(recent)
  /\ IsOfAccounts(stored) /\ IsOfAccounts(failed) /\ IsOfAccounts(missed)
  /\ IsOfAccounts(skipped)
  /\ dropped \subseteq Accounts /\ rounds = [r \in Rounds |-> rounds[r]]

\* The client of a: its own wxid or none, and what it has taken in.
ClientOk(a) ==
  /\ wxid[a] \in {a, Unknown} /\ (a \in Declared => wxid[a] = a)
  /\ Good(a, Now(a)) /\ failed[a] \cap stored[a] = {}
  /\ missed[a] \subseteq failed[a] \cup skipped[a] /\ skipped[a] \subseteq Messages(a)

\* What the step just taken left out of a push: messages of a, and nobody else's.
SkippedFor(a, left) == skipped = [Nothing EXCEPT ![a] = left] /\ left \subseteq Messages(a)

\* A batch of the messages of a is taken in by the client of a: all the upstream presented
\* but what the step left out.
LEMMA IngestKeeps ==
  ASSUME Shape, \A b \in Accounts : ClientOk(b), NEW a \in Accounts, NEW batch \in Seq(Messages(a)),
         NEW w, learn(a, w) \in {a, Unknown}, NEW broken, NEW presented, NEW left, SkippedFor(a, left)',
         {m \in ToSet(presented) : wanted(m)} \subseteq ToSet(batch) \cup left,
         ingest(a, w, presented, batch, broken)
  PROVE  /\ IsOfAccounts(wxid)' /\ IsOfAccounts(seen)' /\ IsOfAccounts(recent)'
         /\ IsOfAccounts(stored)' /\ IsOfAccounts(failed)' /\ IsOfAccounts(missed)'
         /\ IsOfAccounts(skipped)'
         /\ \A b \in Accounts : ClientOk(b)' /\ Beyond(Now(b)', Now(b))
         /\ \A m \in ToSet(batch) : wanted(m) => m \in Covered(Now(a)')
<1> DEFINE l == learn(a, w)
           s == Now(a)
           after == CHOOSE f : f = [i \in 0..Len(batch) |->
                      IF i = 0 THEN [seen |-> seen[a], recent |-> recent[a], stored |-> stored[a], failed |-> failed[a]]
                      ELSE ingestOne(a, learn(a, w), broken, f[i - 1], batch[i])]
           r == after[Len(batch)]
<1>1. /\ wxid' = [wxid EXCEPT ![a] = l] /\ seen' = [seen EXCEPT ![a] = r.seen]
      /\ recent' = [recent EXCEPT ![a] = r.recent] /\ stored' = [stored EXCEPT ![a] = r.stored]
      /\ failed' = [failed EXCEPT ![a] = r.failed \ r.stored]
      /\ missed' = [Nothing EXCEPT ![a] = {m \in ToSet(presented) : wanted(m)} \ (r.stored \cup broken)]
  BY DEF ingest
<1>2. a \in Declared => l = a
  BY ClientAssumption DEF ClientOk, learn
<1>3. Len(batch) \in Nat
  BY LenProperties
<1>4. Loop(a, l, broken, s, batch, Len(batch), after)
  <2> DEFINE L(f) == Loop(a, l, broken, s, batch, Len(batch), f)
  <2>1. after = CHOOSE f : L(f)
    BY DEF Now, Loop
  <2>2. \E f : L(f)
    <3> HIDE DEF s, l
    <3>1. QED
      BY <1>3, LoopExists
  <2> HIDE DEF L, after
  <2>3. L(after)
    BY <2>1, <2>2, Zenon
  <2>4. QED
    BY <2>3 DEF L
<1> HIDE DEF after, s, l
<1>5. /\ Good(a, r) /\ Beyond(r, s)
      /\ \A m \in ToSet(batch) : wanted(m) => m \in Covered(r)
  <2>1. Good(a, s)
    BY DEF ClientOk, s
  <2>2. QED
    BY <1>2, <1>4, <2>1, LoopFacts
<1> HIDE DEF r
<1>6. IsOfAccounts(Nothing)
  BY DEF Nothing, IsOfAccounts
<1> DEFINE wx == wxid'
           se == seen'
           re == recent'
           st == stored'
           fa == failed'
           mi == missed'
           sk == skipped'
<1> HIDE DEF wx, se, re, st, fa, mi, sk
<1>7. /\ IsOfAccounts(wx) /\ wx[a] = l /\ \A b \in Accounts \ {a} : wx[b] = wxid[b]
      /\ IsOfAccounts(se) /\ se[a] = r.seen /\ \A b \in Accounts \ {a} : se[b] = seen[b]
      /\ IsOfAccounts(re) /\ re[a] = r.recent /\ \A b \in Accounts \ {a} : re[b] = recent[b]
  <2>1. IsOfAccounts(wx) /\ wx[a] = l /\ \A b \in Accounts \ {a} : wx[b] = wxid[b]
    BY <1>1 DEF Shape, IsOfAccounts, wx
  <2>2. IsOfAccounts(se) /\ se[a] = r.seen /\ \A b \in Accounts \ {a} : se[b] = seen[b]
    BY <1>1 DEF Shape, IsOfAccounts, se
  <2>3. IsOfAccounts(re) /\ re[a] = r.recent /\ \A b \in Accounts \ {a} : re[b] = recent[b]
    BY <1>1 DEF Shape, IsOfAccounts, re
  <2>4. QED
    BY <2>1, <2>2, <2>3
<1>8. /\ IsOfAccounts(st) /\ st[a] = r.stored /\ \A b \in Accounts \ {a} : st[b] = stored[b]
      /\ IsOfAccounts(fa) /\ fa[a] = r.failed \ r.stored /\ \A b \in Accounts \ {a} : fa[b] = failed[b]
      /\ IsOfAccounts(mi) /\ mi[a] = {m \in ToSet(presented) : wanted(m)} \ (r.stored \cup broken)
      /\ \A b \in Accounts \ {a} : mi[b] = {}
  <2>1. IsOfAccounts(st) /\ st[a] = r.stored /\ \A b \in Accounts \ {a} : st[b] = stored[b]
    BY <1>1 DEF Shape, IsOfAccounts, st
  <2>2. IsOfAccounts(fa) /\ fa[a] = r.failed \ r.stored /\ \A b \in Accounts \ {a} : fa[b] = failed[b]
    BY <1>1 DEF Shape, IsOfAccounts, fa
  <2>3. /\ IsOfAccounts(mi) /\ mi[a] = {m \in ToSet(presented) : wanted(m)} \ (r.stored \cup broken)
        /\ \A b \in Accounts \ {a} : mi[b] = Nothing[b]
    BY <1>1, <1>6 DEF IsOfAccounts, mi
  <2>4. QED
    BY <2>1, <2>2, <2>3 DEF Nothing
<1>18. IsOfAccounts(sk) /\ sk[a] = left /\ left \subseteq Messages(a) /\ \A b \in Accounts \ {a} : sk[b] = {}
  <2>1. sk = [Nothing EXCEPT ![a] = left] /\ left \subseteq Messages(a)
    BY DEF SkippedFor, sk
  <2>2. \A b \in Accounts : Nothing[b] = {}
    BY DEF Nothing
  <2>3. QED
    BY <1>6, <2>1, <2>2 DEF IsOfAccounts
<1> USE DEF wx, se, re, st, fa, mi, sk
<1>9. /\ Now(a)'.seen = r.seen /\ Now(a)'.recent = r.recent /\ Now(a)'.stored = r.stored
      /\ Now(a)'.failed = r.failed \ r.stored /\ Covered(Now(a)') = Covered(r)
  BY <1>7, <1>8 DEF Now, Covered
<1>10. Good(a, Now(a)')
  BY <1>5, <1>9 DEF Good
<1>11. Beyond(Now(a)', s)
  BY <1>5, <1>9 DEF Beyond
<1>12. ClientOk(a)'
  <2>1. missed'[a] \subseteq failed'[a] \cup skipped'[a] /\ skipped'[a] \subseteq Messages(a)
    <3>1. \A m \in ToSet(presented) : wanted(m) => m \in left \/ m \in Covered(r)
      BY <1>5
    <3>2. QED
      BY <1>8, <1>18, <3>1 DEF Covered
  <2>2. wxid'[a] \in {a, Unknown} /\ (a \in Declared => wxid'[a] = a)
    BY <1>2, <1>7 DEF l
  <2>3. failed'[a] \cap stored'[a] = {}
    BY <1>8
  <2>4. QED
    BY <1>10, <2>1, <2>2, <2>3 DEF ClientOk
<1>13. ASSUME NEW b \in Accounts \ {a}
       PROVE  ClientOk(b)' /\ Beyond(Now(b)', Now(b))
  <2>1. Now(b)' = Now(b) /\ wxid'[b] = wxid[b] /\ failed'[b] = failed[b] /\ stored'[b] = stored[b] /\ missed'[b] = {}
        /\ skipped'[b] = {}
    BY <1>7, <1>8, <1>18 DEF Now
  <2>2. Good(b, Now(b)')
    BY <2>1 DEF ClientOk
  <2>3. ClientOk(b)'
    BY <2>1, <2>2 DEF ClientOk
  <2>4. QED
    BY <2>1, <2>3 DEF Beyond
<1>14. \A b \in Accounts : ClientOk(b)' /\ Beyond(Now(b)', Now(b))
  BY <1>11, <1>12, <1>13 DEF s
<1>15. \A m \in ToSet(batch) : wanted(m) => m \in Covered(Now(a)')
  BY <1>5, <1>9
<1>16. /\ IsOfAccounts(wxid)' /\ IsOfAccounts(seen)' /\ IsOfAccounts(recent)'
       /\ IsOfAccounts(stored)' /\ IsOfAccounts(failed)' /\ IsOfAccounts(missed)'
       /\ IsOfAccounts(skipped)'
  BY <1>7, <1>8, <1>18 DEF IsOfAccounts
<1>17. QED
  BY <1>14, <1>15, <1>16

-----------------------------------------------------------------------------
(* Where a batch comes from, and to whom it goes.                          *)

\* A batch is a sequence of messages of its account.
LEMMA BatchesFacts ==
  ASSUME NEW a
  PROVE  Batches(a) \subseteq Seq(Messages(a))
<1>1. \A n \in Nat : [1..n -> Messages(a)] \subseteq Seq(Messages(a))
  BY SeqDef
<1>2. MaxBatch \in Nat
  BY ClientAssumption
<1>3. ASSUME NEW b \in Batches(a)
      PROVE  b \in Seq(Messages(a))
  <2>1. PICK n \in 0..MaxBatch : b \in [1..n -> Messages(a)]
    BY <1>3 DEF Batches
  <2>2. n \in Nat
    BY <1>2, <2>1
  <2>3. QED
    BY <1>1, <2>1, <2>2
<1>4. QED
  BY <1>3

\* What is left of a batch without the account's own messages is a list of the others.
LEMMA NotSelfFacts ==
  ASSUME NEW S, NEW batch \in Seq(S)
  PROVE  /\ notSelf(batch) \in Seq({m \in S : ~isSelf(m)})
         /\ {m \in ToSet(batch) : ~isSelf(m)} \subseteq ToSet(notSelf(batch))
<1> DEFINE O == {m \in S : ~isSelf(m)}
           n == Len(batch)
           One(x, i) == IF isSelf(batch[i]) THEN x ELSE Append(x, batch[i])
           To(l, f) == f = [i \in 0..l |-> IF i = 0 THEN <<>> ELSE One(f[i - 1], i)]
           bad == {l \in 0..n : ~\E f : To(l, f)}
<1>1. n \in Nat /\ \A i \in 1..n : batch[i] \in S
  BY LenProperties, ElementOfSeq
<1>2. \A x \in Seq(O), i \in 1..n : One(x, i) \in Seq(O)
  BY <1>1, AppendProperties
<1>3. To(0, [i \in 0..0 |-> <<>>])
  OBVIOUS
<1> HIDE DEF One, O, n
<1>4. ASSUME NEW l \in Nat, l + 1 \in 1..n, NEW g, To(l, g)
      PROVE  \E f : To(l + 1, f)
  <2> DEFINE f == [i \in 0..l + 1 |-> IF i = l + 1 THEN One(g[l], l + 1) ELSE g[i]]
  <2>1. \A i \in 0..l : f[i] = g[i]
    OBVIOUS
  <2>2. \A i \in 0..l : g[i] = IF i = 0 THEN <<>> ELSE One(g[i - 1], i)
    BY <1>4
  <2>3. ASSUME NEW i \in 0..l + 1
        PROVE  f[i] = IF i = 0 THEN <<>> ELSE One(f[i - 1], i)
    <3>1. CASE i = l + 1
      BY <2>1, <3>1
    <3>2. CASE i # l + 1
      <4>1. i \in 0..l /\ (i # 0 => i - 1 \in 0..l)
        BY <3>2
      <4>2. QED
        BY <2>1, <2>2, <4>1
    <3>3. QED
      BY <3>1, <3>2
  <2>4. f = [i \in 0..l + 1 |-> f[i]]
    OBVIOUS
  <2> HIDE DEF f
  <2>5. To(l + 1, f)
    BY <2>3, <2>4
  <2>6. QED
    BY <2>5
<1>5. bad = {}
  <2> SUFFICES ASSUME bad # {} PROVE FALSE
    OBVIOUS
  <2>1. PICK l \in bad : \A k \in bad : l <= k
    <3>1. bad \in SUBSET Nat
      BY <1>1
    <3> HIDE DEF bad
    <3>2. QED
      BY <3>1, LeastNumber
  <2> HIDE DEF To
  <2>2. l \in 0..n /\ l # 0 /\ ~\E f : To(l, f)
    BY <1>3, <2>1
  <2>3. l - 1 \in Nat /\ (l - 1) + 1 = l /\ l - 1 \in 0..n /\ ~(l <= l - 1)
    BY <1>1, <2>2
  <2>4. PICK p \in Nat : p + 1 = l /\ p \in 0..n /\ ~(l <= p)
    BY <2>3
  <2>5. PICK g : To(p, g)
    BY <2>1, <2>4
  <2>6. p + 1 \in 1..n
    BY <1>1, <2>2, <2>4
  <2>7. \E f : To(p + 1, f)
    BY <1>4, <2>5, <2>6
  <2>8. QED
    BY <2>2, <2>4, <2>7
<1>6. n \in 0..n
  BY <1>1
<1>7. \E f : To(n, f)
  BY <1>5, <1>6
<1> DEFINE kept == CHOOSE f : To(n, f)
           Right(l) == /\ kept[l] \in Seq(O)
                       /\ \A j \in 1..l : ~isSelf(batch[j]) => batch[j] \in ToSet(kept[l])
           wrong == {l \in 0..n : ~Right(l)}
<1>8. notSelf(batch) = kept[n]
  BY DEF notSelf, One, n
<1>9. To(n, kept)
  <2> HIDE DEF To
  <2>1. QED
    BY <1>7
<1>10. \A i \in 0..n : kept[i] = IF i = 0 THEN <<>> ELSE One(kept[i - 1], i)
  <2> HIDE DEF kept
  <2>1. QED
    BY <1>9
<1> HIDE DEF kept
<1>11. wrong = {}
  <2> SUFFICES ASSUME wrong # {} PROVE FALSE
    OBVIOUS
  <2>1. PICK l \in wrong : \A k \in wrong : l <= k
    <3>1. wrong \in SUBSET Nat
      BY <1>1
    <3> HIDE DEF wrong
    <3>2. QED
      BY <3>1, LeastNumber
  <2>2. l \in 0..n /\ ~Right(l)
    BY <2>1
  <2>3. l # 0
    <3>1. Right(0)
      <4>1. 0 \in 0..n /\ 1..0 = {}
        BY <1>1
      <4>2. kept[0] = <<>>
        BY <1>10, <4>1
      <4>3. QED
        BY <4>1, <4>2, EmptySeq
    <3> HIDE DEF Right
    <3>2. QED
      BY <2>2, <3>1
  <2>4. l - 1 \in 0..n /\ l \in 1..n /\ ~(l <= l - 1)
    BY <1>1, <2>2, <2>3
  <2> DEFINE x == kept[l - 1]
             y == kept[l]
  <2>5. Right(l - 1) /\ y = One(x, l)
    <3>1. y = One(x, l)
      BY <1>10, <2>2, <2>3
    <3> HIDE DEF Right
    <3>2. QED
      BY <2>1, <2>4, <3>1
  <2>6. x \in Seq(O) /\ \A j \in 1..l - 1 : ~isSelf(batch[j]) => batch[j] \in ToSet(x)
    BY <2>5
  <2> HIDE DEF x, y
  <2>7. y \in Seq(O)
    BY <1>2, <2>4, <2>5, <2>6
  <2>8. ToSet(x) \subseteq ToSet(y) /\ (~isSelf(batch[l]) => batch[l] \in ToSet(y))
    <3>1. CASE isSelf(batch[l])
      BY <2>5, <3>1 DEF One
    <3>2. CASE ~isSelf(batch[l])
      <4>1. y = Append(x, batch[l]) /\ batch[l] \in O
        BY <1>1, <2>4, <2>5, <3>2 DEF One, O
      <4>2. /\ Len(x) \in Nat /\ Len(y) = Len(x) + 1 /\ y[Len(x) + 1] = batch[l]
            /\ \A i \in 1..Len(x) : y[i] = x[i]
        BY <2>6, <4>1, AppendProperties, LenProperties
      <4>3. ToSet(x) = {x[i] : i \in 1..Len(x)} /\ ToSet(y) = {y[i] : i \in 1..Len(y)}
        BY <2>6, <2>7, SetOfSeq
      <4>4. Len(x) + 1 \in 1..Len(y) /\ 1..Len(x) \subseteq 1..Len(y)
        BY <4>2
      <4>5. \A i \in 1..Len(x) : x[i] \in ToSet(y)
        BY <4>2, <4>3, <4>4
      <4>6. batch[l] \in ToSet(y)
        BY <4>2, <4>3, <4>4
      <4>7. QED
        BY <4>3, <4>5, <4>6
    <3>3. QED
      BY <3>1, <3>2
  <2>9. \A j \in 1..l : ~isSelf(batch[j]) => batch[j] \in ToSet(y)
    <3> SUFFICES ASSUME NEW j \in 1..l, ~isSelf(batch[j]) PROVE batch[j] \in ToSet(y)
      OBVIOUS
    <3>1. j = l \/ j \in 1..l - 1
      BY <2>4
    <3>2. QED
      BY <2>6, <2>8, <3>1
  <2>10. QED
    BY <2>2, <2>7, <2>9 DEF y
<1>12. Right(n)
  BY <1>6, <1>11
<1>13. {m \in ToSet(batch) : ~isSelf(m)} \subseteq ToSet(kept[n])
  BY <1>12, SetOfSeq DEF n
<1>14. QED
  BY <1>1, <1>8, <1>12, <1>13 DEF O

\* An envelope goes to no client but that of its account, whatever it says its Wxid is.
LEMMA RouteFacts ==
  ASSUME \A b \in Accounts : ClientOk(b), NEW a \in Accounts, NEW batch \in Seq(Messages(a)),
         NEW envWxid \in {a, Foreign}, NEW sink \in route(envWxid, batch)
  PROVE  sink = a
<1>1. \A key \in Accounts \cup {Foreign} : sinks(key) \subseteq Accounts \cap {key}
  <2> SUFFICES ASSUME NEW key \in Accounts \cup {Foreign}, NEW b \in sinks(key)
               PROVE  b \in Accounts \cap {key}
    OBVIOUS
  <2>1. b \in Accounts /\ (b = key \/ wxid[b] = key) /\ wxid[b] \in {b, Unknown}
    BY DEF sinks, ClientOk
  <2>2. key # Unknown
    BY ClientAssumption
  <2>3. QED
    BY <2>1, <2>2
<1>2. Foreign \notin Accounts
  BY ClientAssumption
<1>3. CASE sinks(envWxid) # {}
  <2>1. sink \in sinks(envWxid)
    BY <1>3 DEF route
  <2>2. QED
    BY <1>1, <1>2, <2>1
<1>4. CASE sinks(envWxid) = {}
  <2>1. PICK m \in ToSet(batch) : ~isSelf(m) /\ sink \in sinks(m.to)
    BY <1>4 DEF route
  <2>2. m \in Messages(a)
    BY <2>1, SetOfSeq
  <2>3. m.to = a
    BY <2>1, <2>2, ClientAssumption
  <2>4. QED
    BY <1>1, <2>1, <2>3
<1>5. QED
  BY <1>3, <1>4

-----------------------------------------------------------------------------
(* The invariant of the steps.                                             *)

\* Of the first k messages upstream of a, those wanted are in X.
Passed(a, k, X) ==
  k \in 0..Len(Log[a]) /\ \A i \in 1..k : wanted(Log[a][i]) => Log[a][i] \in X

\* A Sync reply on its way: what its cursor passes is dealt with, or it brings it.
PendingOk(x) ==
  /\ x.account \in Accounts /\ x.batch \in Seq(Messages(x.account))
  /\ Passed(x.account, x.key, Covered(Now(x.account)) \cup ToSet(x.batch))

CursorOk(a) == Passed(a, synckey[a], Covered(Now(a)))

IInv ==
  /\ Shape
  /\ \A a \in Accounts : ClientOk(a) /\ CursorOk(a)
  /\ \A r \in Rounds : rounds[r] # Idle => PendingOk(rounds[r])

\* What is dealt with stays so, and the cursors and the replies rely on nothing else.
LEMMA PassedStays ==
  ASSUME NEW a, NEW k, NEW X, Passed(a, k, X), NEW Y, X \subseteq Y
  PROVE  Passed(a, k, Y)
BY DEF Passed

\* A step that only adds to what is dealt with leaves the replies sound.
LEMMA PendingStays ==
  ASSUME NEW x, PendingOk(x), \A b \in Accounts : Beyond(Now(b)', Now(b))
  PROVE  PendingOk(x)'
<1> DEFINE c == x.account
<1>1. c \in Accounts /\ x.batch \in Seq(Messages(c))
      /\ Passed(c, x.key, Covered(Now(c)) \cup ToSet(x.batch))
  BY DEF PendingOk
<1>2. Covered(Now(c)) \subseteq Covered(Now(c)')
  BY <1>1 DEF Beyond
<1>3. Passed(c, x.key, Covered(Now(c)') \cup ToSet(x.batch))
  BY <1>1, <1>2, PassedStays
<1>4. QED
  BY <1>1, <1>3 DEF PendingOk, Now

\* A step that takes nothing in.
LEMMA QuietSteps ==
  ASSUME IInv, UNCHANGED <<clientVars, stored, failed, recent>>,
         \/ missed' = missed /\ skipped' = skipped
         \/ missed' = Nothing /\ skipped' = Nothing
  PROVE  /\ \A b \in Accounts : ClientOk(b)' /\ CursorOk(b)' /\ Beyond(Now(b)', Now(b))
         /\ IsOfAccounts(wxid)' /\ IsOfAccounts(synckey)' /\ IsOfAccounts(seen)' /\ IsOfAccounts(recent)'
         /\ IsOfAccounts(stored)' /\ IsOfAccounts(failed)' /\ IsOfAccounts(missed)'
         /\ IsOfAccounts(skipped)'
<1>1. UNCHANGED <<wxid, synckey, seen, recent, stored, failed>>
  BY DEF clientVars
<1>2. /\ IsOfAccounts(missed)' /\ IsOfAccounts(skipped)'
      /\ \A b \in Accounts : \/ (missed'[b] = missed[b] /\ skipped'[b] = skipped[b])
                             \/ (missed'[b] = {} /\ skipped'[b] = {})
  BY DEF IInv, Shape, IsOfAccounts, Nothing
<1>3. ASSUME NEW b \in Accounts
      PROVE  ClientOk(b)' /\ CursorOk(b)' /\ Beyond(Now(b)', Now(b))
  <2>1. Now(b)' = Now(b)
    BY <1>1 DEF Now
  <2>2. Good(b, Now(b)')
    BY <2>1 DEF IInv, ClientOk
  <2>3. ClientOk(b)'
    BY <1>1, <1>2, <2>2 DEF IInv, ClientOk
  <2>4. Passed(b, synckey'[b], Covered(Now(b)'))
    BY <1>1, <2>1 DEF IInv, CursorOk
  <2>5. QED
    BY <2>1, <2>3, <2>4 DEF CursorOk, Passed, Covered, Now, Beyond
<1>4. QED
  BY <1>1, <1>2, <1>3 DEF IInv, Shape, IsOfAccounts

\* A step that leaves nothing out.
LEMMA NothingSkipped ==
  ASSUME NEW a \in Accounts, skipped' = Nothing
  PROVE  SkippedFor(a, {})'
BY DEF SkippedFor, Nothing

\* A batch that comes without a cursor.
LEMMA PushSteps ==
  ASSUME IInv, NEW a \in Accounts, NEW batch \in Seq(Messages(a)), NEW w \in {a, Unknown},
         NEW broken, NEW presented, NEW left, SkippedFor(a, left)',
         {m \in ToSet(presented) : wanted(m)} \subseteq ToSet(batch) \cup left,
         ingest(a, w, presented, batch, broken), dropped' = {}, UNCHANGED <<synckey, rounds>>
  PROVE  IInv'
<1>1. learn(a, w) \in {a, Unknown}
  BY DEF learn, IInv, ClientOk
<1>2. /\ IsOfAccounts(wxid)' /\ IsOfAccounts(seen)' /\ IsOfAccounts(recent)'
      /\ IsOfAccounts(stored)' /\ IsOfAccounts(failed)' /\ IsOfAccounts(missed)'
      /\ IsOfAccounts(skipped)'
      /\ \A b \in Accounts : ClientOk(b)' /\ Beyond(Now(b)', Now(b))
  BY <1>1, IngestKeeps DEF IInv
<1>3. Shape'
  BY <1>2 DEF IInv, Shape, IsOfAccounts
<1>4. ASSUME NEW b \in Accounts
      PROVE  CursorOk(b)'
  <2>1. Passed(b, synckey[b], Covered(Now(b))) /\ Covered(Now(b)) \subseteq Covered(Now(b)')
    BY <1>2 DEF IInv, CursorOk, Beyond
  <2>2. Passed(b, synckey[b], Covered(Now(b)'))
    BY <2>1, PassedStays
  <2>3. QED
    BY <2>2 DEF CursorOk, Passed, Covered, Now
<1>5. ASSUME NEW r \in Rounds, rounds'[r] # Idle
      PROVE  PendingOk(rounds[r])'
  <2> DEFINE x == rounds[r]
  <2>1. PendingOk(x)
    BY <1>5 DEF IInv
  <2> HIDE DEF x
  <2>2. PICK y : y = x
    OBVIOUS
  <2>3. PendingOk(y)'
    BY <1>2, <2>1, <2>2, PendingStays
  <2>4. y = x'
    BY <2>2 DEF x
  <2>5. QED
    BY <2>3, <2>4 DEF x, PendingOk, Passed, Covered, Now
<1>6. QED
  BY <1>2, <1>3, <1>4, <1>5 DEF IInv

\* A WebSocket push keeps the invariant.
LEMMA HandleWsMessageKeeps ==
  ASSUME IInv, NEW a \in Accounts, handleWsMessage(a)
  PROVE  IInv'
<1>1. PICK batch \in Batches(a), w \in tells(a) : \E broken : ingest(a, w, batch, batch, broken)
  BY DEF handleWsMessage
<1>2. SkippedFor(a, {})'
  BY NothingSkipped DEF handleWsMessage
<1>4. {m \in ToSet(batch) : wanted(m)} \subseteq ToSet(batch) \cup {}
  OBVIOUS
<1>5. batch \in Seq(Messages(a)) /\ w \in {a, Unknown}
  BY <1>1, BatchesFacts DEF tells
<1>3. QED
  BY <1>1, <1>2, <1>4, <1>5, PushSteps DEF handleWsMessage

\* A routed webhook push keeps the invariant.
LEMMA WebhookRoutedKeeps ==
  ASSUME IInv, NEW a \in Accounts, NEW batch \in Batches(a), NEW envWxid \in {a, Foreign},
         WebhookRouted(a, envWxid, batch)
  PROVE  IInv'
<1> DEFINE inbound == notSelf(batch)
           w == IF inbound = <<>> THEN Unknown ELSE inbound[1].to
<1>1. batch \in Seq(Messages(a))
  BY BatchesFacts
<1>2. PICK sink \in route(envWxid, batch) : \E broken :
         /\ ingest(sink, w, batch, inbound, broken)
         /\ skipped' = [Nothing EXCEPT ![sink] = {m \in ToSet(batch) : m.kind = "ownGroup"}]
  BY DEF WebhookRouted
<1>3. sink = a
  BY <1>1, RouteFacts DEF IInv
<1>4. /\ inbound \in Seq({m \in Messages(a) : ~isSelf(m)})
      /\ {m \in ToSet(batch) : ~isSelf(m)} \subseteq ToSet(inbound)
  BY <1>1, NotSelfFacts
<1> HIDE DEF inbound
<1> DEFINE left == {m \in ToSet(batch) : m.kind = "ownGroup"}
<1>5. inbound \in Seq(Messages(a))
  BY <1>4
<1>6. w \in {a, Unknown}
  <2>1. CASE inbound = <<>>
    BY <2>1
  <2>2. CASE inbound # <<>>
    <3>1. inbound[1] \in {m \in Messages(a) : ~isSelf(m)}
      BY <1>4, <2>2
    <3>2. inbound[1].to = a
      BY <3>1, ClientAssumption
    <3>3. QED
      BY <2>2, <3>2
  <2>3. QED
    BY <2>1, <2>2
<1> HIDE DEF w
<1>7. dropped' = {} /\ UNCHANGED <<synckey, rounds>>
  BY DEF WebhookRouted
<1>8. {m \in ToSet(batch) : wanted(m)} \subseteq ToSet(inbound) \cup left
  BY <1>4 DEF wanted, isSelf
<1>9. SkippedFor(a, left)'
  <2>1. left \subseteq Messages(a)
    BY <1>1, SetOfSeq
  <2>2. QED
    BY <1>2, <1>3, <2>1 DEF SkippedFor, Nothing, Messages
<1>10. \E broken : ingest(a, w, batch, inbound, broken)
  BY <1>2, <1>3
<1> HIDE DEF left
<1>11. QED
  BY <1>5, <1>6, <1>7, <1>8, <1>9, <1>10, PushSteps

\* A push that is dropped, and one that is refused.
LEMMA WebhookUnroutedKeeps ==
  ASSUME IInv, NEW a \in Accounts, NEW batch, NEW envWxid, WebhookUnrouted(a, envWxid, batch)
  PROVE  IInv'
<1>1. /\ UNCHANGED <<clientVars, stored, failed, recent>> /\ missed' = Nothing /\ skipped' = Nothing
      /\ dropped' = {a} /\ rounds' = rounds
  BY DEF WebhookUnrouted
<1>2. /\ \A b \in Accounts : ClientOk(b)' /\ CursorOk(b)' /\ Beyond(Now(b)', Now(b))
      /\ IsOfAccounts(wxid)' /\ IsOfAccounts(synckey)' /\ IsOfAccounts(seen)' /\ IsOfAccounts(recent)'
      /\ IsOfAccounts(stored)' /\ IsOfAccounts(failed)' /\ IsOfAccounts(missed)'
      /\ IsOfAccounts(skipped)'
  BY <1>1, QuietSteps
<1>3. Shape'
  BY <1>1, <1>2 DEF IInv, Shape, IsOfAccounts
<1>4. ASSUME NEW r \in Rounds, rounds'[r] # Idle
      PROVE  PendingOk(rounds[r])'
  BY <1>1, <1>4 DEF IInv, PendingOk, Passed, Covered, Now, clientVars
<1>5. QED
  BY <1>2, <1>3, <1>4 DEF IInv

\* A step that changes nothing keeps the invariant.
LEMMA StutterKeeps ==
  ASSUME IInv, UNCHANGED vars
  PROVE  IInv'
<1>1. /\ UNCHANGED <<clientVars, stored, failed, recent>> /\ missed' = missed /\ skipped' = skipped
      /\ dropped' = dropped /\ rounds' = rounds
  BY DEF vars
<1>2. /\ \A b \in Accounts : ClientOk(b)' /\ CursorOk(b)' /\ Beyond(Now(b)', Now(b))
      /\ IsOfAccounts(wxid)' /\ IsOfAccounts(synckey)' /\ IsOfAccounts(seen)' /\ IsOfAccounts(recent)'
      /\ IsOfAccounts(stored)' /\ IsOfAccounts(failed)' /\ IsOfAccounts(missed)'
      /\ IsOfAccounts(skipped)'
  BY <1>1, QuietSteps
<1>3. Shape'
  BY <1>1, <1>2 DEF IInv, Shape, IsOfAccounts
<1>4. ASSUME NEW r \in Rounds, rounds'[r] # Idle
      PROVE  PendingOk(rounds[r])'
  BY <1>1, <1>4 DEF IInv, PendingOk, Passed, Covered, Now, clientVars
<1>5. QED
  BY <1>2, <1>3, <1>4 DEF IInv

\* A part of a sequence holds what is between its ends.
LEMMA PartFacts ==
  ASSUME NEW S, NEW s \in Seq(S), NEW k \in Nat, NEW e \in Nat, k <= e, e <= Len(s)
  PROVE  /\ SubSeq(s, k + 1, e) \in Seq(S)
         /\ \A i \in 1..e : i > k => s[i] \in ToSet(SubSeq(s, k + 1, e))
<1> DEFINE p == SubSeq(s, k + 1, e)
           from == k + 1
<1>1. Len(s) \in Nat
  BY LenProperties
<1>2. from \in 1..Len(s) + 1 /\ e \in from - 1..Len(s) /\ (e - from) + 1 = e - k
  BY <1>1
<1> HIDE DEF from
<1>3. SubSeq(s, from, e) \in Seq(S) /\ Len(SubSeq(s, from, e)) = (e - from) + 1
      /\ \A i \in 1..(e - from) + 1 : SubSeq(s, from, e)[i] = s[from + i - 1]
  BY <1>2, SubSeqProperties
<1>4. \A i \in 1..e - k : from + i - 1 = k + i
  BY DEF from
<1>5. p \in Seq(S) /\ Len(p) = e - k /\ \A i \in 1..e - k : p[i] = s[k + i]
  <2>1. p = SubSeq(s, from, e)
    BY DEF from
  <2> HIDE DEF p
  <2>2. QED
    BY <1>2, <1>3, <1>4, <2>1
<1> HIDE DEF p
<1>6. ASSUME NEW i \in 1..e, i > k
      PROVE  s[i] \in ToSet(p)
  <2>1. i - k \in 1..e - k /\ k + (i - k) = i
    BY <1>6
  <2>2. p[i - k] = s[i] /\ i - k \in 1..Len(p)
    BY <1>5, <2>1
  <2>3. QED
    BY <1>5, <2>2, SetOfSeq
<1>7. QED
  BY <1>5, <1>6 DEF p

\* A Sync request keeps the invariant: its reply will bring what its cursor passes.
LEMMA BeginSyncKeeps ==
  ASSUME IInv, NEW r \in Rounds, NEW a \in Accounts, BeginSync(r, a)
  PROVE  IInv'
<1> DEFINE k == synckey[a]
           end == IF k + MaxBatch < Len(Log[a]) THEN k + MaxBatch ELSE Len(Log[a])
           batch == SubSeq(Log[a], k + 1, end)
           new == [phase |-> "pending", account |-> a, key |-> end, batch |-> batch]
<1>1. /\ UNCHANGED <<clientVars, stored, failed, recent>> /\ missed' = Nothing /\ skipped' = Nothing
      /\ dropped' = {} /\ rounds' = [rounds EXCEPT ![r] = new]
  BY DEF BeginSync
<1>2. /\ \A b \in Accounts : ClientOk(b)' /\ CursorOk(b)' /\ Beyond(Now(b)', Now(b))
      /\ IsOfAccounts(wxid)' /\ IsOfAccounts(synckey)' /\ IsOfAccounts(seen)' /\ IsOfAccounts(recent)'
      /\ IsOfAccounts(stored)' /\ IsOfAccounts(failed)' /\ IsOfAccounts(missed)'
      /\ IsOfAccounts(skipped)'
  BY <1>1, QuietSteps
<1>3. Log[a] \in Seq(Messages(a)) /\ Len(Log[a]) \in Nat /\ MaxBatch \in Nat
  BY ClientAssumption, LenProperties
<1>4. k \in 0..Len(Log[a]) /\ \A i \in 1..k : wanted(Log[a][i]) => Log[a][i] \in Covered(Now(a))
  BY DEF IInv, CursorOk, Passed
<1> HIDE DEF k
<1>5. k \in Nat /\ end \in Nat /\ k <= end /\ end <= Len(Log[a])
  BY <1>3, <1>4
<1> HIDE DEF end
<1>6. batch \in Seq(Messages(a)) /\ \A i \in 1..end : i > k => Log[a][i] \in ToSet(batch)
  BY <1>3, <1>5, PartFacts
<1> HIDE DEF batch
<1>7. Passed(a, end, Covered(Now(a)) \cup ToSet(batch))
  <2> SUFFICES ASSUME NEW i \in 1..end, wanted(Log[a][i])
               PROVE  Log[a][i] \in Covered(Now(a)) \cup ToSet(batch)
    BY <1>3, <1>5 DEF Passed
  <2>1. CASE i > k
    BY <1>6, <2>1
  <2>2. CASE ~(i > k)
    <3>1. i \in 1..k
      BY <1>5, <2>2
    <3>2. QED
      BY <1>4, <3>1
  <2>3. QED
    BY <2>1, <2>2
<1>8. PendingOk(new)
  BY <1>6, <1>7 DEF PendingOk
<1> HIDE DEF new
<1>9. Shape'
  <2>1. rounds' = [q \in Rounds |-> rounds'[q]]
    BY <1>1 DEF IInv, Shape
  <2>2. QED
    BY <1>1, <1>2, <2>1 DEF Shape, IsOfAccounts
<1>10. \A q \in Rounds : rounds'[q] = IF q = r THEN new ELSE rounds[q]
  BY <1>1 DEF IInv, Shape
<1>11. ASSUME NEW q \in Rounds, rounds'[q] # Idle
       PROVE  PendingOk(rounds[q])'
  <2>1. PendingOk(rounds'[q])
    BY <1>8, <1>10, <1>11 DEF IInv
  <2>2. QED
    BY <1>1, <2>1 DEF PendingOk, Passed, Covered, Now, clientVars
<1>12. QED
  BY <1>2, <1>9, <1>11 DEF IInv

\* A failed Sync request keeps the invariant.
LEMMA SyncFailsKeeps ==
  ASSUME IInv, NEW r \in Rounds, SyncFails(r)
  PROVE  IInv'
<1>1. /\ UNCHANGED <<clientVars, stored, failed, recent>> /\ missed' = Nothing /\ skipped' = Nothing
      /\ dropped' = {} /\ rounds' = [rounds EXCEPT ![r] = Idle]
  BY DEF SyncFails
<1>2. /\ \A b \in Accounts : ClientOk(b)' /\ CursorOk(b)' /\ Beyond(Now(b)', Now(b))
      /\ IsOfAccounts(wxid)' /\ IsOfAccounts(synckey)' /\ IsOfAccounts(seen)' /\ IsOfAccounts(recent)'
      /\ IsOfAccounts(stored)' /\ IsOfAccounts(failed)' /\ IsOfAccounts(missed)'
      /\ IsOfAccounts(skipped)'
  BY <1>1, QuietSteps
<1>3. Shape'
  <2>1. rounds' = [q \in Rounds |-> rounds'[q]]
    BY <1>1 DEF IInv, Shape
  <2>2. QED
    BY <1>1, <1>2, <2>1 DEF Shape, IsOfAccounts
<1>4. \A q \in Rounds : rounds'[q] = Idle \/ rounds'[q] = rounds[q]
  BY <1>1 DEF IInv, Shape
<1>5. ASSUME NEW q \in Rounds, rounds'[q] # Idle
      PROVE  PendingOk(rounds[q])'
  BY <1>1, <1>4, <1>5 DEF IInv, PendingOk, Passed, Covered, Now, clientVars
<1>6. QED
  BY <1>2, <1>3, <1>5 DEF IInv

\* The reply: its cursor is taken, and then its messages are.
LEMMA SyncReplyKeeps ==
  ASSUME IInv, NEW r \in Rounds, SyncReply(r)
  PROVE  IInv'
<1> DEFINE x == rounds[r]
<1>1. PICK y : y = x
  OBVIOUS
<1> DEFINE a == y.account
           batch == y.batch
           key == y.key
<1>2. PendingOk(y)
  BY <1>1 DEF SyncReply, IInv
<1>3. a \in Accounts /\ batch \in Seq(Messages(a)) /\ Passed(a, key, Covered(Now(a)) \cup ToSet(batch))
  BY <1>2 DEF PendingOk
<1>4. PICK w \in tells(a) : \E broken : ingest(a, w, batch, batch, broken)
  BY <1>1 DEF SyncReply
<1>5. /\ synckey' = [synckey EXCEPT ![a] = key] /\ rounds' = [rounds EXCEPT ![r] = Idle]
      /\ dropped' = {} /\ skipped' = Nothing
  BY <1>1 DEF SyncReply
<1> HIDE DEF a, batch, key
<1>14. SkippedFor(a, {})'
  BY <1>3, <1>5, NothingSkipped
<1>6. learn(a, w) \in {a, Unknown}
  BY <1>3, <1>4 DEF learn, tells, IInv, ClientOk
<1>7. /\ IsOfAccounts(wxid)' /\ IsOfAccounts(seen)' /\ IsOfAccounts(recent)'
      /\ IsOfAccounts(stored)' /\ IsOfAccounts(failed)' /\ IsOfAccounts(missed)'
      /\ IsOfAccounts(skipped)'
      /\ \A b \in Accounts : ClientOk(b)' /\ Beyond(Now(b)', Now(b))
      /\ \A m \in ToSet(batch) : wanted(m) => m \in Covered(Now(a)')
  <2>1. {m \in ToSet(batch) : wanted(m)} \subseteq ToSet(batch) \cup {}
    OBVIOUS
  <2>2. QED
    BY <1>3, <1>4, <1>6, <1>14, <2>1, IngestKeeps DEF IInv
<1>8. Shape'
  <2>1. rounds' = [q \in Rounds |-> rounds'[q]] /\ IsOfAccounts(synckey)'
    BY <1>5 DEF IInv, Shape, IsOfAccounts
  <2>2. QED
    BY <1>5, <1>7, <2>1 DEF Shape, IsOfAccounts
<1>9. /\ synckey'[a] = key /\ \A b \in Accounts \ {a} : synckey'[b] = synckey[b]
      /\ \A q \in Rounds : rounds'[q] = Idle \/ rounds'[q] = rounds[q]
  BY <1>3, <1>5 DEF IInv, Shape, IsOfAccounts
<1>10. Passed(a, key, Covered(Now(a)'))
  <2>1. Covered(Now(a)) \subseteq Covered(Now(a)')
    BY <1>3, <1>7 DEF Beyond
  <2>2. QED
    BY <1>3, <1>7, <2>1 DEF Passed
<1>11. ASSUME NEW b \in Accounts
       PROVE  CursorOk(b)'
  <2>1. Passed(b, synckey'[b], Covered(Now(b)'))
    <3>1. CASE b = a
      BY <1>9, <1>10, <3>1
    <3>2. CASE b # a
      <4>1. Passed(b, synckey[b], Covered(Now(b))) /\ Covered(Now(b)) \subseteq Covered(Now(b)')
        BY <1>7 DEF IInv, CursorOk, Beyond
      <4>2. Passed(b, synckey[b], Covered(Now(b)'))
        BY <4>1, PassedStays
      <4>3. QED
        BY <1>9, <3>2, <4>2
    <3>3. QED
      BY <3>1, <3>2
  <2>2. QED
    BY <2>1 DEF CursorOk, Passed, Covered, Now
<1>12. ASSUME NEW q \in Rounds, rounds'[q] # Idle
       PROVE  PendingOk(rounds[q])'
  <2>1. PICK z : z = rounds[q]
    OBVIOUS
  <2>2. PendingOk(z) /\ rounds'[q] = z
    BY <1>9, <1>12, <2>1 DEF IInv
  <2>3. PendingOk(z)'
    BY <1>7, <2>2, PendingStays
  <2>4. QED
    BY <2>2, <2>3 DEF PendingOk, Passed, Covered, Now
<1>13. QED
  BY <1>7, <1>8, <1>11, <1>12 DEF IInv

\* A process that starts has an empty filter and the cursor of an empty string.
LEMMA FreshStart ==
  ASSUME NEW a \in Accounts, NEW st, st \subseteq Messages(a),
         a \in Declared => \A m \in st : m.kind # "ownDM"
  PROVE  /\ Good(a, [seen |-> <<>>, recent |-> <<>>, stored |-> st, failed |-> {}])
         /\ \A X : Passed(a, 0, X)
<1>1. <<>> \in Seq(Ids(a)) /\ Len(<<>>) = 0 /\ ToSet(<<>>) = {} /\ IsInjective(<<>>)
  BY EmptySeq DEF ToSet, IsInjective
<1>2. last(Kept, <<>>) = <<>>
  <2>1. PICK e \in Seq(Ids(a)) : e = <<>> /\ Len(e) = 0
    BY <1>1
  <2>2. Kept \in Nat /\ ~(0 > Kept)
    BY KeptFacts
  <2>3. last(Kept, e) \in Seq(Ids(a)) /\ Len(last(Kept, e)) = IF Len(e) > Kept THEN Kept ELSE Len(e)
    BY <2>1, <2>2, LastFacts
  <2>4. QED
    BY <2>1, <2>2, <2>3, EmptySeq
<1>3. Len(Log[a]) \in Nat
  BY ClientAssumption, LenProperties
<1>4. QED
  BY <1>1, <1>2, <1>3, KeptFacts DEF Good, Passed

\* The invariant holds initially.
LEMMA InitHolds ==
  ASSUME Init
  PROVE  IInv
<1>1. Shape
  BY DEF Init, configured, Nothing, Shape, IsOfAccounts
<1>2. ASSUME NEW a \in Accounts
      PROVE  ClientOk(a) /\ CursorOk(a)
  <2>1. /\ wxid[a] \in {a, Unknown} /\ (a \in Declared => wxid[a] = a)
        /\ synckey[a] = 0 /\ failed[a] = {} /\ missed[a] = {} /\ skipped[a] = {}
        /\ Now(a) = [seen |-> <<>>, recent |-> <<>>, stored |-> {}, failed |-> {}]
    BY DEF Init, configured, Nothing, Now
  <2>2. Good(a, Now(a)) /\ \A X : Passed(a, 0, X)
    BY <2>1, FreshStart
  <2>3. QED
    BY <2>1, <2>2 DEF ClientOk, CursorOk
<1>3. QED
  BY <1>1, <1>2 DEF Init, IInv

\* A new process keeps the invariant: what is on record stays.
LEMMA RestartKeeps ==
  ASSUME IInv, Restart
  PROVE  IInv'
<1>1. Shape'
  BY DEF IInv, Restart, configured, Nothing, Shape, IsOfAccounts
<1>2. ASSUME NEW a \in Accounts
      PROVE  ClientOk(a)' /\ CursorOk(a)'
  <2>1. /\ wxid'[a] \in {a, Unknown} /\ (a \in Declared => wxid'[a] = a)
        /\ synckey'[a] = 0 /\ failed'[a] = {} /\ missed'[a] = {} /\ skipped'[a] = {}
        /\ Now(a)' = [seen |-> <<>>, recent |-> <<>>, stored |-> stored[a], failed |-> {}]
    BY DEF Restart, configured, Nothing, Now
  <2>2. stored[a] \subseteq Messages(a) /\ (a \in Declared => \A m \in stored[a] : m.kind # "ownDM")
    BY DEF IInv, ClientOk, Good, Now
  <2>3. PICK st : st = stored[a]
    OBVIOUS
  <2>4. Good(a, Now(a)') /\ Passed(a, 0, Covered(Now(a)'))
    BY <2>1, <2>2, <2>3, FreshStart
  <2>5. ClientOk(a)'
    BY <2>1, <2>4 DEF ClientOk
  <2>6. CursorOk(a)'
    BY <2>1, <2>4 DEF CursorOk, Passed, Covered, Now
  <2>7. QED
    BY <2>5, <2>6
<1>3. QED
  BY <1>1, <1>2 DEF Restart, IInv

\* Every step keeps the invariant.
LEMMA StepKeeps ==
  ASSUME IInv, [Next]_vars
  PROVE  IInv'
<1>1. ASSUME NEW a \in Accounts, handleWsMessage(a)
      PROVE  IInv'
  BY <1>1, HandleWsMessageKeeps
<1>2. ASSUME NEW a \in Accounts, NEW batch \in Batches(a), NEW w \in {a, Foreign}, webhookPush(a, w, batch)
      PROVE  IInv'
  BY <1>2, WebhookRoutedKeeps, WebhookUnroutedKeeps DEF webhookPush
<1>3. ASSUME NEW r \in Rounds, NEW a \in Accounts, BeginSync(r, a)
      PROVE  IInv'
  BY <1>3, BeginSyncKeeps
<1>4. ASSUME NEW r \in Rounds, SyncReply(r) \/ SyncFails(r)
      PROVE  IInv'
  BY <1>4, SyncReplyKeeps, SyncFailsKeeps
<1>5. CASE Restart
  BY <1>5, RestartKeeps
<1>6. CASE UNCHANGED vars
  BY <1>6, StutterKeeps
<1>7. QED
  BY <1>1, <1>2, <1>3, <1>4, <1>5, <1>6 DEF Next, WebhookRefused

\* The invariant holds in every reachable state.
LEMMA Inductive == Spec => []IInv
<1>1. IInv /\ [Next]_vars => IInv'
  BY StepKeeps
<1>2. QED
  BY InitHolds, <1>1, PTL DEF Spec

-----------------------------------------------------------------------------
(* The theorems.                                                           *)

\* Every variable of the intake has its type, and the filter of processed messages is a list
\* without duplicates that never exceeds SEEN_MSG_ID_MAX.
THEOREM TypeCorrect == Spec => []TypeOK
<1>1. ASSUME IInv
      PROVE  TypeOK
  <2>1. wxid \in [Accounts -> Accounts \cup Peers \cup {Foreign, Unknown}]
    <3>1. wxid = [a \in Accounts |-> wxid[a]] /\ \A a \in Accounts : wxid[a] \in {a, Unknown}
      BY <1>1 DEF IInv, Shape, IsOfAccounts, ClientOk
    <3>2. QED
      BY <3>1
  <2>2. ASSUME NEW a \in Accounts
        PROVE  /\ synckey[a] \in 0..Len(Log[a])
               /\ IsInjective(seen[a]) /\ Len(seen[a]) <= SeenMax
               /\ ToSet(seen[a]) \subseteq {m.msgId : m \in Messages(a)}
               /\ stored[a] \subseteq Messages(a)
               /\ missed[a] \subseteq Messages(a) /\ skipped[a] \subseteq Messages(a)
               /\ failed[a] \subseteq Messages(a) \ stored[a]
               /\ ToSet(recent[a]) \subseteq {m.msgId : m \in Messages(a)}
    <3>1. /\ seen[a] \in Seq(Ids(a)) /\ IsInjective(seen[a]) /\ Len(seen[a]) <= SeenMax
          /\ recent[a] = last(Kept, seen[a])
          /\ stored[a] \subseteq Messages(a) /\ failed[a] \subseteq Messages(a)
      BY <1>1 DEF IInv, ClientOk, Good, Now
    <3>2. ToSet(seen[a]) \subseteq Ids(a) /\ ToSet(recent[a]) \subseteq ToSet(seen[a])
      BY <3>1, SetOfSeq, LastKeeps, KeptFacts
    <3>3. /\ synckey[a] \in 0..Len(Log[a]) /\ failed[a] \cap stored[a] = {}
          /\ missed[a] \subseteq failed[a] \cup skipped[a] /\ skipped[a] \subseteq Messages(a)
      BY <1>1 DEF IInv, ClientOk, CursorOk, Passed
    <3>4. QED
      BY <3>1, <3>2, <3>3 DEF Ids
  <2>3. \A r \in Rounds : rounds[r] = Idle \/ rounds[r].account \in Accounts
    BY <1>1 DEF IInv, PendingOk
  <2>4. dropped \subseteq Accounts
    BY <1>1 DEF IInv, Shape
  <2>5. QED
    BY <2>1, <2>2, <2>3, <2>4 DEF TypeOK
<1>2. QED
  BY Inductive, <1>1, PTL

\* Whatever the pushes say their Wxid is, a client learns no wxid but its own and stores no
\* message of another account.
THEOREM RightAccountAlways == Spec => []RightAccount
<1>1. IInv => RightAccount
  BY DEF IInv, ClientOk, Good, Now, RightAccount
<1>2. QED
  BY Inductive, <1>1, PTL

\* A client with a configured wxid never takes its account's own direct messages for
\* inbound ones.
THEOREM NoOwnDMAlways == Spec => []NoOwnDM
<1>1. IInv => NoOwnDM
  BY ClientAssumption DEF IInv, ClientOk, Good, Now, NoOwnDM
<1>2. QED
  BY Inductive, <1>1, PTL

\* An eviction forgets none of the ids that entered the filter last, for any SEEN_MSG_ID_MAX.
THEOREM SeenRemembersAlways == Spec => []SeenRemembersRecent
<1>1. ASSUME IInv
      PROVE  SeenRemembersRecent
  <2>1. ASSUME NEW a \in Accounts
        PROVE  ToSet(recent[a]) \subseteq ToSet(seen[a])
    <3>1. seen[a] \in Seq(Ids(a)) /\ recent[a] = last(Kept, seen[a])
      BY <1>1 DEF IInv, ClientOk, Good, Now
    <3>2. QED
      BY <3>1, LastKeeps, KeptFacts
  <2>2. QED
    BY <2>1 DEF SeenRemembersRecent
<1>2. QED
  BY Inductive, <1>1, PTL

\* A message of another or of a group that was presented is on record, unless the database
\* refused it or it is an own group message of a webhook push: the filter drops nothing
\* that was not dealt with, and no other transport leaves anything out.
THEOREM PresentedIsStoredAlways == Spec => []PresentedIsStored
<1>1. IInv => PresentedIsStored
  BY DEF IInv, ClientOk, PresentedIsStored
<1>2. QED
  BY Inductive, <1>1, PTL

\* The cursor passes no wanted message that is neither on record nor refused by the database,
\* however many calls overlap and in whatever order their replies arrive.
THEOREM CursorCoversAlways == Spec => []CursorCovers
<1>1. IInv => CursorCovers
  BY DEF IInv, CursorOk, Passed, Covered, Now, CursorCovers
<1>2. QED
  BY Inductive, <1>1, PTL
=============================================================================
