-------------------------- MODULE CachedStoreProofs --------------------------
(***************************************************************************)
(* CachedStore for any number of keys, readers and writers, values of any  *)
(* size, and a cache of any size.                                           *)
(***************************************************************************)
EXTENDS CachedStore, SequenceTheorems, FiniteSetTheorems, WellFoundedInduction, TLAPS

Entry == [k : CacheKeys, value : Versions]

(* What the cache holds: each key once, and what it counts.                 *)
Once(seq) == \A i, j \in DOMAIN seq : seq[i].k = seq[j].k => i = j
Listed ==
  /\ lru \in Seq(Entry)
  /\ bytes = SizeOf(lru) /\ bytes <= MaxBytes
  /\ Once(lru)

Flying(r) == read[r].at \in {"fetch", "fetched"}
Underway(r) == read[r].at \in {"look", "wait", "fetch", "fetched"}

(* Reads and flights: a flight has one read that is reading the store for   *)
(* it, whose key is that of the flight and of those that wait for it.       *)
Placed == \A r \in Readers : read[r].at \in OnFlight => read[r].on \in Flights
OneEach == \A r, s \in Readers : Flying(r) /\ Flying(s) /\ read[r].on = read[s].on => r = s
Started == \A r \in Readers : read[r].at = "fetch" => flight[read[r].on].at = "reading"
Mapped ==
  \A k \in CacheKeys : flights[k] # NoFlight =>
    \E s \in Readers : Flying(s) /\ read[s].on = flights[k] /\ read[s].key = k
Joined ==
  \A r, s \in Readers :
    read[r].at = "wait" /\ Flying(s) /\ read[r].on = read[s].on => read[r].key = read[s].key
Flown == Placed /\ OneEach /\ Started /\ Mapped /\ Joined

(* The flights that were stopped and that r may still wait for.             *)
Stopped(r) ==
  {f \in Flights : /\ flight[f].at = "cancelled"
                   /\ \/ \E s \in Readers : read[s].at = "fetched" /\ read[s].on = f
                      \/ read[r].at = "wait" /\ read[r].on = f}
Attempts(r) == IF Underway(r) THEN read[r].attempt ELSE 0

(* Each time a read looks again it has seen another read of the store be    *)
(* stopped.                                                                 *)
Counted ==
  /\ cancels \in 0 .. MaxCancels
  /\ \A r \in Readers : /\ IsFiniteSet(Stopped(r))
                        /\ Attempts(r) + Cardinality(Stopped(r)) <= cancels

(* No read is to read the store itself while another reads it of its key.   *)
JoinsInTime == \A r \in Readers : read[r].at = "look" => read[r].attempt < Retries

(* What may be kept is current: the store is ahead of what is promised, a   *)
(* flight that is not stale is the one of its key, and what it read is no   *)
(* older than what is promised.                                             *)
Ahead ==
  /\ \A x \in Keys : floor[x] <= stored[x]
  /\ \A w \in Writers : write[w].at # "idle" => write[w].value <= stored[write[w].key]
Fresh ==
  /\ \A k \in CacheKeys : flights[k] # NoFlight => ~flight[flights[k]].stale
  /\ \A r \in Readers : Flying(r) /\ ~flight[read[r].on].stale =>
       /\ flights[read[r].key] = read[r].on
       /\ flight[read[r].on].at = "ok" => flight[read[r].on].value >= floor[KeyOf[read[r].key]]
Current == Ahead /\ Fresh /\ KeptIsCurrent

(* And every read sees what it is to see.                                   *)
Seen ==
  /\ \A r \in Readers : Underway(r) => read[r].floor <= floor[KeyOf[read[r].key]]
  /\ \A r \in Readers :
       read[r].at \in {"wait", "fetched"} /\ flight[read[r].on].at = "ok" =>
         flight[read[r].on].value >= read[r].floor
  /\ ReadsSeeWrites

Kept == TypeOK /\ Listed /\ Flown
IInv == Kept /\ Current /\ Seen
-----------------------------------------------------------------------------
(* Numbers: induction over a set, the largest of a bounded set, and that a  *)
(* recurrence over 0 .. N has a function, for a step that is a function.    *)
LEMMA Least ==
  ASSUME NEW T \in SUBSET Nat, T # {}
  PROVE  \E n \in T : \A m \in T : n <= m
<1>1. PICK n \in T : \A m \in T : ~ (<<m, n>> \in OpToRel(<, Nat))
  BY NatLessThanWellFounded, WFMin
<1>2. ASSUME NEW m \in T PROVE n <= m
  <2>1. m \in Nat /\ n \in Nat
    OBVIOUS
  <2>2. ~(m < n)
    BY <1>1, <2>1 DEF OpToRel
  <2> QED
    BY <2>1, <2>2
<1> QED
  BY <1>2

LEMMA Induction ==
  ASSUME NEW T, 0 \in T, \A n \in Nat : n \in T => n + 1 \in T
  PROVE  Nat \subseteq T
<1> SUFFICES ASSUME Nat \ T # {} PROVE FALSE
  OBVIOUS
<1>1. PICK n \in Nat \ T : \A m \in Nat \ T : n <= m
  BY Least
<1>2. n \in Nat /\ n # 0 /\ n - 1 \in Nat /\ n - 1 \notin Nat \ T
  BY <1>1
<1>3. n - 1 + 1 \in T
  BY <1>2
<1> QED
  BY <1>2, <1>3

LEMMA Largest ==
  ASSUME NEW N \in Nat, NEW T \in SUBSET (0 .. N), T # {}
  PROVE  \E n \in T : \A m \in T : n >= m
<1> DEFINE U == {d \in Nat : N - d \in T}
<1>1. U # {}
  <2>1. PICK n \in T : TRUE
    OBVIOUS
  <2>2. N - n \in Nat /\ N - (N - n) = n
    OBVIOUS
  <2> QED
    BY <2>2
<1>2. PICK d \in U : \A e \in U : d <= e
  BY <1>1, Least
<1>3. ASSUME NEW m \in T PROVE N - d >= m
  <2>1. N - m \in Nat /\ N - (N - m) = m
    OBVIOUS
  <2>2. d <= N - m
    BY <1>2, <2>1
  <2> QED
    BY <2>1, <2>2
<1> QED
  BY <1>3

Recurs(S) ==
  \A base \in S, N \in Nat : \A step \in [1 .. N -> [S -> S]] :
    \E g \in [0 .. N -> S] : g[0] = base /\ \A n \in 1 .. N : g[n] = step[n][g[n - 1]]

LEMMA Recurrence == \A S : Recurs(S)
<1> SUFFICES ASSUME NEW S, NEW base \in S, NEW N \in Nat, NEW step \in [1 .. N -> [S -> S]]
             PROVE  \E g \in [0 .. N -> S] :
                      g[0] = base /\ \A n \in 1 .. N : g[n] = step[n][g[n - 1]]
  BY DEF Recurs
<1> DEFINE T == {m \in Nat : m <= N =>
                   \E g \in [0 .. m -> S] :
                     \A n \in 0 .. m : g[n] = IF n = 0 THEN base ELSE step[n][g[n - 1]]}
<1>1. 0 \in T
  <2> DEFINE g == [n \in 0 .. 0 |-> base]
  <2>1. g \in [0 .. 0 -> S]
    OBVIOUS
  <2>2. \A n \in 0 .. 0 : g[n] = IF n = 0 THEN base ELSE step[n][g[n - 1]]
    OBVIOUS
  <2> QED
    BY <2>1, <2>2
<1>2. ASSUME NEW m \in Nat, m \in T PROVE m + 1 \in T
  <2> SUFFICES ASSUME m + 1 <= N
               PROVE  \E h \in [0 .. m + 1 -> S] :
                        \A n \in 0 .. m + 1 : h[n] = IF n = 0 THEN base ELSE step[n][h[n - 1]]
    OBVIOUS
  <2>1. PICK g \in [0 .. m -> S] :
          \A n \in 0 .. m : g[n] = IF n = 0 THEN base ELSE step[n][g[n - 1]]
    BY <1>2
  <2> DEFINE h == [n \in 0 .. m + 1 |-> IF n = m + 1 THEN step[m + 1][g[m]] ELSE g[n]]
  <2>2. step[m + 1][g[m]] \in S
    BY <2>1
  <2>3. h \in [0 .. m + 1 -> S]
    BY <2>2
  <2>4. ASSUME NEW n \in 0 .. m + 1
        PROVE  h[n] = IF n = 0 THEN base ELSE step[n][h[n - 1]]
    <3>1. CASE n = m + 1
      BY <3>1
    <3>2. CASE n \in 0 .. m
      BY <2>1, <3>2
    <3> QED
      BY <3>1, <3>2
  <2> QED
    BY <2>3, <2>4
<1>3. N \in T
  <2> HIDE DEF T
  <2> QED
    BY <1>1, <1>2, Induction
<1>4. PICK g \in [0 .. N -> S] :
        \A n \in 0 .. N : g[n] = IF n = 0 THEN base ELSE step[n][g[n - 1]]
  BY <1>3
<1>5. g[0] = base /\ \A n \in 1 .. N : g[n] = step[n][g[n - 1]]
  BY <1>4
<1> QED
  BY <1>5
-----------------------------------------------------------------------------
(* What the entries of the list count for.                                  *)
LEMMA Sizes ==
  /\ \A v \in Versions : Size[v] \in Nat \ {0}
  /\ \A e \in Entry : Size[e.value] \in Nat \ {0}
  /\ \A seq \in Seq(Entry) : Len(seq) \in Nat /\ \A n \in 1 .. Len(seq) : Size[seq[n].value] \in Nat
<1>1. \A v \in Versions : Size[v] \in Nat \ {0}
  BY CacheAssumption DEF Versions
<1>2. \A e \in Entry : Size[e.value] \in Nat \ {0}
  BY <1>1 DEF Entry
<1>3. \A seq \in Seq(Entry) : Len(seq) \in Nat /\ \A n \in 1 .. Len(seq) : seq[n] \in Entry
  OBVIOUS
<1> QED
  BY <1>1, <1>2, <1>3

LEMMA SizeRecurs ==
  ASSUME NEW seq \in Seq(Entry)
  PROVE  \E g \in [0 .. Len(seq) -> Nat] :
           /\ SizeOf(seq) = g[Len(seq)]
           /\ g[0] = 0
           /\ \A n \in 1 .. Len(seq) : g[n] = g[n - 1] + Size[seq[n].value]
<1> DEFINE N == Len(seq)
           step == [n \in 1 .. N |-> [m \in Nat |-> m + Size[seq[n].value]]]
           f == CHOOSE h : h = [n \in 0 .. N |-> IF n = 0 THEN 0 ELSE h[n - 1] + Size[seq[n].value]]
<1>1. N \in Nat /\ \A n \in 1 .. N : Size[seq[n].value] \in Nat
  BY Sizes
<1>2. SizeOf(seq) = f[N]
  BY DEF SizeOf
<1> HIDE DEF N
<1>3. step \in [1 .. N -> [Nat -> Nat]]
  BY <1>1
<1>4. \A n \in 1 .. N : \A m \in Nat : step[n][m] = m + Size[seq[n].value]
  OBVIOUS
<1> HIDE DEF step
<1>5. PICK g \in [0 .. N -> Nat] : g[0] = 0 /\ \A n \in 1 .. N : g[n] = step[n][g[n - 1]]
  <2>1. Recurs(Nat)
    BY Recurrence
  <2> QED
    BY <1>1, <1>3, <2>1 DEF Recurs
<1>6. g = [n \in 0 .. N |-> IF n = 0 THEN 0 ELSE g[n - 1] + Size[seq[n].value]]
  <2>1. ASSUME NEW n \in 0 .. N
        PROVE  g[n] = IF n = 0 THEN 0 ELSE g[n - 1] + Size[seq[n].value]
    <3>1. CASE n = 0
      BY <1>5, <3>1
    <3>2. CASE n # 0
      <4>1. n \in 1 .. N /\ g[n - 1] \in Nat
        BY <1>1, <3>2
      <4> QED
        BY <1>4, <1>5, <3>2, <4>1
    <3> QED
      BY <3>1, <3>2
  <2> QED
    BY <2>1
<1>7. f = [n \in 0 .. N |-> IF n = 0 THEN 0 ELSE f[n - 1] + Size[seq[n].value]]
  BY <1>6
<1> HIDE DEF f
<1>a. /\ \A n \in 0 .. N : f[n] = IF n = 0 THEN 0 ELSE f[n - 1] + Size[seq[n].value]
      /\ \A n \in 0 .. N : g[n] = IF n = 0 THEN 0 ELSE g[n - 1] + Size[seq[n].value]
  BY <1>6, <1>7, Zenon
<1> DEFINE T == {n \in Nat : n <= N => f[n] = g[n]}
<1>8. 0 \in T
  BY <1>1, <1>a
<1>9. ASSUME NEW n \in Nat, n \in T PROVE n + 1 \in T
  <2> SUFFICES ASSUME n + 1 <= N PROVE f[n + 1] = g[n + 1]
    OBVIOUS
  <2>1. n + 1 \in 0 .. N /\ n + 1 # 0 /\ f[n] = g[n] /\ (n + 1) - 1 = n
    BY <1>1, <1>9
  <2> QED
    BY <1>a, <2>1
<1>10. f[N] = g[N]
  <2>1. Nat \subseteq T
    <3> HIDE DEF T
    <3> QED
      BY <1>8, <1>9, Induction
  <2> QED
    BY <1>1, <2>1
<1>11. g[0] = 0 /\ \A n \in 1 .. N : g[n] = g[n - 1] + Size[seq[n].value]
  BY <1>1, <1>6
<1> QED
  BY <1>2, <1>10, <1>11 DEF N

LEMMA SizeAgrees ==
  ASSUME NEW seq \in Seq(Entry), NEW g \in [0 .. Len(seq) -> Nat], g[0] = 0,
         \A n \in 1 .. Len(seq) : g[n] = g[n - 1] + Size[seq[n].value]
  PROVE  SizeOf(seq) = g[Len(seq)]
<1>1. PICK h \in [0 .. Len(seq) -> Nat] :
        /\ SizeOf(seq) = h[Len(seq)]
        /\ h[0] = 0
        /\ \A n \in 1 .. Len(seq) : h[n] = h[n - 1] + Size[seq[n].value]
  BY SizeRecurs
<1> DEFINE T == {n \in Nat : n <= Len(seq) => h[n] = g[n]}
<1>2. 0 \in T
  BY <1>1
<1>3. ASSUME NEW n \in Nat, n \in T PROVE n + 1 \in T
  <2> SUFFICES ASSUME n + 1 <= Len(seq) PROVE h[n + 1] = g[n + 1]
    OBVIOUS
  <2>1. Len(seq) \in Nat
    OBVIOUS
  <2>2. n + 1 \in 1 .. Len(seq) /\ h[n] = g[n] /\ (n + 1) - 1 = n
    BY <1>3, <2>1
  <2> QED
    BY <1>1, <2>2
<1>4. Nat \subseteq T
  <2> HIDE DEF T
  <2> QED
    BY <1>2, <1>3, Induction
<1> QED
  BY <1>1, <1>4

LEMMA SizeType == ASSUME NEW seq \in Seq(Entry) PROVE SizeOf(seq) \in Nat
BY SizeRecurs

LEMMA SizeEmpty == SizeOf(<<>>) = 0
<1>1. <<>> \in Seq(Entry) /\ Len(<<>>) = 0
  OBVIOUS
<1> QED
  BY <1>1, SizeRecurs

LEMMA SizeAppend ==
  ASSUME NEW seq \in Seq(Entry), NEW e \in Entry
  PROVE  SizeOf(Append(seq, e)) = SizeOf(seq) + Size[e.value]
<1> DEFINE N == Len(seq)
           longer == Append(seq, e)
<1>1. PICK g \in [0 .. N -> Nat] :
        /\ SizeOf(seq) = g[N]
        /\ g[0] = 0
        /\ \A n \in 1 .. N : g[n] = g[n - 1] + Size[seq[n].value]
  BY SizeRecurs
<1>2. /\ longer \in Seq(Entry) /\ Len(longer) = N + 1 /\ longer[N + 1] = e
      /\ \A n \in 1 .. N : longer[n] = seq[n]
  BY AppendProperties
<1>3. N \in Nat /\ Size[e.value] \in Nat
  BY Sizes
<1> HIDE DEF N, longer
<1> DEFINE h == [n \in 0 .. N + 1 |-> IF n = N + 1 THEN g[N] + Size[e.value] ELSE g[n]]
<1>4. h \in [0 .. N + 1 -> Nat] /\ h[0] = 0 /\ h[N + 1] = g[N] + Size[e.value]
  BY <1>1, <1>3
<1>5. ASSUME NEW n \in 1 .. N + 1 PROVE h[n] = h[n - 1] + Size[longer[n].value]
  <2>1. CASE n = N + 1
    BY <1>2, <1>3, <2>1
  <2>2. CASE n \in 1 .. N
    <3>1. h[n] = g[n] /\ h[n - 1] = g[n - 1]
      BY <1>3, <2>2
    <3> QED
      BY <1>1, <1>2, <2>2, <3>1
  <2> QED
    BY <1>3, <2>1, <2>2
<1> HIDE DEF h
<1>6. SizeOf(longer) = h[N + 1]
  BY <1>2, <1>4, <1>5, SizeAgrees
<1> QED
  BY <1>1, <1>4, <1>6 DEF N, longer

LEMMA SizeConcat ==
  ASSUME NEW s \in Seq(Entry), NEW t \in Seq(Entry)
  PROVE  SizeOf(s \o t) = SizeOf(s) + SizeOf(t)
<1> DEFINE T == {n \in Nat : \A u \in Seq(Entry) :
                   Len(u) = n => SizeOf(s \o u) = SizeOf(s) + SizeOf(u)}
<1>1. 0 \in T
  <2>1. ASSUME NEW u \in Seq(Entry), Len(u) = 0 PROVE SizeOf(s \o u) = SizeOf(s) + SizeOf(u)
    <3>1. u = <<>> /\ s \o <<>> = s
      BY <2>1, EmptySeq, ConcatEmptySeq
    <3> QED
      BY <3>1, SizeEmpty, SizeType
  <2> QED
    BY <2>1
<1>2. ASSUME NEW n \in Nat, n \in T PROVE n + 1 \in T
  <2>1. ASSUME NEW u \in Seq(Entry), Len(u) = n + 1
        PROVE  SizeOf(s \o u) = SizeOf(s) + SizeOf(u)
    <3>1. PICK v \in Seq(Entry), e \in Entry : u = Append(v, e)
      BY <2>1, SequenceEmptyOrAppend
    <3>2. Len(v) = n
      BY <2>1, <3>1, AppendProperties
    <3>3. s \o u = Append(s \o v, e)
      BY <3>1
    <3>4. SizeOf(s \o v) = SizeOf(s) + SizeOf(v)
      BY <1>2, <3>2
    <3>5. s \o v \in Seq(Entry) /\ SizeOf(s) \in Nat /\ SizeOf(v) \in Nat /\ Size[e.value] \in Nat
      BY SizeType, Sizes, ConcatProperties
    <3>6. SizeOf(u) = SizeOf(v) + Size[e.value]
      BY <3>1, SizeAppend, Zenon
    <3>7. SizeOf(s \o u) = SizeOf(s \o v) + Size[e.value]
      BY <3>3, <3>5, SizeAppend, Zenon
    <3> QED
      BY <3>4, <3>5, <3>6, <3>7
  <2> QED
    BY <2>1
<1>3. Nat \subseteq T
  <2> HIDE DEF T
  <2> QED
    BY <1>1, <1>2, Induction
<1> QED
  BY <1>3

LEMMA SizeOne ==
  ASSUME NEW e \in Entry PROVE SizeOf(<<e>>) = Size[e.value]
<1>1. <<e>> = Append(<<>>, e) /\ <<>> \in Seq(Entry)
  OBVIOUS
<1>2. SizeOf(<<e>>) = SizeOf(<<>>) + Size[e.value]
  BY <1>1, SizeAppend, Zenon
<1> QED
  BY <1>2, SizeEmpty, Sizes
-----------------------------------------------------------------------------
(* What is left of the list: entries of it, each once, that count for no    *)
(* more than it.                                                            *)
Leaves(g, seq, gone) ==
  /\ Without(seq, gone) = g[Len(seq)]
  /\ g[0] = <<>>
  /\ \A n \in 1 .. Len(seq) :
       g[n] = IF seq[n].k \in gone THEN g[n - 1] ELSE Append(g[n - 1], seq[n])

LEMMA WithoutRecurs ==
  ASSUME NEW seq \in Seq(Entry), NEW gone
  PROVE  \E g \in [0 .. Len(seq) -> Seq(Entry)] : Leaves(g, seq, gone)
<1> DEFINE N == Len(seq)
           L == Seq(Entry)
           step == [n \in 1 .. N |-> [s \in L |-> IF seq[n].k \in gone THEN s ELSE Append(s, seq[n])]]
           f == CHOOSE h : h = [n \in 0 .. N |->
                                  IF n = 0 THEN <<>>
                                  ELSE IF seq[n].k \in gone THEN h[n - 1] ELSE Append(h[n - 1], seq[n])]
<1>1. N \in Nat /\ <<>> \in L /\ \A n \in 1 .. N : seq[n] \in Entry
  OBVIOUS
<1>2. Without(seq, gone) = f[N]
  BY DEF Without
<1>3. \A s \in L, n \in 1 .. N : Append(s, seq[n]) \in L
  BY <1>1, AppendProperties
<1> HIDE DEF N, L
<1>4. step \in [1 .. N -> [L -> L]]
  BY <1>3
<1>5. \A n \in 1 .. N : \A s \in L :
        step[n][s] = IF seq[n].k \in gone THEN s ELSE Append(s, seq[n])
  OBVIOUS
<1> HIDE DEF step
<1>6. PICK g \in [0 .. N -> L] : g[0] = <<>> /\ \A n \in 1 .. N : g[n] = step[n][g[n - 1]]
  <2>1. Recurs(L)
    BY Recurrence
  <2> QED
    BY <1>1, <1>4, <2>1 DEF Recurs
<1>7. \A n \in 1 .. N : g[n] = IF seq[n].k \in gone THEN g[n - 1] ELSE Append(g[n - 1], seq[n])
  <2>1. ASSUME NEW n \in 1 .. N
        PROVE  g[n] = IF seq[n].k \in gone THEN g[n - 1] ELSE Append(g[n - 1], seq[n])
    <3>1. g[n - 1] \in L
      BY <1>1
    <3>2. step[n][g[n - 1]] = IF seq[n].k \in gone THEN g[n - 1] ELSE Append(g[n - 1], seq[n])
      BY <1>5, <3>1, Zenon
    <3> QED
      BY <1>6, <3>2
  <2> QED
    BY <2>1
<1>8. g = [n \in 0 .. N |-> IF n = 0 THEN <<>>
                            ELSE IF seq[n].k \in gone THEN g[n - 1] ELSE Append(g[n - 1], seq[n])]
  <2>1. ASSUME NEW n \in 0 .. N
        PROVE  g[n] = IF n = 0 THEN <<>>
                      ELSE IF seq[n].k \in gone THEN g[n - 1] ELSE Append(g[n - 1], seq[n])
    <3>1. n = 0 \/ n \in 1 .. N
      BY <1>1
    <3>2. ~(0 \in 1 .. N)
      OBVIOUS
    <3> QED
      BY <1>6, <1>7, <3>1, <3>2, Zenon
  <2> QED
    BY <2>1
<1>9. f = [n \in 0 .. N |-> IF n = 0 THEN <<>>
                            ELSE IF seq[n].k \in gone THEN f[n - 1] ELSE Append(f[n - 1], seq[n])]
  BY <1>8, Zenon
<1> HIDE DEF f
<1>10. \A n \in 0 .. N : f[n] = IF n = 0 THEN <<>>
                                ELSE IF seq[n].k \in gone THEN f[n - 1] ELSE Append(f[n - 1], seq[n])
  BY <1>9, Zenon
<1> DEFINE T == {n \in Nat : n <= N => f[n] = g[n]}
<1>11. 0 \in T
  BY <1>1, <1>6, <1>10
<1>12. ASSUME NEW n \in Nat, n \in T PROVE n + 1 \in T
  <2> SUFFICES ASSUME n + 1 <= N PROVE f[n + 1] = g[n + 1]
    OBVIOUS
  <2>1. n + 1 \in 0 .. N /\ n + 1 \in 1 .. N /\ n + 1 # 0 /\ f[n] = g[n] /\ (n + 1) - 1 = n
    BY <1>1, <1>12
  <2> DEFINE m == n + 1
  <2>2. m \in 0 .. N /\ m \in 1 .. N /\ m # 0 /\ f[m - 1] = g[m - 1]
    BY <2>1
  <2> HIDE DEF m
  <2>3. f[m] = g[m]
    BY <1>7, <1>10, <2>2, Zenon
  <2> QED
    BY <2>3 DEF m
<1>13. f[N] = g[N]
  <2>1. Nat \subseteq T
    <3> HIDE DEF T
    <3> QED
      BY <1>11, <1>12, Induction
  <2> QED
    BY <1>1, <2>1
<1> QED
  BY <1>2, <1>6, <1>7, <1>13 DEF N, L, Leaves

(* That left is of the first n entries of the list, of keys that are kept.   *)
From(left, seq, n, gone) ==
  \A i \in 1 .. Len(left) : \E j \in 1 .. n : left[i] = seq[j] /\ seq[j].k \notin gone

LEMMA WithoutIs ==
  ASSUME NEW seq \in Seq(Entry), NEW gone
  PROVE  LET left == Without(seq, gone)
         IN  /\ left \in Seq(Entry)
             /\ From(left, seq, Len(seq), gone)
             /\ Once(seq) => Once(left)
             /\ SizeOf(left) <= SizeOf(seq)
<1> DEFINE N == Len(seq)
<1>a. PICK g \in [0 .. N -> Seq(Entry)] : Leaves(g, seq, gone)
  BY WithoutRecurs
<1>1. /\ Without(seq, gone) = g[N]
      /\ g[0] = <<>>
      /\ \A n \in 1 .. N : g[n] = IF seq[n].k \in gone THEN g[n - 1] ELSE Append(g[n - 1], seq[n])
  BY <1>a DEF Leaves
<1>2. PICK h \in [0 .. N -> Nat] :
        /\ SizeOf(seq) = h[N]
        /\ h[0] = 0
        /\ \A n \in 1 .. N : h[n] = h[n - 1] + Size[seq[n].value]
  BY SizeRecurs
<1>3. N \in Nat /\ DOMAIN seq = 1 .. N /\ \A n \in 1 .. N : seq[n] \in Entry
  OBVIOUS
<1> DEFINE Good(n) ==
      /\ From(g[n], seq, n, gone)
      /\ Once(seq) => Once(g[n])
      /\ SizeOf(g[n]) <= h[n]
           T == {n \in Nat : n <= N => Good(n)}
<1>4. 0 \in T
  <2>1. DOMAIN g[0] = {} /\ Len(g[0]) = 0
    BY <1>1
  <2>2. SizeOf(g[0]) = 0
    BY <1>1, SizeEmpty
  <2>3. Good(0)
    BY <1>2, <2>1, <2>2 DEF Once, From
  <2> QED
    BY <2>3
<1>5. ASSUME NEW n \in Nat, n \in T PROVE n + 1 \in T
  <2> HIDE DEF Good, N
  <2> SUFFICES ASSUME n + 1 <= N PROVE Good(n + 1)
    OBVIOUS
  <2> DEFINE e == seq[n + 1]
  <2>1. /\ n + 1 \in 1 .. N /\ n \in 0 .. N /\ (n + 1) - 1 = n /\ Good(n)
        /\ g[n] \in Seq(Entry) /\ e \in Entry /\ h[n] \in Nat
    BY <1>3, <1>5
  <2>2. /\ g[n + 1] = IF e.k \in gone THEN g[n] ELSE Append(g[n], e)
        /\ h[n + 1] = h[n] + Size[e.value]
    BY <1>1, <1>2, <2>1
  <2>3. Size[e.value] \in Nat /\ SizeOf(g[n]) \in Nat
    BY <2>1, Sizes, SizeType
  <2>a. SizeOf(g[n]) <= h[n] /\ From(g[n], seq, n, gone) /\ (Once(seq) => Once(g[n]))
    BY <2>1, Zenon DEF Good
  <2>4. CASE e.k \in gone
    <3>1. g[n + 1] = g[n]
      BY <2>2, <2>4
    <3>2. SizeOf(g[n + 1]) <= h[n + 1]
      BY <2>1, <2>a, <2>2, <2>3, <3>1
    <3>3. From(g[n + 1], seq, n + 1, gone)
      BY <2>1, <2>a, <3>1 DEF From
    <3> QED
      BY <2>a, <3>1, <3>2, <3>3, Zenon DEF Good
  <2>5. CASE e.k \notin gone
    <3>1. g[n + 1] = Append(g[n], e)
      BY <2>2, <2>5
    <3> DEFINE M == Len(g[n])
    <3>2. /\ DOMAIN g[n] = 1 .. M /\ M \in Nat /\ DOMAIN g[n + 1] = 1 .. M + 1
          /\ Len(g[n + 1]) = M + 1
          /\ \A i \in 1 .. M : \E j \in 1 .. n : g[n][i] = seq[j] /\ seq[j].k \notin gone
          /\ \A i \in 1 .. M : g[n + 1][i] = g[n][i]
          /\ g[n + 1][M + 1] = e
      <4> HIDE DEF e
      <4>1. g[n + 1] \in Seq(Entry) /\ Len(g[n + 1]) = M + 1
        BY <2>1, <3>1, AppendProperties
      <4> QED
        BY <2>1, <2>a, <3>1, <4>1, AppendProperties DEF From
    <3> HIDE DEF M
    <3>3. SizeOf(g[n + 1]) = SizeOf(g[n]) + Size[e.value]
      BY <2>1, <3>1, SizeAppend, Zenon
    <3>4. SizeOf(g[n + 1]) <= h[n + 1]
      BY <2>1, <2>a, <2>2, <2>3, <3>3
    <3>5. ASSUME NEW i \in 1 .. M + 1
          PROVE  \E j \in 1 .. n + 1 : g[n + 1][i] = seq[j] /\ seq[j].k \notin gone
      <4>1. CASE i = M + 1
        BY <2>5, <3>2, <4>1
      <4>2. CASE i \in 1 .. M
        <5>1. PICK j \in 1 .. n : g[n][i] = seq[j] /\ seq[j].k \notin gone
          BY <3>2, <4>2
        <5>2. j \in 1 .. n + 1 /\ g[n + 1][i] = g[n][i]
          BY <2>1, <3>2, <4>2
        <5> QED
          BY <5>1, <5>2, Zenon
      <4> QED
        BY <3>2, <4>1, <4>2
    <3>6. ASSUME Once(seq), NEW i \in 1 .. M PROVE g[n][i].k # e.k
      <4>1. PICK j \in 1 .. n : g[n][i] = seq[j]
        BY <3>2
      <4>2. j \in 1 .. N /\ j # n + 1
        BY <2>1, <1>3
      <4> QED
        BY <1>3, <2>1, <3>6, <4>1, <4>2 DEF Once
    <3>7. Once(seq) => Once(g[n + 1])
      <4> SUFFICES ASSUME Once(seq), NEW i \in 1 .. M + 1, NEW j \in 1 .. M + 1,
                          g[n + 1][i].k = g[n + 1][j].k
                   PROVE  i = j
        BY <3>2 DEF Once
      <4>1. CASE i \in 1 .. M /\ j \in 1 .. M
        BY <2>a, <3>2, <4>1 DEF Once
      <4>2. CASE i = M + 1 /\ j \in 1 .. M
        BY <3>2, <3>6, <4>2
      <4>3. CASE i \in 1 .. M /\ j = M + 1
        BY <3>2, <3>6, <4>3
      <4>4. CASE i = M + 1 /\ j = M + 1
        BY <4>4
      <4> QED
        BY <3>2, <4>1, <4>2, <4>3, <4>4
    <3>8. From(g[n + 1], seq, n + 1, gone)
      BY <3>2, <3>5 DEF From
    <3> QED
      BY <3>4, <3>7, <3>8, Zenon DEF Good
  <2> QED
    BY <2>4, <2>5
<1>6. Good(N)
  <2>1. Nat \subseteq T
    <3> HIDE DEF T
    <3> QED
      BY <1>4, <1>5, Induction
  <2> HIDE DEF Good, N
  <2> QED
    BY <1>3, <2>1
<1>7. g[N] \in Seq(Entry)
  BY <1>1, <1>3
<1> QED
  BY <1>1, <1>2, <1>6, <1>7, Zenon
-----------------------------------------------------------------------------
(* An entry in front of others, of other keys.                              *)
LEMMA FrontIs ==
  ASSUME NEW e \in Entry, NEW s \in Seq(Entry)
  PROVE  LET f == <<e>> \o s
         IN  /\ f \in Seq(Entry)
             /\ Len(f) = Len(s) + 1
             /\ f[1] = e
             /\ \A i \in 2 .. Len(f) : i - 1 \in 1 .. Len(s) /\ f[i] = s[i - 1]
             /\ SizeOf(f) = Size[e.value] + SizeOf(s)
             /\ Once(s) /\ (\A i \in 1 .. Len(s) : s[i].k # e.k) => Once(f)
<1> DEFINE one == <<e>>
           f == one \o s
<1>1. one \in Seq(Entry) /\ Len(one) = 1 /\ one[1] = e /\ SizeOf(one) = Size[e.value]
  BY SizeOne
<1> HIDE DEF one
<1>2. /\ f \in Seq(Entry) /\ Len(f) = 1 + Len(s)
      /\ \A i \in 1 .. 1 + Len(s) : f[i] = IF i <= 1 THEN one[i] ELSE s[i - 1]
  <2>1. /\ f \in Seq(Entry) /\ Len(f) = Len(one) + Len(s)
        /\ \A i \in 1 .. Len(one) + Len(s) : f[i] = IF i <= Len(one) THEN one[i] ELSE s[i - Len(one)]
    BY <1>1, ConcatProperties
  <2>2. Len(one) = 1
    BY <1>1
  <2> HIDE DEF f
  <2> QED
    BY <2>1, <2>2
<1>3. SizeOf(f) = Size[e.value] + SizeOf(s)
  BY <1>1, SizeConcat
<1>4. Len(s) \in Nat /\ DOMAIN s = 1 .. Len(s) /\ DOMAIN f = 1 .. Len(f)
  BY <1>2
<1> HIDE DEF f
<1>5. f[1] = e
  BY <1>1, <1>2, <1>4
<1>6. \A i \in 2 .. Len(f) : i - 1 \in 1 .. Len(s) /\ f[i] = s[i - 1]
  BY <1>2, <1>4
<1>7. ASSUME Once(s), \A i \in 1 .. Len(s) : s[i].k # e.k PROVE Once(f)
  <2> SUFFICES ASSUME NEW i \in 1 .. Len(f), NEW j \in 1 .. Len(f), f[i].k = f[j].k PROVE i = j
    BY <1>4 DEF Once
  <2>1. CASE i = 1 /\ j = 1
    BY <2>1
  <2>2. CASE i = 1 /\ j # 1
    <3>1. j \in 2 .. Len(f)
      BY <1>2, <1>4, <2>2
    <3> QED
      BY <1>5, <1>6, <1>7, <2>2, <3>1
  <2>3. CASE i # 1 /\ j = 1
    <3>1. i \in 2 .. Len(f)
      BY <1>2, <1>4, <2>3
    <3> QED
      BY <1>5, <1>6, <1>7, <2>3, <3>1
  <2>4. CASE i # 1 /\ j # 1
    <3>1. i \in 2 .. Len(f) /\ j \in 2 .. Len(f)
      BY <1>2, <1>4, <2>4
    <3>2. i - 1 = j - 1
      BY <1>4, <1>6, <1>7, <3>1 DEF Once
    <3> QED
      BY <3>1, <3>2
  <2> QED
    BY <2>1, <2>2, <2>3, <2>4
<1> QED
  BY <1>2, <1>3, <1>4, <1>5, <1>6, <1>7 DEF f, one

LEMMA PrefixIs ==
  ASSUME NEW seq \in Seq(Entry), NEW n \in 0 .. Len(seq)
  PROVE  LET s == SubSeq(seq, 1, n)
         IN  /\ s \in Seq(Entry) /\ Len(s) = n
             /\ \A i \in 1 .. n : i \in 1 .. Len(seq) /\ s[i] = seq[i]
             /\ Once(seq) => Once(s)
<1> DEFINE s == SubSeq(seq, 1, n)
<1>1. Len(seq) \in Nat /\ n \in Nat /\ DOMAIN seq = 1 .. Len(seq) /\ \A i \in 1 .. n : seq[i] \in Entry
  OBVIOUS
<1>2. s \in Seq(Entry) /\ Len(s) = n /\ \A i \in 1 .. n : s[i] = seq[i]
  BY <1>1
<1>3. DOMAIN s = 1 .. n
  BY <1>2
<1> HIDE DEF s
<1>4. Once(seq) => Once(s)
  BY <1>1, <1>2, <1>3 DEF Once
<1> QED
  BY <1>1, <1>2, <1>4 DEF s

(* An entry that is moved to the front.                                     *)
LEMMA MovedIs ==
  ASSUME NEW seq \in Seq(Entry), NEW i \in 1 .. Len(seq)
  PROVE  LET moved == <<seq[i]>> \o RemoveAt(seq, i)
         IN  /\ moved \in Seq(Entry)
             /\ \A j \in 1 .. Len(moved) : \E m \in 1 .. Len(seq) : moved[j] = seq[m]
             /\ Once(seq) => Once(moved)
             /\ SizeOf(moved) = SizeOf(seq)
<1> DEFINE N == Len(seq)
           a == SubSeq(seq, 1, i - 1)
           b == SubSeq(seq, i + 1, N)
           rest == a \o b
<1>1. N \in Nat /\ seq[i] \in Entry /\ i \in 1 .. N /\ DOMAIN seq = 1 .. N
  OBVIOUS
<1>2. a \in Seq(Entry) /\ Len(a) = i - 1 /\ \A j \in 1 .. i - 1 : a[j] = seq[j]
  BY PrefixIs
<1>3. b \in Seq(Entry) /\ Len(b) = N - i /\ \A j \in 1 .. N - i : b[j] = seq[j + i]
  OBVIOUS
<1>4. seq = a \o (<<seq[i]>> \o b)
  <2>1. seq = SubSeq(seq, 1, N)
    BY SubSeqFull
  <2>2. SubSeq(seq, 1, N) = a \o SubSeq(seq, i, N)
    <3>1. 1 \in 1 .. N + 1 /\ i - 1 \in 1 - 1 .. N /\ N \in i - 1 .. N /\ (i - 1) + 1 = i
      BY <1>1
    <3>2. SubSeq(seq, 1, i - 1) \o SubSeq(seq, (i - 1) + 1, N) = SubSeq(seq, 1, N)
      BY <3>1, ConcatAdjacentSubSeq
    <3> QED
      BY <3>1, <3>2
  <2>3. SubSeq(seq, i, N) = SubSeq(seq, i, i) \o b
    <3>1. i \in 1 .. N + 1 /\ i \in i - 1 .. N /\ N \in i .. N
      BY <1>1
    <3> QED
      BY <3>1, ConcatAdjacentSubSeq
  <2>4. SubSeq(seq, i, i) = <<seq[i]>>
    <3> DEFINE s == SubSeq(seq, i, i)
               e == <<seq[i]>>
    <3>1. s \in Seq(Entry) /\ Len(s) = 1 /\ s[1] = seq[i]
      BY <1>1
    <3>2. e \in Seq(Entry) /\ Len(e) = 1 /\ e[1] = seq[i]
      BY <1>1
    <3> HIDE DEF s, e
    <3>3. \A j \in 1 .. Len(s) : s[j] = e[j]
      BY <3>1, <3>2
    <3>4. s = e
      BY <3>1, <3>2, <3>3, SeqEqual
    <3> QED
      BY <3>4 DEF s, e
  <2> HIDE DEF a, b, N
  <2> QED
    BY <2>1, <2>2, <2>3, <2>4, Zenon
<1>5. RemoveAt(seq, i) = rest
  BY DEF RemoveAt
<1> HIDE DEF a, b, N
<1>6. /\ rest \in Seq(Entry) /\ Len(rest) = N - 1
      /\ \A j \in 1 .. N - 1 : rest[j] = IF j < i THEN seq[j] ELSE seq[j + 1]
  <2>1. /\ rest \in Seq(Entry) /\ Len(rest) = (i - 1) + (N - i)
        /\ \A j \in 1 .. (i - 1) + (N - i) : rest[j] = IF j <= i - 1 THEN a[j] ELSE b[j - (i - 1)]
    <3>1. /\ a \o b \in Seq(Entry) /\ Len(a \o b) = Len(a) + Len(b)
          /\ \A j \in 1 .. Len(a) + Len(b) :
               (a \o b)[j] = IF j <= Len(a) THEN a[j] ELSE b[j - Len(a)]
      BY <1>2, <1>3, ConcatProperties, Zenon
    <3> DEFINE r == a \o b
    <3>2. /\ r \in Seq(Entry) /\ Len(r) = Len(a) + Len(b)
          /\ \A j \in 1 .. Len(a) + Len(b) : r[j] = IF j <= Len(a) THEN a[j] ELSE b[j - Len(a)]
      BY <3>1
    <3> HIDE DEF r
    <3>3. /\ r \in Seq(Entry) /\ Len(r) = (i - 1) + (N - i)
          /\ \A j \in 1 .. (i - 1) + (N - i) : r[j] = IF j <= i - 1 THEN a[j] ELSE b[j - (i - 1)]
      BY <1>2, <1>3, <3>2
    <3> QED
      BY <3>3 DEF r
  <2>2. (i - 1) + (N - i) = N - 1
    BY <1>1
  <2> HIDE DEF rest
  <2>3. ASSUME NEW j \in 1 .. N - 1 PROVE rest[j] = IF j < i THEN seq[j] ELSE seq[j + 1]
    <3>1. CASE j < i
      <4>1. j \in 1 .. i - 1 /\ j <= i - 1
        BY <1>1, <3>1
      <4> QED
        BY <1>2, <2>1, <2>2, <3>1, <4>1
    <3>2. CASE ~(j < i)
      <4>1. j - (i - 1) \in 1 .. N - i /\ ~(j <= i - 1) /\ (j - (i - 1)) + i = j + 1
        BY <1>1, <3>2
      <4> QED
        BY <1>3, <2>1, <2>2, <3>2, <4>1
    <3> QED
      BY <3>1, <3>2
  <2> QED
    BY <2>1, <2>2, <2>3
<1>7. SizeOf(seq) = SizeOf(a) + (Size[seq[i].value] + SizeOf(b))
  <2>1. <<seq[i]>> \o b \in Seq(Entry) /\ SizeOf(<<seq[i]>> \o b) = Size[seq[i].value] + SizeOf(b)
    BY <1>1, <1>3, FrontIs
  <2> QED
    BY <1>2, <1>4, <2>1, SizeConcat
<1>8. SizeOf(rest) = SizeOf(a) + SizeOf(b)
  BY <1>2, <1>3, SizeConcat
<1> HIDE DEF rest
<1>9. ASSUME Once(seq) PROVE Once(rest) /\ \A j \in 1 .. Len(rest) : rest[j].k # seq[i].k
  <2>1. DOMAIN rest = 1 .. N - 1
    BY <1>6
  <2> DEFINE was(j) == IF j < i THEN j ELSE j + 1
  <2>a. \A j \in 1 .. N - 1 : was(j) \in 1 .. N /\ was(j) # i /\ rest[j] = seq[was(j)]
    BY <1>1, <1>6
  <2>b. \A j, m \in 1 .. N - 1 : was(j) = was(m) => j = m
    BY <1>1
  <2> HIDE DEF was
  <2>2. ASSUME NEW j \in 1 .. N - 1, NEW m \in 1 .. N - 1, rest[j].k = rest[m].k PROVE j = m
    BY <1>1, <1>9, <2>2, <2>a, <2>b DEF Once
  <2>3. ASSUME NEW j \in 1 .. N - 1 PROVE rest[j].k # seq[i].k
    BY <1>1, <1>9, <2>a DEF Once
  <2> QED
    BY <1>6, <2>1, <2>2, <2>3 DEF Once
<1> DEFINE moved == <<seq[i]>> \o rest
<1>10. /\ moved \in Seq(Entry) /\ Len(moved) = N
       /\ moved[1] = seq[i]
       /\ \A j \in 2 .. N : j - 1 \in 1 .. N - 1 /\ moved[j] = rest[j - 1]
       /\ SizeOf(moved) = Size[seq[i].value] + SizeOf(rest)
       /\ Once(seq) => Once(moved)
  <2>1. Len(rest) + 1 = N
    BY <1>1, <1>6
  <2> QED
    BY <1>1, <1>6, <1>9, <2>1, FrontIs
<1>11. SizeOf(moved) = SizeOf(seq)
  BY <1>1, <1>2, <1>3, <1>7, <1>8, <1>10, SizeType, Sizes
<1> HIDE DEF moved
<1>12. ASSUME NEW j \in 1 .. N PROVE \E m \in 1 .. N : moved[j] = seq[m]
  <2>1. CASE j = 1
    BY <1>1, <1>10, <2>1
  <2>2. CASE j # 1
    <3>1. j \in 2 .. N /\ j - 1 \in 1 .. N - 1
      BY <1>1, <2>2
    <3>2. moved[j] = rest[j - 1]
      BY <1>10, <3>1
    <3> QED
      BY <1>1, <1>6, <3>1, <3>2
  <2> QED
    BY <2>1, <2>2
<1> QED
  BY <1>5, <1>10, <1>11, <1>12 DEF moved, N
-----------------------------------------------------------------------------
(* What the cache holds after put, forget and a hit.                        *)
LEMMA PutLists ==
  ASSUME Listed, NEW k \in CacheKeys, NEW v \in Versions, Put(k, v)
  PROVE  /\ Listed'
         /\ \A i \in 1 .. Len(lru') : \/ lru'[i] = [k |-> k, value |-> v]
                                      \/ \E j \in 1 .. Len(lru) : lru'[i] = lru[j]
<1> DEFINE others == Without(lru, {k})
           e == [k |-> k, value |-> v]
           after(m) == bytes - (SizeOf(lru) - SizeOf(SubSeq(others, 1, m))) + Size[v]
           fits == {m \in 0 .. Len(others) : after(m) <= MaxBytes}
           n == Max(fits)
           s == SubSeq(others, 1, n)
<1>1. /\ lru \in Seq(Entry) /\ Once(lru) /\ bytes = SizeOf(lru) /\ bytes <= MaxBytes
      /\ SizeOf(lru) \in Nat /\ MaxBytes \in Nat /\ Size[v] \in Nat /\ e \in Entry
  BY SizeType, Sizes, CacheAssumption DEF Listed, Entry
<1>2. /\ others \in Seq(Entry) /\ Len(others) \in Nat
      /\ From(others, lru, Len(lru), {k}) /\ Once(others)
  BY <1>1, WithoutIs
<1>3. CASE Size[v] > MaxBytes
  BY <1>3 DEF Put, Listed
<1>4. CASE ~(Size[v] > MaxBytes)
  <2>1. lru' = <<e>> \o s /\ bytes' = after(n)
    BY <1>4 DEF Put
  <2> HIDE DEF others
  <2>2. n \in 0 .. Len(others) /\ after(n) <= MaxBytes
    <3>1. after(0) = Size[v]
      <4>1. SizeOf(SubSeq(others, 1, 0)) = 0
        <5>1. SubSeq(others, 1, 0) = <<>>
          BY <1>2
        <5> QED
          BY <5>1, SizeEmpty
      <4> QED
        BY <1>1, <4>1
    <3> HIDE DEF after
    <3>2. 0 \in fits
      BY <1>1, <1>2, <1>4, <3>1
    <3>3. \E m \in fits : \A o \in fits : m >= o
      BY <1>2, <3>2, Largest
    <3>4. n \in fits
      BY <3>3 DEF Max
    <3> QED
      BY <3>4
  <2> HIDE DEF fits, n
  <2>3. s \in Seq(Entry) /\ Len(s) = n /\ Once(s) /\ SizeOf(s) \in Nat
        /\ \A i \in 1 .. n : i \in 1 .. Len(others) /\ s[i] = others[i]
    BY <1>2, <2>2, PrefixIs, SizeType
  <2>4. bytes' = SizeOf(s) + Size[v] /\ bytes' <= MaxBytes
    BY <1>1, <2>1, <2>2, <2>3
  <2> HIDE DEF s, after
  <2>5. \A i \in 1 .. Len(s) : s[i].k # k /\ \E j \in 1 .. Len(lru) : s[i] = lru[j]
    BY <1>2, <2>3 DEF From
  <2>6. e.k = k /\ e.value = v
    OBVIOUS
  <2> HIDE DEF e
  <2>7. /\ lru' \in Seq(Entry) /\ Len(lru') = Len(s) + 1 /\ lru'[1] = e
        /\ \A i \in 2 .. Len(lru') : i - 1 \in 1 .. Len(s) /\ lru'[i] = s[i - 1]
        /\ SizeOf(lru') = Size[v] + SizeOf(s)
        /\ Once(lru')
    <3> DEFINE front == <<e>> \o s
    <3>1. e \in Entry /\ s \in Seq(Entry) /\ Once(s) /\ \A i \in 1 .. Len(s) : s[i].k # e.k
      BY <1>1, <2>3, <2>5, <2>6
    <3>2. /\ front \in Seq(Entry) /\ Len(front) = Len(s) + 1 /\ front[1] = e
          /\ \A i \in 2 .. Len(front) : i - 1 \in 1 .. Len(s) /\ front[i] = s[i - 1]
          /\ SizeOf(front) = Size[e.value] + SizeOf(s)
          /\ Once(front)
      BY <3>1, FrontIs
    <3>3. lru' = front
      BY <2>1
    <3> HIDE DEF front
    <3> QED
      BY <2>6, <3>2, <3>3
  <2>8. bytes' = SizeOf(lru')
    BY <1>1, <2>3, <2>4, <2>7
  <2>9. Listed'
    BY <2>4, <2>7, <2>8 DEF Listed
  <2>10. ASSUME NEW i \in 1 .. Len(lru')
         PROVE  lru'[i] = e \/ \E j \in 1 .. Len(lru) : lru'[i] = lru[j]
    <3>1. i = 1 \/ i \in 2 .. Len(lru')
      BY <2>7
    <3> QED
      BY <2>5, <2>7, <3>1
  <2> QED
    BY <2>9, <2>10 DEF e
<1> QED
  BY <1>3, <1>4

LEMMA ForgetLists ==
  ASSUME Listed, NEW gone \in SUBSET CacheKeys, Forget(gone)
  PROVE  /\ Listed'
         /\ \A i \in 1 .. Len(lru') : lru'[i].k \notin gone /\ \E j \in 1 .. Len(lru) : lru'[i] = lru[j]
<1> DEFINE left == Without(lru, gone)
<1>1. lru \in Seq(Entry) /\ Once(lru) /\ bytes = SizeOf(lru) /\ bytes <= MaxBytes /\ MaxBytes \in Nat
  BY CacheAssumption DEF Listed
<1>2. /\ left \in Seq(Entry) /\ SizeOf(left) <= SizeOf(lru)
      /\ From(left, lru, Len(lru), gone) /\ Once(left)
  BY <1>1, WithoutIs
<1>3. lru' = left /\ bytes' = bytes - (SizeOf(lru) - SizeOf(left))
  BY DEF Forget
<1> HIDE DEF left
<1>4. bytes' = SizeOf(left) /\ bytes' <= MaxBytes
  BY <1>1, <1>2, <1>3, SizeType
<1>5. Listed'
  BY <1>2, <1>3, <1>4 DEF Listed
<1> QED
  BY <1>2, <1>3, <1>5 DEF From

LEMMA HitLists ==
  ASSUME Listed, NEW i \in 1 .. Len(lru), lru' = <<lru[i]>> \o RemoveAt(lru, i), UNCHANGED bytes
  PROVE  /\ Listed'
         /\ \A n \in 1 .. Len(lru') : \E j \in 1 .. Len(lru) : lru'[n] = lru[j]
<1> DEFINE moved == <<lru[i]>> \o RemoveAt(lru, i)
<1>1. lru \in Seq(Entry) /\ Once(lru) /\ bytes = SizeOf(lru) /\ bytes <= MaxBytes
  BY DEF Listed
<1>2. /\ moved \in Seq(Entry) /\ SizeOf(moved) = SizeOf(lru) /\ Once(moved)
      /\ \A n \in 1 .. Len(moved) : \E j \in 1 .. Len(lru) : moved[n] = lru[j]
  BY <1>1, MovedIs
<1>3. lru' = moved
  OBVIOUS
<1> HIDE DEF moved
<1>4. Listed'
  BY <1>1, <1>2, <1>3 DEF Listed
<1> QED
  BY <1>2, <1>3, <1>4
-----------------------------------------------------------------------------
(* Reads, flights and the list: whatever reads and writes come.             *)
LEMMA ReadIs ==
  ASSUME TypeOK, NEW r \in Readers
  PROVE  /\ Underway(r) => read[r] \in Reading
         /\ read[r].at = "done" => read[r] \in Answered
         /\ read[r].at \in {"idle", "done", "look", "wait", "fetch", "fetched"}
         /\ read[r].at = "idle" => read[r] = Idle
BY DEF TypeOK, Underway, Reading, Answered, Idle

LEMMA InitKept == Init => Kept
<1> SUFFICES ASSUME Init PROVE Kept
  OBVIOUS
<1>1. 0 \in Versions /\ MaxBytes \in Nat
  BY CacheAssumption DEF Versions
<1>2. lru = <<>> /\ bytes = 0 /\ <<>> \in Seq(Entry)
  BY DEF Init
<1>3. Listed
  BY <1>1, <1>2, SizeEmpty DEF Listed, Once
<1>4. TypeOK
  BY <1>1, <1>2 DEF Init, TypeOK, NewFlight, Entry
<1>5. Flown
  BY DEF Init, Flown, Placed, OneEach, Started, Mapped, Joined, Flying, Idle, OnFlight
<1> QED
  BY <1>3, <1>4, <1>5 DEF Kept

(* A read that ends, or looks again, and was not reading the store.         *)
LEMMA ReadLeaves ==
  ASSUME Flown, NEW r \in Readers, ~Flying(r), read'[r].at \notin OnFlight,
         \A s \in Readers : s # r => read'[s] = read[s],
         UNCHANGED <<flights, flight>>
  PROVE  Flown'
<1>1. \A s \in Readers : Flying(s)' => s # r /\ Flying(s)
  BY DEF Flying, OnFlight
<1>2. \A s \in Readers : Flying(s) => Flying(s)' /\ read'[s] = read[s]
  BY DEF Flying
<1>3. Placed'
  BY DEF Flown, Placed, OnFlight
<1>4. OneEach'
  BY <1>1 DEF Flown, OneEach
<1>5. Started'
  BY DEF Flown, Started, OnFlight
<1>6. Mapped'
  BY <1>2 DEF Flown, Mapped
<1>7. Joined'
  BY <1>1 DEF Flown, Joined, OnFlight
<1> QED
  BY <1>3, <1>4, <1>5, <1>6, <1>7 DEF Flown

LEMMA BeginKeeps ==
  ASSUME Kept, NEW r \in Readers, NEW k \in CacheKeys, Begin(r, k)
  PROVE  Kept'
<1> DEFINE new == [key |-> k, at |-> "look", on |-> NoFlight, attempt |-> 0, floor |-> floor[KeyOf[k]]]
<1>1. /\ TypeOK /\ Listed /\ Flown /\ read' = [read EXCEPT ![r] = new]
      /\ UNCHANGED <<stored, lru, bytes, flights, flight, write, cancels, floor>>
  BY DEF Kept, Begin
<1>2. new \in Reading /\ new.at = "look"
  BY <1>1, CacheAssumption DEF TypeOK, Reading
<1> HIDE DEF new
<1>3. read'[r] = new /\ \A s \in Readers : s # r => read'[s] = read[s]
  BY <1>1 DEF TypeOK
<1>4. TypeOK'
  BY <1>1, <1>2 DEF TypeOK
<1>5. Listed'
  BY <1>1 DEF Listed
<1>6. ~Flying(r) /\ read[r].at # "wait"
  BY DEF Begin, Flying
<1>7. Flown'
  BY <1>1, <1>2, <1>3, <1>6, ReadLeaves DEF OnFlight
<1> QED
  BY <1>4, <1>5, <1>7 DEF Kept

LEMMA HitKeeps ==
  ASSUME Kept, NEW r \in Readers, Hit(r)
  PROVE  Kept'
<1>1. /\ TypeOK /\ Listed /\ Flown /\ read[r].at = "look"
      /\ UNCHANGED <<stored, bytes, flights, flight, write, cancels, floor>>
  BY DEF Kept, Hit
<1>a. lru \in Seq(Entry)
  BY <1>1 DEF Listed
<1>b. DOMAIN lru = 1 .. Len(lru)
  BY <1>a
<1>2. PICK i \in 1 .. Len(lru) : /\ lru' = <<lru[i]>> \o RemoveAt(lru, i)
                                 /\ Answer(r, lru[i].value)
  BY <1>b, Zenon DEF Hit
<1>3. Listed'
  BY <1>1, <1>2, HitLists
<1>c. read[r] \in Reading
  BY <1>1, ReadIs DEF Underway
<1>d. lru[i] \in Entry
  BY <1>a, <1>2
<1>4. read[r] \in Reading /\ lru[i].value \in Versions
  BY <1>c, <1>d DEF Entry
<1> DEFINE new == [at |-> "done", value |-> lru[i].value, floor |-> read[r].floor]
<1>5. read' = [read EXCEPT ![r] = new] /\ new \in Answered /\ new.at = "done"
  BY <1>2, <1>4 DEF Answer, Answered, Reading
<1> HIDE DEF new
<1>6. read'[r] = new /\ \A s \in Readers : s # r => read'[s] = read[s]
  BY <1>1, <1>5 DEF TypeOK
<1>7. TypeOK'
  BY <1>1, <1>3, <1>5 DEF TypeOK, Listed, Entry
<1>8. Flown'
  BY <1>1, <1>5, <1>6, ReadLeaves DEF Flying, OnFlight
<1> QED
  BY <1>3, <1>7, <1>8 DEF Kept

LEMMA JoinKeeps ==
  ASSUME Kept, NEW r \in Readers, Join(r)
  PROVE  Kept'
<1>1. /\ TypeOK /\ Listed /\ Flown /\ read[r].at = "look" /\ flights[read[r].key] # NoFlight
      /\ read' = [read EXCEPT ![r].at = "wait", ![r].on = flights[read[r].key]]
      /\ UNCHANGED <<stored, lru, bytes, flights, flight, write, cancels, floor>>
  BY DEF Kept, Join, Misses, MayJoin
<1>2. read[r] \in Reading
  BY <1>1, ReadIs DEF Underway
<1>3. /\ read'[r] \in Reading /\ read'[r].at = "wait" /\ read'[r].key = read[r].key
      /\ read'[r].on = flights[read[r].key] /\ read'[r].on \in Flights
      /\ \A s \in Readers : s # r => read'[s] = read[s]
  BY <1>1, <1>2 DEF TypeOK, Reading
<1>4. TypeOK'
  BY <1>1, <1>3 DEF TypeOK
<1>5. Listed'
  BY <1>1 DEF Listed
<1>6. PICK t \in Readers : Flying(t) /\ read[t].on = flights[read[r].key] /\ read[t].key = read[r].key
  BY <1>1, <1>2 DEF Flown, Mapped, Reading
<1>7. Flown'
  <2>1. Flown /\ UNCHANGED <<flights, flight>> /\ read[r].at = "look"
    BY <1>1
  <2>2. \A s \in Readers : (Flying(s)' <=> Flying(s)) /\ (Flying(s) => s # r)
    BY <1>3, <2>1 DEF Flying
  <2>3. Placed'
    BY <1>3, <2>1 DEF Flown, Placed
  <2>4. OneEach'
    BY <1>3, <2>1, <2>2 DEF Flown, OneEach
  <2>5. Started'
    BY <1>3, <2>1 DEF Flown, Started
  <2>6. Mapped'
    BY <1>3, <2>1, <2>2 DEF Flown, Mapped
  <2>7. Joined'
    <3>1. ASSUME NEW s \in Readers, Flying(s), read[s].on = read'[r].on PROVE read[s].key = read'[r].key
      BY <1>3, <1>6, <2>1, <3>1 DEF Flown, OneEach
    <3> QED
      BY <1>3, <2>1, <2>2, <3>1 DEF Flown, Joined
  <2> QED
    BY <2>3, <2>4, <2>5, <2>6, <2>7 DEF Flown
<1> QED
  BY <1>4, <1>5, <1>7 DEF Kept

LEMMA FlyKeeps ==
  ASSUME Kept, NEW r \in Readers, Fly(r)
  PROVE  Kept'
<1>1. PICK f \in Flights :
        /\ \A s \in Readers : read[s].at \in OnFlight => read[s].on # f
        /\ flight' = [flight EXCEPT ![f] = NewFlight]
        /\ flights' = [flights EXCEPT ![read[r].key] = f]
        /\ read' = [read EXCEPT ![r].at = "fetch", ![r].on = f]
  BY DEF Fly
<1>2. /\ TypeOK /\ Listed /\ Flown /\ read[r].at = "look"
      /\ UNCHANGED <<stored, lru, bytes, write, cancels, floor>>
  BY DEF Kept, Fly, Misses
<1>3. read[r] \in Reading /\ read[r].key \in CacheKeys
  BY <1>2, ReadIs DEF Underway, Reading
<1>4. /\ read'[r] \in Reading /\ read'[r].at = "fetch" /\ read'[r].key = read[r].key
      /\ read'[r].on = f
      /\ \A s \in Readers : s # r => read'[s] = read[s]
  BY <1>1, <1>2, <1>3 DEF TypeOK, Reading
<1>5. /\ flight'[f].at = "reading" /\ \A g \in Flights : g # f => flight'[g] = flight[g]
      /\ flights'[read[r].key] = f
      /\ \A k \in CacheKeys : k # read[r].key => flights'[k] = flights[k]
  BY <1>1, <1>2, <1>3 DEF TypeOK, NewFlight
<1>6. NewFlight \in [at : {"reading", "ok", "cancelled", "failed"}, value : Versions, stale : BOOLEAN]
  BY CacheAssumption DEF NewFlight, Versions
<1>7. TypeOK'
  BY <1>1, <1>2, <1>4, <1>6 DEF TypeOK
<1>8. Listed'
  BY <1>2 DEF Listed
<1>9. Flown'
  <2>1. Flown /\ read[r].at = "look" /\ \A s \in Readers : read[s].at \in OnFlight => read[s].on # f
    BY <1>1, <1>2
  <2>2. \A s \in Readers : s # r => (Flying(s)' <=> Flying(s))
    BY <1>4 DEF Flying
  <2>3. Flying(r)' /\ ~Flying(r)
    BY <1>4, <2>1 DEF Flying
  <2>4. \A s \in Readers : Flying(s) => read[s].at \in OnFlight
    BY DEF Flying, OnFlight
  <2>5. Placed'
    BY <1>4, <2>1 DEF Flown, Placed
  <2>6. OneEach'
    BY <1>4, <2>1, <2>2, <2>3, <2>4 DEF Flown, OneEach
  <2>7. Started'
    BY <1>4, <1>5, <2>1 DEF Flown, Started, Placed, OnFlight
  <2>8. Mapped'
    BY <1>4, <1>5, <2>1, <2>2, <2>3 DEF Flown, Mapped
  <2>9. Joined'
    BY <1>4, <2>1, <2>2, <2>3 DEF Flown, Joined, OnFlight
  <2> QED
    BY <2>5, <2>6, <2>7, <2>8, <2>9 DEF Flown
<1> QED
  BY <1>7, <1>8, <1>9 DEF Kept

LEMMA FetchKeeps ==
  ASSUME Kept, NEW r \in Readers, Fetch(r)
  PROVE  Kept'
<1> DEFINE f == read[r].on
           k == read[r].key
<1>1. /\ TypeOK /\ Listed /\ Flown /\ read[r].at = "fetch"
      /\ read' = [read EXCEPT ![r].at = "fetched"]
      /\ UNCHANGED <<stored, lru, bytes, flights, write, floor>>
  BY DEF Kept, Fetch
<1>2. read[r] \in Reading /\ f \in Flights /\ k \in CacheKeys /\ stored[KeyOf[k]] \in Versions
  <2>1. read[r] \in Reading /\ f \in Flights
    BY <1>1, ReadIs DEF Underway, Flown, Placed, OnFlight
  <2>2. k \in CacheKeys
    BY <2>1 DEF Reading
  <2>3. KeyOf[k] \in Keys /\ stored \in [Keys -> Versions]
    BY <1>1, <2>2, CacheAssumption DEF TypeOK
  <2> QED
    BY <2>1, <2>2, <2>3
<1>3. /\ read'[r] \in Reading /\ read'[r].at = "fetched" /\ read'[r].key = k /\ read'[r].on = f
      /\ \A s \in Readers : s # r => read'[s] = read[s]
  BY <1>1, <1>2 DEF TypeOK, Reading
<1>4. \/ flight' = [flight EXCEPT ![f].at = "ok", ![f].value = stored[KeyOf[k]]]
      \/ flight' = [flight EXCEPT ![f].at = "failed"]
      \/ flight' = [flight EXCEPT ![f].at = "cancelled"]
  BY DEF Fetch
<1>5. /\ \A g \in Flights : g # f => flight'[g] = flight[g]
      /\ flight' \in [Flights -> [at : {"reading", "ok", "cancelled", "failed"},
                                  value : Versions, stale : BOOLEAN]]
  <2> HIDE DEF f, k
  <2> DEFINE S == [at : {"reading", "ok", "cancelled", "failed"}, value : Versions, stale : BOOLEAN]
             v == stored[KeyOf[k]]
  <2>1. flight \in [Flights -> S] /\ flight[f] \in S /\ v \in Versions
    BY <1>1, <1>2 DEF TypeOK
  <2>2. \A a \in {"ok", "failed", "cancelled"} : [flight[f] EXCEPT !.at = a] \in S
    BY <2>1
  <2>3. \A e \in S : [e EXCEPT !.value = v] \in S
    BY <2>1
  <2> HIDE DEF S, v
  <2>a. ASSUME NEW a \in {"ok", "failed", "cancelled"}
        PROVE  /\ [flight EXCEPT ![f].at = a] \in [Flights -> S]
               /\ \A g \in Flights : g # f => [flight EXCEPT ![f].at = a][g] = flight[g]
    BY <1>2, <2>1, <2>2
  <2> DEFINE one == [flight EXCEPT ![f].at = "ok"]
  <2>b. one \in [Flights -> S] /\ \A g \in Flights : g # f => one[g] = flight[g]
    BY <2>a
  <2> DEFINE Held == flight' \in [Flights -> S] /\ \A g \in Flights : g # f => flight'[g] = flight[g]
  <2>4. ASSUME flight' = [flight EXCEPT ![f].at = "ok", ![f].value = v] PROVE Held
    <3>1. flight' = [one EXCEPT ![f].value = v]
      BY <2>4
    <3> HIDE DEF one
    <3>2. one[f] \in S /\ [one[f] EXCEPT !.value = v] \in S
      BY <1>2, <2>3, <2>b
    <3> QED
      BY <1>2, <2>b, <3>1, <3>2
  <2>5. ASSUME flight' = [flight EXCEPT ![f].at = "failed"] \/ flight' = [flight EXCEPT ![f].at = "cancelled"]
        PROVE  Held
    BY <2>a, <2>5
  <2> QED
    BY <1>4, <2>4, <2>5 DEF S, v
<1>6. TypeOK'
  BY <1>1, <1>3, <1>5 DEF TypeOK
<1>7. Listed'
  BY <1>1 DEF Listed
<1>8. Flown'
  <2>1. Flown /\ UNCHANGED flights /\ read[r].at = "fetch"
    BY <1>1
  <2>2. \A s \in Readers : /\ (Flying(s)' <=> Flying(s))
                           /\ read'[s].on = read[s].on /\ read'[s].key = read[s].key
                           /\ (read'[s].at = "wait" <=> read[s].at = "wait")
    BY <1>3, <2>1 DEF Flying
  <2>3. Placed'
    BY <1>2, <1>3, <2>1 DEF Flown, Placed
  <2>4. OneEach'
    BY <2>1, <2>2 DEF Flown, OneEach
  <2>5. Started'
    <3>1. ASSUME NEW s \in Readers, read'[s].at = "fetch" PROVE flight'[read'[s].on].at = "reading"
      <4>1. s # r /\ read[s].at = "fetch" /\ read'[s].on = read[s].on
        BY <1>3, <3>1
      <4>2. read[s].on \in Flights /\ read[s].on # f
        BY <2>1, <4>1 DEF Flown, Placed, OneEach, Flying, OnFlight
      <4> QED
        BY <1>5, <2>1, <4>1, <4>2 DEF Flown, Started
    <3> QED
      BY <3>1 DEF Started
  <2>6. Mapped'
    BY <2>1, <2>2 DEF Flown, Mapped
  <2>7. Joined'
    BY <2>1, <2>2 DEF Flown, Joined
  <2> QED
    BY <2>3, <2>4, <2>5, <2>6, <2>7 DEF Flown
<1> QED
  BY <1>6, <1>7, <1>8 DEF Kept

LEMMA ListIs == Listed' => lru' \in Seq([k : CacheKeys, value : Versions]) /\ bytes' \in Nat
<1> SUFFICES ASSUME Listed' PROVE lru' \in Seq(Entry) /\ bytes' \in Nat
  BY DEF Entry
<1>1. lru' \in Seq(Entry) /\ bytes' = SizeOf(lru')
  BY DEF Listed
<1> QED
  BY <1>1, SizeType

LEMMA MinIs ==
  ASSUME NEW m \in Int, NEW n \in Int
  PROVE  Min({m, n}) \in {m, n} /\ Min({m, n}) <= m /\ Min({m, n}) <= n
<1>1. \E x \in {m, n} : \A y \in {m, n} : x <= y
  OBVIOUS
<1> QED
  BY <1>1 DEF Min

LEMMA MaxIs ==
  ASSUME NEW m \in Int, NEW n \in Int
  PROVE  Max({m, n}) \in {m, n} /\ Max({m, n}) >= m /\ Max({m, n}) >= n
<1>1. \E x \in {m, n} : \A y \in {m, n} : x >= y
  OBVIOUS
<1> QED
  BY <1>1 DEF Max

(* What a read answers, if it does: a value, or an error.                   *)
LEMMA EndIs ==
  ASSUME TypeOK, NEW r \in Readers, Underway(r), NEW v \in Versions, Answer(r, v) \/ ReturnError(r)
  PROVE  /\ read'[r] \in Answered \cup {Idle} /\ read'[r].at \in {"done", "idle"}
         /\ \A s \in Readers : s # r => read'[s] = read[s]
         /\ read' \in [Readers -> Reading \cup Answered \cup {Idle}]
<1>1. read \in [Readers -> Reading \cup Answered \cup {Idle}] /\ read[r] \in Reading
  BY ReadIs DEF TypeOK
<1>2. [at |-> "done", value |-> v, floor |-> read[r].floor] \in Answered
  BY <1>1 DEF Reading, Answered
<1>3. CASE Answer(r, v)
  BY <1>1, <1>2, <1>3 DEF Answer
<1>4. CASE ReturnError(r)
  BY <1>1, <1>4 DEF ReturnError, Idle
<1> QED
  BY <1>3, <1>4

LEMMA LandKeeps ==
  ASSUME Kept, NEW r \in Readers, Land(r)
  PROVE  Kept'
<1> DEFINE f == read[r].on
           k == read[r].key
           v == flight[f].value
<1>1. /\ TypeOK /\ Listed /\ Flown /\ read[r].at = "fetched"
      /\ flights' = IF flights[k] = f THEN [flights EXCEPT ![k] = NoFlight] ELSE flights
      /\ Put(k, v) \/ UNCHANGED <<lru, bytes>>
      /\ Answer(r, v) \/ ReturnError(r)
      /\ UNCHANGED <<stored, flight, write, cancels, floor>>
  BY DEF Kept, Land
<1>2. Underway(r) /\ read[r] \in Reading /\ f \in Flights /\ k \in CacheKeys
  BY <1>1, ReadIs DEF Underway, Flown, Placed, OnFlight, Reading
<1>3. v \in Versions
  BY <1>1, <1>2 DEF TypeOK
<1>4. /\ read'[r].at \in {"done", "idle"}
      /\ \A s \in Readers : s # r => read'[s] = read[s]
      /\ read' \in [Readers -> Reading \cup Answered \cup {Idle}]
  <2> HIDE DEF f, k, v
  <2> QED
    BY <1>1, <1>2, <1>3, EndIs
<1>5. Listed'
  <2>1. CASE Put(k, v)
    <3> HIDE DEF f, k, v
    <3> QED
      BY <1>1, <1>2, <1>3, <2>1, PutLists
  <2>2. CASE UNCHANGED <<lru, bytes>>
    BY <1>1, <2>2 DEF Listed
  <2> QED
    BY <1>1, <2>1, <2>2
<1>6. /\ flights' \in [CacheKeys -> Flights \cup {NoFlight}]
      /\ \A j \in CacheKeys : flights'[j] # NoFlight => flights'[j] = flights[j]
      /\ flights[k] = f => flights'[k] = NoFlight
  <2> HIDE DEF f, k, v
  <2> QED
    BY <1>1, <1>2 DEF TypeOK
<1>7. TypeOK'
  BY <1>1, <1>4, <1>5, <1>6, ListIs DEF TypeOK
<1>8. Flown'
  <2>1. Flown /\ UNCHANGED flight /\ read[r].at = "fetched"
    BY <1>1
  <2>2. \A s \in Readers : /\ (Flying(s)' <=> s # r /\ Flying(s))
                           /\ read'[s].at \in OnFlight => read'[s] = read[s]
    BY <1>4, <2>1 DEF Flying, OnFlight
  <2>3. Placed'
    BY <2>1, <2>2 DEF Flown, Placed
  <2>4. OneEach'
    BY <1>4, <2>1, <2>2 DEF Flown, OneEach
  <2>5. Started'
    BY <2>1, <2>2 DEF Flown, Started, OnFlight
  <2>6. Mapped'
    <3>1. ASSUME NEW j \in CacheKeys, flights'[j] # NoFlight
          PROVE  \E s \in Readers : Flying(s)' /\ read'[s].on = flights'[j] /\ read'[s].key = j
      <4>1. flights'[j] = flights[j] /\ (flights[k] = f => j # k)
        BY <1>6, <3>1
      <4>2. PICK s \in Readers : Flying(s) /\ read[s].on = flights[j] /\ read[s].key = j
        BY <2>1, <3>1, <4>1 DEF Flown, Mapped
      <4>3. s # r
        BY <4>1, <4>2
      <4> QED
        BY <1>4, <2>2, <4>1, <4>2, <4>3
    <3> QED
      BY <3>1 DEF Mapped
  <2>7. Joined'
    BY <1>4, <2>1, <2>2 DEF Flown, Joined, OnFlight
  <2> QED
    BY <2>3, <2>4, <2>5, <2>6, <2>7 DEF Flown
<1> QED
  BY <1>5, <1>7, <1>8 DEF Kept

LEMMA WakeKeeps ==
  ASSUME Kept, NEW r \in Readers, Wake(r) \/ GiveUp(r)
  PROVE  Kept'
<1> DEFINE f == read[r].on
           v == flight[f].value
<1>1. /\ TypeOK /\ Listed /\ Flown /\ read[r].at = "wait"
      /\ UNCHANGED <<stored, lru, bytes, flights, flight, write, cancels, floor>>
      /\ \/ Answer(r, v) \/ ReturnError(r)
         \/ read' = [read EXCEPT ![r].at = "look", ![r].on = NoFlight, ![r].attempt = Min({@ + 1, Retries})]
  BY DEF Kept, Wake, GiveUp
<1>2. Underway(r) /\ read[r] \in Reading /\ f \in Flights
  BY <1>1, ReadIs DEF Underway, Flown, Placed, OnFlight, Reading
<1>3. v \in Versions
  BY <1>1, <1>2 DEF TypeOK
<1>4. /\ read'[r].at \notin OnFlight
      /\ \A s \in Readers : s # r => read'[s] = read[s]
      /\ read' \in [Readers -> Reading \cup Answered \cup {Idle}]
  <2>1. CASE Answer(r, v) \/ ReturnError(r)
    <3> HIDE DEF v
    <3> QED
      BY <1>1, <1>2, <1>3, <2>1, EndIs DEF OnFlight
  <2>2. CASE read' = [read EXCEPT ![r].at = "look", ![r].on = NoFlight, ![r].attempt = Min({@ + 1, Retries})]
    <3>1. read[r].attempt \in 0 .. Retries /\ Retries \in Nat
      BY <1>2, CacheAssumption DEF Reading
    <3>a. read[r].attempt + 1 \in Int /\ Retries \in Int
      BY <3>1
    <3>b. Min({read[r].attempt + 1, Retries}) \in {read[r].attempt + 1, Retries}
          /\ Min({read[r].attempt + 1, Retries}) <= Retries
      BY <3>a, MinIs
    <3>2. Min({read[r].attempt + 1, Retries}) \in 0 .. Retries
      BY <3>1, <3>b
    <3> DEFINE m == Min({read[r].attempt + 1, Retries})
    <3>3. read' = [read EXCEPT ![r].at = "look", ![r].on = NoFlight, ![r].attempt = m]
      BY <2>2
    <3> HIDE DEF m, f, v
    <3>4. m \in 0 .. Retries
      BY <3>2 DEF m
    <3>5. read \in [Readers -> Reading \cup Answered \cup {Idle}]
      BY <1>1 DEF TypeOK
    <3> DEFINE new == [[[read[r] EXCEPT !.at = "look"] EXCEPT !.on = NoFlight] EXCEPT !.attempt = m]
    <3>6. new \in Reading /\ new.at = "look"
      BY <1>2, <3>4 DEF Reading
    <3> DEFINE one == [read EXCEPT ![r].at = "look"]
               two == [one EXCEPT ![r].on = NoFlight]
    <3>7. read' = [two EXCEPT ![r].attempt = m]
      BY <3>3
    <3>8. one = [read EXCEPT ![r] = [read[r] EXCEPT !.at = "look"]]
      BY <3>5
    <3>9. DOMAIN one = Readers /\ one[r] = [read[r] EXCEPT !.at = "look"]
          /\ \A s \in Readers : s # r => one[s] = read[s]
      BY <3>5
    <3>10. DOMAIN two = Readers /\ two[r] = [one[r] EXCEPT !.on = NoFlight]
           /\ \A s \in Readers : s # r => two[s] = read[s]
      <4> HIDE DEF one
      <4> QED
        BY <3>9
    <3> HIDE DEF two
    <3>11. /\ read' = [s \in Readers |-> read'[s]]
           /\ read'[r] = [two[r] EXCEPT !.attempt = m]
           /\ \A s \in Readers : s # r => read'[s] = read[s]
      BY <3>7, <3>10
    <3>12. read'[r] = new
      BY <3>9, <3>10, <3>11
    <3> HIDE DEF new, one
    <3>13. \A s \in Readers : read'[s] \in Reading \cup Answered \cup {Idle}
      BY <3>5, <3>6, <3>11, <3>12
    <3>14. read' \in [Readers -> Reading \cup Answered \cup {Idle}]
      BY <3>11, <3>13
    <3> QED
      BY <3>6, <3>11, <3>12, <3>14 DEF OnFlight
  <2> QED
    BY <1>1, <2>1, <2>2
<1>5. TypeOK'
  BY <1>1, <1>4 DEF TypeOK
<1>6. Listed'
  BY <1>1 DEF Listed
<1>7. Flown'
  BY <1>1, <1>4, ReadLeaves DEF Flying
<1> QED
  BY <1>5, <1>6, <1>7 DEF Kept

LEMMA ForgetKeeps ==
  ASSUME Kept, NEW gone \in SUBSET CacheKeys, Forget(gone), UNCHANGED read,
         stored' \in [Keys -> Versions], floor' \in [Keys -> Versions],
         write' \in [Writers -> Writing \cup {Idle}]
  PROVE  Kept'
<1>1. TypeOK /\ Listed /\ Flown
  BY DEF Kept
<1>2. /\ flight' = [f \in Flights |->
                     IF \E k \in gone : flights[k] = f THEN [flight[f] EXCEPT !.stale = TRUE]
                     ELSE flight[f]]
      /\ flights' = [k \in CacheKeys |-> IF k \in gone THEN NoFlight ELSE flights[k]]
  BY DEF Forget
<1>a. read' \in [Readers -> Reading \cup Answered \cup {Idle}]
  BY <1>1 DEF TypeOK
<1>3. Listed'
  BY <1>1, ForgetLists
<1>4. /\ flight' \in [Flights -> [at : {"reading", "ok", "cancelled", "failed"},
                                  value : Versions, stale : BOOLEAN]]
      /\ \A f \in Flights : flight'[f].at = flight[f].at
  <2> DEFINE S == [at : {"reading", "ok", "cancelled", "failed"}, value : Versions, stale : BOOLEAN]
  <2>1. flight \in [Flights -> S]
    BY <1>1 DEF TypeOK
  <2>2. ASSUME NEW f \in Flights
        PROVE  [flight[f] EXCEPT !.stale = TRUE] \in S /\ [flight[f] EXCEPT !.stale = TRUE].at = flight[f].at
    BY <2>1
  <2>3. ASSUME NEW f \in Flights PROVE flight'[f] \in S /\ flight'[f].at = flight[f].at
    <3>1. flight'[f] = [flight[f] EXCEPT !.stale = TRUE] \/ flight'[f] = flight[f]
      BY <1>2
    <3> QED
      BY <2>1, <2>2, <3>1
  <2> HIDE DEF S
  <2>4. flight' = [f \in Flights |-> flight'[f]]
    BY <1>2
  <2>5. flight' \in [Flights -> S]
    BY <2>3, <2>4
  <2> QED
    BY <2>3, <2>5 DEF S
<1>5. /\ flights' \in [CacheKeys -> Flights \cup {NoFlight}]
      /\ \A k \in CacheKeys : flights'[k] # NoFlight => flights'[k] = flights[k]
  BY <1>1, <1>2 DEF TypeOK
<1>6. TypeOK'
  BY <1>1, <1>3, <1>4, <1>5, <1>a, ListIs DEF TypeOK
<1>7. Flown'
  <2>1. \A s \in Readers : Flying(s)' <=> Flying(s)
    BY DEF Flying
  <2>2. Placed' /\ OneEach' /\ Joined'
    BY <1>1, <2>1 DEF Flown, Placed, OneEach, Joined
  <2>3. Started'
    BY <1>1, <1>4 DEF Flown, Started, Placed, OnFlight
  <2>4. Mapped'
    BY <1>1, <1>5, <2>1 DEF Flown, Mapped
  <2> QED
    BY <2>2, <2>3, <2>4 DEF Flown
<1> QED
  BY <1>3, <1>6, <1>7 DEF Kept

(* What neither reads nor the cache see.                                    *)
LEMMA KeptStays ==
  ASSUME Kept, UNCHANGED <<lru, bytes, flights, flight, read>>,
         stored' \in [Keys -> Versions], floor' \in [Keys -> Versions],
         write' \in [Writers -> Writing \cup {Idle}]
  PROVE  Kept'
<1>1. TypeOK' /\ Listed'
  BY DEF Kept, TypeOK, Listed
<1>2. Flown'
  BY DEF Kept, Flown, Placed, OneEach, Started, Mapped, Joined, Flying
<1> QED
  BY <1>1, <1>2 DEF Kept

LEMMA WriteIs ==
  ASSUME TypeOK, NEW w \in Writers
  PROVE  /\ write[w].at # "idle" => write[w] \in Writing
         /\ write[w].at = "idle" => write[w] = Idle
BY DEF TypeOK, Writing, Idle

(* Where a write is: in the store, or through.                              *)
LEMMA WriteStoreIs ==
  ASSUME TypeOK, NEW w \in Writers, WriteStore(w)
  PROVE  /\ write[w] \in Writing /\ write[w].key \in Keys /\ stored[write[w].key] \in Nat
         /\ stored' = [stored EXCEPT ![write[w].key] = @ + 1]
         /\ stored' \in [Keys -> Versions]
         /\ write'[w] \in Writing /\ write'[w].key = write[w].key /\ write'[w].at = "written"
         /\ write'[w].value = stored[write[w].key] + 1
         /\ \A u \in Writers : u # w => write'[u] = write[u]
         /\ write' \in [Writers -> Writing \cup {Idle}]
<1> DEFINE x == write[w].key
           v == stored[x] + 1
<1>1. write[w] \in Writing /\ x \in Keys
  BY WriteIs DEF WriteStore, Writing
<1>2. stored[x] \in Nat /\ stored[x] < MaxVersion /\ v \in Versions /\ stored \in [Keys -> Versions]
  BY <1>1, CacheAssumption DEF WriteStore, TypeOK, Versions
<1>3. stored' = [stored EXCEPT ![x] = @ + 1]
  BY DEF WriteStore
<1>4. stored' \in [Keys -> Versions]
  BY <1>1, <1>2, <1>3
<1>5. write' = [write EXCEPT ![w].at = "written", ![w].value = v] /\ write \in [Writers -> Writing \cup {Idle}]
  BY DEF WriteStore, TypeOK
<1> HIDE DEF v, x
<1> DEFINE one == [write EXCEPT ![w].at = "written"]
<1>6. write' = [one EXCEPT ![w].value = v]
  BY <1>5
<1>7. DOMAIN one = Writers /\ one[w] = [write[w] EXCEPT !.at = "written"]
      /\ \A u \in Writers : u # w => one[u] = write[u]
  BY <1>5
<1> HIDE DEF one
<1>8. /\ write' = [u \in Writers |-> write'[u]]
      /\ write'[w] = [one[w] EXCEPT !.value = v]
      /\ \A u \in Writers : u # w => write'[u] = write[u]
  BY <1>6, <1>7
<1>9. /\ write'[w] \in Writing /\ write'[w].at = "written" /\ write'[w].value = v
      /\ write'[w].key = write[w].key
  BY <1>1, <1>2, <1>7, <1>8 DEF Writing
<1>10. write' \in [Writers -> Writing \cup {Idle}]
  BY <1>5, <1>8, <1>9
<1> QED
  BY <1>1, <1>2, <1>3, <1>4, <1>8, <1>9, <1>10 DEF v, x

LEMMA EndWriteIs ==
  ASSUME TypeOK, NEW w \in Writers, EndWrite(w)
  PROVE  /\ write[w] \in Writing /\ write[w].key \in Keys /\ floor[write[w].key] \in Nat
         /\ write[w].value \in Nat
         /\ floor' \in [Keys -> Versions]
         /\ \A x \in Keys : x # write[w].key => floor'[x] = floor[x]
         /\ floor'[write[w].key] \in {floor[write[w].key], write[w].value}
         /\ floor'[write[w].key] >= floor[write[w].key]
         /\ write'[w] \in Writing /\ write'[w].key = write[w].key /\ write'[w].value = write[w].value
         /\ \A u \in Writers : u # w => write'[u] = write[u]
         /\ write' \in [Writers -> Writing \cup {Idle}]
<1> DEFINE x == write[w].key
           v == write[w].value
           m == Max({floor[x], v})
<1>1. write[w] \in Writing /\ x \in Keys /\ v \in Versions
  BY WriteIs DEF EndWrite, Writing
<1>2. floor[x] \in Versions /\ floor \in [Keys -> Versions]
  BY <1>1 DEF TypeOK
<1>3. floor' = [floor EXCEPT ![x] = m]
  BY DEF EndWrite
<1>4. floor[x] \in Int /\ v \in Int /\ floor[x] \in Nat /\ v \in Nat
  BY <1>1, <1>2, CacheAssumption DEF Versions
<1> HIDE DEF x, v
<1>5. m \in {floor[x], v} /\ m >= floor[x]
  BY <1>4, MaxIs
<1> HIDE DEF m
<1>6. m \in Versions
  BY <1>1, <1>2, <1>5
<1>7. floor' \in [Keys -> Versions] /\ floor'[x] = m /\ \A y \in Keys : y # x => floor'[y] = floor[y]
  BY <1>1, <1>2, <1>3, <1>6
<1>8. write' = [write EXCEPT ![w].at = "done"] /\ write \in [Writers -> Writing \cup {Idle}]
  BY DEF EndWrite, TypeOK
<1>9. [write[w] EXCEPT !.at = "done"] \in Writing
      /\ [write[w] EXCEPT !.at = "done"].key = write[w].key
      /\ [write[w] EXCEPT !.at = "done"].value = write[w].value
  BY <1>1 DEF Writing
<1>10. /\ write'[w] \in Writing /\ write'[w].key = write[w].key /\ write'[w].value = write[w].value
       /\ \A u \in Writers : u # w => write'[u] = write[u]
       /\ write' \in [Writers -> Writing \cup {Idle}]
  BY <1>8, <1>9
<1> QED
  BY <1>1, <1>4, <1>5, <1>7, <1>10 DEF x, v

LEMMA WritesKeep ==
  ASSUME Kept, NEW w \in Writers,
         WriteStore(w) \/ WriteFails(w) \/ EndWrite(w) \/ \E x \in Keys : BeginWrite(w, x)
  PROVE  Kept'
<1>1. /\ TypeOK /\ stored \in [Keys -> Versions] /\ floor \in [Keys -> Versions]
      /\ write \in [Writers -> Writing \cup {Idle}]
  BY DEF Kept, TypeOK
<1>2. CASE WriteStore(w)
  <2>1. stored' \in [Keys -> Versions] /\ write' \in [Writers -> Writing \cup {Idle}]
    BY <1>1, <1>2, WriteStoreIs
  <2>2. UNCHANGED <<lru, bytes, flights, flight, read, floor>>
    BY <1>2 DEF WriteStore
  <2> QED
    BY <1>1, <2>1, <2>2, KeptStays
<1>3. CASE WriteFails(w)
  <2>1. /\ write' = [write EXCEPT ![w].at = "failed"]
        /\ UNCHANGED <<lru, bytes, flights, flight, read, floor, stored>>
    BY <1>3 DEF WriteFails
  <2>2. write[w] \in Writing
    BY <1>1, <1>3, WriteIs DEF WriteFails
  <2>3. [write[w] EXCEPT !.at = "failed"] \in Writing
    BY <2>2 DEF Writing
  <2>4. write' \in [Writers -> Writing \cup {Idle}]
    BY <1>1, <2>1, <2>3
  <2> QED
    BY <1>1, <2>1, <2>4, KeptStays
<1>4. CASE EndWrite(w)
  <2>1. write[w].key \in Keys /\ floor' \in [Keys -> Versions] /\ write' \in [Writers -> Writing \cup {Idle}]
    BY <1>1, <1>4, EndWriteIs
  <2>2. Forget(RangesOf(write[w].key)) /\ UNCHANGED <<stored, read>>
    BY <1>4 DEF EndWrite
  <2>3. RangesOf(write[w].key) \in SUBSET CacheKeys
    BY DEF RangesOf
  <2> QED
    BY <1>1, <2>1, <2>2, <2>3, ForgetKeeps
<1>5. ASSUME NEW x \in Keys, BeginWrite(w, x) PROVE Kept'
  <2>1. /\ Forget(RangesOf(x)) /\ UNCHANGED <<stored, read, floor>>
        /\ write' = [write EXCEPT ![w] = [key |-> x, at |-> "begun", value |-> 0]]
    BY <1>5 DEF BeginWrite
  <2>2. RangesOf(x) \in SUBSET CacheKeys
    BY DEF RangesOf
  <2>3. [key |-> x, at |-> "begun", value |-> 0] \in Writing
    BY CacheAssumption DEF Writing, Versions
  <2>4. write' \in [Writers -> Writing \cup {Idle}]
    BY <1>1, <2>1, <2>3
  <2> QED
    BY <1>1, <2>1, <2>2, <2>4, ForgetKeeps
<1> QED
  BY <1>2, <1>3, <1>4, <1>5

LEMMA OutsideKeeps ==
  ASSUME Kept, Purge \/ \E x \in Keys : WriteOutside(x)
  PROVE  Kept'
<1>1. /\ TypeOK /\ stored \in [Keys -> Versions] /\ floor \in [Keys -> Versions]
      /\ write \in [Writers -> Writing \cup {Idle}]
  BY DEF Kept, TypeOK
<1>2. CASE Purge
  <2>1. Forget(CacheKeys) /\ floor' = stored /\ UNCHANGED <<stored, read, write>>
    BY <1>2 DEF Purge
  <2> QED
    BY <1>1, <2>1, ForgetKeeps
<1>3. ASSUME NEW x \in Keys, WriteOutside(x) PROVE Kept'
  <2>1. /\ stored[x] < MaxVersion /\ stored' = [stored EXCEPT ![x] = @ + 1]
        /\ UNCHANGED <<lru, bytes, flights, flight, read, write, floor>>
    BY <1>3 DEF WriteOutside
  <2>2. stored[x] + 1 \in Versions
    BY <1>1, <2>1, CacheAssumption DEF Versions
  <2>3. stored' \in [Keys -> Versions]
    BY <1>1, <2>1, <2>2
  <2> QED
    BY <1>1, <2>1, <2>3, KeptStays
<1> QED
  BY <1>2, <1>3

LEMMA NextKeeps == Kept /\ [Next]_vars => Kept'
<1> SUFFICES ASSUME Kept, [Next]_vars PROVE Kept'
  OBVIOUS
<1>1. ASSUME NEW r \in Readers, Work(r) \/ GiveUp(r) \/ \E k \in CacheKeys : Begin(r, k)
      PROVE  Kept'
  BY <1>1, BeginKeeps, HitKeeps, JoinKeeps, FlyKeeps, FetchKeeps, LandKeeps, WakeKeeps DEF Work
<1>2. ASSUME NEW w \in Writers,
             WriteStore(w) \/ WriteFails(w) \/ EndWrite(w) \/ \E x \in Keys : BeginWrite(w, x)
      PROVE  Kept'
  BY <1>2, WritesKeep
<1>3. CASE Purge \/ \E x \in Keys : WriteOutside(x)
  BY <1>3, OutsideKeeps
<1>4. CASE UNCHANGED vars
  <2>1. UNCHANGED <<lru, bytes, flights, flight, read, stored, floor, write>>
    BY <1>4 DEF vars
  <2> QED
    BY <2>1, KeptStays DEF Kept, TypeOK
<1> QED
  BY <1>1, <1>2, <1>3, <1>4 DEF Next

LEMMA KeptAlways == Spec => []Kept
BY InitKept, NextKeeps, PTL DEF Spec

(* Reads, flights and what is held are as get and put of geodb/cache.go     *)
(* leave them, whatever reads, writes and purges come in whatever order.    *)
THEOREM CacheTypeCorrect == Spec => []TypeOK
<1>1. Kept => TypeOK
  BY DEF Kept
<1> QED
  BY <1>1, KeptAlways, PTL

(* The bytes that put adds and forget takes off are those of what is held,  *)
(* are never more than MaxBytes, and a key is never held twice: for any     *)
(* keys, any sizes of their values and a cache of any size.                 *)
THEOREM BytesCounted == Spec => []BytesAreHeld
<1>1. Kept => BytesAreHeld
  BY DEF Kept, Listed, Once, BytesAreHeld
<1> QED
  BY <1>1, KeptAlways, PTL
-----------------------------------------------------------------------------
(* What is kept is current, and reads see what was written: as long as no   *)
(* read gives up joining others' and reads the store beside one of them.    *)
LEMMA HeldStays ==
  ASSUME TypeOK, TypeOK', KeptIsCurrent,
         \A i \in 1 .. Len(lru') :
           \/ lru'[i].value >= floor'[KeyOf[lru'[i].k]]
           \/ \E j \in 1 .. Len(lru) : lru'[i] = lru[j] /\ floor'[KeyOf[lru[j].k]] = floor[KeyOf[lru[j].k]]
  PROVE  KeptIsCurrent'
<1>1. DOMAIN lru = 1 .. Len(lru) /\ DOMAIN lru' = 1 .. Len(lru')
  BY DEF TypeOK
<1> QED
  BY <1>1 DEF KeptIsCurrent

(* A step that takes no value from the store and begins no flight.          *)
LEMMA CurrentStays ==
  ASSUME TypeOK, TypeOK', Current, UNCHANGED <<stored, floor, write, flights, flight>>,
         \A i \in 1 .. Len(lru') : \E j \in 1 .. Len(lru) : lru'[i] = lru[j],
         \A s \in Readers : Flying(s)' => Flying(s) /\ read'[s].on = read[s].on /\ read'[s].key = read[s].key
  PROVE  Current'
<1>1. Ahead'
  BY DEF Current, Ahead
<1>2. Fresh'
  BY DEF Current, Fresh
<1>3. KeptIsCurrent'
  BY HeldStays DEF Current
<1> QED
  BY <1>1, <1>2, <1>3 DEF Current

LEMMA SeenStays ==
  ASSUME Seen, NEW r \in Readers, \A s \in Readers : s # r => read'[s] = read[s],
         UNCHANGED <<floor, flight>>,
         Underway(r)' => read'[r].floor <= floor[KeyOf[read'[r].key]],
         read'[r].at \in {"wait", "fetched"} /\ flight[read'[r].on].at = "ok" =>
           flight[read'[r].on].value >= read'[r].floor,
         read'[r].at = "done" => read'[r].value >= read'[r].floor
  PROVE  Seen'
<1>1. ASSUME NEW s \in Readers, Underway(s)' PROVE read'[s].floor <= floor'[KeyOf[read'[s].key]]
  BY <1>1 DEF Seen, Underway
<1>2. ASSUME NEW s \in Readers, read'[s].at \in {"wait", "fetched"}, flight'[read'[s].on].at = "ok"
      PROVE  flight'[read'[s].on].value >= read'[s].floor
  BY <1>2 DEF Seen
<1>3. ASSUME NEW s \in Readers, read'[s].at = "done" PROVE read'[s].value >= read'[s].floor
  BY <1>3 DEF Seen, ReadsSeeWrites
<1> QED
  BY <1>1, <1>2, <1>3 DEF Seen, ReadsSeeWrites

LEMMA BeginSees ==
  ASSUME Kept, Current, Seen, NEW r \in Readers, NEW k \in CacheKeys, Begin(r, k)
  PROVE  Current' /\ Seen'
<1> DEFINE new == [key |-> k, at |-> "look", on |-> NoFlight, attempt |-> 0, floor |-> floor[KeyOf[k]]]
<1>1. /\ TypeOK /\ TypeOK' /\ read' = [read EXCEPT ![r] = new]
      /\ UNCHANGED <<stored, lru, bytes, flights, flight, write, cancels, floor>>
  BY BeginKeeps DEF Kept, Begin
<1>2. new.at = "look" /\ new.floor = floor[KeyOf[new.key]] /\ KeyOf[k] \in Keys /\ new.key = k
  BY CacheAssumption
<1> HIDE DEF new
<1>3. read'[r] = new /\ \A s \in Readers : s # r => read'[s] = read[s]
  BY <1>1 DEF TypeOK
<1>4. Current'
  BY <1>1, <1>2, <1>3, CurrentStays DEF Flying
<1>5. floor[KeyOf[new.key]] <= floor[KeyOf[new.key]]
  BY <1>1, <1>2, CacheAssumption DEF TypeOK, Versions
<1>6. Seen'
  BY <1>1, <1>2, <1>3, <1>5, SeenStays
<1> QED
  BY <1>4, <1>6

LEMMA HitSees ==
  ASSUME Kept, Current, Seen, NEW r \in Readers, Hit(r)
  PROVE  Current' /\ Seen'
<1>1. /\ TypeOK /\ TypeOK' /\ Listed /\ read[r].at = "look"
      /\ UNCHANGED <<stored, bytes, flights, flight, write, cancels, floor>>
  BY HitKeeps DEF Kept, Hit
<1>a. lru \in Seq(Entry) /\ DOMAIN lru = 1 .. Len(lru)
  BY <1>1 DEF Listed
<1>2. PICK i \in 1 .. Len(lru) : /\ lru[i].k = read[r].key
                                 /\ lru' = <<lru[i]>> \o RemoveAt(lru, i)
                                 /\ Answer(r, lru[i].value)
  BY <1>a, Zenon DEF Hit
<1>3. \A n \in 1 .. Len(lru') : \E j \in 1 .. Len(lru) : lru'[n] = lru[j]
  BY <1>1, <1>2, HitLists
<1>4. read[r] \in Reading /\ Underway(r) /\ lru[i] \in Entry
  BY <1>1, <1>2, <1>a, ReadIs DEF Underway
<1> DEFINE new == [at |-> "done", value |-> lru[i].value, floor |-> read[r].floor]
<1>5. read' = [read EXCEPT ![r] = new]
  BY <1>2 DEF Answer
<1>6. new.at = "done" /\ new.value = lru[i].value /\ new.floor = read[r].floor
  OBVIOUS
<1> HIDE DEF new
<1>7. read'[r] = new /\ \A s \in Readers : s # r => read'[s] = read[s]
  BY <1>1, <1>5 DEF TypeOK
<1>8. Current'
  BY <1>1, <1>3, <1>6, <1>7, CurrentStays DEF Flying
<1>9. new.value >= new.floor
  <2>a. \A n \in 1 .. Len(lru) : lru[n].value >= floor[KeyOf[lru[n].k]]
    BY <1>a, Zenon DEF Current, KeptIsCurrent
  <2>b. lru[i].k = read[r].key
    BY <1>2
  <2>1. lru[i].value >= floor[KeyOf[read[r].key]]
    BY <1>2, <2>a, <2>b
  <2>2. read[r].floor <= floor[KeyOf[read[r].key]]
    BY <1>4 DEF Seen
  <2>3. read[r].key \in CacheKeys /\ read[r].floor \in Nat /\ lru[i].value \in Nat
    BY <1>4, CacheAssumption DEF Reading, Entry, Versions
  <2>c. floor \in [Keys -> Versions] /\ KeyOf[read[r].key] \in Keys
    BY <1>1, <2>3, CacheAssumption DEF TypeOK
  <2>4. floor[KeyOf[read[r].key]] \in Nat
    BY <2>c, CacheAssumption DEF Versions
  <2> QED
    BY <1>6, <2>1, <2>2, <2>3, <2>4
<1>10. Seen'
  BY <1>1, <1>6, <1>7, <1>9, SeenStays DEF Underway
<1> QED
  BY <1>8, <1>10

LEMMA JoinSees ==
  ASSUME Kept, Current, Seen, NEW r \in Readers, Join(r)
  PROVE  Current' /\ Seen'
<1>1. /\ TypeOK /\ TypeOK' /\ Flown /\ read[r].at = "look" /\ flights[read[r].key] # NoFlight
      /\ read' = [read EXCEPT ![r].at = "wait", ![r].on = flights[read[r].key]]
      /\ UNCHANGED <<stored, lru, bytes, flights, flight, write, cancels, floor>>
  BY JoinKeeps DEF Kept, Join, Misses, MayJoin
<1>2. read[r] \in Reading /\ Underway(r)
  BY <1>1, ReadIs DEF Underway
<1>3. /\ read'[r].at = "wait" /\ read'[r].key = read[r].key /\ read'[r].floor = read[r].floor
      /\ read'[r].on = flights[read[r].key]
      /\ \A s \in Readers : s # r => read'[s] = read[s]
  BY <1>1, <1>2 DEF TypeOK, Reading
<1>4. Current'
  BY <1>1, <1>3, CurrentStays DEF Flying
<1>5. read[r].key \in CacheKeys /\ read[r].floor \in Nat
  BY <1>2, CacheAssumption DEF Reading, Versions
<1>6. PICK t \in Readers : Flying(t) /\ read[t].on = flights[read[r].key] /\ read[t].key = read[r].key
  BY <1>1, <1>5 DEF Flown, Mapped
<1> DEFINE f == flights[read[r].key]
<1>7. ASSUME flight[f].at = "ok" PROVE flight[f].value >= read[r].floor
  <2>1. ~flight[f].stale
    BY <1>1, <1>5 DEF Current, Fresh
  <2>2. flight[f].value >= floor[KeyOf[read[r].key]]
    BY <1>6, <1>7, <2>1 DEF Current, Fresh
  <2>3. read[r].floor <= floor[KeyOf[read[r].key]]
    BY <1>2 DEF Seen
  <2>4. f \in Flights
    BY <1>1, <1>5 DEF TypeOK
  <2>5. flight[f].value \in Nat /\ floor[KeyOf[read[r].key]] \in Nat
    BY <1>1, <1>5, <2>4, CacheAssumption DEF TypeOK, Versions
  <2> QED
    BY <1>5, <2>2, <2>3, <2>5
<1>8. Seen'
  BY <1>1, <1>2, <1>3, <1>7, SeenStays DEF Seen
<1> QED
  BY <1>4, <1>8

LEMMA WakeSees ==
  ASSUME Kept, Current, Seen, NEW r \in Readers, Wake(r) \/ GiveUp(r)
  PROVE  Current' /\ Seen'
<1> DEFINE f == read[r].on
           v == flight[f].value
           again == [read EXCEPT ![r].at = "look", ![r].on = NoFlight, ![r].attempt = Min({@ + 1, Retries})]
<1>1. /\ TypeOK /\ TypeOK' /\ Flown /\ read[r].at = "wait"
      /\ UNCHANGED <<stored, lru, bytes, flights, flight, write, cancels, floor>>
      /\ \/ flight[f].at = "ok" /\ Answer(r, v)
         \/ ReturnError(r)
         \/ read' = again
  BY WakeKeeps DEF Kept, Wake, GiveUp
<1>2. read[r] \in Reading /\ Underway(r)
  BY <1>1, ReadIs DEF Underway
<1>3. /\ \A s \in Readers : s # r => read'[s] = read[s]
      /\ \/ flight[f].at = "ok" /\ read'[r] = [at |-> "done", value |-> v, floor |-> read[r].floor]
         \/ read'[r] = Idle
         \/ read'[r].at = "look" /\ read'[r].key = read[r].key /\ read'[r].floor = read[r].floor
  <2>1. read \in [Readers -> Reading \cup Answered \cup {Idle}]
    BY <1>1 DEF TypeOK
  <2>2. CASE flight[f].at = "ok" /\ Answer(r, v)
    BY <2>1, <2>2 DEF Answer
  <2>3. CASE ReturnError(r)
    BY <2>1, <2>3 DEF ReturnError
  <2>4. CASE read' = again
    BY <1>2, <2>1, <2>4 DEF Reading
  <2> QED
    BY <1>1, <2>2, <2>3, <2>4
<1>4. Current'
  BY <1>1, <1>3, CurrentStays DEF Flying, Idle
<1>5. flight[f].at = "ok" => v >= read[r].floor
  BY <1>1 DEF Seen
<1>6. read[r].floor <= floor[KeyOf[read[r].key]]
  BY <1>2 DEF Seen
<1>7. Seen'
  BY <1>1, <1>3, <1>5, <1>6, SeenStays DEF Underway, Idle
<1> QED
  BY <1>4, <1>7

LEMMA FlySees ==
  ASSUME Kept, Current, Seen, JoinsInTime, NEW r \in Readers, Fly(r)
  PROVE  Current' /\ Seen'
<1> DEFINE k == read[r].key
<1>1. PICK f \in Flights :
        /\ \A s \in Readers : read[s].at \in OnFlight => read[s].on # f
        /\ flight' = [flight EXCEPT ![f] = NewFlight]
        /\ flights' = [flights EXCEPT ![k] = f]
        /\ read' = [read EXCEPT ![r].at = "fetch", ![r].on = f]
  BY DEF Fly
<1>2. /\ TypeOK /\ TypeOK' /\ Flown /\ read[r].at = "look" /\ ~MayJoin(r)
      /\ UNCHANGED <<stored, lru, bytes, write, cancels, floor>>
  BY FlyKeeps DEF Kept, Fly, Misses
<1>3. read[r] \in Reading /\ k \in CacheKeys /\ Underway(r)
  BY <1>2, ReadIs DEF Underway, Reading
<1>4. /\ read'[r].at = "fetch" /\ read'[r].key = k /\ read'[r].on = f /\ read'[r].floor = read[r].floor
      /\ \A s \in Readers : s # r => read'[s] = read[s]
  BY <1>1, <1>2, <1>3 DEF TypeOK, Reading
<1>5. /\ flight'[f].at = "reading" /\ ~flight'[f].stale
      /\ \A g \in Flights : g # f => flight'[g] = flight[g]
      /\ flights'[k] = f /\ \A j \in CacheKeys : j # k => flights'[j] = flights[j]
  BY <1>1, <1>2, <1>3 DEF TypeOK, NewFlight
<1>6. flights[k] = NoFlight
  BY <1>2 DEF JoinsInTime, MayJoin
<1>7. \A s \in Readers : Flying(s) => read[s].on \in Flights /\ read[s].on # f /\ read[s].on # NoFlight
  BY <1>1, <1>2, CacheAssumption DEF Flying, Flown, Placed, OnFlight
<1> HIDE DEF k
<1>8. Ahead'
  BY <1>2 DEF Current, Ahead
<1>9. Fresh'
  <2>1. ASSUME NEW j \in CacheKeys, flights'[j] # NoFlight PROVE ~flight'[flights'[j]].stale
    <3>1. CASE j = k
      BY <1>5, <3>1
    <3>2. CASE j # k
      <4>1. flights'[j] = flights[j] /\ flights[j] # NoFlight
        BY <1>5, <2>1, <3>2
      <4>2. flights[j] # f /\ flights[j] \in Flights
        BY <1>2, <1>7, <4>1 DEF Flown, Mapped
      <4> QED
        BY <1>5, <4>1, <4>2 DEF Current, Fresh
    <3> QED
      BY <3>1, <3>2
  <2>2. ASSUME NEW s \in Readers, Flying(s)', ~flight'[read'[s].on].stale
        PROVE  /\ flights'[read'[s].key] = read'[s].on
               /\ flight'[read'[s].on].at = "ok" => flight'[read'[s].on].value >= floor'[KeyOf[read'[s].key]]
    <3>1. CASE s = r
      BY <1>4, <1>5, <3>1
    <3>2. CASE s # r
      <4>1. Flying(s) /\ read'[s] = read[s] /\ flight'[read[s].on] = flight[read[s].on]
        BY <1>4, <1>5, <1>7, <2>2, <3>2 DEF Flying
      <4>2. flights[read[s].key] = read[s].on /\ read[s].key \in CacheKeys
        BY <1>2, <2>2, <4>1, ReadIs DEF Current, Fresh, Underway, Flying, Reading
      <4>3. flights'[read[s].key] = read[s].on
        BY <1>5, <1>6, <1>7, <4>1, <4>2
      <4> QED
        BY <1>2, <2>2, <4>1, <4>3 DEF Current, Fresh
    <3> QED
      BY <3>1, <3>2
  <2> QED
    BY <2>1, <2>2 DEF Fresh
<1>10. KeptIsCurrent'
  BY <1>2 DEF Current, KeptIsCurrent
<1>11. Seen'
  <2>1. ASSUME NEW s \in Readers, Underway(s)' PROVE read'[s].floor <= floor'[KeyOf[read'[s].key]]
    BY <1>2, <1>3, <1>4, <2>1 DEF Seen, Underway, k
  <2>2. ASSUME NEW s \in Readers, read'[s].at \in {"wait", "fetched"}, flight'[read'[s].on].at = "ok"
        PROVE  flight'[read'[s].on].value >= read'[s].floor
    <3>1. s # r /\ read'[s] = read[s] /\ read[s].on # f /\ read[s].on \in Flights
      BY <1>1, <1>2, <1>4, <2>2 DEF OnFlight, Flown, Placed
    <3> QED
      BY <1>5, <2>2, <3>1 DEF Seen
  <2>3. ReadsSeeWrites'
    BY <1>4 DEF Seen, ReadsSeeWrites
  <2> QED
    BY <2>1, <2>2, <2>3 DEF Seen
<1> QED
  BY <1>8, <1>9, <1>10, <1>11 DEF Current

LEMMA FetchSees ==
  ASSUME Kept, Current, Seen, NEW r \in Readers, Fetch(r)
  PROVE  Current' /\ Seen'
<1> DEFINE f == read[r].on
           k == read[r].key
           v == stored[KeyOf[k]]
<1>1. /\ TypeOK /\ TypeOK' /\ Flown /\ read[r].at = "fetch"
      /\ read' = [read EXCEPT ![r].at = "fetched"]
      /\ UNCHANGED <<stored, lru, bytes, flights, write, floor>>
  BY FetchKeeps DEF Kept, Fetch
<1>2. read[r] \in Reading /\ f \in Flights /\ k \in CacheKeys /\ Underway(r) /\ Flying(r) /\ KeyOf[k] \in Keys
  <2>1. read[r] \in Reading /\ f \in Flights
    BY <1>1, ReadIs DEF Underway, Flown, Placed, OnFlight
  <2> QED
    BY <1>1, <2>1, CacheAssumption DEF Reading, Underway, Flying
<1>3. /\ read'[r].at = "fetched" /\ read'[r].key = k /\ read'[r].on = f /\ read'[r].floor = read[r].floor
      /\ \A s \in Readers : s # r => read'[s] = read[s]
  BY <1>1, <1>2 DEF TypeOK, Reading
<1>4. /\ \A g \in Flights : g # f => flight'[g] = flight[g]
      /\ flight'[f].stale = flight[f].stale
      /\ flight'[f].at = "ok" => flight'[f].value = v
  <2> HIDE DEF f, k
  <2>1. flight \in [Flights -> [at : {"reading", "ok", "cancelled", "failed"},
                                value : Versions, stale : BOOLEAN]]
    BY <1>1 DEF TypeOK
  <2>2. \/ flight' = [flight EXCEPT ![f].at = "ok", ![f].value = v]
        \/ flight' = [flight EXCEPT ![f].at = "failed"]
        \/ flight' = [flight EXCEPT ![f].at = "cancelled"]
    BY DEF Fetch, f, k
  <2> HIDE DEF v
  <2> QED
    BY <1>2, <2>1, <2>2
<1>5. v \in Nat /\ floor[KeyOf[k]] \in Nat /\ v >= floor[KeyOf[k]] /\ read[r].floor <= floor[KeyOf[k]]
  <2>1. v \in Nat /\ floor[KeyOf[k]] \in Nat
    BY <1>1, <1>2, CacheAssumption DEF TypeOK, Versions
  <2>2. v >= floor[KeyOf[k]]
    BY <1>2, <2>1 DEF Current, Ahead
  <2> QED
    BY <1>2, <2>1, <2>2 DEF Seen
<1> HIDE DEF f, k, v
<1>6. \A s \in Readers : Flying(s) /\ read[s].on = f => s = r
  BY <1>1, <1>2 DEF Flown, OneEach, f
<1>7. Ahead' /\ KeptIsCurrent'
  BY <1>1 DEF Current, Ahead, KeptIsCurrent
<1>8. \A s \in Readers : /\ Flying(s)' <=> Flying(s)
                         /\ read'[s].on = read[s].on /\ read'[s].key = read[s].key
                         /\ read'[s].floor = read[s].floor
  BY <1>1, <1>3 DEF Flying, f, k
<1>9. \A s \in Readers : Flying(s) => read[s].on \in Flights
  BY <1>1 DEF Flown, Placed, Flying, OnFlight
<1>10. Fresh'
  <2>1. ASSUME NEW j \in CacheKeys, flights'[j] # NoFlight PROVE ~flight'[flights'[j]].stale
    <3>1. flights'[j] = flights[j] /\ flights[j] \in Flights /\ ~flight[flights[j]].stale
      BY <1>1, <2>1 DEF TypeOK, Current, Fresh
    <3> QED
      BY <1>4, <3>1
  <2>2. ASSUME NEW s \in Readers, Flying(s)', ~flight'[read'[s].on].stale
        PROVE  /\ flights'[read'[s].key] = read'[s].on
               /\ flight'[read'[s].on].at = "ok" => flight'[read'[s].on].value >= floor'[KeyOf[read'[s].key]]
    <3>1. Flying(s) /\ read'[s].on = read[s].on /\ read'[s].key = read[s].key
      BY <1>8, <2>2
    <3>2. ~flight[read[s].on].stale
      BY <1>4, <1>9, <2>2, <3>1
    <3>3. flights'[read'[s].key] = read'[s].on
      BY <1>1, <3>1, <3>2 DEF Current, Fresh
    <3>4. CASE read[s].on = f
      BY <1>1, <1>3, <1>4, <1>5, <1>6, <3>1, <3>3, <3>4
    <3>5. CASE read[s].on # f
      <4>1. flight'[read[s].on] = flight[read[s].on]
        BY <1>4, <1>9, <3>1, <3>5
      <4> QED
        BY <1>1, <3>1, <3>2, <3>3, <4>1 DEF Current, Fresh
    <3> QED
      BY <3>4, <3>5
  <2> QED
    BY <2>1, <2>2 DEF Fresh
<1>11. Seen'
  <2>1. ASSUME NEW s \in Readers, Underway(s)' PROVE read'[s].floor <= floor'[KeyOf[read'[s].key]]
    <3>1. Underway(s)
      BY <1>1, <1>2, <1>3, <2>1 DEF Underway
    <3> QED
      BY <1>1, <1>8, <3>1 DEF Seen
  <2>2. ASSUME NEW s \in Readers, read'[s].at \in {"wait", "fetched"}, flight'[read'[s].on].at = "ok"
        PROVE  flight'[read'[s].on].value >= read'[s].floor
    <3>1. CASE read[s].on # f
      <4>1. s # r /\ read'[s] = read[s] /\ read[s].on \in Flights
        BY <1>1, <1>3, <2>2, <3>1 DEF f, OnFlight, Flown, Placed
      <4> QED
        BY <1>4, <2>2, <3>1, <4>1 DEF Seen
    <3>2. CASE read[s].on = f
      <4>1. read'[s].on = f /\ flight'[f].value = v /\ read'[s].floor = read[s].floor
        BY <1>4, <1>8, <2>2, <3>2
      <4>2. read[s].key = k /\ Underway(s)
        <5>1. CASE s = r
          BY <1>2, <5>1 DEF k
        <5>2. CASE s # r
          <6>1. read'[s] = read[s] /\ ~Flying(s)
            BY <1>3, <1>6, <3>2, <5>2
          <6>2. read[s].at = "wait"
            BY <2>2, <6>1 DEF Flying
          <6> QED
            BY <1>1, <1>2, <3>2, <6>2 DEF Flown, Joined, f, k, Underway
        <5> QED
          BY <5>1, <5>2
      <4>3. read[s].floor <= floor[KeyOf[k]] /\ read[s].floor \in Nat
        BY <1>1, <4>2, ReadIs, CacheAssumption DEF Seen, Reading, Versions
      <4> QED
        BY <1>5, <4>1, <4>3
    <3> QED
      BY <3>1, <3>2
  <2>3. ReadsSeeWrites'
    BY <1>3 DEF Seen, ReadsSeeWrites
  <2> QED
    BY <2>1, <2>2, <2>3 DEF Seen
<1> QED
  BY <1>7, <1>10, <1>11 DEF Current

LEMMA LandSees ==
  ASSUME Kept, Current, Seen, NEW r \in Readers, Land(r)
  PROVE  Current' /\ Seen'
<1> DEFINE f == read[r].on
           k == read[r].key
           v == flight[f].value
<1>1. /\ TypeOK /\ TypeOK' /\ Flown /\ Listed /\ read[r].at = "fetched"
      /\ flights' = IF flights[k] = f THEN [flights EXCEPT ![k] = NoFlight] ELSE flights
      /\ (Keeps(f) /\ Put(k, v)) \/ UNCHANGED <<lru, bytes>>
      /\ (flight[f].at = "ok" /\ Answer(r, v)) \/ ReturnError(r)
      /\ UNCHANGED <<stored, flight, write, cancels, floor>>
  BY LandKeeps DEF Kept, Land
<1>2. Underway(r) /\ read[r] \in Reading /\ f \in Flights /\ k \in CacheKeys /\ Flying(r)
  BY <1>1, ReadIs DEF Underway, Flown, Placed, OnFlight, Reading, Flying
<1>3. v \in Versions
  BY <1>1, <1>2 DEF TypeOK
<1>4. /\ \/ flight[f].at = "ok" /\ read'[r] = [at |-> "done", value |-> v, floor |-> read[r].floor]
         \/ read'[r] = Idle
      /\ \A s \in Readers : s # r => read'[s] = read[s]
  <2>1. read \in [Readers -> Reading \cup Answered \cup {Idle}]
    BY <1>1 DEF TypeOK
  <2>2. CASE flight[f].at = "ok" /\ Answer(r, v)
    <3>1. read' = [read EXCEPT ![r] = [at |-> "done", value |-> v, floor |-> read[r].floor]]
      BY <2>2 DEF Answer
    <3> QED
      BY <2>1, <2>2, <3>1
  <2>3. CASE ReturnError(r)
    BY <2>1, <2>3 DEF ReturnError
  <2> QED
    BY <1>1, <2>2, <2>3
<1>5. /\ \A j \in CacheKeys : flights'[j] # NoFlight => flights'[j] = flights[j]
      /\ \A j \in CacheKeys : ~(j = k /\ flights[k] = f) => flights'[j] = flights[j]
  <2> HIDE DEF f, k, v
  <2> QED
    BY <1>1, <1>2 DEF TypeOK
<1>6. \A s \in Readers : Flying(s)' => s # r /\ Flying(s) /\ read'[s] = read[s]
  BY <1>4 DEF Flying, Idle
<1>7. Ahead'
  BY <1>1 DEF Current, Ahead
<1>8. Fresh'
  <2>1. ASSUME NEW j \in CacheKeys, flights'[j] # NoFlight PROVE ~flight'[flights'[j]].stale
    BY <1>1, <1>5, <2>1 DEF Current, Fresh
  <2>2. ASSUME NEW s \in Readers, Flying(s)', ~flight'[read'[s].on].stale
        PROVE  /\ flights'[read'[s].key] = read'[s].on
               /\ flight'[read'[s].on].at = "ok" => flight'[read'[s].on].value >= floor'[KeyOf[read'[s].key]]
    <3>1. s # r /\ Flying(s) /\ read'[s] = read[s] /\ ~flight[read[s].on].stale
      BY <1>1, <1>6, <2>2
    <3>2. flights[read[s].key] = read[s].on /\ read[s].key \in CacheKeys
      BY <1>1, <3>1, ReadIs DEF Current, Fresh, Underway, Flying, Reading
    <3>3. read[s].on # f
      BY <1>1, <1>2, <3>1 DEF Flown, OneEach
    <3>4. flights'[read[s].key] = read[s].on
      BY <1>5, <3>2, <3>3
    <3> QED
      BY <1>1, <3>1, <3>4 DEF Current, Fresh
  <2> QED
    BY <2>1, <2>2 DEF Fresh
<1>9. KeptIsCurrent'
  <2>1. CASE Keeps(f) /\ Put(k, v)
    <3>1. v >= floor[KeyOf[k]]
      BY <1>2, <2>1 DEF Current, Fresh, Keeps
    <3> HIDE DEF f, k, v
    <3>2. \A i \in 1 .. Len(lru') : \/ lru'[i] = [k |-> k, value |-> v]
                                    \/ \E j \in 1 .. Len(lru) : lru'[i] = lru[j]
      BY <1>1, <1>2, <1>3, <2>1, PutLists
    <3>3. [k |-> k, value |-> v].k = k /\ [k |-> k, value |-> v].value = v
      OBVIOUS
    <3> QED
      BY <1>1, <3>1, <3>2, <3>3, HeldStays DEF Current
  <2>2. CASE UNCHANGED <<lru, bytes>>
    BY <1>1, <2>2 DEF Current, KeptIsCurrent
  <2> QED
    BY <1>1, <2>1, <2>2
<1>10. flight[f].at = "ok" => v >= read[r].floor
  BY <1>1 DEF Seen
<1>11. Seen'
  BY <1>1, <1>4, <1>10, SeenStays DEF Underway, Idle
<1> QED
  BY <1>7, <1>8, <1>9, <1>11 DEF Current

(* What is forgotten may be promised anew: no read or flight has it.        *)
LEMMA ForgetSees ==
  ASSUME Kept, Kept', Current, Seen, NEW gone \in SUBSET CacheKeys, Forget(gone), UNCHANGED read,
         \A x \in Keys : floor'[x] >= floor[x] /\ (floor'[x] # floor[x] => RangesOf(x) \subseteq gone),
         Ahead'
  PROVE  Current' /\ Seen'
<1>1. /\ TypeOK /\ TypeOK' /\ Listed /\ Flown
      /\ flight' = [f \in Flights |->
                     IF \E k \in gone : flights[k] = f THEN [flight[f] EXCEPT !.stale = TRUE]
                     ELSE flight[f]]
      /\ flights' = [k \in CacheKeys |-> IF k \in gone THEN NoFlight ELSE flights[k]]
  BY DEF Kept, Forget
<1>2. ASSUME NEW f \in Flights
      PROVE  /\ flight'[f].at = flight[f].at /\ flight'[f].value = flight[f].value
             /\ (\E k \in gone : flights[k] = f) => flight'[f].stale
             /\ ~(\E k \in gone : flights[k] = f) => flight'[f] = flight[f]
  <2>1. flight[f] \in [at : {"reading", "ok", "cancelled", "failed"}, value : Versions, stale : BOOLEAN]
    BY <1>1 DEF TypeOK
  <2> QED
    BY <1>1, <2>1
<1>3. \A k \in CacheKeys : k \notin gone => floor'[KeyOf[k]] = floor[KeyOf[k]] /\ flights'[k] = flights[k]
  BY <1>1, CacheAssumption DEF RangesOf
<1>4. \A k \in CacheKeys : k \in gone => flights'[k] = NoFlight
  BY <1>1
<1>5. KeptIsCurrent'
  <2>1. \A i \in 1 .. Len(lru') : lru'[i].k \notin gone /\ \E j \in 1 .. Len(lru) : lru'[i] = lru[j]
    BY <1>1, ForgetLists
  <2>a. lru \in Seq(Entry)
    BY <1>1 DEF Listed
  <2>b. ASSUME NEW j \in 1 .. Len(lru) PROVE lru[j] \in Entry
    BY <2>a
  <2>2. \A j \in 1 .. Len(lru) : lru[j].k \in CacheKeys
    BY <2>b DEF Entry
  <2> QED
    BY <1>1, <1>3, <2>1, <2>2, HeldStays DEF Current
<1>6. Fresh'
  <2>1. ASSUME NEW j \in CacheKeys, flights'[j] # NoFlight PROVE ~flight'[flights'[j]].stale
    <3>1. j \notin gone /\ flights'[j] = flights[j] /\ flights[j] \in Flights
      BY <1>1, <1>3, <1>4, <2>1 DEF TypeOK
    <3>2. ASSUME NEW k \in gone, flights[k] = flights[j] PROVE FALSE
      <4>1. \E s, t \in Readers : /\ Flying(s) /\ read[s].on = flights[j] /\ read[s].key = j
                                  /\ Flying(t) /\ read[t].on = flights[j] /\ read[t].key = k
        BY <1>1, <2>1, <3>1, <3>2 DEF Flown, Mapped
      <4> QED
        BY <1>1, <3>1, <4>1 DEF Flown, OneEach
    <3> QED
      BY <1>2, <2>1, <3>1, <3>2 DEF Current, Fresh
  <2>2. ASSUME NEW s \in Readers, Flying(s)', ~flight'[read'[s].on].stale
        PROVE  /\ flights'[read'[s].key] = read'[s].on
               /\ flight'[read'[s].on].at = "ok" => flight'[read'[s].on].value >= floor'[KeyOf[read'[s].key]]
    <3>1. Flying(s) /\ read'[s] = read[s] /\ read[s].on \in Flights /\ read[s].key \in CacheKeys
      BY <1>1, <2>2, ReadIs DEF Flying, Flown, Placed, OnFlight, Underway, Reading
    <3>2. ~(\E k \in gone : flights[k] = read[s].on) /\ flight'[read[s].on] = flight[read[s].on]
      BY <1>2, <2>2, <3>1
    <3>3. flights[read[s].key] = read[s].on
      BY <2>2, <3>1, <3>2 DEF Current, Fresh
    <3>4. read[s].key \notin gone
      BY <3>2, <3>3
    <3> QED
      BY <1>3, <2>2, <3>1, <3>2, <3>3, <3>4 DEF Current, Fresh
  <2> QED
    BY <2>1, <2>2 DEF Fresh
<1>7. Seen'
  <2>1. ASSUME NEW s \in Readers, Underway(s)' PROVE read'[s].floor <= floor'[KeyOf[read'[s].key]]
    <3>1. Underway(s) /\ read'[s] = read[s] /\ read[s] \in Reading
      BY <1>1, <2>1, ReadIs DEF Underway
    <3>2. KeyOf[read[s].key] \in Keys /\ read[s].floor \in Nat
      BY <3>1, CacheAssumption DEF Reading, Versions
    <3>3. floor[KeyOf[read[s].key]] \in Nat /\ floor'[KeyOf[read[s].key]] \in Nat
      BY <1>1, <3>2, CacheAssumption DEF TypeOK, Versions
    <3>4. read[s].floor <= floor[KeyOf[read[s].key]]
      BY <3>1 DEF Seen
    <3>5. floor'[KeyOf[read[s].key]] >= floor[KeyOf[read[s].key]]
      BY <3>2
    <3> QED
      BY <3>1, <3>2, <3>3, <3>4, <3>5
  <2>2. ASSUME NEW s \in Readers, read'[s].at \in {"wait", "fetched"}, flight'[read'[s].on].at = "ok"
        PROVE  flight'[read'[s].on].value >= read'[s].floor
    <3>1. read'[s] = read[s] /\ read[s].on \in Flights
      BY <1>1, <2>2 DEF OnFlight, Flown, Placed
    <3> QED
      BY <1>2, <2>2, <3>1 DEF Seen
  <2>3. ReadsSeeWrites'
    BY DEF Seen, ReadsSeeWrites
  <2> QED
    BY <2>1, <2>2, <2>3 DEF Seen
<1> QED
  BY <1>5, <1>6, <1>7 DEF Current

LEMMA WriteSees ==
  ASSUME Kept, Kept', Current, Seen, NEW w \in Writers,
         WriteStore(w) \/ WriteFails(w) \/ EndWrite(w) \/ \E x \in Keys : BeginWrite(w, x)
  PROVE  Current' /\ Seen'
<1>1. /\ TypeOK /\ TypeOK' /\ stored \in [Keys -> Versions] /\ floor \in [Keys -> Versions]
      /\ write \in [Writers -> Writing \cup {Idle}]
  BY DEF Kept, TypeOK
<1>2. \A x \in Keys : stored[x] \in Nat /\ floor[x] \in Nat /\ floor[x] <= stored[x]
  BY <1>1, CacheAssumption DEF Current, Ahead, Versions
<1>3. \A u \in Writers : write[u].at # "idle" =>
        /\ write[u].key \in Keys /\ write[u].value \in Nat /\ write[u].value <= stored[write[u].key]
  BY <1>1, WriteIs, CacheAssumption DEF Current, Ahead, Writing, Versions
<1>4. ASSUME UNCHANGED <<lru, flights, flight, read, floor>>, Ahead' PROVE Current' /\ Seen'
  <2>1. Fresh' /\ KeptIsCurrent'
    BY <1>4 DEF Current, Fresh, KeptIsCurrent, Flying
  <2>2. Seen'
    BY <1>4 DEF Seen, ReadsSeeWrites, Underway
  <2> QED
    BY <1>4, <2>1, <2>2 DEF Current
<1>5. CASE WriteStore(w)
  <2> DEFINE y == write[w].key
  <2>1. /\ y \in Keys /\ stored' = [stored EXCEPT ![y] = @ + 1]
        /\ write'[w].key = y /\ write'[w].value = stored[y] + 1
        /\ \A u \in Writers : u # w => write'[u] = write[u]
    BY <1>1, <1>5, WriteStoreIs
  <2>2. UNCHANGED <<lru, flights, flight, read, floor>>
    BY <1>5 DEF WriteStore
  <2> HIDE DEF y
  <2>3. stored'[y] = stored[y] + 1 /\ \A x \in Keys : stored'[x] >= stored[x]
    BY <1>1, <1>2, <2>1
  <2>4. ASSUME NEW x \in Keys PROVE floor'[x] <= stored'[x]
    <3>1. stored'[x] \in {stored[x], stored[x] + 1}
      BY <1>1, <2>1
    <3> QED
      BY <1>2, <2>2, <3>1
  <2>5. ASSUME NEW u \in Writers, write'[u].at # "idle" PROVE write'[u].value <= stored'[write'[u].key]
    <3>1. CASE u = w
      BY <1>2, <2>1, <2>3, <3>1
    <3>2. CASE u # w
      <4>1. write'[u] = write[u] /\ write[u].key \in Keys /\ write[u].value \in Nat
            /\ write[u].value <= stored[write[u].key]
        BY <1>3, <2>1, <2>5, <3>2
      <4>2. stored'[write[u].key] \in {stored[write[u].key], stored[write[u].key] + 1}
            /\ stored[write[u].key] \in Nat
        BY <1>1, <1>2, <2>1, <4>1
      <4> QED
        BY <4>1, <4>2
    <3> QED
      BY <3>1, <3>2
  <2> QED
    BY <1>4, <2>2, <2>4, <2>5 DEF Ahead
<1>6. CASE WriteFails(w)
  <2>1. /\ write' = [write EXCEPT ![w].at = "failed"] /\ write[w].at # "idle"
        /\ UNCHANGED <<lru, flights, flight, read, floor, stored>>
    BY <1>6 DEF WriteFails
  <2>2. write[w] \in Writing
    BY <1>1, <2>1, WriteIs
  <2>3. \A u \in Writers : /\ write'[u].at # "idle" => write[u].at # "idle"
                           /\ write'[u].key = write[u].key /\ write'[u].value = write[u].value
    BY <1>1, <2>1, <2>2 DEF Writing
  <2>4. Ahead'
    BY <1>2, <1>3, <2>1, <2>3 DEF Ahead
  <2> QED
    BY <1>4, <2>1, <2>4
<1>7. CASE EndWrite(w)
  <2> DEFINE y == write[w].key
  <2>1. /\ y \in Keys /\ write[w].value \in Nat
        /\ \A x \in Keys : x # y => floor'[x] = floor[x]
        /\ floor'[y] \in {floor[y], write[w].value} /\ floor'[y] >= floor[y]
        /\ write'[w].key = y /\ write'[w].value = write[w].value
        /\ \A u \in Writers : u # w => write'[u] = write[u]
    BY <1>1, <1>7, EndWriteIs
  <2>2. Forget(RangesOf(y)) /\ UNCHANGED <<stored, read>> /\ write[w].at # "idle"
    BY <1>7 DEF EndWrite
  <2>3. RangesOf(y) \in SUBSET CacheKeys
    BY DEF RangesOf
  <2> HIDE DEF y
  <2>4. \A x \in Keys : floor'[x] >= floor[x] /\ (floor'[x] # floor[x] => RangesOf(x) \subseteq RangesOf(y))
    BY <1>2, <2>1
  <2>5. Ahead'
    <3>1. ASSUME NEW x \in Keys PROVE floor'[x] <= stored'[x]
      BY <1>2, <1>3, <2>1, <2>2 DEF y
    <3>2. ASSUME NEW u \in Writers, write'[u].at # "idle" PROVE write'[u].value <= stored'[write'[u].key]
      BY <1>3, <2>1, <2>2, <3>2 DEF y
    <3> QED
      BY <3>1, <3>2 DEF Ahead
  <2> QED
    BY <2>2, <2>3, <2>4, <2>5, ForgetSees
<1>8. ASSUME NEW x \in Keys, BeginWrite(w, x) PROVE Current' /\ Seen'
  <2>1. /\ Forget(RangesOf(x)) /\ UNCHANGED <<stored, read, floor>>
        /\ write' = [write EXCEPT ![w] = [key |-> x, at |-> "begun", value |-> 0]]
    BY <1>8 DEF BeginWrite
  <2>2. RangesOf(x) \in SUBSET CacheKeys
    BY DEF RangesOf
  <2>3. \A y \in Keys : floor'[y] >= floor[y] /\ (floor'[y] # floor[y] => RangesOf(y) \subseteq RangesOf(x))
    BY <1>2, <2>1
  <2>4. Ahead'
    <3>1. ASSUME NEW u \in Writers, write'[u].at # "idle" PROVE write'[u].value <= stored'[write'[u].key]
      <4>1. CASE u = w
        BY <1>1, <1>2, <2>1, <4>1
      <4>2. CASE u # w
        BY <1>1, <1>3, <2>1, <3>1, <4>2
      <4> QED
        BY <4>1, <4>2
    <3> QED
      BY <1>2, <2>1, <3>1 DEF Ahead
  <2> QED
    BY <2>1, <2>2, <2>3, <2>4, ForgetSees
<1> QED
  BY <1>5, <1>6, <1>7, <1>8

LEMMA OutsideSees ==
  ASSUME Kept, Kept', Current, Seen, Purge \/ \E x \in Keys : WriteOutside(x)
  PROVE  Current' /\ Seen'
<1>1. stored \in [Keys -> Versions] /\ floor \in [Keys -> Versions] /\ write \in [Writers -> Writing \cup {Idle}]
      /\ TypeOK
  BY DEF Kept, TypeOK
<1>2. \A x \in Keys : stored[x] \in Nat /\ floor[x] \in Nat /\ floor[x] <= stored[x]
  BY <1>1, CacheAssumption DEF Current, Ahead, Versions
<1>3. \A u \in Writers : write[u].at # "idle" =>
        /\ write[u].key \in Keys /\ write[u].value \in Nat /\ write[u].value <= stored[write[u].key]
  BY <1>1, WriteIs, CacheAssumption DEF Current, Ahead, Writing, Versions
<1>4. CASE Purge
  <2>1. Forget(CacheKeys) /\ floor' = stored /\ UNCHANGED <<stored, read, write>>
    BY <1>4 DEF Purge
  <2>2. \A x \in Keys : floor'[x] >= floor[x] /\ (floor'[x] # floor[x] => RangesOf(x) \subseteq CacheKeys)
    BY <1>2, <2>1 DEF RangesOf
  <2>3. Ahead'
    BY <1>2, <1>3, <2>1 DEF Ahead
  <2> QED
    BY <2>1, <2>2, <2>3, ForgetSees
<1>5. ASSUME NEW x \in Keys, WriteOutside(x) PROVE Current' /\ Seen'
  <2>1. /\ stored' = [stored EXCEPT ![x] = @ + 1]
        /\ UNCHANGED <<lru, flights, flight, read, write, floor>>
    BY <1>5 DEF WriteOutside
  <2>2. \A y \in Keys : stored'[y] \in {stored[y], stored[y] + 1}
    BY <1>1, <2>1
  <2>3. ASSUME NEW y \in Keys PROVE floor'[y] <= stored'[y]
    BY <1>2, <2>1, <2>2
  <2>4. ASSUME NEW u \in Writers, write'[u].at # "idle" PROVE write'[u].value <= stored'[write'[u].key]
    <3>1. write[u].key \in Keys /\ write[u].value \in Nat /\ write[u].value <= stored[write[u].key]
      BY <1>3, <2>1, <2>4
    <3> QED
      BY <1>2, <2>1, <2>2, <3>1
  <2>5. Ahead'
    BY <2>3, <2>4 DEF Ahead
  <2>6. Fresh' /\ KeptIsCurrent'
    BY <2>1 DEF Current, Fresh, KeptIsCurrent, Flying
  <2>7. Seen'
    BY <2>1 DEF Seen, ReadsSeeWrites, Underway
  <2> QED
    BY <2>5, <2>6, <2>7 DEF Current
<1> QED
  BY <1>4, <1>5

LEMMA InitSees == Init => Current /\ Seen
<1> SUFFICES ASSUME Init PROVE Current /\ Seen
  OBVIOUS
<1>1. Ahead
  BY DEF Init, Ahead, Idle
<1>2. Fresh
  BY DEF Init, Fresh, Flying, Idle
<1>3. KeptIsCurrent
  BY DEF Init, KeptIsCurrent
<1>4. Seen
  BY DEF Init, Seen, ReadsSeeWrites, Underway, Idle
<1> QED
  BY <1>1, <1>2, <1>3, <1>4 DEF Current

LEMMA NextSees == IInv /\ JoinsInTime /\ [Next]_vars => IInv'
<1> SUFFICES ASSUME IInv, JoinsInTime, [Next]_vars PROVE Current' /\ Seen'
  BY NextKeeps DEF IInv
<1>1. Kept /\ Kept' /\ Current /\ Seen
  BY NextKeeps DEF IInv
<1>2. ASSUME NEW r \in Readers, Work(r) \/ GiveUp(r) \/ \E k \in CacheKeys : Begin(r, k)
      PROVE  Current' /\ Seen'
  BY <1>1, <1>2, BeginSees, HitSees, JoinSees, FlySees, FetchSees, LandSees, WakeSees DEF Work
<1>3. ASSUME NEW w \in Writers,
             WriteStore(w) \/ WriteFails(w) \/ EndWrite(w) \/ \E x \in Keys : BeginWrite(w, x)
      PROVE  Current' /\ Seen'
  BY <1>1, <1>3, WriteSees
<1>4. CASE Purge \/ \E x \in Keys : WriteOutside(x)
  BY <1>1, <1>4, OutsideSees
<1>5. CASE UNCHANGED vars
  <2>1. UNCHANGED <<lru, flights, flight, read, floor, stored, write>>
    BY <1>5 DEF vars
  <2>2. Current'
    BY <1>1, <2>1 DEF Current, Ahead, Fresh, KeptIsCurrent, Flying
  <2> QED
    BY <1>1, <2>1, <2>2 DEF Seen, ReadsSeeWrites, Underway
<1> QED
  BY <1>2, <1>3, <1>4, <1>5 DEF Next

LEMMA IInvAlways == Spec /\ []JoinsInTime => []IInv
<1>1. Init => IInv
  BY InitKept, InitSees DEF IInv
<1> QED
  BY <1>1, NextSees, PTL DEF Spec
-----------------------------------------------------------------------------
(* How often a read looks again: once for each read of the store that was   *)
(* stopped.                                                                 *)
LEMMA CountLess ==
  ASSUME TypeOK, TypeOK', Counted, NEW r \in Readers, NEW d \in {0, 1},
         Stopped(r)' \subseteq Stopped(r),
         d = 1 => \E f \in Stopped(r) : f \notin Stopped(r)',
         Attempts(r)' <= Attempts(r) + d
  PROVE  IsFiniteSet(Stopped(r)') /\ Attempts(r)' + Cardinality(Stopped(r)') <= cancels
<1> DEFINE old == Stopped(r)
           new == Stopped(r)'
<1>1. IsFiniteSet(old) /\ Attempts(r) + Cardinality(old) <= cancels /\ cancels \in Nat
  BY CacheAssumption DEF Counted
<1>2. Attempts(r) \in Nat /\ Attempts(r)' \in Nat
  <2>1. Attempts(r) \in Nat
    BY ReadIs, CacheAssumption DEF Attempts, Reading
  <2>2. Underway(r)' => read'[r] \in Reading
    BY DEF TypeOK, Underway, Answered, Idle
  <2>3. Attempts(r)' \in Nat
    BY <2>2, CacheAssumption DEF Attempts, Reading
  <2> QED
    BY <2>1, <2>3
<1>3. new \subseteq old /\ (d = 1 => \E f \in old : f \notin new)
  OBVIOUS
<1> HIDE DEF old, new
<1>4. IsFiniteSet(new) /\ Cardinality(new) \in Nat /\ Cardinality(old) \in Nat
      /\ Cardinality(new) + d <= Cardinality(old)
  <2>1. CASE d = 0
    BY <1>1, <1>3, <2>1, FS_Subset, FS_CardinalityType
  <2>2. CASE d = 1
    <3>1. PICK f \in old : f \notin new
      BY <1>3, <2>2
    <3>2. IsFiniteSet(old \ {f}) /\ Cardinality(old \ {f}) = Cardinality(old) - 1
      BY <1>1, <3>1, FS_RemoveElement
    <3>3. new \in SUBSET (old \ {f})
      BY <1>3, <3>1
    <3>4. IsFiniteSet(new) /\ Cardinality(new) <= Cardinality(old \ {f})
      BY <3>2, <3>3, FS_Subset
    <3> QED
      BY <1>1, <2>2, <3>2, <3>4, FS_CardinalityType
  <2> QED
    BY <2>1, <2>2
<1>5. Attempts(r)' + Cardinality(new) <= cancels
  BY <1>1, <1>2, <1>4
<1> QED
  BY <1>4, <1>5 DEF new

LEMMA CountStays ==
  ASSUME TypeOK, TypeOK', Counted, UNCHANGED cancels,
         \A r \in Readers : Stopped(r)' \subseteq Stopped(r) /\ Attempts(r)' <= Attempts(r)
  PROVE  Counted'
<1>1. ASSUME NEW r \in Readers
      PROVE  IsFiniteSet(Stopped(r)') /\ Attempts(r)' + Cardinality(Stopped(r)') <= cancels
  <2>1. Attempts(r)' \in Nat /\ Attempts(r) \in Nat
    <3>1. Underway(r)' => read'[r] \in Reading
      BY DEF TypeOK, Underway, Answered, Idle
    <3> QED
      BY <3>1, ReadIs, CacheAssumption DEF Attempts, Reading
  <2>2. Attempts(r)' <= Attempts(r) + 0
    BY <2>1
  <2> QED
    BY <2>2, CountLess
<1> QED
  BY <1>1 DEF Counted

(* A step that leaves the flights alone, and one read, or every read.       *)
LEMMA AttemptsType == ASSUME TypeOK, NEW r \in Readers PROVE Attempts(r) \in Nat
BY ReadIs, CacheAssumption DEF Attempts, Reading

LEMMA CountLeaves ==
  ASSUME TypeOK, TypeOK', Counted, NEW r \in Readers, \A s \in Readers : s # r => read'[s] = read[s],
         UNCHANGED cancels, \A f \in Flights : flight'[f].at = flight[f].at,
         read'[r].at # "fetched", read'[r].at # "wait", Attempts(r)' <= Attempts(r)
  PROVE  Counted'
<1>1. ASSUME NEW s \in Readers PROVE Stopped(s)' \subseteq Stopped(s) /\ Attempts(s)' <= Attempts(s)
  <2>1. Stopped(s)' \subseteq Stopped(s)
    BY DEF Stopped
  <2>2. Attempts(s)' <= Attempts(s)
    <3>1. CASE s = r
      BY <3>1
    <3>2. CASE s # r
      <4>1. Attempts(s)' = Attempts(s)
        BY <3>2 DEF Attempts, Underway
      <4> QED
        BY <4>1, AttemptsType
    <3> QED
      BY <3>1, <3>2
  <2> QED
    BY <2>1, <2>2
<1> QED
  BY <1>1, CountStays

LEMMA ReadsCount ==
  ASSUME Kept, Kept', Counted, ~Unlimited, NEW r \in Readers,
         Work(r) \/ GiveUp(r) \/ \E k \in CacheKeys : Begin(r, k)
  PROVE  Counted'
<1>1. /\ TypeOK /\ TypeOK' /\ Flown /\ read \in [Readers -> Reading \cup Answered \cup {Idle}]
      /\ cancels \in 0 .. MaxCancels /\ MaxCancels \in Nat
  BY CacheAssumption DEF Kept, TypeOK, Counted
<1>2. Attempts(r) \in Nat /\ (Underway(r) => read[r] \in Reading)
  BY <1>1, AttemptsType, ReadIs
<1>3. ASSUME read'[r].at \in {"done", "idle"}, \A s \in Readers : s # r => read'[s] = read[s],
             UNCHANGED <<flight, cancels>>
      PROVE  Counted'
  <2>1. Attempts(r)' = 0
    BY <1>3 DEF Attempts, Underway
  <2> QED
    BY <1>1, <1>2, <1>3, <2>1, CountLeaves
<1>4. ASSUME NEW k \in CacheKeys, Begin(r, k) PROVE Counted'
  <2>1. /\ read' = [read EXCEPT ![r] = [key |-> k, at |-> "look", on |-> NoFlight, attempt |-> 0,
                                        floor |-> floor[KeyOf[k]]]]
        /\ UNCHANGED <<flight, cancels>>
    BY <1>4 DEF Begin
  <2>2. read'[r].at = "look" /\ read'[r].attempt = 0 /\ \A s \in Readers : s # r => read'[s] = read[s]
    BY <1>1, <2>1
  <2>3. Attempts(r)' = 0
    BY <2>2 DEF Attempts
  <2> QED
    BY <1>1, <1>2, <2>1, <2>2, <2>3, CountLeaves
<1>5. CASE Hit(r)
  <2>1. UNCHANGED <<flight, cancels>> /\ \E v : Answer(r, v)
    BY <1>5 DEF Hit
  <2> QED
    BY <1>1, <1>3, <2>1 DEF Answer
<1>6. CASE Land(r)
  <2>1. UNCHANGED <<flight, cancels>> /\ (ReturnError(r) \/ \E v : Answer(r, v))
    BY <1>6 DEF Land
  <2> QED
    BY <1>1, <1>3, <2>1 DEF Answer, ReturnError, Idle
<1>7. CASE GiveUp(r)
  <2>1. UNCHANGED <<flight, cancels>> /\ ReturnError(r)
    BY <1>7 DEF GiveUp
  <2> QED
    BY <1>1, <1>3, <2>1 DEF ReturnError, Idle
<1>8. CASE Join(r)
  <2>1. /\ read[r].at = "look" /\ flights[read[r].key] # NoFlight /\ UNCHANGED <<flight, cancels>>
        /\ read' = [read EXCEPT ![r].at = "wait", ![r].on = flights[read[r].key]]
    BY <1>8 DEF Join, Misses, MayJoin
  <2>2. Underway(r) /\ read[r] \in Reading
    BY <1>2, <2>1 DEF Underway
  <2>3. /\ read'[r].at = "wait" /\ read'[r].on = flights[read[r].key] /\ read'[r].attempt = read[r].attempt
        /\ \A s \in Readers : s # r => read'[s] = read[s]
    BY <1>1, <2>1, <2>2 DEF Reading
  <2>4. PICK t \in Readers : Flying(t) /\ read[t].on = flights[read[r].key]
    BY <1>1, <2>1, <2>2 DEF Flown, Mapped, Reading
  <2>5. ASSUME NEW s \in Readers PROVE Stopped(s)' \subseteq Stopped(s) /\ Attempts(s)' <= Attempts(s)
    <3>1. Attempts(s)' = Attempts(s)
      BY <2>2, <2>3 DEF Attempts, Underway
    <3>2. ASSUME NEW f \in Stopped(s)' PROVE f \in Stopped(s)
      <4>1. f \in Flights /\ flight[f].at = "cancelled"
        BY <2>1 DEF Stopped
      <4>2. CASE s = r /\ f = read'[r].on
        <5>1. read[t].at = "fetched" /\ read[t].on = f
          BY <1>1, <2>3, <2>4, <4>1, <4>2 DEF Flown, Started, Flying
        <5> QED
          BY <4>1, <5>1 DEF Stopped
      <4>3. CASE ~(s = r /\ f = read'[r].on)
        BY <2>3, <4>1, <4>3 DEF Stopped
      <4> QED
        BY <4>2, <4>3
    <3> QED
      BY <1>1, <3>1, <3>2, AttemptsType
  <2> QED
    BY <1>1, <2>1, <2>5, CountStays
<1>9. CASE Fly(r)
  <2>1. PICK f \in Flights :
          /\ \A s \in Readers : read[s].at \in OnFlight => read[s].on # f
          /\ flight' = [flight EXCEPT ![f] = NewFlight]
          /\ read' = [read EXCEPT ![r].at = "fetch", ![r].on = f]
    BY <1>9 DEF Fly
  <2>2. read[r].at = "look" /\ UNCHANGED cancels
    BY <1>9 DEF Fly, Misses
  <2>3. Underway(r) /\ read[r] \in Reading
    BY <1>2, <2>2 DEF Underway
  <2>4. /\ read'[r].at = "fetch" /\ read'[r].attempt = read[r].attempt
        /\ \A s \in Readers : s # r => read'[s] = read[s]
    BY <1>1, <2>1, <2>3 DEF Reading
  <2>5. flight'[f].at = "reading" /\ \A g \in Flights : g # f => flight'[g] = flight[g]
    BY <1>1, <2>1 DEF TypeOK, NewFlight
  <2>6. ASSUME NEW s \in Readers PROVE Stopped(s)' \subseteq Stopped(s) /\ Attempts(s)' <= Attempts(s)
    <3>1. Attempts(s)' = Attempts(s)
      BY <2>3, <2>4 DEF Attempts, Underway
    <3>2. Stopped(s)' \subseteq Stopped(s)
      BY <2>4, <2>5 DEF Stopped
    <3> QED
      BY <1>1, <3>1, <3>2, AttemptsType
  <2> QED
    BY <1>1, <2>2, <2>6, CountStays
<1>10. CASE Fetch(r)
  <2> DEFINE f == read[r].on
  <2>1. /\ read[r].at = "fetch" /\ read' = [read EXCEPT ![r].at = "fetched"]
        /\ \/ \E v : flight' = [flight EXCEPT ![f].at = "ok", ![f].value = v] /\ UNCHANGED cancels
           \/ flight' = [flight EXCEPT ![f].at = "failed"] /\ UNCHANGED cancels
           \/ /\ cancels < MaxCancels /\ cancels' = cancels + 1
              /\ flight' = [flight EXCEPT ![f].at = "cancelled"]
    BY <1>10 DEF Fetch
  <2>2. Underway(r) /\ read[r] \in Reading /\ f \in Flights
    BY <1>1, <1>2, <2>1 DEF Underway, Flown, Placed, OnFlight
  <2>3. /\ read'[r].at = "fetched" /\ read'[r].on = f /\ read'[r].attempt = read[r].attempt
        /\ \A s \in Readers : s # r => read'[s] = read[s]
    BY <1>1, <2>1, <2>2 DEF Reading
  <2> HIDE DEF f
  <2>4. /\ \A g \in Flights : g # f => flight'[g] = flight[g]
        /\ \/ flight'[f].at # "cancelled" /\ UNCHANGED cancels
           \/ cancels < MaxCancels /\ cancels' = cancels + 1
    <3>1. flight \in [Flights -> [at : {"reading", "ok", "cancelled", "failed"},
                                  value : Versions, stale : BOOLEAN]]
      BY <1>1 DEF TypeOK
    <3> QED
      BY <2>1, <2>2, <3>1
  <2>5. ASSUME NEW s \in Readers PROVE Attempts(s)' = Attempts(s) /\ Attempts(s) \in Nat
    BY <1>1, <2>1, <2>2, <2>3, AttemptsType DEF Attempts, Underway
  <2>6. ASSUME NEW s \in Readers
        PROVE  /\ Stopped(s)' \subseteq Stopped(s) \cup {f}
               /\ flight'[f].at # "cancelled" => Stopped(s)' \subseteq Stopped(s)
    BY <2>1, <2>3, <2>4 DEF Stopped
  <2>7. CASE flight'[f].at # "cancelled" /\ UNCHANGED cancels
    <3>1. \A s \in Readers : Stopped(s)' \subseteq Stopped(s) /\ Attempts(s)' <= Attempts(s)
      BY <2>5, <2>6, <2>7
    <3> QED
      BY <1>1, <2>7, <3>1, CountStays
  <2>8. CASE cancels < MaxCancels /\ cancels' = cancels + 1
    <3>1. ASSUME NEW s \in Readers
          PROVE  IsFiniteSet(Stopped(s)') /\ Attempts(s)' + Cardinality(Stopped(s)') <= cancels'
      <4> DEFINE old == Stopped(s)
                 new == Stopped(s)'
      <4>1. IsFiniteSet(old) /\ Attempts(s) + Cardinality(old) <= cancels
        BY DEF Counted
      <4>2. new \subseteq old \cup {f}
        BY <2>6
      <4> HIDE DEF old, new
      <4>3. /\ IsFiniteSet(old \cup {f}) /\ Cardinality(old \cup {f}) <= Cardinality(old) + 1
            /\ Cardinality(old) \in Nat /\ Cardinality(old \cup {f}) \in Nat
        <5>1. /\ IsFiniteSet(old \cup {f})
              /\ Cardinality(old \cup {f}) = IF f \in old THEN Cardinality(old) ELSE Cardinality(old) + 1
          BY <4>1, FS_AddElement
        <5>2. Cardinality(old) \in Nat /\ Cardinality(old \cup {f}) \in Nat
          BY <4>1, <5>1, FS_CardinalityType
        <5> QED
          BY <5>1, <5>2
      <4>4. IsFiniteSet(new) /\ Cardinality(new) <= Cardinality(old \cup {f}) /\ Cardinality(new) \in Nat
        BY <4>2, <4>3, FS_Subset, FS_CardinalityType
      <4>5. Attempts(s)' + Cardinality(new) <= cancels'
        BY <1>1, <2>5, <2>8, <4>1, <4>3, <4>4
      <4> QED
        BY <4>4, <4>5 DEF new
    <3>2. cancels' \in 0 .. MaxCancels
      BY <1>1, <2>8
    <3> QED
      BY <3>1, <3>2 DEF Counted
  <2> QED
    BY <2>4, <2>7, <2>8
<1>11. CASE Wake(r)
  <2> DEFINE f == read[r].on
             m == Min({read[r].attempt + 1, Retries})
  <2>1. read[r].at = "wait" /\ Landed(f) /\ UNCHANGED <<flight, cancels>>
    BY <1>11 DEF Wake
  <2>2. CASE ReturnError(r) \/ \E v : Answer(r, v)
    BY <1>1, <1>3, <2>1, <2>2 DEF Answer, ReturnError, Idle
  <2>3. CASE /\ flight[f].at = "cancelled"
             /\ read' = [read EXCEPT ![r].at = "look", ![r].on = NoFlight, ![r].attempt = Min({@ + 1, Retries})]
    <3>1. Underway(r) /\ read[r] \in Reading /\ f \in Flights
      BY <1>1, <1>2, <2>1 DEF Underway, Flown, Placed, OnFlight
    <3>2. read[r].attempt + 1 \in Int /\ Retries \in Int
      BY <3>1, CacheAssumption DEF Reading
    <3>3. m <= read[r].attempt + 1
      BY <3>2, MinIs
    <3>4. /\ read'[r].at = "look" /\ read'[r].attempt = m
          /\ \A s \in Readers : s # r => read'[s] = read[s]
      BY <1>1, <2>3, <3>1 DEF Reading
    <3> HIDE DEF m
    <3>5. ASSUME NEW s \in Readers, s # r
          PROVE  IsFiniteSet(Stopped(s)') /\ Attempts(s)' + Cardinality(Stopped(s)') <= cancels
      <4>1. Stopped(s)' \subseteq Stopped(s)
        BY <2>1, <3>4, <3>5 DEF Stopped
      <4>2. Attempts(s)' = Attempts(s) /\ Attempts(s) \in Nat
        BY <1>1, <3>4, <3>5, AttemptsType DEF Attempts, Underway
      <4>3. Attempts(s)' <= Attempts(s) + 0
        BY <4>2
      <4> QED
        BY <1>1, <4>1, <4>3, CountLess
    <3>6. IsFiniteSet(Stopped(r)') /\ Attempts(r)' + Cardinality(Stopped(r)') <= cancels
      <4>1. Stopped(r)' \subseteq Stopped(r)
        BY <2>1, <3>4 DEF Stopped
      <4>2. f \in Stopped(r) /\ f \notin Stopped(r)'
        BY <2>1, <2>3, <3>1, <3>4 DEF Stopped, Landed
      <4>3. Attempts(r)' <= Attempts(r) + 1
        BY <3>1, <3>3, <3>4 DEF Attempts, Underway
      <4>4. \E g \in Stopped(r) : g \notin Stopped(r)'
        BY <4>2
      <4> QED
        BY <1>1, <4>1, <4>3, <4>4, CountLess
    <3> QED
      BY <1>1, <2>1, <3>5, <3>6 DEF Counted
  <2> QED
    BY <1>11, <2>2, <2>3 DEF Wake
<1> QED
  BY <1>4, <1>5, <1>6, <1>7, <1>8, <1>9, <1>10, <1>11 DEF Work

LEMMA InitCounted == Init => Counted
<1> SUFFICES ASSUME Init PROVE Counted
  OBVIOUS
<1>1. cancels = 0 /\ MaxCancels \in Nat
  BY CacheAssumption DEF Init
<1>2. ASSUME NEW r \in Readers
      PROVE  IsFiniteSet(Stopped(r)) /\ Attempts(r) + Cardinality(Stopped(r)) <= cancels
  <2>1. Stopped(r) = {}
    BY DEF Init, Stopped, NewFlight
  <2>2. Attempts(r) = 0
    BY DEF Init, Attempts, Underway, Idle
  <2> QED
    BY <1>1, <2>1, <2>2, FS_EmptySet
<1> QED
  BY <1>1, <1>2 DEF Counted

LEMMA NextCounts == ~Unlimited /\ Kept /\ Counted /\ [Next]_vars => Counted'
<1> SUFFICES ASSUME ~Unlimited, Kept, Counted, [Next]_vars PROVE Counted'
  OBVIOUS
<1>1. Kept' /\ TypeOK /\ TypeOK'
  BY NextKeeps DEF Kept
<1>2. ASSUME NEW r \in Readers, Work(r) \/ GiveUp(r) \/ \E k \in CacheKeys : Begin(r, k)
      PROVE  Counted'
  BY <1>1, <1>2, ReadsCount
<1>3. ASSUME UNCHANGED <<read, cancels>>, \A f \in Flights : flight'[f].at = flight[f].at PROVE Counted'
  <2>1. \A r \in Readers : Stopped(r)' \subseteq Stopped(r)
    BY <1>3 DEF Stopped
  <2>2. ASSUME NEW r \in Readers PROVE Attempts(r)' <= Attempts(r)
    BY <1>1, <1>3, AttemptsType DEF Attempts, Underway
  <2> QED
    BY <1>1, <1>3, <2>1, <2>2, CountStays
<1>4. ASSUME NEW gone \in SUBSET CacheKeys, Forget(gone) PROVE \A f \in Flights : flight'[f].at = flight[f].at
  <2>1. ASSUME NEW f \in Flights PROVE flight'[f].at = flight[f].at
    <3>1. flight[f] \in [at : {"reading", "ok", "cancelled", "failed"}, value : Versions, stale : BOOLEAN]
      BY <1>1 DEF TypeOK
    <3>2. flight'[f] = [flight[f] EXCEPT !.stale = TRUE] \/ flight'[f] = flight[f]
      BY <1>4 DEF Forget
    <3> QED
      BY <3>1, <3>2
  <2> QED
    BY <2>1
<1>5. ASSUME NEW w \in Writers,
             WriteStore(w) \/ WriteFails(w) \/ EndWrite(w) \/ \E x \in Keys : BeginWrite(w, x)
      PROVE  Counted'
  <2>1. UNCHANGED <<read, cancels>>
    BY <1>5 DEF WriteStore, WriteFails, EndWrite, BeginWrite
  <2>2. UNCHANGED flight \/ \E gone \in SUBSET CacheKeys : Forget(gone)
    BY <1>5 DEF WriteStore, WriteFails, EndWrite, BeginWrite, RangesOf
  <2> QED
    BY <1>3, <1>4, <2>1, <2>2
<1>6. CASE Purge \/ \E x \in Keys : WriteOutside(x)
  <2>1. UNCHANGED <<read, cancels>> /\ (UNCHANGED flight \/ Forget(CacheKeys))
    BY <1>6 DEF Purge, WriteOutside
  <2> QED
    BY <1>3, <1>4, <2>1
<1>7. CASE UNCHANGED vars
  BY <1>3, <1>7 DEF vars
<1> QED
  BY <1>2, <1>5, <1>6, <1>7 DEF Next
-----------------------------------------------------------------------------
(* A read that finds the flight it waited for stopped looks again, Retries  *)
(* times at most (cache.go's three): with fewer reads of the store stopped  *)
(* than that, none is left to read the store beside another.  With as many, *)
(* one is: the run CachedOvertaken.                                         *)
THEOREM FewCancelsJoin ==
  ~Unlimited /\ MaxCancels < Retries => (Spec => []JoinsInTime)
<1> SUFFICES ASSUME ~Unlimited, MaxCancels < Retries PROVE Spec => []JoinsInTime
  OBVIOUS
<1>1. Init => Kept /\ Counted
  BY InitKept, InitCounted
<1>2. Kept /\ Counted /\ [Next]_vars => (Kept /\ Counted)'
  BY NextKeeps, NextCounts
<1>3. Kept /\ Counted => JoinsInTime
  <2> SUFFICES ASSUME Kept, Counted, NEW r \in Readers, read[r].at = "look"
               PROVE  read[r].attempt < Retries
    BY DEF JoinsInTime
  <2>1. read[r].attempt \in Nat /\ Retries \in Nat /\ MaxCancels \in Nat /\ Underway(r)
    BY ReadIs, CacheAssumption DEF Kept, Underway, Reading
  <2>2. Cardinality(Stopped(r)) \in Nat /\ Attempts(r) + Cardinality(Stopped(r)) <= cancels
        /\ cancels \in 0 .. MaxCancels
    BY FS_CardinalityType DEF Counted
  <2>3. Attempts(r) = read[r].attempt
    BY <2>1 DEF Attempts
  <2> QED
    BY <2>1, <2>2, <2>3
<1> QED
  BY <1>1, <1>2, <1>3, PTL DEF Spec

(* After a Set or Delete through the cache returned, or a Purge, the cache  *)
(* keeps nothing older, also when a read of the store that began before it  *)
(* ends after it: put keeps no value of a flight that forget made stale.    *)
THEOREM KeptStaysCurrent == Spec /\ []JoinsInTime => []KeptIsCurrent
<1>1. IInv => KeptIsCurrent
  BY DEF IInv, Current
<1> QED
  BY <1>1, IInvAlways, PTL

(* And a Get that begins after a write returned answers with that write's   *)
(* value or a later one, wherever it takes its answer from: the list, its   *)
(* own read of the store, or another's that it joined.                      *)
THEOREM ReadersSeeWrites == Spec /\ []JoinsInTime => []ReadsSeeWrites
<1>1. IInv => ReadsSeeWrites
  BY DEF IInv, Seen
<1> QED
  BY <1>1, IInvAlways, PTL

(* Of two goroutines that read the store of one key at once, at least one   *)
(* is disowned: it began before a write that forgot the key.                *)
THEOREM StoreReadOnce == Spec /\ []JoinsInTime => []OneReadOfTheStore
<1>1. IInv => OneReadOfTheStore
  BY DEF IInv, Kept, Flown, OneEach, Current, Fresh, Flying, OneReadOfTheStore
<1> QED
  BY <1>1, IInvAlways, PTL
=============================================================================
