---------------------------- MODULE StoresProofs ----------------------------
(***************************************************************************)
(* Stores for any stores, values put and ranges asked for, and for any      *)
(* hierarchy of nodes, calls of it and callers.                             *)
(***************************************************************************)
EXTENDS Stores, SequenceTheorems, FiniteSetTheorems, WellFoundedInduction, TLAPS

(* A part of a value, and a part of that.                                   *)
LEMMA PartIs ==
  ASSUME NEW v \in Values, NEW from \in Nat, NEW n \in Nat, from + n <= Len(v)
  PROVE  /\ SubSeq(v, from + 1, from + n) \in Values
         /\ Len(SubSeq(v, from + 1, from + n)) = n
         /\ \A i \in 1 .. n : SubSeq(v, from + 1, from + n)[i] = v[from + i]
<1> DEFINE a == from + 1
           b == from + n
           s == SubSeq(v, a, b)
<1>1. a \in Int /\ b \in Int /\ (b - a) + 1 = n
  OBVIOUS
<1>2. \A i \in a .. b : v[i] \in Nat \X Nat
  <2>1. \A i \in a .. b : i \in 1 .. Len(v)
    BY DEF Values
  <2> QED
    BY <2>1 DEF Values
<1> HIDE DEF a, b
<1>3. /\ s \in Seq(Nat \X Nat) /\ Len(s) = IF a <= b THEN b - a + 1 ELSE 0
      /\ \A i \in 1 .. b - a + 1 : s[i] = v[a + i - 1]
  BY <1>1, <1>2, SubSeqProperties
<1>4. Len(s) = n
  BY <1>1, <1>3
<1>5. ASSUME NEW i \in 1 .. n PROVE s[i] = v[from + i]
  <2>1. i \in 1 .. b - a + 1 /\ a + i - 1 = from + i
    BY <1>1 DEF a
  <2> QED
    BY <1>3, <2>1
<1> QED
  BY <1>3, <1>4, <1>5 DEF Values, a, b

LEMMA PartOfPart ==
  ASSUME NEW v \in Values, NEW from \in Nat, NEW n \in Nat, from + n <= Len(v), NEW m \in 0 .. n
  PROVE  SubSeq(SubSeq(v, from + 1, from + n), 1, m) = SubSeq(v, from + 1, from + m)
<1> DEFINE s == SubSeq(v, from + 1, from + n)
           t == SubSeq(v, from + 1, from + m)
           u == SubSeq(s, 0 + 1, 0 + m)
<1>1. s \in Values /\ Len(s) = n /\ \A i \in 1 .. n : s[i] = v[from + i]
  BY PartIs
<1>2. from + m <= Len(v) /\ m \in Nat
  BY DEF Values
<1>3. t \in Values /\ Len(t) = m /\ \A i \in 1 .. m : t[i] = v[from + i]
  BY <1>2, PartIs
<1> HIDE DEF s, t
<1>4. u \in Values /\ Len(u) = m /\ \A i \in 1 .. m : u[i] = s[0 + i]
  <2>1. 0 \in Nat /\ 0 + m <= Len(s) /\ s \in Values /\ m \in Nat
    BY <1>1, <1>2
  <2> QED
    BY <2>1, PartIs
<1> HIDE DEF u
<1>5. ASSUME NEW i \in 1 .. m PROVE u[i] = t[i]
  <2>1. 0 + i = i /\ i \in 1 .. n
    BY <1>2
  <2> QED
    BY <1>1, <1>3, <1>4, <2>1
<1>6. u = t
  BY <1>3, <1>4, <1>5, SeqEqual DEF Values
<1> QED
  <2>1. 0 + 1 = 1 /\ 0 + m = m
    BY <1>2
  <2> QED
    BY <1>6, <2>1 DEF s, t, u
-----------------------------------------------------------------------------
(* What there is to know of what is put, asked for and kept.                *)
IsRange(ask) == ask \in [whole : {FALSE}, offset : Int, length : Int]

LEMMA Lengths == \A v \in Values : Len(v) \in Nat
BY DEF Values

LEMMA RangeIs ==
  ASSUME NEW ask, IsRange(ask)
  PROVE  ask.offset \in Int /\ ask.length \in Int /\ ~ask.whole
BY DEF IsRange

LEMMA PutIs ==
  ASSUME NEW s \in Setups, NEW v \in PutOf(s)
  PROVE  /\ v \in Values /\ v \in PutValues /\ v # None
         /\ \E n \in DOMAIN s.puts : s.puts[n] # Removed /\ Len(v) = s.puts[n]
<1>1. PICK n \in DOMAIN s.puts : s.puts[n] # Removed /\ v = ValueOf(n, s.puts[n])
  BY DEF PutOf
<1>2. s.puts \in Seq(Nat \cup {Removed})
  BY ObjectsAssumption
<1> DEFINE size == s.puts[n]
<1>3. n \in Nat /\ size \in Nat
  BY <1>1, <1>2
<1> HIDE DEF size
<1>4. v \in [1 .. size -> Nat \X Nat]
  BY <1>1, <1>3 DEF ValueOf, size
<1>5. v \in Values /\ Len(v) = size
  BY <1>3, <1>4 DEF Values
<1>6. v \in PutValues
  BY DEF PutValues
<1>7. v # None
  BY <1>5, NoneAssumption
<1> QED
  BY <1>1, <1>5, <1>6, <1>7 DEF size

LEMMA AskedIs ==
  ASSUME NEW kind, NEW ask \in Asked(kind)
  PROVE  /\ ask.whole => ask = WholeAsk
         /\ ~ask.whole => /\ ask \in Ranges /\ IsRange(ask)
                          /\ kind # "http" => ask.offset + ask.length <= MaxInt
<1>1. WholeAsk.whole
  BY DEF WholeAsk
<1>2. ASSUME NEW r \in Ranges PROVE IsRange(r) /\ ~r.whole
  BY ObjectsAssumption DEF IsRange
<1>3. ask = WholeAsk \/ (ask \in Ranges /\ (kind # "http" => ask.offset + ask.length <= MaxInt))
  BY DEF Asked
<1> QED
  BY <1>1, <1>2, <1>3

LEMMA Fit ==
  ASSUME RangesFit, NEW s \in Setups, NEW v \in PutOf(s), NEW ask \in Ranges
  PROVE  /\ s.kind \in {"memory", "dir"} => ask.length + Len(v) <= MaxInt
         /\ s.kind \in {"s3", "gcs", "azblob"} =>
              s.server = "ranges" \/ (s.server = "ignores" /\ Len(v) \notin 0 .. Want(ask))
<1>1. PICK n \in DOMAIN s.puts : Len(v) = s.puts[n]
  BY PutIs
<1> QED
  BY <1>1 DEF RangesFit
-----------------------------------------------------------------------------
(* Each reason that there is for an answer.                                 *)
LEMMA MayAnswer ==
  ASSUME NEW values, NEW s, NEW ask
  PROVE  LET given == Answers(values, AskOf(s, ask)) IN
         /\ \A v \in values : v # None /\ ask.whole => Bytes(v) \in given
         /\ \A v \in values : v # None /\ ~ask.whole /\ Inside(v, ask) => Bytes(Cut(v, ask)) \in given
         /\ None \in values => Refused("notfound") \in given
         /\ Never(ask) \/ s.server # "ranges" \/ (\E v \in values : v # None /\ ~Inside(v, ask))
              => Refused("outside") \in given
         /\ s.cap > 0 => Refused("toolarge") \in given
         /\ s.server # "ranges" \/ (s.kind = "azblob" /\ \E v, w \in values : v # w)
              => Refused("error") \in given
<1> DEFINE q == AskOf(s, ask)
           there == values \ {None}
           right == {Bytes(IF q.ask.whole THEN v ELSE Cut(v, q.ask)) : v \in {w \in there : Inside(w, q.ask)}}
           notFound == IF None \in values THEN {} ELSE {"notfound"}
           outside == IF Never(q.ask) \/ q.server # "ranges" \/ \E v \in there : ~Inside(v, q.ask)
                      THEN {} ELSE {"outside"}
           tooLarge == IF q.cap > 0 THEN {} ELSE {"toolarge"}
           error == IF q.server # "ranges" \/ (q.kind = "azblob" /\ \E v, w \in values : v # w)
                    THEN {} ELSE {"error"}
           why == {"notfound", "outside", "toolarge", "error"} \ (notFound \cup outside \cup tooLarge \cup error)
           given == Answers(values, q)
<1>1. q.ask = ask /\ q.kind = s.kind /\ q.server = s.server /\ q.cap = s.cap
  BY DEF AskOf
<1>2. given = right \cup {Refused(w) : w \in why}
  BY DEF Answers
<1> HIDE DEF q, given
<1>3. ASSUME NEW v \in values, v # None, Inside(v, ask)
      PROVE  Bytes(IF ask.whole THEN v ELSE Cut(v, ask)) \in given
  <2>1. v \in {w \in there : Inside(w, q.ask)}
    BY <1>1, <1>3
  <2>2. Bytes(IF q.ask.whole THEN v ELSE Cut(v, q.ask)) \in right
    BY <2>1
  <2> QED
    BY <1>1, <1>2, <2>2
<1>4. \A v \in values : v # None /\ ask.whole => Bytes(v) \in given
  BY <1>3 DEF Inside
<1>5. \A v \in values : v # None /\ ~ask.whole /\ Inside(v, ask) => Bytes(Cut(v, ask)) \in given
  BY <1>3
<1>6. ASSUME NEW w \in why PROVE Refused(w) \in given
  BY <1>2, <1>6
<1>7. None \in values => Refused("notfound") \in given
  <2> SUFFICES ASSUME None \in values PROVE "notfound" \in why
    BY <1>6
  <2> QED
    OBVIOUS
<1>8. Never(ask) \/ s.server # "ranges" \/ (\E v \in values : v # None /\ ~Inside(v, ask))
        => Refused("outside") \in given
  <2> SUFFICES ASSUME Never(ask) \/ s.server # "ranges" \/ (\E v \in values : v # None /\ ~Inside(v, ask))
               PROVE  "outside" \in why
    BY <1>6
  <2>1. outside = {}
    BY <1>1
  <2> QED
    BY <2>1
<1>9. s.cap > 0 => Refused("toolarge") \in given
  <2> SUFFICES ASSUME s.cap > 0 PROVE "toolarge" \in why
    BY <1>6
  <2>1. tooLarge = {}
    BY <1>1
  <2> QED
    BY <2>1
<1>10. s.server # "ranges" \/ (s.kind = "azblob" /\ \E v, w \in values : v # w)
         => Refused("error") \in given
  <2> SUFFICES ASSUME s.server # "ranges" \/ (s.kind = "azblob" /\ \E v, w \in values : v # w)
               PROVE  "error" \in why
    BY <1>6
  <2>1. error = {}
    BY <1>1
  <2> QED
    BY <2>1
<1> QED
  BY <1>4, <1>5, <1>7, <1>8, <1>9, <1>10 DEF given, q

(* What is read of a value from where the range begins is the range.        *)
LEMMA BodyIsCut ==
  ASSUME NEW v \in Values, NEW ask, IsRange(ask), NEW want \in Nat, ask.length \in 0 .. want,
         NEW first \in Nat, first + want <= Len(v), first = Start(Len(v), ask)
  PROVE  /\ Inside(v, ask)
         /\ Len(SubSeq(v, first + 1, first + want)) = want
         /\ SubSeq(SubSeq(v, first + 1, first + want), 1, ask.length) = Cut(v, ask)
<1>1. Len(v) \in Nat /\ ask.length \in Nat /\ ~ask.whole
  BY Lengths, RangeIs
<1>2. Inside(v, ask)
  BY <1>1 DEF Inside
<1>3. Cut(v, ask) = SubSeq(v, first + 1, first + ask.length)
  BY DEF Cut
<1> QED
  BY <1>2, <1>3, PartIs, PartOfPart

(* A server that answers ranges gives the one asked for, if it is within.   *)
LEMMA HonestIs ==
  ASSUME NEW v \in Values, NEW ask, IsRange(ask), ~BackwardsShort(ask),
         NEW want \in Nat \ {0}, want = Want(ask)
  PROVE  LET a == Honest(v, ask, want) IN
         \/ a.status = 416 /\ ~Inside(v, ask)
         \/ /\ a.status = 206 /\ a.size = Len(v)
            /\ a.first \in Nat /\ a.last \in Nat /\ Len(a.body) = a.last - a.first + 1
            /\ a.last - a.first + 1 # want => ~Inside(v, ask)
            /\ a.last - a.first + 1 = want =>
                 /\ Inside(v, ask) /\ a.first = Start(Len(v), ask)
                 /\ SubSeq(a.body, 1, ask.length) = Cut(v, ask)
                 /\ ask.offset < 0 => a.last = Len(v) - 1
<1> DEFINE size == Len(v)
           first == IF ask.offset < 0 THEN (IF want > size THEN 0 ELSE size - want) ELSE ask.offset
           last == IF first + want > size THEN size - 1 ELSE first + want - 1
           body == SubSeq(v, first + 1, last + 1)
           a == Honest(v, ask, want)
<1>1. size \in Nat /\ ask.offset \in Int /\ ask.length \in Int /\ ~ask.whole
  BY Lengths, RangeIs
<1>2. /\ want = IF ask.offset < 0 THEN 0 - ask.offset ELSE ask.length
      /\ 0 <= ask.length /\ ask.length <= want
  BY <1>1 DEF Want, BackwardsShort
<1>3. a = IF first >= size THEN [status |-> 416] ELSE Part206(v, first, last, size, body)
  BY DEF Honest
<1>4. Inside(v, ask) <=> Start(size, ask) \in 0 .. size - ask.length
  BY <1>1, <1>2 DEF Inside
<1>5. Start(size, ask) = IF ask.offset < 0 THEN ask.offset + size ELSE ask.offset
  BY DEF Start
<1> HIDE DEF size, a
<1>6. first \in Nat
  BY <1>1, <1>2
<1>7. CASE first >= size
  <2>1. ~Inside(v, ask)
    BY <1>1, <1>2, <1>4, <1>5, <1>7
  <2>2. a.status = 416
    BY <1>3, <1>7
  <2> QED
    BY <2>1, <2>2 DEF a
<1>8. CASE first < size
  <2>1. /\ a.status = 206 /\ a.size = size /\ a.first = first /\ a.last = last /\ a.body = body
    <3>1. ~(first >= size)
      BY <1>1, <1>6, <1>8
    <3> HIDE DEF first, last, body
    <3> QED
      BY <1>3, <3>1 DEF Part206
  <2>2. last \in Nat /\ first <= last /\ last < size
    BY <1>1, <1>6, <1>8
  <2> DEFINE n == (last - first) + 1
  <2>3. n \in Nat /\ first + n = last + 1 /\ first + n <= size
    BY <1>1, <1>6, <2>2
  <2>4. n # want => ~Inside(v, ask)
    BY <1>1, <1>2, <1>4, <1>5, <1>6, <1>8
  <2>5. n = want => first = Start(size, ask) /\ (ask.offset < 0 => last = size - 1)
    BY <1>1, <1>2, <1>5, <1>6, <1>8
  <2> HIDE DEF first, last, n
  <2>6. Len(body) = n
    BY <1>6, <2>3, PartIs DEF size
  <2>7. ASSUME n = want PROVE Inside(v, ask) /\ SubSeq(body, 1, ask.length) = Cut(v, ask)
    <3>1. ask.length \in 0 .. want /\ want \in Nat /\ first + want <= Len(v) /\ first = Start(Len(v), ask)
      BY <1>1, <1>2, <2>3, <2>5, <2>7 DEF size
    <3>2. body = SubSeq(v, first + 1, first + want)
      BY <2>3, <2>7
    <3>3. /\ Inside(v, ask)
          /\ SubSeq(SubSeq(v, first + 1, first + want), 1, ask.length) = Cut(v, ask)
      BY <1>6, <3>1, BodyIsCut
    <3> HIDE DEF body
    <3> QED
      BY <3>2, <3>3
  <2> QED
    BY <1>6, <2>1, <2>2, <2>4, <2>5, <2>6, <2>7 DEF a, size, n
<1> QED
  BY <1>1, <1>6, <1>7, <1>8

(* The offset and length of a range that is refused before it is read.      *)
LEMMA BackwardsIsOutside ==
  ASSUME NEW ask, IsRange(ask), BackwardsShort(ask)
  PROVE  Never(ask)
BY RangeIs DEF BackwardsShort, Never

LEMMA EmptyIs ==
  ASSUME NEW v \in Values, NEW ask, IsRange(ask), ask.length = 0, Start(Len(v), ask) \in 0 .. Len(v)
  PROVE  Inside(v, ask) /\ Cut(v, ask) = <<>>
<1>1. Inside(v, ask)
  BY Lengths, RangeIs DEF Inside
<1>2. Start(Len(v), ask) \in Nat
  BY Lengths
<1> DEFINE at == Start(Len(v), ask)
<1>3. Cut(v, ask) = SubSeq(v, at + 1, at + 0)
  BY DEF Cut
<1> HIDE DEF at
<1>4. SubSeq(v, at + 1, at + 0) = <<>>
  BY <1>2, SubSeqEmpty DEF at
<1> QED
  BY <1>1, <1>3, <1>4
-----------------------------------------------------------------------------
(* What one who reads has in hand is a value of the store's, or none, that  *)
(* there was since it began.                                                *)
Seeing(values, v) == v \in values /\ values \subseteq PutOf(setup) \cup {None}
Given(values, ask) == Answers(values, AskOf(setup, ask))

LEMMA WholeGiven ==
  ASSUME NEW values, NEW v, Seeing(values, v), NEW ask, ask.whole
  PROVE  Whole(v) \in Given(values, ask)
BY MayAnswer DEF Whole, Given, Seeing

LEMMA SpanGiven ==
  ASSUME RangesFit, setup \in Setups, setup.kind \in {"memory", "dir"},
         NEW values, NEW v, Seeing(values, v), NEW ask \in Asked(setup.kind), ~ask.whole
  PROVE  FromSpan(v, ask) \in Given(values, ask)
<1>1. ask \in Ranges /\ IsRange(ask) /\ ask.offset + ask.length <= MaxInt
  BY AskedIs
<1>2. CASE v = None
  BY <1>2, MayAnswer DEF FromSpan, Given, Seeing
<1>3. CASE v # None
  <2> DEFINE size == Len(v)
             at == Start(size, ask)
  <2>1. v \in PutOf(setup)
    BY <1>3 DEF Seeing
  <2>2. v \in Values /\ ask.length + size <= MaxInt
    BY <1>1, <2>1, PutIs, Fit
  <2>3. /\ size \in Nat /\ MaxInt \in Nat /\ ask.offset \in Int /\ ask.length \in Int /\ ~ask.whole
    BY <1>1, <2>2, Lengths, RangeIs, ObjectsAssumption
  <2>4. at = IF ask.offset < 0 THEN ask.offset + size ELSE ask.offset
    BY DEF Start
  <2> HIDE DEF size
  <2>5. OutsideSpan(size, ask) <=> at < 0 \/ ask.length < 0 \/ Wrapped(at + ask.length) > size
    BY DEF OutsideSpan
  <2>7. CASE OutsideSpan(size, ask)
    <3>1. ~Inside(v, ask) \/ Never(ask)
      BY <1>1, <2>2, <2>3, <2>4, <2>5, <2>7 DEF Inside, Never, Wrapped, size
    <3>2. Refused("outside") \in Given(values, ask)
      BY <1>3, <3>1, MayAnswer DEF Given, Seeing
    <3> QED
      BY <1>3, <2>7, <3>2 DEF FromSpan, size
  <2>8. CASE ~OutsideSpan(size, ask)
    <3>1. Inside(v, ask)
      BY <1>1, <2>2, <2>3, <2>4, <2>5, <2>8 DEF Inside, Wrapped, size
    <3>2. Bytes(Cut(v, ask)) \in Given(values, ask)
      BY <1>3, <2>3, <3>1, MayAnswer DEF Given, Seeing
    <3> QED
      BY <1>3, <2>8, <3>2 DEF FromSpan, size
  <2> QED
    BY <2>7, <2>8
<1> QED
  BY <1>2, <1>3
-----------------------------------------------------------------------------
(* Over HTTP.                                                               *)
LEMMA EmptyRangeGiven ==
  ASSUME setup \in Setups, NEW values, NEW v, Seeing(values, v),
         NEW ask, IsRange(ask), ask.offset >= 0, ask.length = 0
  PROVE  EmptyRange(v, ask) \in Given(values, ask)
<1>1. CASE v = None
  BY <1>1, MayAnswer DEF EmptyRange, Given, Seeing
<1>2. CASE v # None
  <2>1. v \in Values /\ Len(v) \in Nat /\ ask.offset \in Int /\ ~ask.whole
    BY <1>2, PutIs, Lengths, RangeIs DEF Seeing
  <2>2. Start(Len(v), ask) = ask.offset
    BY <2>1 DEF Start
  <2>3. CASE ask.offset > Len(v)
    <3>1. ~Inside(v, ask)
      BY <2>1, <2>2, <2>3 DEF Inside
    <3>2. Refused("outside") \in Given(values, ask)
      BY <1>2, <3>1, MayAnswer DEF Given, Seeing
    <3> QED
      BY <1>2, <2>3, <3>2 DEF EmptyRange
  <2>4. CASE ~(ask.offset > Len(v))
    <3>1. Inside(v, ask) /\ Cut(v, ask) = <<>>
      BY <2>1, <2>2, <2>4, EmptyIs
    <3>2. Bytes(Cut(v, ask)) \in Given(values, ask)
      BY <1>2, <2>1, <3>1, MayAnswer DEF Given, Seeing
    <3> QED
      BY <1>2, <2>4, <3>1, <3>2 DEF EmptyRange
  <2> QED
    BY <2>3, <2>4
<1> QED
  BY <1>1, <1>2

LEMMA CutRangeGiven ==
  ASSUME setup \in Setups, setup.server # "ranges", NEW values, NEW v, Seeing(values, v), v # None,
         NEW ask, IsRange(ask), ask.length >= 0
  PROVE  CutRange(v, ask) \in Given(values, ask)
<1> DEFINE size == Len(v)
           end == IF ask.offset < 0 THEN size ELSE ask.offset + ask.length
           at == Start(size, ask)
<1>1. /\ v \in Values /\ size \in Nat
      /\ ask.offset \in Int /\ ask.length \in Int /\ ~ask.whole /\ setup.cap \in Nat
  BY PutIs, Lengths, RangeIs, ObjectsAssumption DEF Seeing
<1>2. CutRange(v, ask) =
        IF TooLarge(end) THEN Refused("toolarge")
        ELSE IF at < 0 \/ at + ask.length > size THEN Refused("outside") ELSE Bytes(Cut(v, ask))
  BY DEF CutRange
<1>3. CASE TooLarge(end)
  <2>1. Refused("toolarge") \in Given(values, ask)
    BY <1>3, MayAnswer DEF Given, TooLarge
  <2> QED
    BY <1>2, <1>3, <2>1
<1>4. Refused("outside") \in Given(values, ask)
  BY MayAnswer DEF Given
<1>5. CASE ~(at < 0 \/ at + ask.length > size)
  <2>1. at \in Int
    BY <1>1 DEF Start
  <2>2. Inside(v, ask)
    BY <1>1, <1>5, <2>1 DEF Inside
  <2>3. Bytes(Cut(v, ask)) \in Given(values, ask)
    BY <1>1, <2>2, MayAnswer DEF Given, Seeing
  <2> HIDE DEF at, size, end
  <2> QED
    BY <1>2, <1>3, <1>4, <1>5, <2>3
<1> HIDE DEF at, size, end
<1> QED
  BY <1>2, <1>3, <1>4, <1>5

(* What a 206 says it has, if it says what was asked for.                   *)
LEMMA CheckedGiven ==
  ASSUME setup \in Setups, setup.server # "ranges", NEW values, NEW v, Seeing(values, v), v # None,
         NEW ask, IsRange(ask), ~BackwardsShort(ask),
         NEW want \in Nat \ {0}, want = Want(ask), NEW a \in Other(v)
  PROVE  Checked206(a, ask, want) \in Given(values, ask)
<1>1. /\ v \in Values /\ Len(v) \in Nat
      /\ ask.offset \in Int /\ ask.length \in Int /\ ~ask.whole
  BY PutIs, Lengths, RangeIs DEF Seeing
<1>2. ask.length \in 0 .. want /\ want = IF ask.offset < 0 THEN 0 - ask.offset ELSE ask.length
  BY <1>1 DEF BackwardsShort, Want
<1>3. Refused("outside") \in Given(values, ask) /\ Refused("error") \in Given(values, ask)
  BY MayAnswer DEF Given
<1>4. PICK first \in 0 .. Len(v) - 1, last \in 0 .. Len(v) - 1, size \in {Len(v), Removed}, short \in {0, 1} :
        a = Part206(v, first, last, size, SubSeq(v, first + 1, last + 1 - short))
  BY DEF Other
<1> DEFINE body == SubSeq(v, first + 1, last + 1 - short)
<1>5. a.first = first /\ a.last = last /\ a.size = size /\ a.body = body
  BY <1>4 DEF Part206
<1> HIDE DEF body
<1>6. SUFFICES ASSUME last - first + 1 = want, ask.offset >= 0 => first = ask.offset,
                      ask.offset < 0 => size >= 0 /\ last = size - 1, Len(body) = want
               PROVE  Bytes(SubSeq(body, 1, ask.length)) \in Given(values, ask)
  <2>1. Checked206(a, ask, want) =
          IF last - first + 1 # want THEN Refused("outside")
          ELSE IF \/ (ask.offset >= 0 /\ first # ask.offset)
                  \/ (ask.offset < 0 /\ (size < 0 \/ last # size - 1))
                  \/ Len(body) # want THEN Refused("error")
          ELSE Bytes(SubSeq(body, 1, ask.length))
    BY <1>5 DEF Checked206
  <2>2. size \in Int
    BY <1>1 DEF Removed
  <2> QED
    BY <1>1, <1>3, <2>1, <2>2
<1>7. first \in Nat /\ last + 1 = first + want /\ first + want <= Len(v)
  BY <1>1, <1>6
<1>8. first = Start(Len(v), ask)
  BY <1>1, <1>2, <1>6, <1>7 DEF Start, Removed
<1>9. short = 0
  <2> SUFFICES ASSUME short = 1 PROVE FALSE
    OBVIOUS
  <2>1. want - 1 \in Nat /\ first + (want - 1) <= Len(v) /\ last + 1 - short = first + (want - 1)
    BY <1>1, <1>7
  <2>2. Len(body) = want - 1
    BY <1>1, <1>7, <2>1, PartIs DEF body
  <2> QED
    BY <1>6, <2>2
<1>10. body = SubSeq(v, first + 1, first + want)
  BY <1>7, <1>9 DEF body
<1>11. /\ Inside(v, ask)
       /\ SubSeq(SubSeq(v, first + 1, first + want), 1, ask.length) = Cut(v, ask)
  BY <1>1, <1>2, <1>7, <1>8, BodyIsCut
<1>12. Bytes(Cut(v, ask)) \in Given(values, ask)
  BY <1>1, <1>11, MayAnswer DEF Given, Seeing
<1> QED
  BY <1>10, <1>11, <1>12

(* What a server answers, by what there is and what it is like.             *)
LEMMA ServedIs ==
  ASSUME setup \in Setups, NEW v, NEW ask, NEW want, NEW a \in Served(v, ask, want)
  PROVE  \/ v = None /\ a = [status |-> 404]
         \/ v # None /\ setup.server = "ranges" /\ a = Honest(v, ask, want)
         \/ v # None /\ setup.server = "ignores" /\ a = [status |-> 200, body |-> v]
         \/ v # None /\ setup.server = "others" /\ (a \in Other(v) \/ a = [status |-> 500])
<1>1. setup.server \in {"ranges", "ignores", "others"}
  BY ObjectsAssumption
<1>2. CASE v = None
  BY <1>2 DEF Served
<1>3. CASE v # None /\ setup.server = "ranges"
  BY <1>3 DEF Served
<1>4. CASE v # None /\ setup.server = "ignores"
  BY <1>4 DEF Served
<1>5. CASE v # None /\ setup.server = "others"
  BY <1>5 DEF Served
<1> QED
  BY <1>1, <1>2, <1>3, <1>4, <1>5

LEMMA HTTPServedGiven ==
  ASSUME setup \in Setups, NEW values, NEW v, Seeing(values, v),
         NEW ask, IsRange(ask), ~BackwardsShort(ask), NEW want \in Nat \ {0}, want = Want(ask),
         NEW a \in Served(v, ask, want)
  PROVE  (CASE a.status = 206 -> Checked206(a, ask, want)
            [] a.status = 200 -> CutRange(a.body, ask)
            [] a.status = 416 -> Refused("outside")
            [] OTHER -> Failed(a.status)) \in Given(values, ask)
<1> DEFINE answered == CASE a.status = 206 -> Checked206(a, ask, want)
                         [] a.status = 200 -> CutRange(a.body, ask)
                         [] a.status = 416 -> Refused("outside")
                         [] OTHER -> Failed(a.status)
<1>1. /\ ask.offset \in Int /\ ask.length \in Int /\ ask.length >= 0 /\ ~ask.whole
  BY RangeIs DEF BackwardsShort
<1>2. CASE v = None /\ a = [status |-> 404]
  <2>1. a.status = 404
    BY <1>2
  <2>2. answered = Failed(404)
    BY <2>1
  <2>3. Failed(404) = Refused("notfound")
    BY DEF Failed
  <2> QED
    BY <1>2, <2>2, <2>3, MayAnswer DEF Given, Seeing
<1>3. CASE v # None /\ setup.server = "ranges" /\ a = Honest(v, ask, want)
  <2>1. v \in Values /\ Len(v) \in Nat
    BY <1>3, PutIs, Lengths DEF Seeing
  <2>2. CASE a.status = 416 /\ ~Inside(v, ask)
    <3>1. answered = Refused("outside")
      BY <2>2
    <3> QED
      BY <1>3, <2>2, <3>1, MayAnswer DEF Given, Seeing
  <2>3. CASE a.status = 206 /\ a.last - a.first + 1 # want /\ ~Inside(v, ask)
    <3>1. answered = Refused("outside")
      BY <2>3 DEF Checked206
    <3> QED
      BY <1>3, <2>3, <3>1, MayAnswer DEF Given, Seeing
  <2>4. CASE /\ a.status = 206 /\ a.last - a.first + 1 = want /\ Inside(v, ask)
             /\ Len(a.body) = want /\ a.size = Len(v)
             /\ a.first = Start(Len(v), ask) /\ (ask.offset < 0 => a.last = Len(v) - 1)
             /\ SubSeq(a.body, 1, ask.length) = Cut(v, ask)
    <3>1. ~(ask.offset >= 0 /\ a.first # ask.offset)
      BY <1>1, <2>4 DEF Start
    <3>2. ~(ask.offset < 0 /\ (a.size < 0 \/ a.last # a.size - 1))
      BY <1>1, <2>1, <2>4
    <3>3. answered = Checked206(a, ask, want)
      BY <2>4
    <3>4. Checked206(a, ask, want) = Bytes(Cut(v, ask))
      BY <2>4, <3>1, <3>2 DEF Checked206
    <3> QED
      BY <1>1, <1>3, <2>4, <3>3, <3>4, MayAnswer DEF Given, Seeing
  <2> QED
    BY <1>3, <2>1, <2>2, <2>3, <2>4, HonestIs
<1>4. CASE v # None /\ setup.server = "ignores" /\ a = [status |-> 200, body |-> v]
  <2>1. a.status = 200 /\ a.body = v
    BY <1>4
  <2>2. answered = CutRange(v, ask)
    BY <2>1
  <2> QED
    BY <1>1, <1>4, <2>2, CutRangeGiven
<1>5. CASE v # None /\ setup.server = "others" /\ a \in Other(v)
  <2>1. a.status = 206
    BY <1>5 DEF Other, Part206
  <2>2. answered = Checked206(a, ask, want)
    BY <2>1
  <2> QED
    BY <1>5, <2>2, CheckedGiven
<1>6. CASE v # None /\ setup.server = "others" /\ a = [status |-> 500]
  <2>1. a.status = 500
    BY <1>6
  <2>2. answered = Refused("error")
    BY <2>1 DEF Failed
  <2> QED
    BY <1>6, <2>2, MayAnswer DEF Given
<1> QED
  BY <1>2, <1>3, <1>4, <1>5, <1>6, ServedIs

LEMMA WantIs ==
  ASSUME NEW ask, IsRange(ask), ~BackwardsShort(ask), ~(ask.offset >= 0 /\ ask.length = 0)
  PROVE  Want(ask) \in Nat \ {0} /\ ask.length \in 0 .. Want(ask)
BY RangeIs DEF Want, BackwardsShort

LEMMA HTTPRangeGiven ==
  ASSUME setup \in Setups, NEW values, Seeing(values, stored), NEW ask, IsRange(ask)
  PROVE  HTTPAnswer(ask) \subseteq Given(values, ask)
<1>1. /\ ask.offset \in Int /\ ask.length \in Int /\ ~ask.whole /\ MaxInt \in Nat
  BY RangeIs, ObjectsAssumption
<1>2. CASE BackwardsShort(ask) \/ ask.offset > MaxInt - ask.length
  <2>1. Never(ask)
    BY <1>1, <1>2, BackwardsIsOutside DEF Never, BackwardsShort
  <2>2. Refused("outside") \in Given(values, ask)
    BY <2>1, MayAnswer DEF Given
  <2> QED
    BY <1>2, <2>2 DEF HTTPAnswer
<1>3. CASE /\ ~(BackwardsShort(ask) \/ ask.offset > MaxInt - ask.length)
           /\ ask.offset >= 0 /\ ask.length = 0
  BY <1>3, EmptyRangeGiven DEF HTTPAnswer
<1>4. CASE /\ ~(BackwardsShort(ask) \/ ask.offset > MaxInt - ask.length)
           /\ ~(ask.offset >= 0 /\ ask.length = 0)
           /\ TooLarge(Want(ask))
  <2>1. Refused("toolarge") \in Given(values, ask)
    BY <1>4, MayAnswer DEF Given, TooLarge
  <2> QED
    BY <1>4, <2>1 DEF HTTPAnswer
<1>5. CASE /\ ~(BackwardsShort(ask) \/ ask.offset > MaxInt - ask.length)
           /\ ~(ask.offset >= 0 /\ ask.length = 0)
           /\ ~TooLarge(Want(ask))
  <2>1. Want(ask) \in Nat \ {0}
    BY <1>5, WantIs
  <2>2. ASSUME NEW a \in Served(stored, ask, Want(ask))
        PROVE  (CASE a.status = 206 -> Checked206(a, ask, Want(ask))
                  [] a.status = 200 -> CutRange(a.body, ask)
                  [] a.status = 416 -> Refused("outside")
                  [] OTHER -> Failed(a.status)) \in Given(values, ask)
    BY <1>5, <2>1, HTTPServedGiven
  <2> QED
    BY <1>5, <2>2 DEF HTTPAnswer
<1> QED
  BY <1>2, <1>3, <1>4, <1>5
-----------------------------------------------------------------------------
(* From a bucket.  The range may be one of the value whose length was asked *)
(* for before.                                                              *)
LEMMA CountedGiven ==
  ASSUME RangesFit, setup \in Setups, setup.kind \in {"s3", "gcs", "azblob"},
         NEW values, NEW v, Seeing(values, v), NEW ask \in Ranges, IsRange(ask),
         NEW from, IsRange(from), ~BackwardsShort(from), from.length = ask.length,
         NEW want \in Nat \ {0}, want = Want(from), want <= Want(ask), Want(ask) \in Nat,
         v # None => Start(Len(v), from) = Start(Len(v), ask),
         NEW a \in Served(v, from, want)
  PROVE  Counted(a, from, want) \in Given(values, ask)
<1>1. CASE v = None /\ a = [status |-> 404]
  <2>1. a.status = 404
    BY <1>1
  <2>2. Counted(a, from, want) = Refused("notfound")
    BY <2>1 DEF Counted, Failed
  <2> QED
    BY <1>1, <2>2, MayAnswer DEF Given, Seeing
<1>2. CASE v # None
  <2>1. v \in PutOf(setup) /\ v \in Values /\ Len(v) \in Nat
    BY <1>2, PutIs, Lengths DEF Seeing
  <2>2. ~ask.whole /\ ~from.whole
    BY RangeIs
  <2>3. /\ Inside(v, from) <=> Inside(v, ask)
        /\ Cut(v, from) = Cut(v, ask)
    BY <1>2, <2>2 DEF Inside, Cut
  <2>4. setup.server = "ranges" \/ (setup.server = "ignores" /\ Len(v) \notin 0 .. Want(ask))
    BY <2>1, Fit
  <2>5. CASE setup.server = "ranges" /\ a = Honest(v, from, want)
    <3>1. CASE a.status = 416 /\ ~Inside(v, from)
      <4>1. Counted(a, from, want) = Refused("outside")
        BY <3>1 DEF Counted
      <4> QED
        BY <1>2, <2>3, <3>1, <4>1, MayAnswer DEF Given, Seeing
    <3>2. CASE a.status = 206 /\ Len(a.body) # want /\ ~Inside(v, from)
      <4>1. Counted(a, from, want) = Refused("outside")
        BY <3>2 DEF Counted
      <4> QED
        BY <1>2, <2>3, <3>2, <4>1, MayAnswer DEF Given, Seeing
    <3>3. CASE /\ a.status = 206 /\ Len(a.body) = want /\ Inside(v, from)
               /\ SubSeq(a.body, 1, from.length) = Cut(v, from)
      <4>1. Counted(a, from, want) =
              IF Len(a.body) = want THEN Bytes(SubSeq(a.body, 1, from.length)) ELSE Refused("outside")
        <5>1. a.status = 206
          BY <3>3
        <5> QED
          BY <5>1 DEF Counted
      <4>2. Counted(a, from, want) = Bytes(Cut(v, ask))
        BY <2>3, <3>3, <4>1
      <4> QED
        BY <1>2, <2>2, <2>3, <3>3, <4>2, MayAnswer DEF Given, Seeing
    <3> QED
      BY <2>1, <2>5, <3>1, <3>2, <3>3, HonestIs
  <2>6. CASE setup.server = "ignores" /\ a = [status |-> 200, body |-> v]
    <3>1. a.status = 200 /\ a.body = v
      BY <2>6
    <3>2. Len(v) # want
      BY <2>1, <2>4, <2>6
    <3>3. Counted(a, from, want) = Refused("outside")
      BY <3>1, <3>2 DEF Counted
    <3> QED
      BY <2>6, <3>3, MayAnswer DEF Given
  <2> QED
    BY <1>2, <2>4, <2>5, <2>6, ServedIs
<1> QED
  BY <1>1, <1>2, ServedIs

LEMMA CountedRangeGiven ==
  ASSUME RangesFit, setup \in Setups, setup.kind \in {"s3", "gcs", "azblob"},
         NEW values, Seeing(values, stored), NEW ask \in Ranges, IsRange(ask)
  PROVE  CountedRange(ask) \subseteq Given(values, ask)
<1>1. CASE BackwardsShort(ask)
  <2>1. Refused("outside") \in Given(values, ask)
    BY <1>1, BackwardsIsOutside, MayAnswer DEF Given
  <2> QED
    BY <1>1, <2>1 DEF CountedRange
<1>2. CASE ~BackwardsShort(ask) /\ ask.offset >= 0 /\ ask.length = 0
  BY <1>2, EmptyRangeGiven DEF CountedRange
<1>3. CASE ~BackwardsShort(ask) /\ ~(ask.offset >= 0 /\ ask.length = 0)
  <2>1. Want(ask) \in Nat \ {0} /\ Want(ask) <= Want(ask)
    BY <1>3, WantIs
  <2>2. ASSUME NEW a \in Served(stored, ask, Want(ask))
        PROVE  Counted(a, ask, Want(ask)) \in Given(values, ask)
    BY <1>3, <2>1, CountedGiven
  <2> QED
    BY <1>3, <2>2 DEF CountedRange
<1> QED
  BY <1>1, <1>2, <1>3

LEMMA WholeUpToGiven ==
  ASSUME NEW values, Seeing(values, stored), NEW ask, ask.whole
  PROVE  WholeUpTo(stored) \in Given(values, ask)
<1>1. CASE stored # None /\ TooLarge(Len(stored))
  BY <1>1, MayAnswer DEF WholeUpTo, TooLarge, Given
<1>2. CASE ~(stored # None /\ TooLarge(Len(stored)))
  BY <1>2, WholeGiven DEF WholeUpTo
<1> QED
  BY <1>1, <1>2

(* From the end of a blob, of the value it had when its length was asked    *)
(* for: it is still that, gone, or another, which the service tells.        *)
LEMMA AzureFromEndGiven ==
  ASSUME RangesFit, setup \in Setups, setup.kind = "azblob", get.pc = "range",
         NEW values, Seeing(values, stored), Seeing(values, get.value), get.value # None,
         NEW ask \in Ranges, IsRange(ask), ~BackwardsShort(ask)
  PROVE  AzureAnswer(ask) \subseteq Given(values, ask)
<1> DEFINE v == get.value
           at == Start(Len(v), ask)
           from == [ask EXCEPT !.offset = at]
<1>1. /\ v \in Values /\ Len(v) \in Nat
      /\ ask.offset \in Int /\ ask.length \in Nat /\ ~ask.whole
  BY PutIs, Lengths, RangeIs DEF Seeing, BackwardsShort
<1>2. at \in Int
  BY <1>1 DEF Start
<1>3. AzureAnswer(ask) =
        IF at < 0 \/ at > Len(v) THEN {Refused("outside")}
        ELSE IF ask.length = 0 THEN {Bytes(<<>>)}
        ELSE IF stored \notin {v, None} THEN {Refused("error")}
        ELSE {Counted(a, from, ask.length) : a \in Served(stored, from, ask.length)}
  BY DEF AzureAnswer
<1>4. CASE at < 0 \/ at > Len(v)
  <2>1. ~Inside(v, ask)
    BY <1>1, <1>2, <1>4 DEF Inside
  <2>2. Refused("outside") \in Given(values, ask)
    BY <2>1, MayAnswer DEF Given, Seeing
  <2> HIDE DEF at
  <2> QED
    BY <1>3, <1>4, <2>2
<1>5. CASE ~(at < 0 \/ at > Len(v)) /\ ask.length = 0
  <2>1. at \in 0 .. Len(v)
    BY <1>1, <1>2, <1>5
  <2>2. Inside(v, ask) /\ Cut(v, ask) = <<>>
    BY <1>1, <1>5, <2>1, EmptyIs
  <2>3. Bytes(Cut(v, ask)) \in Given(values, ask)
    BY <1>1, <2>2, MayAnswer DEF Given, Seeing
  <2> HIDE DEF at
  <2> QED
    BY <1>3, <1>5, <2>2, <2>3
<1>6. CASE ~(at < 0 \/ at > Len(v)) /\ ask.length # 0 /\ stored \notin {v, None}
  <2>1. Refused("error") \in Given(values, ask)
    BY <1>6, MayAnswer DEF Given, Seeing
  <2> HIDE DEF at
  <2> QED
    BY <1>3, <1>6, <2>1
<1>7. CASE ~(at < 0 \/ at > Len(v)) /\ ask.length # 0 /\ stored \in {v, None}
  <2>1. at >= 0 /\ ask.length \in Nat \ {0}
    BY <1>1, <1>2, <1>7
  <2> HIDE DEF at
  <2>2. from = [whole |-> ask.whole, offset |-> at, length |-> ask.length]
    BY DEF IsRange
  <2>3. IsRange(from) /\ from.length = ask.length /\ from.offset = at
    BY <1>1, <1>2, <2>2 DEF IsRange
  <2> HIDE DEF from
  <2>4. ~BackwardsShort(from) /\ ask.length = Want(from)
    BY <1>1, <1>2, <2>1, <2>3 DEF BackwardsShort, Want
  <2>5. ask.length <= Want(ask) /\ Want(ask) \in Nat
    BY <1>1 DEF BackwardsShort, Want
  <2>6. stored # None => Start(Len(stored), from) = Start(Len(stored), ask)
    <3> SUFFICES ASSUME stored # None PROVE Start(Len(stored), from) = Start(Len(stored), ask)
      OBVIOUS
    <3>1. stored = v
      BY <1>7
    <3>2. Start(Len(v), from) = at
      BY <1>2, <2>1, <2>3 DEF Start
    <3> QED
      BY <3>1, <3>2 DEF at
  <2>7. ASSUME NEW a \in Served(stored, from, ask.length)
        PROVE  Counted(a, from, ask.length) \in Given(values, ask)
    BY <2>1, <2>3, <2>4, <2>5, <2>6, CountedGiven
  <2> QED
    BY <1>3, <1>7, <2>7
<1> HIDE DEF at
<1> QED
  BY <1>4, <1>5, <1>6, <1>7

LEMMA AzureRangeGiven ==
  ASSUME RangesFit, setup \in Setups, setup.kind = "azblob",
         NEW values, Seeing(values, stored), NEW ask \in Ranges, IsRange(ask), ask = get.ask,
         get.pc \in {"ask", "range"},
         get.pc = "range" => Seeing(values, get.value) /\ get.value # None,
         AzureGetRange
  PROVE  answer' \in Given(values, ask)
<1>1. CASE get.pc = "ask" /\ stored = None /\ ~BackwardsShort(ask)
  <2>1. answer' = Refused("notfound")
    BY <1>1 DEF AzureGetRange
  <2> QED
    BY <1>1, <2>1, MayAnswer DEF Given, Seeing
<1>2. CASE ~(get.pc = "ask" /\ stored = None /\ ~BackwardsShort(ask))
  <2>1. answer' \in AzureAnswer(ask)
    BY <1>2 DEF AzureGetRange
  <2>2. CASE BackwardsShort(ask)
    <3>1. answer' = Refused("outside")
      BY <2>1, <2>2 DEF AzureAnswer
    <3> QED
      BY <2>2, <3>1, BackwardsIsOutside, MayAnswer DEF Given
  <2>3. CASE ~BackwardsShort(ask) /\ get.pc = "ask"
    <3>1. ask.offset \in Int /\ ask.length \in Int /\ ~(ask.offset < 0 \/ ask.length = 0)
      BY <1>2, <2>3, RangeIs DEF AzureGetRange, FromEnd
    <3>2. ask.length = Want(ask) /\ ask.length \in Nat \ {0} /\ ask.length <= Want(ask) /\ Want(ask) \in Nat
      BY <2>3, <3>1 DEF Want, BackwardsShort
    <3>3. PICK a \in Served(stored, ask, ask.length) : answer' = Counted(a, ask, ask.length)
      BY <2>1, <2>3 DEF AzureAnswer
    <3> QED
      BY <2>3, <3>2, <3>3, CountedGiven
  <2>4. CASE ~BackwardsShort(ask) /\ get.pc = "range"
    BY <2>1, <2>4, AzureFromEndGiven
  <2> QED
    BY <2>2, <2>3, <2>4
<1> QED
  BY <1>1, <1>2
-----------------------------------------------------------------------------
(* What a read has in hand, and a put.                                      *)
Held(v) == v \in PutOf(setup) \cup {None}
Reading ==
  get.pc # "idle" =>
    /\ setup \in Setups /\ get.ask \in Asked(setup.kind)
    /\ Seeing(seen, stored)
    /\ get.pc = "ask" => get.value = None
    /\ get.pc # "ask" => get.value \in seen /\ get.value # None
Writing ==
  /\ setup \in Setups \cup {NoSetup}
  /\ put.n \in 0 .. Len(setup.puts)
  /\ put.pc # "idle" => put.n # 0 /\ setup \in Setups
  /\ put.pc \in {"set", "write"} => Size(put.n) # Removed
  /\ put.pc = "write" => Len(opened) \in 0 .. Size(put.n) /\ opened = Part(Len(opened))
ObjectInv ==
  /\ put = [pc |-> put.pc, n |-> put.n] /\ put.pc \in {"idle", "set", "write", "delete"}
  /\ get = [pc |-> get.pc, ask |-> get.ask, value |-> get.value]
  /\ get.pc \in {"idle", "ask", "read", "range"}
  /\ get.pc = "read" => setup.kind = "dir"
  /\ get.pc = "range" => setup.kind = "azblob"
  /\ Held(stored) /\ Writing /\ Reading

(* What a read answers is what a store may.                                 *)
LEMMA ReadGiven ==
  ASSUME RangesFit, ObjectInv, Read
  PROVE  answer' \in Given(seen, get.ask)
<1> DEFINE ask == get.ask
<1>1. /\ get.pc # "idle" /\ setup \in Setups /\ ask \in Asked(setup.kind) /\ Seeing(seen, stored)
      /\ get.pc \in {"ask", "read", "range"}
  BY DEF Read, ObjectInv, Reading
<1>2. get.pc = "ask" => get.value = None
  BY <1>1 DEF ObjectInv, Reading
<1>3. get.pc # "ask" => Seeing(seen, get.value) /\ get.value # None
  BY <1>1 DEF ObjectInv, Reading, Seeing
<1>4. ~ask.whole => ask \in Ranges /\ IsRange(ask)
  BY <1>1, AskedIs
<1>5. (get.pc = "read" \/ stored = None) /\ Is({"dir"}) => Seeing(seen, get.value)
  BY <1>1, <1>2, <1>3 DEF Seeing, ObjectInv, Is
<1> HIDE DEF ask
<1>6. CASE MemoryGet \/ HTTPGet
  <2>1. ask.whole
    BY <1>6 DEF MemoryGet, HTTPGet, ask
  <2>2. Whole(stored) \in Given(seen, ask)
    BY <1>1, <2>1, WholeGiven
  <2>3. answer' \in {Whole(stored)} \/ (answer' = Refused("toolarge") /\ setup.cap > 0)
    BY <1>6 DEF MemoryGet, HTTPGet, TooLarge
  <2>4. setup.cap > 0 => Refused("toolarge") \in Given(seen, ask)
    BY MayAnswer DEF Given
  <2> QED
    BY <2>2, <2>3, <2>4 DEF ask
<1>7. CASE MemoryGetRange
  <2>1. ~ask.whole /\ setup.kind \in {"memory", "dir"} /\ answer' = FromSpan(stored, ask)
    BY <1>7 DEF MemoryGetRange, Is, ask
  <2> QED
    BY <1>1, <2>1, SpanGiven DEF ask
<1>8. CASE DirGet
  <2>1. ask.whole /\ Seeing(seen, get.value) /\ answer' = Whole(get.value)
    BY <1>5, <1>8 DEF DirGet, ask
  <2> QED
    BY <2>1, WholeGiven DEF ask
<1>9. CASE DirGetRange
  <2>1. /\ ~ask.whole /\ setup.kind \in {"memory", "dir"} /\ Seeing(seen, get.value)
        /\ answer' = FromSpan(get.value, ask)
    BY <1>5, <1>9 DEF DirGetRange, Is, ask
  <2> QED
    BY <1>1, <2>1, SpanGiven DEF ask
<1>10. CASE HTTPGetRange
  <2>1. ~ask.whole /\ answer' \in HTTPAnswer(ask)
    BY <1>10 DEF HTTPGetRange, ask
  <2> QED
    BY <1>1, <1>4, <2>1, HTTPRangeGiven DEF ask
<1>11. CASE S3Get \/ GCSGet \/ AzureGet
  <2>1. ask.whole /\ answer' = WholeUpTo(stored)
    BY <1>11 DEF S3Get, GCSGet, AzureGet, ask
  <2> QED
    BY <1>1, <2>1, WholeUpToGiven DEF ask
<1>12. CASE S3GetRange \/ GCSGetRange
  <2>1. ~ask.whole /\ answer' \in CountedRange(ask) /\ setup.kind \in {"s3", "gcs", "azblob"}
    BY <1>12 DEF S3GetRange, GCSGetRange, Is, ask
  <2> QED
    BY <1>1, <1>4, <2>1, CountedRangeGiven DEF ask
<1>13. CASE AzureGetRange
  <2>1. ~ask.whole /\ setup.kind = "azblob"
    BY <1>13 DEF AzureGetRange, Is, ask
  <2>2. get.pc \in {"ask", "range"}
    BY <1>1, <2>1 DEF ObjectInv
  <2>3. get.pc = "range" => Seeing(seen, get.value) /\ get.value # None
    BY <1>3
  <2> QED
    BY <1>1, <1>4, <1>13, <2>1, <2>2, <2>3, AzureRangeGiven DEF ask
<1> QED
  BY <1>6, <1>7, <1>8, <1>9, <1>10, <1>11, <1>12, <1>13 DEF Read
-----------------------------------------------------------------------------
(* The steps of a key.                                                      *)
LEMMA PutsAre ==
  ASSUME NEW s \in Setups \cup {NoSetup}
  PROVE  s.puts \in Seq(Nat \cup {Removed})
<1>1. CASE s \in Setups
  BY <1>1, ObjectsAssumption
<1>2. CASE s = NoSetup
  <2>1. s.puts = <<>>
    BY <1>2 DEF NoSetup
  <2> QED
    BY <2>1
<1> QED
  BY <1>1, <1>2

LEMMA InitObjectInv == InitObject => ObjectInv
<1> SUFFICES ASSUME InitObject PROVE ObjectInv
  OBVIOUS
<1>1. /\ put = [pc |-> "idle", n |-> 0] /\ get = [pc |-> "idle", ask |-> None, value |-> None]
      /\ stored = None /\ setup \in Setups \cup {NoSetup}
  BY DEF InitObject
<1>2. 0 \in 0 .. Len(setup.puts)
  <2>1. setup.puts \in Seq(Nat \cup {Removed})
    BY <1>1, PutsAre
  <2> QED
    BY <2>1
<1> QED
  BY <1>1, <1>2 DEF ObjectInv, Held, Writing, Reading

LEMMA SizesAre ==
  ASSUME ObjectInv
  PROVE  /\ setup.puts \in Seq(Nat \cup {Removed}) /\ Len(setup.puts) \in Nat
         /\ put.n \in Nat /\ put.n <= Len(setup.puts)
         /\ put.n < Len(setup.puts) => setup \in Setups
         /\ put.pc # "idle" => put.n \in DOMAIN setup.puts
<1>1. setup.puts \in Seq(Nat \cup {Removed})
  BY PutsAre DEF ObjectInv, Writing
<1>2. Len(setup.puts) \in Nat /\ put.n \in 0 .. Len(setup.puts)
  BY <1>1 DEF ObjectInv, Writing
<1>3. put.n < Len(setup.puts) => setup \in Setups
  <2>1. Len(NoSetup.puts) = 0
    BY DEF NoSetup
  <2> QED
    BY <1>2, <2>1 DEF ObjectInv, Writing
<1>4. put.pc # "idle" => put.n \in DOMAIN setup.puts
  BY <1>1, <1>2 DEF ObjectInv, Writing
<1> QED
  BY <1>1, <1>2, <1>3, <1>4

(* What is put in whole is one of the values of this store's key.           *)
LEMMA NewValueIs ==
  ASSUME ObjectInv, put.pc \in {"set", "write"}
  PROVE  /\ setup \in Setups /\ Size(put.n) \in Nat
         /\ NewValue \in PutOf(setup) /\ NewValue \in Values /\ Len(NewValue) = Size(put.n)
<1>1. setup \in Setups /\ put.n \in DOMAIN setup.puts /\ Size(put.n) # Removed
  BY SizesAre DEF ObjectInv, Writing
<1>2. Size(put.n) \in Nat
  BY <1>1, SizesAre DEF Size
<1>3. NewValue \in PutOf(setup)
  BY <1>1 DEF NewValue, PutOf, Size
<1>4. NewValue \in Values
  BY <1>1, <1>3, PutIs
<1>5. Len(NewValue) = Size(put.n)
  <2> DEFINE size == Size(put.n)
  <2> HIDE DEF size
  <2>1. NewValue = [i \in 1 .. size |-> <<put.n, i>>]
    BY DEF NewValue, ValueOf, size
  <2>2. size \in Nat
    BY <1>2 DEF size
  <2>3. Len(NewValue) = size
    BY <1>4, <2>1, <2>2 DEF Values
  <2> QED
    BY <2>3 DEF size
<1> QED
  BY <1>1, <1>2, <1>3, <1>4, <1>5

LEMMA PartOfNew ==
  ASSUME ObjectInv, put.pc \in {"set", "write"}, NEW m \in 0 .. Size(put.n)
  PROVE  Len(Part(m)) = m /\ (m = Size(put.n) => Part(m) = NewValue)
<1>1. NewValue \in Values /\ Len(NewValue) = Size(put.n) /\ m \in Nat /\ m <= Len(NewValue)
  BY NewValueIs
<1>2. Part(m) = SubSeq(NewValue, 0 + 1, 0 + m)
  BY <1>1 DEF Part
<1>3. 0 \in Nat /\ 0 + m <= Len(NewValue)
  BY <1>1
<1>4. /\ Part(m) \in Values /\ Len(Part(m)) = m
      /\ \A i \in 1 .. m : Part(m)[i] = NewValue[0 + i]
  <2> DEFINE v == NewValue
             p == SubSeq(v, 0 + 1, 0 + m)
  <2> HIDE DEF v
  <2>1. v \in Values /\ 0 + m <= Len(v) /\ m \in Nat
    BY <1>1, <1>3 DEF v
  <2>2. p \in Values /\ Len(p) = m /\ \A i \in 1 .. m : p[i] = v[0 + i]
    BY <1>3, <2>1, PartIs
  <2>3. Part(m) = p
    BY <1>2 DEF v
  <2> HIDE DEF p
  <2> QED
    BY <2>2, <2>3 DEF v
<1>5. ASSUME m = Size(put.n) PROVE Part(m) = NewValue
  <2>1. \A i \in 1 .. m : Part(m)[i] = NewValue[i]
    BY <1>1, <1>4
  <2> QED
    BY <1>1, <1>4, <1>5, <2>1, SeqEqual DEF Values
<1> QED
  BY <1>4, <1>5

LEMMA PutKeepsReading ==
  ASSUME ObjectInv, UNCHANGED <<setup, get>>, NEW v \in PutOf(setup) \cup {None}, StoresNow(v)
  PROVE  Held(stored)' /\ Reading'
<1>1. PutOf(setup)' = PutOf(setup)
  BY DEF PutOf
<1>2. Held(stored)'
  BY <1>1 DEF Held, StoresNow
<1>3. Reading'
  <2> SUFFICES ASSUME get.pc # "idle" PROVE Reading'
    BY DEF Reading
  <2>1. seen' = seen \cup {v} /\ stored' = v
    BY DEF StoresNow
  <2>2. Seeing(seen, stored)' 
    BY <1>1, <2>1 DEF ObjectInv, Reading, Seeing
  <2> QED
    BY <2>1, <2>2 DEF ObjectInv, Reading, Asked
<1> QED
  BY <1>2, <1>3

LEMMA ReadingStays ==
  ASSUME ObjectInv, UNCHANGED <<setup, get, stored, seen>>
  PROVE  Held(stored)' /\ Reading'
<1>1. PutOf(setup)' = PutOf(setup)
  BY DEF PutOf
<1> QED
  BY <1>1 DEF ObjectInv, Held, Reading, Seeing, Asked

(* A put goes on, or ends.                                                  *)
LEMMA WritingStays ==
  ASSUME ObjectInv, UNCHANGED <<setup, put, opened>>
  PROVE  Writing'
BY DEF ObjectInv, Writing, Part, NewValue, Size

LEMMA PutEnds ==
  ASSUME ObjectInv, setup' = setup, Putting("idle")
  PROVE  Writing' /\ put' = [pc |-> "idle", n |-> put.n]
<1>1. put' = [pc |-> "idle", n |-> put.n]
  BY DEF Putting, ObjectInv
<1> QED
  BY <1>1 DEF ObjectInv, Writing

(* A step of a put, a step of a read, or nothing.                           *)
Stays == UNCHANGED <<stored, seen, setup, get, answer>>
Stored(v) == StoresNow(v) /\ UNCHANGED <<setup, get, answer>>
Begun == /\ get.pc = "idle" /\ answer = None /\ setup \in Setups
         /\ \E ask \in Asked(setup.kind) : get' = [pc |-> "ask", ask |-> ask, value |-> None]
         /\ seen' = {stored} /\ UNCHANGED <<setup, stored, answer>>
Looks == /\ get.pc # "idle" /\ answer = None /\ get'.pc # "idle" /\ get'.ask = get.ask
         /\ UNCHANGED <<setup, stored, seen, answer>>

LEMMA EndsStored ==
  ASSUME ObjectInv, Putting("idle"), UNCHANGED <<setup, get, answer>>,
         NEW v \in PutOf(setup) \cup {None}, StoresNow(v)
  PROVE  ObjectInv' /\ \E w \in PutOf(setup) \cup {None} : Stored(w)
<1>1. Writing' /\ put' = [pc |-> "idle", n |-> put.n]
  BY PutEnds
<1>2. Held(stored)' /\ Reading'
  BY PutKeepsReading
<1> QED
  BY <1>1, <1>2 DEF ObjectInv, Stored

LEMMA EndsUnstored ==
  ASSUME ObjectInv, Putting("idle"), UNCHANGED <<setup, get, answer, stored, seen>>
  PROVE  ObjectInv' /\ Stays
<1>1. Writing' /\ put' = [pc |-> "idle", n |-> put.n]
  BY PutEnds
<1>2. Held(stored)' /\ Reading'
  BY ReadingStays
<1> QED
  BY <1>1, <1>2 DEF ObjectInv, Stays

LEMMA PutStep ==
  ASSUME ObjectInv,
         BeginPut \/ Delete \/ SetAtOnce \/ ReadOnly \/ CreateTemp \/ WriteTemp \/ EndSet \/ SetFails
  PROVE  ObjectInv' /\ (Stays \/ \E v \in PutOf(setup) \cup {None} : Stored(v))
<1>1. CASE BeginPut
  <2>1. /\ put' = [pc |-> IF Size(put.n + 1) = Removed THEN "delete" ELSE "set", n |-> put.n + 1]
        /\ put.n < Len(setup.puts) /\ UNCHANGED <<setup, stored, opened, get, seen, answer>>
    BY <1>1 DEF BeginPut
  <2>2. put'.n = put.n + 1 /\ put'.pc \in {"delete", "set"} /\ (put'.pc = "set" => Size(put.n + 1) # Removed)
    BY <2>1
  <2>3. put.n + 1 \in 0 .. Len(setup.puts) /\ put.n + 1 # 0 /\ setup \in Setups
    BY <2>1, SizesAre
  <2>4. Writing'
    BY <2>1, <2>2, <2>3 DEF ObjectInv, Writing, Size
  <2>5. Held(stored)' /\ Reading'
    BY <2>1, ReadingStays
  <2> QED
    BY <2>1, <2>2, <2>4, <2>5 DEF ObjectInv, Stays
<1>2. CASE Delete
  <2>1. StoresNow(None) /\ Putting("idle") /\ UNCHANGED <<setup, get, answer>>
    BY <1>2 DEF Delete, MemoryDelete, DirDelete, S3Delete, GCSDelete, AzureDelete
  <2> QED
    BY <2>1, EndsStored
<1>3. CASE SetAtOnce
  <2>1. put.pc = "set" /\ StoresNow(NewValue) /\ Putting("idle") /\ UNCHANGED <<setup, get, answer>>
    BY <1>3 DEF SetAtOnce, MemorySet, S3Set, AzureSet
  <2>2. NewValue \in PutOf(setup)
    BY <2>1, NewValueIs
  <2> QED
    BY <2>1, <2>2, EndsStored
<1>4. CASE ReadOnly
  <2>1. Putting("idle") /\ UNCHANGED <<setup, get, answer>>
    BY <1>4 DEF ReadOnly
  <2>2. CASE UNCHANGED <<stored, seen>>
    BY <2>1, <2>2, EndsUnstored
  <2>3. CASE put.pc = "set" /\ StoresNow(NewValue)
    BY <2>1, <2>3, NewValueIs, EndsStored
  <2>4. CASE StoresNow(None)
    BY <2>1, <2>4, EndsStored
  <2> QED
    BY <1>4, <2>2, <2>3, <2>4 DEF ReadOnly, HTTPSet, HTTPDelete, Published
<1>5. CASE CreateTemp
  <2>1. /\ put.pc = "set" /\ opened' = <<>> /\ put' = [pc |-> "write", n |-> put.n]
        /\ UNCHANGED <<setup, stored, get, seen, answer>>
    BY <1>5 DEF CreateTemp, Putting, ObjectInv
  <2>2. Size(put.n) \in Nat /\ NewValue \in Values
    BY <2>1, NewValueIs
  <2>3. Len(opened') = 0 /\ Part(0) = <<>>
    BY <2>1, <2>2, SubSeqEmpty DEF Part
  <2>4. Part(0)' = Part(0)
    BY <2>1 DEF Part, NewValue, Size
  <2>5. Writing'
    <3>1. Len(opened') \in 0 .. Size(put.n) /\ opened' = Part(0)'
      BY <2>1, <2>2, <2>3, <2>4
    <3> QED
      BY <2>1, <2>3, <3>1 DEF ObjectInv, Writing, Size
  <2>6. Held(stored)' /\ Reading'
    BY <2>1, ReadingStays
  <2> QED
    BY <2>1, <2>5, <2>6 DEF ObjectInv, Stays
<1>6. CASE WriteTemp
  <2> DEFINE m == Len(opened) + 1
  <2>1. /\ put.pc = "write" /\ opened' = Part(m) /\ Len(opened) < Size(put.n)
        /\ UNCHANGED <<setup, stored, put, get, seen, answer>>
    BY <1>6 DEF WriteTemp
  <2>2. Size(put.n) \in Nat /\ Len(opened) \in 0 .. Size(put.n)
    BY <2>1, NewValueIs DEF ObjectInv, Writing
  <2>3. m \in 0 .. Size(put.n)
    BY <2>1, <2>2
  <2> HIDE DEF m
  <2>4. Len(opened') = m
    BY <2>1, <2>3, PartOfNew
  <2>5. PICK k : k = m
    OBVIOUS
  <2>6. Part(k)' = Part(k)
    BY <2>1 DEF Part, NewValue, Size
  <2>7. Writing'
    BY <2>1, <2>3, <2>4, <2>5, <2>6 DEF ObjectInv, Writing, Size
  <2>8. Held(stored)' /\ Reading'
    BY <2>1, ReadingStays
  <2> QED
    BY <2>1, <2>7, <2>8 DEF ObjectInv, Stays
<1>7. CASE EndSet
  <2>1. /\ put.pc = "write" /\ Len(opened) = Size(put.n) /\ StoresNow(opened) /\ Putting("idle")
        /\ UNCHANGED <<setup, get, answer>>
    BY <1>7 DEF EndSet, Rename, CloseUpload
  <2>2. opened = NewValue /\ NewValue \in PutOf(setup)
    <3>1. Len(opened) \in 0 .. Size(put.n) /\ opened = Part(Len(opened))
      BY <2>1 DEF ObjectInv, Writing
    <3>2. Part(Len(opened)) = NewValue
      BY <2>1, <3>1, PartOfNew
    <3> QED
      BY <2>1, <3>1, <3>2, NewValueIs
  <2> QED
    BY <2>1, <2>2, EndsStored
<1>8. CASE SetFails
  <2>1. Putting("idle") /\ UNCHANGED <<setup, get, answer, stored, seen>>
    BY <1>8 DEF SetFails, RemoveTemp, CancelUpload
  <2> QED
    BY <2>1, EndsUnstored
<1> QED
  BY <1>1, <1>2, <1>3, <1>4, <1>5, <1>6, <1>7, <1>8

(* A read begins, goes on, or is answered.                                  *)
LEMMA GetStep ==
  ASSUME ObjectInv, BeginGet \/ DirOpen \/ AzureProperties \/ Read
  PROVE  ObjectInv' /\ (Begun \/ Looks \/ (Read /\ get' = get))
<1>1. CASE BeginGet
  <2>1. setup \in Setups
    <3>1. NoSetup.kind = "none"
      BY DEF NoSetup
    <3> QED
      BY <1>1, <3>1 DEF BeginGet, Is, ObjectInv, Writing
  <2>2. PICK ask \in Asked(setup.kind) : get' = [pc |-> "ask", ask |-> ask, value |-> None]
    BY <1>1 DEF BeginGet
  <2>3. seen' = {stored} /\ UNCHANGED <<setup, stored, opened, put, answer>>
    BY <1>1 DEF BeginGet
  <2>4. Begun
    BY <1>1, <2>1 DEF BeginGet, Begun
  <2>5. PutOf(setup)' = PutOf(setup)
    BY <2>3 DEF PutOf
  <2>6. get'.pc = "ask" /\ get'.ask = ask /\ get'.value = None
    BY <2>2
  <2>7. Reading' /\ Held(stored)'
    BY <2>1, <2>3, <2>5, <2>6 DEF Reading, Seeing, Held, ObjectInv, Asked
  <2>8. Writing'
    BY <2>3, WritingStays
  <2> QED
    BY <2>2, <2>3, <2>4, <2>6, <2>7, <2>8 DEF ObjectInv
<1>2. CASE DirOpen \/ AzureProperties
  <2>1. /\ get.pc = "ask" /\ answer = None /\ stored # None
        /\ UNCHANGED <<setup, stored, opened, put, seen, answer>>
    BY <1>2 DEF DirOpen, AzureProperties
  <2>2. \/ get' = [pc |-> "read", ask |-> get.ask, value |-> stored] /\ setup.kind = "dir"
        \/ get' = [pc |-> "range", ask |-> get.ask, value |-> stored] /\ setup.kind = "azblob"
    BY <1>2 DEF DirOpen, AzureProperties, Is, ObjectInv
  <2>3. Looks
    BY <2>1, <2>2 DEF Looks
  <2>4. PutOf(setup)' = PutOf(setup)
    BY <2>1 DEF PutOf
  <2>5. get'.ask = get.ask /\ get'.value = stored /\ get'.pc \in {"read", "range"}
    BY <2>2
  <2>6. Reading' /\ Held(stored)'
    BY <2>1, <2>4, <2>5 DEF Reading, Seeing, Held, ObjectInv, Asked
  <2>7. Writing'
    BY <2>1, WritingStays
  <2> QED
    BY <2>1, <2>2, <2>3, <2>6, <2>7 DEF ObjectInv
<1>3. CASE Read
  <2>1. UNCHANGED <<setup, stored, opened, put, get, seen>>
    BY <1>3 DEF Read
  <2> QED
    BY <1>3, <2>1, WritingStays, ReadingStays DEF ObjectInv
<1> QED
  BY <1>1, <1>2, <1>3

LEMMA ObjectStays ==
  ASSUME ObjectInv, UNCHANGED objectVars
  PROVE  ObjectInv'
BY WritingStays, ReadingStays DEF ObjectInv, objectVars

THEOREM ObjectInStep == Spec => []ObjectInv
<1>1. Init => ObjectInv
  BY InitObjectInv DEF Init
<1>2. ASSUME ObjectInv, [Next]_vars PROVE ObjectInv'
  BY <1>2, PutStep, GetStep, ObjectStays DEF Next, vars, ObjectNext
<1> QED
  BY <1>1, <1>2, PTL DEF Spec
-----------------------------------------------------------------------------
(* What is asked of a key, of one who asks.                                 *)
Asking == IF get.pc = "idle" THEN None ELSE AskOf(setup, get.ask)

LEMMA AskingIs ==
  ASSUME NEW s \in Setups, NEW ask \in Asked(s.kind)
  PROVE  AskOf(s, ask) # None /\ AskOf(s, ask) \in Asks
<1>1. ask \in [whole : BOOLEAN, offset : Int, length : Int]
  <2>1. CASE ask \in Ranges
    BY <2>1, ObjectsAssumption
  <2>2. CASE ask = WholeAsk
    BY <2>2 DEF WholeAsk
  <2> QED
    BY <2>1, <2>2 DEF Asked
<1>2. s.kind \in Kinds /\ s.server \in {"ranges", "ignores", "others"} /\ s.cap \in Nat
  BY ObjectsAssumption
<1>3. AskOf(s, ask) # None
  BY <1>1, <1>2, NoneAssumption DEF AskOf
<1> QED
  BY <1>3 DEF Asks

LEMMA PutsAreAll ==
  ASSUME setup \in Setups \/ PutOf(setup) = {}
  PROVE  PutOf(setup) \cup {None} \subseteq PutValues \cup {None}
BY DEF PutValues

(* Each step of a key is one that KeyStore allows.                          *)
LEMMA KeyStep ==
  ASSUME RangesFit, ObjectInv, [ObjectNext]_objectVars
  PROVE  [Key!Next]_<<stored, seen, Asking, answer>>
<1>1. get.pc # "idle" => Asking # None
  BY AskingIs DEF ObjectInv, Reading, Asking
<1>2. PutOf(setup) \cup {None} \subseteq PutValues \cup {None}
  <2>1. PutOf(NoSetup) = {}
    BY DEF PutOf, NoSetup
  <2> QED
    BY <2>1, PutsAreAll DEF ObjectInv, Writing
<1>3. CASE Stays \/ UNCHANGED objectVars
  BY <1>3 DEF Stays, objectVars, Asking
<1>4. ASSUME NEW v \in PutOf(setup) \cup {None}, Stored(v)
      PROVE  Key!Put
  <2>1. stored' \in PutValues \cup {None}
    BY <1>2, <1>4 DEF Stored, StoresNow
  <2>2. Asking' = Asking
    BY <1>4 DEF Stored, Asking, AskOf
  <2>3. seen' = IF Asking = None THEN seen ELSE seen \cup {stored'}
    BY <1>1, <1>4 DEF Stored, StoresNow, Asking
  <2> QED
    BY <1>4, <2>1, <2>2, <2>3 DEF Key!Put, Stored, Asking
<1>5. CASE Begun
  <2>1. PICK ask \in Asked(setup.kind) : get' = [pc |-> "ask", ask |-> ask, value |-> None]
    BY <1>5 DEF Begun
  <2>2. Asking = None /\ Asking' = AskOf(setup, ask)
    BY <1>5, <2>1 DEF Begun, Asking, AskOf
  <2>3. Asking' \in Asks
    BY <1>5, <2>2, AskingIs DEF Begun
  <2> QED
    BY <1>5, <2>2, <2>3 DEF Key!Next, Key!Begin, Begun, Asking
<1>6. CASE Looks
  <2>1. Asking' = Asking
    BY <1>6 DEF Looks, Asking, AskOf
  <2> QED
    BY <1>6, <2>1 DEF Looks
<1>7. CASE Read /\ get' = get
  <2>1. answer' \in Answers(seen, AskOf(setup, get.ask))
    BY <1>7, ReadGiven DEF Given
  <2>2. Asking # None /\ Asking = AskOf(setup, get.ask) /\ answer = None
    BY <1>1, <1>7 DEF Read, Asking
  <2>3. UNCHANGED <<stored, seen, Asking>>
    BY <1>7 DEF Read, Asking, AskOf
  <2> QED
    BY <2>1, <2>2, <2>3 DEF Key!Next, Key!Read, Asking
<1>8. CASE UNCHANGED objectVars
  BY <1>3, <1>8
<1>9. CASE ObjectNext
  <2>1. CASE BeginPut \/ Delete \/ SetAtOnce \/ ReadOnly \/ CreateTemp \/ WriteTemp \/ EndSet \/ SetFails
    BY <1>3, <1>4, <2>1, PutStep DEF Key!Next
  <2>2. CASE BeginGet \/ DirOpen \/ AzureProperties \/ Read
    BY <1>5, <1>6, <1>7, <2>2, GetStep
  <2> QED
    BY <1>9, <2>1, <2>2 DEF ObjectNext
<1> QED
  BY <1>8, <1>9

(* Every kind of store keeps a key as KeyStore says (store.go:19-47), for   *)
(* any values put and any ranges asked for, as long as they fit: readers    *)
(* are given what they asked of one value, whole, that there was while they *)
(* read, and every error has its cause.                                     *)
THEOREM EachStoreKeepsKeys == RangesFit => (Spec => StoresKeepKeys)
<1> SUFFICES ASSUME RangesFit PROVE Spec => Key!Spec
  BY DEF StoresKeepKeys
<1>1. Init => Key!Init
  BY DEF Init, InitObject, Key!Init
<1>2. ObjectInv /\ [Next]_vars => [Key!Next]_<<stored, seen, Asking, answer>>
  <2> SUFFICES ASSUME ObjectInv, [Next]_vars PROVE [Key!Next]_<<stored, seen, Asking, answer>>
    OBVIOUS
  <2>1. [ObjectNext]_objectVars
    BY DEF Next, vars
  <2> QED
    BY <2>1, KeyStep
<1>3. ObjectInv /\ [Next]_vars => [Key!Next]_(<<stored, seen, IF get.pc = "idle" THEN None ELSE AskOf(setup, get.ask), answer>>)
  BY <1>2 DEF Asking
<1> QED
  BY <1>1, <1>3, ObjectInStep, PTL DEF Spec, Key!Spec
-----------------------------------------------------------------------------
Data == {k \in AllKeys : k[2] \notin Metadata \cup {"/"}}
HeldType == UNION {[K -> {"array", "group", "data"}] : K \in SUBSET AllKeys}
TreeType ==
  [kind : {"memory", "dir", "s3", "gcs", "azblob"}, format : {2, 3}, held : HeldType,
   calls : [Callers -> Seq(Calls)], fails : Nat]
NodeKinds == {"array", "group", "data", "array2", "group2", "none"}
Results == {"none", "error", "refused", "exists", "array", "group", "array2", "group2", "ok", "notfound"}
Deleting == {"list-keys", "delete-keys", "delete-batch"}
Places ==
  {"idle", "new", "create", "write", "attributes", "zarr.json", "v2", "other", ".zattrs",
   "list", "children", "delete-zarr.json", "delete-.zarray", "delete-.zgroup"} \cup Deleting
CallType ==
  [at : Places, n : Nat, pos : Nat, todo : SUBSET (AllKeys \cup STRING),
   found : SUBSET (Seq(STRING) \X NodeKinds), handle : Results, result : Results]

(* The calls of a plan, as they may be.                                     *)
Plans(t) ==
  \A c \in Callers : \A n \in DOMAIN t.calls[c] :
    LET o == t.calls[c][n]
    IN  /\ o.do \in {"create-array", "create-group", "attributes"} => <<o.path, "zarr.json">> \in AllKeys
        /\ o.do \in {"write", "attributes"} /\ n > 1 => o.path = t.calls[c][n - 1].path

(* Where a call may be at.                                                  *)
PlacesOf(do) ==
  CASE do \in {"create-array", "create-group"} -> {"new", "create"}
    [] do \in {"open-array", "open-group"} -> {"zarr.json", "v2", "other", ".zattrs"}
    [] do = "delete" -> {"delete-zarr.json", "delete-.zarray", "delete-.zgroup"} \cup Deleting
    [] do \in {"children", "open-arrays"} -> {"list", "children"}
    [] OTHER -> {do}

(* A call of c's, as it may be.                                             *)
CallIs(c, r) ==
  /\ r.n \in 0 .. Len(tree.calls[c])
  /\ r.pos \in 1 .. Len(KeyOrder) + 1
  /\ r.at # "idle" => r.n > 0 /\ r.at \in PlacesOf(tree.calls[c][r.n].do)
  /\ r.at \in {"list", "list-keys"} => r.pos <= Len(KeyOrder)
  /\ r.at \in {"list", "children"} => r.todo \subseteq STRING
  /\ r.at \in {"delete-zarr.json", "delete-.zarray", "delete-.zgroup"} => r.pos = 1 /\ r.todo = {}
  /\ r.at \in Deleting => r.todo \subseteq AllKeys /\ IsFiniteSet(r.todo) /\ Cardinality(r.todo) <= Batch

NodesTyped ==
  /\ tree \in TreeType /\ Plans(tree)
  /\ held \in HeldType /\ dirs \subseteq Paths /\ wrote \subseteq Data
  /\ call \in [Callers -> CallType]
  /\ since \in [Callers -> [ever : SUBSET (Paths \X NodeKinds), always : SUBSET (Paths \X NodeKinds)]]

NodesInv == NodesTyped /\ \A c \in Callers : CallIs(c, call[c])
-----------------------------------------------------------------------------
LEMMA KeysTyped == AllKeys \subseteq Seq(STRING) \X STRING /\ Paths \subseteq Seq(STRING) /\ Len(KeyOrder) \in Nat \ {0}
<1>1. KeyOrder \in Seq(Seq(STRING) \X STRING) /\ KeyOrder # <<>>
  BY NodesAssumption
<1>2. AllKeys \subseteq Seq(STRING) \X STRING
  BY <1>1 DEF AllKeys
<1>3. Paths \subseteq Seq(STRING)
  BY <1>2 DEF Paths
<1>4. Len(KeyOrder) \in Nat /\ Len(KeyOrder) # 0
  BY <1>1
<1> QED
  BY <1>2, <1>3, <1>4

LEMMA HeldIs ==
  /\ \A h \in HeldType : /\ DOMAIN h \subseteq AllKeys
                         /\ \A k \in DOMAIN h : h[k] \in {"array", "group", "data"}
  /\ \A K \in SUBSET AllKeys : \A h \in [K -> {"array", "group", "data"}] : h \in HeldType
  BY DEF HeldType

(* What is under a path is a node of it.                                    *)
LEMMA NodesTypedOf ==
  ASSUME NEW h \in HeldType
  PROVE  NodesOf(h) \in SUBSET (Paths \X NodeKinds)
<1>1. ASSUME NEW p \in Paths PROVE NodeAt(h, p) \in NodeKinds
  BY HeldIs DEF NodeAt, NodeKinds
<1> QED
  BY <1>1 DEF NodesOf

LEMMA WithTyped ==
  ASSUME held \in HeldType, NEW k \in AllKeys, NEW v \in {"array", "group", "data"}
  PROVE  /\ With(k, v) \in HeldType /\ DOMAIN With(k, v) = DOMAIN held \cup {k}
         /\ \A x \in DOMAIN held : x # k => With(k, v)[x] = held[x]
         /\ With(k, v)[k] = v
<1>1. With(k, v) \in [DOMAIN held \cup {k} -> {"array", "group", "data"}]
  BY HeldIs DEF With
<1>2. DOMAIN held \cup {k} \in SUBSET AllKeys
  BY HeldIs
<1> QED
  BY <1>1, <1>2, HeldIs DEF With

LEMMA WithoutTyped ==
  ASSUME held \in HeldType, NEW k
  PROVE  /\ Without(k) \in HeldType /\ DOMAIN Without(k) = DOMAIN held \ {k}
         /\ \A x \in DOMAIN held : x # k => Without(k)[x] = held[x]
<1>1. Without(k) \in [DOMAIN held \ {k} -> {"array", "group", "data"}]
  BY HeldIs DEF Without
<1>2. DOMAIN held \ {k} \in SUBSET AllKeys
  BY HeldIs
<1> QED
  BY <1>1, <1>2, HeldIs DEF Without

LEMMA BecomesTyped ==
  ASSUME NodesTyped, NEW h \in HeldType, Becomes(h)
  PROVE  /\ held' = h /\ dirs' \subseteq Paths /\ DOMAIN since' = Callers
         /\ since' \in [Callers -> [ever : SUBSET (Paths \X NodeKinds), always : SUBSET (Paths \X NodeKinds)]]
<1>1. NodesOf(h) \in SUBSET (Paths \X NodeKinds)
  BY NodesTypedOf
<1>2. \A k \in DOMAIN h : k[1] \in Paths
  BY HeldIs DEF Paths
<1>3. dirs' \subseteq Paths
  BY <1>2 DEF Becomes, NodesTyped
<1>4. ASSUME NEW c \in Callers
      PROVE  (IF call[c].at = "idle" THEN since[c]
              ELSE [ever |-> since[c].ever \cup NodesOf(h), always |-> since[c].always \cap NodesOf(h)])
               \in [ever : SUBSET (Paths \X NodeKinds), always : SUBSET (Paths \X NodeKinds)]
  BY <1>1 DEF NodesTyped
<1>5. since' \in [Callers -> [ever : SUBSET (Paths \X NodeKinds), always : SUBSET (Paths \X NodeKinds)]]
  BY <1>4 DEF Becomes
<1> QED
  BY <1>3, <1>5 DEF Becomes
-----------------------------------------------------------------------------
(* How far is listed at a time.                                             *)
LEMMA ListedToIs ==
  ASSUME tree \in TreeType, NEW i \in 1 .. Len(KeyOrder)
  PROVE  ListedTo(i) \in i .. Len(KeyOrder)
<1> DEFINE top == Len(KeyOrder)
<1>1. top \in Nat /\ i \in Nat /\ i <= top
  BY KeysTyped
<1>2. DirList(i) \in i .. top
  <2> DEFINE ends == {j \in i .. top : j = top \/ KeyOrder[j + 1][1] # KeyOrder[i][1]}
  <2>1. ends \in SUBSET Nat /\ ends # {}
    BY <1>1
  <2>2. PICK j \in ends : \A m \in ends : ~ (<<m, j>> \in OpToRel(<, Nat))
    BY <2>1, NatLessThanWellFounded, WFMin
  <2>3. ASSUME NEW m \in i .. j PROVE KeyOrder[m][1] = KeyOrder[i][1]
    <3>1. CASE m = i
      BY <3>1
    <3>2. CASE m > i
      <4>1. m - 1 \in i .. top /\ m - 1 < j /\ m - 1 \in Nat /\ j \in Nat /\ (m - 1) + 1 = m
        BY <1>1, <3>2
      <4>2. <<m - 1, j>> \in OpToRel(<, Nat)
        BY <4>1 DEF OpToRel
      <4>3. m - 1 \notin ends
        BY <2>2, <4>2
      <4> QED
        BY <4>1, <4>3
    <3> QED
      BY <1>1, <3>1, <3>2
  <2>4. \E n \in i .. top : /\ \A m \in i .. n : KeyOrder[m][1] = KeyOrder[i][1]
                            /\ n = top \/ KeyOrder[n + 1][1] # KeyOrder[i][1]
    BY <2>2, <2>3
  <2> QED
    BY <2>4 DEF DirList
<1>3. Page(i) \in i .. top
  BY <1>1, NodesAssumption DEF Page
<1>4. MemoryList(i) \in i .. top
  BY <1>1 DEF MemoryList
<1>5. tree.kind \in {"memory", "dir", "s3", "gcs", "azblob"}
  BY DEF TreeType
<1> QED
  BY <1>2, <1>3, <1>4, <1>5 DEF ListedTo, S3Pages, GCSObjects, AzurePages

LEMMA ListingIs ==
  ASSUME tree \in TreeType, NEW c \in Callers, call[c].pos \in 1 .. Len(KeyOrder)
  PROVE  Listing(c) \subseteq AllKeys /\ IsFiniteSet(Listing(c))
<1>1. ListedTo(call[c].pos) \in call[c].pos .. Len(KeyOrder)
  BY ListedToIs
<1>2. call[c].pos .. ListedTo(call[c].pos) \subseteq DOMAIN KeyOrder
  <2>1. DOMAIN KeyOrder = 1 .. Len(KeyOrder) /\ Len(KeyOrder) \in Nat
    BY NodesAssumption
  <2> QED
    BY <1>1, <2>1
<1>3. IsFiniteSet(call[c].pos .. ListedTo(call[c].pos))
  <2>1. call[c].pos \in Int /\ ListedTo(call[c].pos) \in Int
    BY <1>1, KeysTyped
  <2> QED
    BY <2>1, FS_Interval
<1>4. IsFiniteSet(Listing(c))
  <2> DEFINE S == call[c].pos .. ListedTo(call[c].pos)
             f == [m \in S |-> KeyOrder[m]]
  <2>1. f \in Surjection(S, Listing(c))
    BY DEF Listing, Surjection
  <2> QED
    BY <1>3, <2>1, FS_Surjection
<1> QED
  BY <1>2, <1>4 DEF Listing, AllKeys

(* What a call becomes.                                                     *)
LEMMA Moves ==
  ASSUME NodesInv, NEW c \in Callers, NEW r \in CallType, CallIs(c, r), call' = [call EXCEPT ![c] = r],
         tree' \in TreeType, tree'.calls = tree.calls
  PROVE  /\ call' \in [Callers -> CallType] /\ Plans(tree)'
         /\ \A d \in Callers : CallIs(d, call[d])'
<1>1. call' \in [Callers -> CallType]
  BY DEF NodesInv, NodesTyped
<1>2. Plans(tree)'
  BY DEF NodesInv, NodesTyped, Plans
<1>3. ASSUME NEW d \in Callers PROVE CallIs(d, call[d])'
  <2>1. CASE d = c
    <3>1. call'[d] = r
      BY <2>1 DEF NodesInv, NodesTyped
    <3> QED
      BY <2>1, <3>1 DEF CallIs
  <2>2. CASE d # c
    <3>1. call'[d] = call[d]
      BY <2>2 DEF NodesInv, NodesTyped
    <3>2. CallIs(d, call[d])
      BY DEF NodesInv
    <3> QED
      BY <3>1, <3>2 DEF CallIs
  <2> QED
    BY <2>1, <2>2
<1> QED
  BY <1>1, <1>2, <1>3

LEMMA StaysTyped ==
  ASSUME NodesInv, NEW c \in Callers, NEW r \in CallType, CallIs(c, r), call' = [call EXCEPT ![c] = r], StoreStays
  PROVE  NodesInv'
<1>1. tree' \in TreeType /\ tree'.calls = tree.calls
  BY DEF StoreStays, NodesInv, NodesTyped
<1>2. /\ call' \in [Callers -> CallType] /\ Plans(tree)'
      /\ \A d \in Callers : CallIs(d, call[d])'
  BY <1>1, Moves
<1> QED
  BY <1>1, <1>2 DEF StoreStays, NodesInv, NodesTyped
-----------------------------------------------------------------------------
LEMMA OpIs ==
  ASSUME NodesInv, NEW c \in Callers, ~At(c, "idle")
  PROVE  /\ call[c].n \in 1 .. Len(tree.calls[c]) /\ call[c].n \in DOMAIN tree.calls[c]
         /\ Op(c) \in Calls /\ Op(c).path \in Seq(STRING)
         /\ call[c] \in CallType /\ call[c].at \in PlacesOf(Op(c).do)
<1>1. tree.calls[c] \in Seq(Calls)
  BY DEF NodesInv, NodesTyped, TreeType
<1>2. call[c] \in CallType /\ CallIs(c, call[c])
  BY DEF NodesInv, NodesTyped
<1>3. call[c].n \in 1 .. Len(tree.calls[c]) /\ call[c].at \in PlacesOf(Op(c).do)
  BY <1>1, <1>2 DEF CallIs, At, Op, CallType
<1>4. Op(c) \in Calls
  BY <1>1, <1>3 DEF Op
<1> QED
  BY <1>1, <1>2, <1>3, <1>4 DEF Calls

LEMMA EndsTyped ==
  ASSUME NodesInv, NEW c \in Callers, NEW result \in Results, Ends(c, result)
  PROVE  \E r \in CallType : /\ CallIs(c, r) /\ call' = [call EXCEPT ![c] = r]
                             /\ r = [call[c] EXCEPT !.at = "idle", !.result = result]
<1> DEFINE r == [call[c] EXCEPT !.at = "idle", !.result = result]
<1>1. call \in [Callers -> CallType] /\ call[c] \in CallType /\ CallIs(c, call[c])
  BY DEF NodesInv, NodesTyped
<1>2. r \in CallType
  BY <1>1 DEF CallType, Places
<1>3. CallIs(c, r)
  BY <1>1 DEF CallIs, CallType, Deleting
<1>4. call' = [call EXCEPT ![c] = r]
  BY <1>1 DEF Ends
<1> QED
  BY <1>2, <1>3, <1>4

LEMMA GotoTyped ==
  ASSUME NodesInv, NEW c \in Callers, ~At(c, "idle"), NEW pc \in Places \ (Deleting \cup {"list", "children"}),
         pc \in PlacesOf(Op(c).do), Goto(c, pc),
         pc \in {"delete-zarr.json", "delete-.zarray", "delete-.zgroup"} => call[c].pos = 1 /\ call[c].todo = {}
  PROVE  \E r \in CallType : /\ CallIs(c, r) /\ call' = [call EXCEPT ![c] = r]
                             /\ r = [call[c] EXCEPT !.at = pc]
<1> DEFINE r == [call[c] EXCEPT !.at = pc]
<1>1. call \in [Callers -> CallType] /\ call[c] \in CallType /\ CallIs(c, call[c])
  BY DEF NodesInv, NodesTyped
<1>2. r \in CallType
  BY <1>1 DEF CallType
<1>3. CallIs(c, r)
  <2>1. /\ r.at = pc /\ r.n = call[c].n /\ r.pos = call[c].pos /\ r.todo = call[c].todo
    BY <1>1 DEF CallType
  <2>2. call[c].n > 0 /\ Op(c) = tree.calls[c][call[c].n]
    BY <1>1 DEF CallIs, At, Op
  <2>3. call[c].n \in 0 .. Len(tree.calls[c]) /\ call[c].pos \in 1 .. Len(KeyOrder) + 1
    BY <1>1 DEF CallIs
  <2>4. pc \notin {"list", "list-keys", "children"} /\ pc \notin Deleting
    BY DEF Deleting
  <2> HIDE DEF r
  <2> QED
    BY <2>1, <2>2, <2>3, <2>4 DEF CallIs
<1>4. call' = [call EXCEPT ![c] = r]
  BY <1>1 DEF Goto
<1> QED
  BY <1>2, <1>3, <1>4

LEMMA BeginTyped ==
  ASSUME NodesInv, NEW c \in Callers, Begin(c)
  PROVE  NodesInv'
<1> DEFINE n == call[c].n + 1
           o == tree.calls[c][n]
           r == [Idle EXCEPT !.at = First(o.do), !.n = n, !.handle = call[c].result]
<1>1. call \in [Callers -> CallType] /\ call[c] \in CallType /\ CallIs(c, call[c]) /\ tree.calls[c] \in Seq(Calls)
  BY DEF NodesInv, NodesTyped, TreeType
<1>2. n \in 1 .. Len(tree.calls[c]) /\ n \in Nat
  BY <1>1 DEF Begin, CallIs
<1>3. o \in Calls
  BY <1>1, <1>2
<1>4. o.do \in {"create-array", "create-group", "open-array", "open-group", "write", "attributes",
                "children", "open-arrays", "delete"}
  BY <1>3 DEF Calls
<1>5. First(o.do) \in Places /\ First(o.do) \in PlacesOf(o.do) /\ First(o.do) \notin Deleting \cup {"children"}
  BY <1>4 DEF First, Places, PlacesOf, Deleting
<1>6. call[c].result \in Results
  BY <1>1 DEF CallType
<1>7. r \in CallType /\ r.at = First(o.do) /\ r.n = n /\ r.pos = 1 /\ r.todo = {} /\ r.handle = call[c].result
  <2>1. /\ Idle \in CallType /\ Idle.pos = 1 /\ Idle.todo = {}
    BY DEF Idle, CallType, Results, Places
  <2>2. First(o.do) \in Places
    BY <1>5
  <2> HIDE DEF n, o
  <2> QED
    BY <1>2, <1>6, <2>1, <2>2 DEF CallType
<1>10. call' = [call EXCEPT ![c] = r]
  BY DEF Begin
<1> HIDE DEF r
<1>9. CallIs(c, r)
  <2>1. Len(KeyOrder) \in Nat \ {0}
    BY KeysTyped
  <2> QED
    BY <1>2, <1>5, <1>7, <2>1 DEF CallIs, Deleting
<1>11. tree' = tree /\ held' = held /\ dirs' = dirs /\ wrote' = wrote
  BY DEF Begin
<1>12. since' \in [Callers -> [ever : SUBSET (Paths \X NodeKinds), always : SUBSET (Paths \X NodeKinds)]]
  <2>1. NodesOf(held) \in SUBSET (Paths \X NodeKinds)
    BY NodesTypedOf DEF NodesInv, NodesTyped
  <2> QED
    BY <2>1 DEF Begin, NodesInv, NodesTyped
<1>13. /\ call' \in [Callers -> CallType] /\ Plans(tree)'
       /\ \A d \in Callers : CallIs(d, call[d])'
  <2>1. tree' \in TreeType /\ tree'.calls = tree.calls
    BY <1>11 DEF NodesInv, NodesTyped
  <2> QED
    BY <1>7, <1>9, <1>10, <2>1, Moves
<1>14. /\ tree \in TreeType /\ held \in HeldType /\ dirs \subseteq Paths /\ wrote \subseteq Data
  BY DEF NodesInv, NodesTyped
<1>15. NodesTyped'
  BY <1>11, <1>12, <1>13, <1>14 DEF NodesTyped
<1> QED
  BY <1>13, <1>15 DEF NodesInv

LEMMA FailTyped ==
  ASSUME NodesInv, NEW c \in Callers, Fail(c)
  PROVE  NodesInv' /\ tree'.calls = tree.calls /\ tree'.kind = tree.kind /\ tree'.format = tree.format
<1>1. PICK r \in CallType : CallIs(c, r) /\ call' = [call EXCEPT ![c] = r]
  <2>1. Ends(c, "error")
    BY DEF Fail
  <2>2. "error" \in Results
    BY DEF Results
  <2> QED
    BY <2>1, <2>2, EndsTyped
<1>2. /\ tree' \in TreeType /\ tree'.calls = tree.calls /\ tree'.kind = tree.kind /\ tree'.format = tree.format
  <2>1. tree \in TreeType /\ tree' = [tree EXCEPT !.fails = @ - 1] /\ tree.fails > 0
    BY DEF Fail, NodesInv, NodesTyped
  <2>2. tree.fails - 1 \in Nat
    BY <2>1 DEF TreeType
  <2> DEFINE m == tree.fails - 1
  <2>3. tree' = [tree EXCEPT !.fails = m] /\ m \in Nat
    BY <2>1, <2>2
  <2> HIDE DEF m
  <2> QED
    BY <2>1, <2>3 DEF TreeType
<1>3. /\ call' \in [Callers -> CallType] /\ Plans(tree)'
      /\ \A d \in Callers : CallIs(d, call[d])'
  BY <1>1, <1>2, Moves
<1> QED
  BY <1>2, <1>3 DEF Fail, NodesInv, NodesTyped
-----------------------------------------------------------------------------
LEMMA PlaceIs ==
  ASSUME NEW do \in {"create-array", "create-group", "open-array", "open-group", "write", "attributes",
                     "children", "open-arrays", "delete"}
  PROVE  /\ "new" \in PlacesOf(do) \/ "create" \in PlacesOf(do) <=> do \in {"create-array", "create-group"}
         /\ {"zarr.json", "v2", "other", ".zattrs"} \cap PlacesOf(do) # {} <=> do \in {"open-array", "open-group"}
         /\ {"list", "children"} \cap PlacesOf(do) # {} <=> do \in {"children", "open-arrays"}
         /\ ({"delete-zarr.json", "delete-.zarray", "delete-.zgroup"} \cup Deleting) \cap PlacesOf(do) # {} <=> do = "delete"
         /\ "write" \in PlacesOf(do) <=> do = "write"
         /\ "attributes" \in PlacesOf(do) <=> do = "attributes"
         /\ PlacesOf(do) \subseteq Places
BY DEF PlacesOf, Places, Deleting

LEMMA OpenStays ==
  ASSUME NodesInv, NEW c \in Callers,
         MustBeNew(c) \/ ReadOnly2(c) \/ ReadMetadata(c) \/ ReadV2(c) \/ ReadOther(c) \/ ReadAttributesV2(c)
  PROVE  NodesInv'
<1>1. ~At(c, "idle")
  BY DEF At, MustBeNew, ReadOnly2, ReadMetadata, ReadV2, ReadOther, ReadAttributesV2
<1>2. Op(c) \in Calls /\ call[c].at \in PlacesOf(Op(c).do) /\ call[c] \in CallType
  BY <1>1, OpIs
<1>3. Op(c).do \in {"create-array", "create-group", "open-array", "open-group", "write", "attributes",
                    "children", "open-arrays", "delete"}
  BY <1>2 DEF Calls
<1>4. StoreStays
  BY DEF MustBeNew, ReadOnly2, ReadMetadata, ReadV2, ReadOther, ReadAttributesV2
<1>5. (\E result \in Results : Ends(c, result))
      \/ (\E pc \in Places \ (Deleting \cup {"list", "children"}) :
            pc \in PlacesOf(Op(c).do) /\ Goto(c, pc) /\ pc \in {"create", "v2", "other", ".zattrs"})
  <2>1. CASE MustBeNew(c)
    <3>1. "create" \in PlacesOf(Op(c).do)
      <4>1. "new" \in PlacesOf(Op(c).do)
        BY <1>2, <2>1 DEF MustBeNew, At
      <4> QED
        BY <1>3, <4>1, PlaceIs DEF PlacesOf
    <3>2. Ends(c, "refused") \/ Ends(c, "exists") \/ Goto(c, "create")
      BY <2>1 DEF MustBeNew
    <3> QED
      BY <3>1, <3>2 DEF Places, Results, Deleting
  <2>2. CASE ReadOnly2(c)
    BY <2>2 DEF ReadOnly2, Results
  <2>3. CASE ReadMetadata(c) \/ ReadV2(c) \/ ReadOther(c) \/ ReadAttributesV2(c)
    <3>1. {"v2", "other", ".zattrs"} \subseteq PlacesOf(Op(c).do)
      <4>1. {"zarr.json", "v2", "other", ".zattrs"} \cap PlacesOf(Op(c).do) # {}
        BY <1>2, <2>3 DEF ReadMetadata, ReadV2, ReadOther, ReadAttributesV2, At
      <4> QED
        BY <1>3, <4>1, PlaceIs DEF PlacesOf
    <3>2. CASE ReadMetadata(c)
      BY <3>1, <3>2 DEF ReadMetadata, Results, Wanted, Places, Deleting
    <3>3. CASE ReadV2(c)
      BY <3>1, <3>3 DEF ReadV2, Places, Deleting
    <3>4. CASE ReadOther(c)
      BY <3>4 DEF ReadOther, Results
    <3>5. CASE ReadAttributesV2(c)
      BY <3>5 DEF ReadAttributesV2, Results
    <3> QED
      BY <2>3, <3>2, <3>3, <3>4, <3>5
  <2> QED
    BY <2>1, <2>2, <2>3
<1>6. \E r \in CallType : CallIs(c, r) /\ call' = [call EXCEPT ![c] = r]
  <2>1. ASSUME NEW result \in Results, Ends(c, result)
        PROVE  \E r \in CallType : CallIs(c, r) /\ call' = [call EXCEPT ![c] = r]
    BY <2>1, EndsTyped
  <2>2. ASSUME NEW pc \in Places \ (Deleting \cup {"list", "children"}), pc \in PlacesOf(Op(c).do), Goto(c, pc),
               pc \in {"create", "v2", "other", ".zattrs"}
        PROVE  \E r \in CallType : CallIs(c, r) /\ call' = [call EXCEPT ![c] = r]
    BY <1>1, <2>2, GotoTyped
  <2> QED
    BY <1>5, <2>1, <2>2
<1> QED
  BY <1>4, <1>6, StaysTyped

(* A name of a key or of a directory that is under a path.                  *)
LEMMA NamesTyped ==
  ASSUME NodesInv, NEW p \in Seq(STRING), NEW d \in Seq(STRING), Len(d) > Len(p)
  PROVE  d[Len(p) + 1] \in STRING
<1>1. Len(p) + 1 \in 1 .. Len(d)
  <2>1. Len(p) \in Nat /\ Len(d) \in Nat
    OBVIOUS
  <2> QED
    BY <2>1
<1> QED
  BY <1>1

(* What is listed: more to do, and further.                                 *)
LEMMA ListedTyped ==
  ASSUME NodesInv, NEW c \in Callers, NEW gives, NEW next, Listed(c, gives, next), call[c].pos \in 1 .. Len(KeyOrder)
  PROVE  LET last == ListedTo(call[c].pos)
             r == [call[c] EXCEPT !.todo = call[c].todo \cup gives, !.pos = last + 1,
                                  !.at = IF last = Len(KeyOrder) THEN next ELSE call[c].at]
         IN  /\ call' = [call EXCEPT ![c] = r]
             /\ last \in call[c].pos .. Len(KeyOrder) /\ last \in Nat
<1>1. call \in [Callers -> CallType] /\ call[c] \in CallType /\ tree \in TreeType
  BY DEF NodesInv, NodesTyped
<1>2. ListedTo(call[c].pos) \in call[c].pos .. Len(KeyOrder)
  BY <1>1, ListedToIs
<1>3. call[c].pos \in Nat /\ Len(KeyOrder) \in Nat
  BY <1>1, KeysTyped DEF CallType
<1> QED
  BY <1>1, <1>2, <1>3 DEF Listed, CallType

LEMMA ListDirStays ==
  ASSUME NodesInv, NEW c \in Callers, ListDir(c)
  PROVE  NodesInv'
<1> DEFINE p == Op(c).path
           last == ListedTo(call[c].pos)
<1>1. ~At(c, "idle") /\ call[c].at = "list"
  BY DEF ListDir, At
<1>2. p \in Seq(STRING) /\ call[c] \in CallType /\ Op(c) \in Calls /\ call[c].at \in PlacesOf(Op(c).do)
  BY <1>1, OpIs
<1>3. CallIs(c, call[c]) /\ call \in [Callers -> CallType] /\ tree \in TreeType /\ dirs \subseteq Paths
  BY DEF NodesInv, NodesTyped
<1>4. call[c].pos \in 1 .. Len(KeyOrder) /\ call[c].pos \in Nat /\ call[c].todo \subseteq STRING
  BY <1>1, <1>2, <1>3, KeysTyped DEF CallIs, CallType
<1>5. "children" \in PlacesOf(Op(c).do) /\ "children" \in Places
  <2>1. Op(c).do \in {"create-array", "create-group", "open-array", "open-group", "write", "attributes",
                      "children", "open-arrays", "delete"}
    BY <1>2 DEF Calls
  <2> QED
    BY <1>1, <1>2, <2>1, PlaceIs DEF PlacesOf, Places
<1>6. call[c].n > 0 /\ call[c].n \in 0 .. Len(tree.calls[c]) /\ Op(c) = tree.calls[c][call[c].n]
  BY <1>1, <1>3 DEF CallIs, Op
<1>7. CASE tree.kind = "dir"
  <2> DEFINE r == [call[c] EXCEPT !.todo = DirNames(p), !.at = "children"]
  <2>1. DirNames(p) \subseteq STRING
    <3>1. dirs \subseteq Seq(STRING)
      BY <1>3, KeysTyped
    <3> QED
      BY <1>2, <3>1, NamesTyped DEF DirNames
  <2>2. r \in CallType /\ r.at = "children" /\ r.todo = DirNames(p) /\ r.n = call[c].n /\ r.pos = call[c].pos
    BY <1>2, <1>5, <2>1 DEF CallType
  <2>3. call' = [call EXCEPT ![c] = r]
    BY <1>3, <1>7 DEF ListDir
  <2> HIDE DEF r
  <2>4. CallIs(c, r)
    BY <1>3, <1>5, <1>6, <2>1, <2>2 DEF CallIs, Deleting
  <2> QED
    BY <2>2, <2>3, <2>4, StaysTyped DEF ListDir
<1>8. CASE tree.kind # "dir"
  <2> DEFINE gives == NamesIn(Listing(c) \cap DOMAIN held, p)
             r == [call[c] EXCEPT !.todo = call[c].todo \cup gives, !.pos = last + 1,
                                  !.at = IF last = Len(KeyOrder) THEN "children" ELSE call[c].at]
  <2>1. gives \subseteq STRING
    <3>1. Listing(c) \subseteq Seq(STRING) \X STRING
      BY <1>3, <1>4, ListingIs, KeysTyped
    <3>2. \A k \in Listing(c) : k[1] \in Seq(STRING)
      BY <3>1
    <3> QED
      BY <1>2, <3>2, NamesTyped DEF NamesIn
  <2>2. Listed(c, gives, "children")
    BY <1>8 DEF ListDir
  <2>3. call' = [call EXCEPT ![c] = r] /\ last \in call[c].pos .. Len(KeyOrder) /\ last \in Nat
    BY <1>4, <2>2, ListedTyped
  <2>4. /\ r \in CallType /\ r.n = call[c].n /\ r.pos = last + 1 /\ r.todo = call[c].todo \cup gives
        /\ r.at = IF last = Len(KeyOrder) THEN "children" ELSE "list"
    <3> DEFINE t == call[c].todo \cup gives
               a == IF last = Len(KeyOrder) THEN "children" ELSE call[c].at
    <3>1. t \in SUBSET (AllKeys \cup STRING)
      BY <1>4, <2>1
    <3>2. a \in Places /\ last + 1 \in Nat
      BY <1>1, <1>2, <1>5, <2>3 DEF CallType
    <3>3. a = IF last = Len(KeyOrder) THEN "children" ELSE "list"
      BY <1>1
    <3> HIDE DEF a, t
    <3>4. r = [call[c] EXCEPT !.todo = t, !.pos = last + 1, !.at = a]
      BY DEF a, t
    <3> HIDE DEF r, last
    <3>5. /\ r \in CallType /\ r.n = call[c].n /\ r.pos = last + 1 /\ r.todo = t /\ r.at = a
      <4>1. call[c] \in CallType
        BY <1>2
      <4> QED
        BY ONLY <3>1, <3>2, <3>4, <4>1 DEF CallType
    <3> QED
      BY <3>3, <3>5 DEF t
  <2> HIDE DEF r, gives
  <2>5. CallIs(c, r)
    <3>1. last \in Nat /\ last <= Len(KeyOrder) /\ Len(KeyOrder) \in Nat
      BY <2>3, KeysTyped
    <3> HIDE DEF last
    <3>2. r.pos \in 1 .. Len(KeyOrder) + 1 /\ (r.at = "list" => r.pos <= Len(KeyOrder))
      BY <2>4, <3>1
    <3>3. r.todo \subseteq STRING /\ r.at \notin Deleting /\ r.at # "list-keys" /\ r.at # "idle"
      BY <1>4, <2>1, <2>4 DEF Deleting
    <3>4. r.at \in PlacesOf(tree.calls[c][r.n].do)
      BY <1>1, <1>2, <1>5, <1>6, <2>4
    <3> QED
      BY <1>6, <2>4, <3>2, <3>3, <3>4 DEF CallIs
  <2> QED
    BY <2>3, <2>4, <2>5, StaysTyped DEF ListDir
<1> QED
  BY <1>7, <1>8

LEMMA ChildStays ==
  ASSUME NodesInv, NEW c \in Callers, Child(c) \/ V2Child(c)
  PROVE  NodesInv'
<1>1. ~At(c, "idle") /\ call[c].at = "children"
  BY DEF Child, V2Child, At
<1>2. Op(c).path \in Seq(STRING) /\ call[c] \in CallType
  BY <1>1, OpIs
<1>3. CallIs(c, call[c]) /\ call \in [Callers -> CallType] /\ held \in HeldType
  BY DEF NodesInv, NodesTyped
<1>4. call[c].todo \subseteq STRING
  BY <1>1, <1>3 DEF CallIs
<1>5. PICK name \in call[c].todo, more \in SUBSET (Seq(STRING) \X NodeKinds) :
        call' = [call EXCEPT ![c].todo = @ \ {name}, ![c].found = @ \cup more]
  <2>1. \A name \in call[c].todo : Append(Op(c).path, name) \in Seq(STRING)
    BY <1>2, <1>4
  <2>2. ASSUME NEW name \in call[c].todo, Has(Append(Op(c).path, name), "zarr.json")
        PROVE  held[<<Append(Op(c).path, name), "zarr.json">>] \in NodeKinds
    BY <1>3, <2>2, HeldIs DEF Has, NodeKinds
  <2>3. CASE Child(c)
    <3>1. PICK name \in call[c].todo :
            LET q == Append(Op(c).path, name)
            IN  call' = [call EXCEPT
                  ![c].todo = @ \ {name},
                  ![c].found = @ \cup (IF Has(q, "zarr.json") THEN {<<q, held[<<q, "zarr.json">>]>>} ELSE {})]
      BY <2>3 DEF Child
    <3> DEFINE q == Append(Op(c).path, name)
               more == IF Has(q, "zarr.json") THEN {<<q, held[<<q, "zarr.json">>]>>} ELSE {}
    <3>2. more \in SUBSET (Seq(STRING) \X NodeKinds)
      <4>1. q \in Seq(STRING)
        BY <2>1
      <4>2. CASE Has(q, "zarr.json")
        <5>1. held[<<q, "zarr.json">>] \in NodeKinds
          BY <2>2, <4>2
        <5> HIDE DEF q
        <5>2. <<q, held[<<q, "zarr.json">>]>> \in Seq(STRING) \X NodeKinds
          BY <4>1, <5>1
        <5> QED
          BY <4>2, <5>2
      <4>3. CASE ~Has(q, "zarr.json")
        BY <4>3
      <4> QED
        BY <4>2, <4>3
    <3> QED
      BY <3>1, <3>2
  <2>4. CASE V2Child(c)
    <3>1. PICK name \in call[c].todo :
            LET q == Append(Op(c).path, name)
            IN  call' = [call EXCEPT
                  ![c].todo = @ \ {name},
                  ![c].found = @ \cup (IF Has(q, ".zarray") THEN {<<q, "array2">>}
                                       ELSE IF Has(q, ".zgroup") THEN {<<q, "group2">>} ELSE {})]
      BY <2>4 DEF V2Child
    <3> DEFINE q == Append(Op(c).path, name)
               more == IF Has(q, ".zarray") THEN {<<q, "array2">>}
                       ELSE IF Has(q, ".zgroup") THEN {<<q, "group2">>} ELSE {}
    <3>2. more \in SUBSET (Seq(STRING) \X NodeKinds)
      <4>1. q \in Seq(STRING) /\ "array2" \in NodeKinds /\ "group2" \in NodeKinds
        BY <2>1 DEF NodeKinds
      <4>2. <<q, "array2">> \in Seq(STRING) \X NodeKinds /\ <<q, "group2">> \in Seq(STRING) \X NodeKinds
        BY <4>1
      <4> HIDE DEF q
      <4> QED
        BY <4>2
    <3> QED
      BY <3>1, <3>2
  <2> QED
    BY <2>3, <2>4
<1> DEFINE r == [call[c] EXCEPT !.todo = call[c].todo \ {name}, !.found = call[c].found \cup more]
<1>6. r \in CallType /\ r.at = "children" /\ r.n = call[c].n /\ r.pos = call[c].pos /\ r.todo \subseteq call[c].todo
  BY <1>1, <1>2 DEF CallType
<1>7. call' = [call EXCEPT ![c] = r]
  BY <1>3, <1>5 DEF CallType
<1> HIDE DEF r
<1>8. CallIs(c, r)
  <2>1. "children" \notin Deleting
    BY DEF Deleting
  <2> QED
    BY <1>1, <1>3, <1>4, <1>6, <2>1 DEF CallIs
<1> QED
  BY <1>6, <1>7, <1>8, StaysTyped DEF Child, V2Child

LEMMA OpenedStays ==
  ASSUME NodesInv, NEW c \in Callers, Children(c) \/ OpenArrays(c)
  PROVE  NodesInv'
<1>1. CASE Children(c)
  <2>1. PICK r \in CallType : CallIs(c, r) /\ call' = [call EXCEPT ![c] = r]
    BY <1>1, EndsTyped DEF Children, Results
  <2> QED
    BY <1>1, <2>1, StaysTyped DEF Children
<1>2. CASE OpenArrays(c)
  <2> DEFINE r == [call[c] EXCEPT !.at = "idle", !.result = "ok", !.found = {n \in call[c].found : n[2] \in Arrays}]
  <2>1. call \in [Callers -> CallType] /\ call[c] \in CallType /\ CallIs(c, call[c])
    BY DEF NodesInv, NodesTyped
  <2>2. r \in CallType /\ r.at = "idle" /\ r.n = call[c].n /\ r.pos = call[c].pos
    <3>1. {n \in call[c].found : n[2] \in Arrays} \in SUBSET (Seq(STRING) \X NodeKinds)
      BY <2>1 DEF CallType
    <3>2. "idle" \in Places /\ "ok" \in Results
      BY DEF Places, Results
    <3> QED
      BY <2>1, <3>1, <3>2 DEF CallType
  <2>3. call' = [call EXCEPT ![c] = r]
    BY <1>2, <2>1 DEF OpenArrays
  <2> HIDE DEF r
  <2>4. CallIs(c, r)
    BY <2>1, <2>2 DEF CallIs, Deleting
  <2> QED
    BY <1>2, <2>2, <2>3, <2>4, StaysTyped DEF OpenArrays
<1> QED
  BY <1>1, <1>2

(* A place of a delete, from one.                                           *)
LEMMA DeletePlaces ==
  ASSUME NodesInv, NEW c \in Callers,
         call[c].at \in {"delete-zarr.json", "delete-.zarray", "delete-.zgroup"} \cup Deleting
  PROVE  /\ ~At(c, "idle") /\ Op(c).do = "delete" /\ Op(c).path \in Seq(STRING)
         /\ call[c] \in CallType /\ CallIs(c, call[c]) /\ call \in [Callers -> CallType]
         /\ {"delete-zarr.json", "delete-.zarray", "delete-.zgroup"} \cup Deleting \subseteq PlacesOf(Op(c).do) \cap Places
<1>1. ~At(c, "idle")
  BY DEF At, Deleting
<1>2. Op(c).path \in Seq(STRING) /\ call[c] \in CallType /\ Op(c) \in Calls /\ call[c].at \in PlacesOf(Op(c).do)
  BY <1>1, OpIs
<1>3. Op(c).do = "delete"
  <2>1. Op(c).do \in {"create-array", "create-group", "open-array", "open-group", "write", "attributes",
                      "children", "open-arrays", "delete"}
    BY <1>2 DEF Calls
  <2> QED
    BY <1>2, <2>1, PlaceIs
<1>4. {"delete-zarr.json", "delete-.zarray", "delete-.zgroup"} \cup Deleting \subseteq PlacesOf(Op(c).do) \cap Places
  BY <1>3 DEF PlacesOf, Places
<1> QED
  BY <1>1, <1>2, <1>3, <1>4 DEF NodesInv, NodesTyped

(* What a delete of keys becomes.                                           *)
LEMMA DeletingIs ==
  ASSUME NodesInv, NEW c \in Callers, call[c].at \in Deleting, NEW todo \in SUBSET AllKeys, NEW pos \in Nat, NEW at \in Deleting,
         NEW r, r = [call[c] EXCEPT !.todo = todo, !.pos = pos, !.at = at],
         pos \in 1 .. Len(KeyOrder) + 1, at = "list-keys" => pos <= Len(KeyOrder),
         IsFiniteSet(todo), Cardinality(todo) <= Batch
  PROVE  r \in CallType /\ CallIs(c, r)
<1>1. /\ Op(c).do = "delete" /\ call[c] \in CallType /\ CallIs(c, call[c]) /\ at \in PlacesOf(Op(c).do)
      /\ at \in Places /\ ~At(c, "idle")
  BY DeletePlaces
<1>2. /\ r \in CallType /\ r.n = call[c].n /\ r.pos = pos /\ r.todo = todo /\ r.at = at
  BY <1>1 DEF CallType
<1>3. call[c].n > 0 /\ call[c].n \in 0 .. Len(tree.calls[c]) /\ Op(c) = tree.calls[c][call[c].n]
  BY <1>1 DEF CallIs, At, Op
<1>4. at \notin {"list", "children", "delete-zarr.json", "delete-.zarray", "delete-.zgroup"}
  BY DEF Deleting
<1>5. CallIs(c, r)
  BY <1>1, <1>2, <1>3, <1>4 DEF CallIs
<1> QED
  BY <1>2, <1>5

LEMMA ListStays ==
  ASSUME NodesInv, NEW c \in Callers, List(c)
  PROVE  NodesInv'
<1> DEFINE under == {k \in Listing(c) \cap DOMAIN held : IsPrefix(Op(c).path, k[1]) /\ k[2] # "/"}
           most == Batch - Cardinality(call[c].todo)
           last == ListedTo(call[c].pos)
<1>1. call[c].at = "list-keys" /\ call[c].at \in Deleting
  BY DEF List, At, Deleting
<1>2. call[c] \in CallType /\ CallIs(c, call[c]) /\ call \in [Callers -> CallType] /\ tree \in TreeType
  BY <1>1, DeletePlaces DEF NodesInv, NodesTyped
<1>3. /\ call[c].pos \in 1 .. Len(KeyOrder) /\ call[c].pos \in Nat
      /\ call[c].todo \subseteq AllKeys /\ IsFiniteSet(call[c].todo) /\ Cardinality(call[c].todo) <= Batch
      /\ Cardinality(call[c].todo) \in Nat /\ Batch \in Nat /\ Len(KeyOrder) \in Nat
  BY <1>1, <1>2, KeysTyped, FS_CardinalityType, NodesAssumption DEF CallIs, CallType
<1>4. under \subseteq AllKeys /\ IsFiniteSet(under) /\ Cardinality(under) \in Nat
  <2>1. Listing(c) \subseteq AllKeys /\ IsFiniteSet(Listing(c))
    BY <1>2, <1>3, ListingIs
  <2>2. under \subseteq Listing(c)
    OBVIOUS
  <2> QED
    BY <2>1, <2>2, FS_Subset, FS_CardinalityType
<1>5. ASSUME NEW some \in SUBSET under, Cardinality(some) <= most
      PROVE  /\ call[c].todo \cup some \in SUBSET AllKeys /\ IsFiniteSet(call[c].todo \cup some)
             /\ Cardinality(call[c].todo \cup some) <= Batch
  <2>1. IsFiniteSet(some) /\ Cardinality(some) \in Nat
    BY <1>4, FS_Subset, FS_CardinalityType
  <2>2. IsFiniteSet(call[c].todo \cap some) /\ Cardinality(call[c].todo \cap some) \in Nat
    BY <2>1, FS_Subset, FS_CardinalityType
  <2>3. /\ IsFiniteSet(call[c].todo \cup some)
        /\ Cardinality(call[c].todo \cup some)
             = Cardinality(call[c].todo) + Cardinality(some) - Cardinality(call[c].todo \cap some)
    BY <1>3, <2>1, FS_Union
  <2>4. Cardinality(call[c].todo \cup some) <= Batch
    BY <1>3, <1>5, <2>1, <2>2, <2>3
  <2> QED
    BY <1>3, <1>4, <2>3, <2>4
<1>6. StoreStays
  BY DEF List
<1>7. CASE Cardinality(under) < most
  <2> DEFINE at == IF last = Len(KeyOrder) THEN "delete-keys" ELSE call[c].at
             todo == call[c].todo \cup under
             pos == last + 1
             r == [call[c] EXCEPT !.todo = todo, !.pos = pos, !.at = at]
  <2>1. Listed(c, under, "delete-keys")
    BY <1>7 DEF List
  <2>2. call' = [call EXCEPT ![c] = r] /\ last \in call[c].pos .. Len(KeyOrder) /\ last \in Nat
    BY <1>3, <2>1, ListedTyped
  <2>3. todo \in SUBSET AllKeys /\ IsFiniteSet(todo) /\ Cardinality(todo) <= Batch
    <3>1. under \in SUBSET under /\ Cardinality(under) <= most
      BY <1>3, <1>4, <1>7
    <3> QED
      BY <1>5, <3>1
  <2>4. at \in Deleting /\ (at = "list-keys" => pos <= Len(KeyOrder)) /\ pos \in Nat /\ pos \in 1 .. Len(KeyOrder) + 1
    BY <1>1, <1>3, <2>2 DEF Deleting
  <2>5. r = [call[c] EXCEPT !.todo = todo, !.pos = pos, !.at = at]
    OBVIOUS
  <2> HIDE DEF r, at, todo, pos
  <2>6. r \in CallType /\ CallIs(c, r)
    BY <1>1, <2>3, <2>4, <2>5, DeletingIs
  <2> QED
    BY <1>6, <2>2, <2>6, StaysTyped
<1>8. CASE ~(Cardinality(under) < most)
  <2>1. PICK some \in SUBSET under :
          /\ Cardinality(some) = most
          /\ call' = [call EXCEPT ![c].todo = @ \cup some, ![c].at = "delete-batch"]
    BY <1>8 DEF List
  <2> DEFINE at == "delete-batch"
             todo == call[c].todo \cup some
             pos == call[c].pos
             r == [call[c] EXCEPT !.todo = todo, !.pos = pos, !.at = at]
  <2>2. call' = [call EXCEPT ![c] = r]
    BY <1>2, <2>1 DEF CallType
  <2>3. todo \in SUBSET AllKeys /\ IsFiniteSet(todo) /\ Cardinality(todo) <= Batch
    <3>1. Cardinality(some) <= most
      BY <1>3, <2>1
    <3> QED
      BY <1>5, <3>1
  <2>4. at \in Deleting /\ at # "list-keys" /\ pos \in Nat /\ pos \in 1 .. Len(KeyOrder) + 1
    BY <1>3 DEF Deleting
  <2>5. r = [call[c] EXCEPT !.todo = todo, !.pos = pos, !.at = at]
    OBVIOUS
  <2> HIDE DEF r, at, todo, pos
  <2>6. r \in CallType /\ CallIs(c, r)
    BY <1>1, <2>3, <2>4, <2>5, DeletingIs
  <2> QED
    BY <1>6, <2>2, <2>6, StaysTyped
<1> QED
  BY <1>7, <1>8

LEMMA DeletePrefixStays ==
  ASSUME NodesInv, NEW c \in Callers, DeletePrefix(c)
  PROVE  NodesInv'
<1>1. StoreStays
  BY DEF DeletePrefix
<1>2. CASE At(c, "delete-keys") /\ Ends(c, "ok")
  <2>1. PICK r \in CallType : CallIs(c, r) /\ call' = [call EXCEPT ![c] = r]
    BY <1>2, EndsTyped DEF Results
  <2> QED
    BY <1>1, <2>1, StaysTyped
<1>3. CASE At(c, "delete-batch") /\ call' = [call EXCEPT ![c].at = "list-keys", ![c].pos = 1]
  <2> DEFINE at == "list-keys"
             todo == call[c].todo
             pos == 1
             r == [call[c] EXCEPT !.todo = todo, !.pos = pos, !.at = at]
  <2>1. call[c].at \in Deleting
    BY <1>3 DEF At, Deleting
  <2>2. call[c] \in CallType /\ CallIs(c, call[c]) /\ call \in [Callers -> CallType]
    BY <2>1, DeletePlaces
  <2>3. call' = [call EXCEPT ![c] = r]
    BY <1>3, <2>2 DEF CallType
  <2>4. todo \in SUBSET AllKeys /\ IsFiniteSet(todo) /\ Cardinality(todo) <= Batch
    BY <2>1, <2>2 DEF CallIs
  <2>5. at \in Deleting /\ pos <= Len(KeyOrder) /\ pos \in Nat /\ pos \in 1 .. Len(KeyOrder) + 1
    BY KeysTyped DEF Deleting
  <2>6. r = [call[c] EXCEPT !.todo = todo, !.pos = pos, !.at = at]
    OBVIOUS
  <2> HIDE DEF r, at, todo, pos
  <2>7. r \in CallType /\ CallIs(c, r)
    BY <2>1, <2>4, <2>5, <2>6, DeletingIs
  <2> QED
    BY <1>1, <2>3, <2>7, StaysTyped
<1> QED
  BY <1>2, <1>3 DEF DeletePrefix
-----------------------------------------------------------------------------
(* What puts into the store, or deletes of it.                              *)
LEMMA ChangeTyped ==
  ASSUME NodesInv, NEW c \in Callers, NEW r \in CallType, CallIs(c, r), call' = [call EXCEPT ![c] = r],
         NEW h \in HeldType, Becomes(h), tree' = tree, wrote' \subseteq Data
  PROVE  NodesInv'
<1>1. tree' \in TreeType /\ tree'.calls = tree.calls
  BY DEF NodesInv, NodesTyped
<1>2. /\ call' \in [Callers -> CallType] /\ Plans(tree)'
      /\ \A d \in Callers : CallIs(d, call[d])'
  BY <1>1, Moves
<1>3. /\ held' = h /\ dirs' \subseteq Paths
      /\ since' \in [Callers -> [ever : SUBSET (Paths \X NodeKinds), always : SUBSET (Paths \X NodeKinds)]]
  BY BecomesTyped DEF NodesInv
<1> QED
  BY <1>1, <1>2, <1>3 DEF NodesInv, NodesTyped

(* A call that writes is of a key there may be.                             *)
LEMMA WrittenKey ==
  ASSUME NodesInv, NEW c \in Callers, ~At(c, "idle"), Op(c).do \in {"create-array", "create-group", "attributes"}
  PROVE  <<Op(c).path, "zarr.json">> \in AllKeys
<1>1. call[c].n \in DOMAIN tree.calls[c]
  BY OpIs
<1> QED
  BY <1>1 DEF NodesInv, NodesTyped, Plans, Op

LEMMA CreateTyped ==
  ASSUME NodesInv, NEW c \in Callers, Create(c)
  PROVE  NodesInv'
<1> DEFINE k == <<Op(c).path, "zarr.json">>
<1>1. ~At(c, "idle") /\ Op(c).do \in {"create-array", "create-group"}
  BY DEF Create, At, CreateArray, CreateGroup
<1>2. k \in AllKeys
  BY <1>1, WrittenKey
<1>3. held \in HeldType /\ wrote \subseteq Data
  BY DEF NodesInv, NodesTyped
<1>4. PICK v \in {"array", "group", "data"} : Becomes(With(k, v)) /\ wrote' \subseteq wrote /\ tree' = tree
  BY DEF Create, CreateArray, CreateGroup
<1>5. With(k, v) \in HeldType
  BY <1>2, <1>3, WithTyped
<1>6. PICK r \in CallType : CallIs(c, r) /\ call' = [call EXCEPT ![c] = r]
  <2>1. PICK result \in Results : Ends(c, result)
    BY DEF Create, Results
  <2> QED
    BY <2>1, EndsTyped
<1>7. wrote' \subseteq Data
  BY <1>3, <1>4
<1> QED
  BY <1>4, <1>5, <1>6, <1>7, ChangeTyped

LEMMA WriteTyped ==
  ASSUME NodesInv, NEW c \in Callers, WriteChunk(c)
  PROVE  NodesInv'
<1>1. PICK k \in Chunks(Op(c).path) : Becomes(With(k, "data")) /\ wrote' = wrote \cup {k}
  BY DEF WriteChunk
<1>2. k \in Data /\ k \in AllKeys
  BY DEF Chunks, Data
<1>3. held \in HeldType /\ wrote \subseteq Data
  BY DEF NodesInv, NodesTyped
<1>4. With(k, "data") \in HeldType
  BY <1>2, <1>3, WithTyped
<1>5. PICK r \in CallType : CallIs(c, r) /\ call' = [call EXCEPT ![c] = r]
  BY EndsTyped DEF WriteChunk, Results
<1>6. wrote' \subseteq Data /\ tree' = tree
  BY <1>1, <1>2, <1>3 DEF WriteChunk
<1> QED
  BY <1>1, <1>4, <1>5, <1>6, ChangeTyped

LEMMA AttributesTyped ==
  ASSUME NodesInv, NEW c \in Callers, SetAttributes(c)
  PROVE  NodesInv'
<1> DEFINE k == <<Op(c).path, "zarr.json">>
<1>1. ~At(c, "idle") /\ Op(c).do = "attributes"
  <2>1. ~At(c, "idle") /\ call[c].at = "attributes"
    BY DEF SetAttributes, At
  <2>2. Op(c) \in Calls /\ call[c].at \in PlacesOf(Op(c).do)
    BY <2>1, OpIs
  <2>3. Op(c).do \in {"create-array", "create-group", "open-array", "open-group", "write", "attributes",
                      "children", "open-arrays", "delete"}
    BY <2>2 DEF Calls
  <2> QED
    BY <2>1, <2>2, <2>3, PlaceIs
<1>2. k \in AllKeys
  BY <1>1, WrittenKey
<1>3. held \in HeldType /\ wrote \subseteq Data
  BY DEF NodesInv, NodesTyped
<1>4. With(k, call[c].handle) \in HeldType
  <2>1. call[c].handle \in {"array", "group", "data"}
    BY DEF SetAttributes
  <2> QED
    BY <1>2, <1>3, <2>1, WithTyped
<1>5. PICK r \in CallType : CallIs(c, r) /\ call' = [call EXCEPT ![c] = r]
  BY EndsTyped DEF SetAttributes, Results
<1>6. Becomes(With(k, call[c].handle)) /\ wrote' \subseteq Data /\ tree' = tree
  BY <1>3 DEF SetAttributes
<1> QED
  BY <1>4, <1>5, <1>6, ChangeTyped

LEMMA DeleteMetadataTyped ==
  ASSUME NodesInv, NEW c \in Callers, DeleteMetadata(c)
  PROVE  NodesInv'
<1>1. call[c].at \in {"delete-zarr.json", "delete-.zarray", "delete-.zgroup"} \cup Deleting
  BY DEF DeleteMetadata, DeleteKey, At
<1>2. /\ ~At(c, "idle") /\ call[c] \in CallType /\ CallIs(c, call[c]) /\ call \in [Callers -> CallType]
      /\ {"delete-zarr.json", "delete-.zarray", "delete-.zgroup"} \cup Deleting \subseteq PlacesOf(Op(c).do) \cap Places
  BY <1>1, DeletePlaces
<1>3. \E r \in CallType : CallIs(c, r) /\ call' = [call EXCEPT ![c] = r]
  <2>0. call[c].at \in {"delete-zarr.json", "delete-.zarray", "delete-.zgroup"}
    BY DEF DeleteMetadata, DeleteKey, At
  <2>3. call[c].pos = 1 /\ call[c].todo = {}
    BY <1>2, <2>0 DEF CallIs
  <2>1. CASE Goto(c, "delete-.zarray") \/ Goto(c, "delete-.zgroup")
    <3>1. ASSUME NEW pc \in {"delete-.zarray", "delete-.zgroup"}, Goto(c, pc)
          PROVE  \E r \in CallType : CallIs(c, r) /\ call' = [call EXCEPT ![c] = r]
      <4>1. pc \in Places \ (Deleting \cup {"list", "children"}) /\ pc \in PlacesOf(Op(c).do)
        BY <1>2 DEF Deleting
      <4> QED
        BY <1>2, <2>3, <3>1, <4>1, GotoTyped
    <3> QED
      BY <2>1, <3>1
  <2>2. CASE Goto(c, "list-keys")
    <3> DEFINE r == [call[c] EXCEPT !.at = "list-keys"]
    <3>1. r \in CallType /\ r.at = "list-keys" /\ r.n = call[c].n /\ r.pos = 1 /\ r.todo = {}
      BY <1>2, <2>3 DEF CallType, Deleting
    <3>2. call' = [call EXCEPT ![c] = r]
      BY <1>2, <2>2 DEF Goto
    <3>3. call[c].n > 0 /\ call[c].n \in 0 .. Len(tree.calls[c]) /\ Op(c) = tree.calls[c][call[c].n]
      BY <1>2 DEF CallIs, At, Op
    <3>4. IsFiniteSet(r.todo) /\ Cardinality(r.todo) = 0 /\ Batch \in Nat /\ Len(KeyOrder) \in Nat \ {0}
      BY <3>1, FS_EmptySet, NodesAssumption, KeysTyped
    <3>5. "list-keys" \in PlacesOf(Op(c).do)
      BY <1>2 DEF Deleting
    <3> HIDE DEF r
    <3>6. CallIs(c, r)
      BY <3>1, <3>3, <3>4, <3>5 DEF CallIs
    <3> QED
      BY <3>1, <3>2, <3>6
  <2> QED
    BY <2>1, <2>2 DEF DeleteMetadata, DeleteKey
<1>4. PICK k : Becomes(Without(k)) /\ wrote' = wrote /\ tree' = tree
  BY DEF DeleteMetadata, DeleteKey
<1>5. Without(k) \in HeldType /\ wrote' \subseteq Data
  BY <1>4, WithoutTyped DEF NodesInv, NodesTyped
<1> QED
  BY <1>3, <1>4, <1>5, ChangeTyped

LEMMA DeleteListedTyped ==
  ASSUME NodesInv, NEW c \in Callers, DeleteListed(c)
  PROVE  NodesInv'
<1>1. PICK k \in call[c].todo : Becomes(Without(k)) /\ call' = [call EXCEPT ![c].todo = @ \ {k}]
  BY DEF DeleteListed
<1>2. call[c].at \in Deleting /\ call[c].at # "list-keys"
  BY DEF DeleteListed, At, Deleting
<1>3. call[c] \in CallType /\ CallIs(c, call[c]) /\ call \in [Callers -> CallType]
  BY <1>2, DeletePlaces
<1> DEFINE at == call[c].at
           todo == call[c].todo \ {k}
           pos == call[c].pos
           r == [call[c] EXCEPT !.todo = todo, !.pos = pos, !.at = at]
<1>4. call' = [call EXCEPT ![c] = r]
  BY <1>1, <1>3 DEF CallType
<1>5. todo \in SUBSET AllKeys /\ IsFiniteSet(todo) /\ Cardinality(todo) <= Batch
  <2>1. call[c].todo \subseteq AllKeys /\ IsFiniteSet(call[c].todo) /\ Cardinality(call[c].todo) <= Batch
    BY <1>2, <1>3 DEF CallIs
  <2>2. /\ IsFiniteSet(todo) /\ Cardinality(todo) <= Cardinality(call[c].todo)
        /\ Cardinality(todo) \in Nat /\ Cardinality(call[c].todo) \in Nat
    BY <2>1, FS_Subset, FS_CardinalityType
  <2> QED
    BY <2>1, <2>2, NodesAssumption
<1>6. at \in Deleting /\ at # "list-keys" /\ pos \in Nat /\ pos \in 1 .. Len(KeyOrder) + 1
  BY <1>2, <1>3 DEF CallIs, CallType
<1>7. r = [call[c] EXCEPT !.todo = todo, !.pos = pos, !.at = at]
  OBVIOUS
<1> HIDE DEF r, at, todo, pos
<1>8. r \in CallType /\ CallIs(c, r)
  BY <1>2, <1>5, <1>6, <1>7, DeletingIs
<1>9. Without(k) \in HeldType /\ tree' = tree /\ wrote' \subseteq Data
  BY WithoutTyped DEF NodesInv, NodesTyped, DeleteListed
<1> QED
  BY <1>1, <1>4, <1>8, <1>9, ChangeTyped
-----------------------------------------------------------------------------
StepOf(c) ==
  \/ Begin(c) \/ Fail(c)
  \/ MustBeNew(c) \/ Create(c) \/ WriteChunk(c) \/ SetAttributes(c) \/ ReadOnly2(c)
  \/ ReadMetadata(c) \/ ReadV2(c) \/ ReadOther(c) \/ ReadAttributesV2(c)
  \/ ListDir(c) \/ Child(c) \/ V2Child(c) \/ Children(c) \/ OpenArrays(c)
  \/ DeleteMetadata(c) \/ List(c) \/ DeleteListed(c) \/ DeletePrefix(c)

LEMMA NodesStep ==
  ASSUME NodesInv, [NodeNext]_nodeVars
  PROVE  NodesInv'
<1>1. CASE UNCHANGED nodeVars
  BY <1>1 DEF nodeVars, NodesInv, NodesTyped, Plans, CallIs
<1>2. ASSUME NEW c \in Callers, StepOf(c)
      PROVE  NodesInv'
  <2>1. CASE Begin(c) \/ Fail(c)
    BY <2>1, BeginTyped, FailTyped
  <2>2. CASE MustBeNew(c) \/ ReadOnly2(c) \/ ReadMetadata(c) \/ ReadV2(c) \/ ReadOther(c) \/ ReadAttributesV2(c)
    BY <2>2, OpenStays
  <2>3. CASE ListDir(c) \/ Child(c) \/ V2Child(c) \/ Children(c) \/ OpenArrays(c)
    BY <2>3, ListDirStays, ChildStays, OpenedStays
  <2>4. CASE List(c) \/ DeletePrefix(c)
    BY <2>4, ListStays, DeletePrefixStays
  <2>5. CASE Create(c) \/ WriteChunk(c) \/ SetAttributes(c)
    BY <2>5, CreateTyped, WriteTyped, AttributesTyped
  <2>6. CASE DeleteMetadata(c) \/ DeleteListed(c)
    BY <2>6, DeleteMetadataTyped, DeleteListedTyped
  <2> QED
    BY <1>2, <2>1, <2>2, <2>3, <2>4, <2>5, <2>6 DEF StepOf
<1> QED
  BY <1>1, <1>2 DEF NodeNext, StepOf

LEMMA TreesAre == \A t \in Trees \cup {NoTree} : t \in TreeType /\ Plans(t)
<1>1. ASSUME NEW t \in Trees PROVE t \in TreeType /\ Plans(t)
  BY NodesAssumption DEF TreeType, HeldType, Plans
<1>2. NoTree \in TreeType /\ Plans(NoTree)
  <2>1. <<>> \in HeldType
    <3>1. <<>> \in [{} -> {"array", "group", "data"}] /\ {} \in SUBSET AllKeys
      OBVIOUS
    <3> QED
      BY <3>1, HeldIs
  <2>2. [c \in Callers |-> <<>>] \in [Callers -> Seq(Calls)]
    <3>1. <<>> \in Seq(Calls)
      OBVIOUS
    <3> QED
      BY <3>1
  <2>3. NoTree \in TreeType /\ NoTree.calls = [c \in Callers |-> <<>>]
    BY <2>1, <2>2 DEF NoTree, TreeType
  <2>4. \A c \in Callers : NoTree.calls[c] = <<>>
    BY <2>3
  <2>5. \A c \in Callers : DOMAIN NoTree.calls[c] = {}
    BY <2>4
  <2> QED
    BY <2>3, <2>5 DEF Plans
<1> QED
  BY <1>1, <1>2

LEMMA NodesInit ==
  ASSUME InitNodes
  PROVE  NodesInv
<1>1. tree \in TreeType /\ Plans(tree)
  BY TreesAre DEF InitNodes
<1>2. held \in HeldType
  BY <1>1 DEF InitNodes, TreeType
<1>3. DOMAIN held \subseteq AllKeys
  BY <1>2, HeldIs
<1>4. dirs \subseteq Paths /\ wrote \subseteq Data
  BY <1>3 DEF InitNodes, Paths, Data
<1>5. Idle \in CallType
  BY DEF Idle, CallType, Results, Places
<1>6. call \in [Callers -> CallType]
  BY <1>5 DEF InitNodes
<1>7. since \in [Callers -> [ever : SUBSET (Paths \X NodeKinds), always : SUBSET (Paths \X NodeKinds)]]
  BY DEF InitNodes
<1>8. ASSUME NEW c \in Callers PROVE CallIs(c, call[c])
  <2>1. call[c] = Idle /\ Idle.at = "idle" /\ Idle.n = 0 /\ Idle.pos = 1
    BY DEF InitNodes, Idle
  <2>2. Len(tree.calls[c]) \in Nat /\ Len(KeyOrder) \in Nat
    BY <1>1, KeysTyped DEF TreeType
  <2> QED
    BY <2>1, <2>2 DEF CallIs, Deleting
<1> QED
  BY <1>1, <1>2, <1>4, <1>6, <1>7, <1>8 DEF NodesInv, NodesTyped

LEMMA NodesAreTyped == Spec => []NodesInv
<1>1. Init => NodesInv
  BY NodesInit DEF Init
<1>2. NodesInv /\ [Next]_vars => NodesInv'
  <2> SUFFICES ASSUME NodesInv, [Next]_vars PROVE NodesInv'
    OBVIOUS
  <2>1. [NodeNext]_nodeVars
    BY DEF Next, vars
  <2> QED
    BY <2>1, NodesStep
<1> QED
  BY <1>1, <1>2, PTL DEF Spec
-----------------------------------------------------------------------------
(* What was there all the while a call lasts is still there, and a create   *)
(* goes on only if there was no node of version 3 when it looked.           *)
Unmade(c) == \A node \in since[c].always : node[1] = Op(c).path => node[2] \notin {"array", "group"}
AlwaysThere ==
  \A c \in Callers :
    /\ ~At(c, "idle") => since[c].always \subseteq NodesOf(held)
    /\ At(c, "create") => Unmade(c)

LEMMA NodesOfIs ==
  ASSUME NEW h, NEW node \in NodesOf(h)
  PROVE  node[1] \in Paths /\ node[2] = NodeAt(h, node[1]) /\ node = <<node[1], NodeAt(h, node[1])>>
BY DEF NodesOf

(* What a step of one call leaves alone.                                    *)
LEMMA OthersStay ==
  ASSUME NodesInv, NEW c \in Callers, StepOf(c)
  PROVE  /\ tree'.calls = tree.calls /\ tree'.kind = tree.kind /\ tree'.format = tree.format
         /\ \A d \in Callers : d # c => call'[d] = call[d]
<1>1. CASE Fail(c)
  BY <1>1, FailTyped DEF Fail, Ends, NodesInv, NodesTyped
<1>2. CASE ~Fail(c)
  <2>1. tree' = tree
    BY <1>2 DEF StepOf, Begin, MustBeNew, Create, WriteChunk, SetAttributes, ReadOnly2, ReadMetadata, ReadV2,
         ReadOther, ReadAttributesV2, ListDir, Child, V2Child, Children, OpenArrays, DeleteMetadata, DeleteKey,
         List, DeleteListed, DeletePrefix, StoreStays
  <2>2. ASSUME NEW d \in Callers, d # c PROVE call'[d] = call[d]
    <3>1. d \in DOMAIN call
      BY DEF NodesInv, NodesTyped
    <3>2. CASE Begin(c) \/ MustBeNew(c) \/ Create(c) \/ WriteChunk(c) \/ SetAttributes(c) \/ ReadOnly2(c)
      BY <2>2, <3>1, <3>2 DEF Begin, MustBeNew, Create, WriteChunk, SetAttributes, ReadOnly2, Ends, Goto
    <3>3. CASE ReadMetadata(c) \/ ReadV2(c) \/ ReadOther(c) \/ ReadAttributesV2(c)
      BY <2>2, <3>1, <3>3 DEF ReadMetadata, ReadV2, ReadOther, ReadAttributesV2, Ends, Goto
    <3>4. CASE ListDir(c) \/ Child(c) \/ V2Child(c) \/ Children(c) \/ OpenArrays(c)
      BY <2>2, <3>1, <3>4 DEF ListDir, Listed, Child, V2Child, Children, OpenArrays, Ends
    <3>5. CASE DeleteMetadata(c) \/ List(c)
      BY <2>2, <3>1, <3>5 DEF DeleteMetadata, DeleteKey, List, Listed, Goto
    <3>6. CASE DeleteListed(c) \/ DeletePrefix(c)
      BY <2>2, <3>1, <3>6 DEF DeleteListed, DeletePrefix, Ends
    <3> QED
      BY <1>2, <3>2, <3>3, <3>4, <3>5, <3>6 DEF StepOf
  <2> QED
    BY <2>1, <2>2
<1> QED
  BY <1>1, <1>2

(* Where a call goes on from where.                                         *)
Ways ==
  {<<"new", "create">>, <<"zarr.json", "v2">>, <<"v2", ".zattrs">>, <<"v2", "other">>, <<"list", "children">>,
   <<"delete-zarr.json", "delete-.zarray">>, <<"delete-.zarray", "delete-.zgroup">>,
   <<"delete-.zgroup", "list-keys">>, <<"list-keys", "delete-keys">>, <<"list-keys", "delete-batch">>,
   <<"delete-batch", "list-keys">>}

LEMMA ListedMoves ==
  ASSUME NodesInv, NEW c \in Callers, NEW gives, NEW next, Listed(c, gives, next)
  PROVE  /\ call'[c].n = call[c].n /\ call'[c].handle = call[c].handle /\ call'[c].result = call[c].result
         /\ call'[c].at = (IF ListedTo(call[c].pos) = Len(KeyOrder) THEN next ELSE call[c].at)
         /\ call'[c].todo = call[c].todo \cup gives /\ call'[c].pos = ListedTo(call[c].pos) + 1
         /\ call'[c].found = call[c].found
<1>1. call \in [Callers -> CallType] /\ call[c] \in CallType
  BY DEF NodesInv, NodesTyped
<1> DEFINE pos == ListedTo(call[c].pos) + 1
           at == IF ListedTo(call[c].pos) = Len(KeyOrder) THEN next ELSE call[c].at
           todo == call[c].todo \cup gives
<1>2. call' = [call EXCEPT ![c] = [call[c] EXCEPT !.todo = todo, !.pos = pos, !.at = at]]
  BY <1>1 DEF Listed, CallType
<1> HIDE DEF pos, at, todo
<1>3. /\ call'[c].n = call[c].n /\ call'[c].handle = call[c].handle /\ call'[c].result = call[c].result
      /\ call'[c].at = at /\ call'[c].todo = todo /\ call'[c].pos = pos /\ call'[c].found = call[c].found
  BY <1>1, <1>2 DEF CallType
<1> QED
  BY <1>3 DEF pos, at, todo

LEMMA GoesOn ==
  ASSUME NodesInv, NEW c \in Callers, StepOf(c), ~Begin(c)
  PROVE  /\ call'[c].n = call[c].n /\ call'[c].handle = call[c].handle /\ Op(c)' = Op(c) /\ ~At(c, "idle")
         /\ \/ call'[c].at = "idle"
            \/ call'[c].at = call[c].at /\ call'[c].result = call[c].result
            \/ <<call[c].at, call'[c].at>> \in Ways /\ call'[c].result = call[c].result
<1>1. call \in [Callers -> CallType] /\ call[c] \in CallType
  BY DEF NodesInv, NodesTyped
<1> DEFINE way == \/ call'[c].at = "idle"
                  \/ call'[c].at = call[c].at /\ call'[c].result = call[c].result
                  \/ <<call[c].at, call'[c].at>> \in Ways /\ call'[c].result = call[c].result
<1>2. call'[c].n = call[c].n /\ call'[c].handle = call[c].handle /\ ~At(c, "idle") /\ way
  <2>1. CASE Fail(c)
    BY <1>1, <2>1 DEF Fail, Ends, CallType
  <2>2. CASE MustBeNew(c)
    BY <1>1, <2>2 DEF MustBeNew, Ends, Goto, At, CallType, Ways
  <2>3. CASE Create(c) \/ WriteChunk(c) \/ SetAttributes(c)
    BY <1>1, <2>3 DEF Create, WriteChunk, SetAttributes, Ends, At, CallType
  <2>4. CASE ReadOnly2(c) \/ ReadOther(c) \/ ReadAttributesV2(c)
    BY <1>1, <2>4 DEF ReadOnly2, ReadOther, ReadAttributesV2, Ends, At, CallType
  <2>5. CASE ReadMetadata(c) \/ ReadV2(c)
    BY <1>1, <2>5 DEF ReadMetadata, ReadV2, Ends, Goto, At, CallType, Ways
  <2>6. CASE ListDir(c)
    <3>1. CASE tree.kind = "dir"
      BY <1>1, <2>6, <3>1 DEF ListDir, At, CallType, Ways
    <3>2. CASE tree.kind # "dir"
      <4>1. PICK gives : Listed(c, gives, "children")
        BY <2>6, <3>2 DEF ListDir
      <4> QED
        BY <2>6, <4>1, ListedMoves DEF ListDir, At, Ways
    <3> QED
      BY <3>1, <3>2
  <2>7. CASE Child(c) \/ V2Child(c)
    <3>1. \E todo : \E found : call' = [call EXCEPT ![c].todo = todo, ![c].found = found]
      BY <2>7 DEF Child, V2Child
    <3>2. call[c].at = "children"
      BY <2>7 DEF Child, V2Child, At
    <3> QED
      BY <1>1, <3>1, <3>2 DEF At, CallType
  <2>8. CASE Children(c) \/ OpenArrays(c)
    BY <1>1, <2>8 DEF Children, OpenArrays, Ends, At, CallType
  <2>9. CASE DeleteMetadata(c)
    BY <1>1, <2>9 DEF DeleteMetadata, DeleteKey, Goto, At, CallType, Ways
  <2>10. CASE List(c)
    <3>1. CASE \E gives : Listed(c, gives, "delete-keys")
      BY <2>10, <3>1, ListedMoves DEF List, At, Ways
    <3>2. CASE \E todo : call' = [call EXCEPT ![c].todo = todo, ![c].at = "delete-batch"]
      <4>1. call[c].at = "list-keys"
        BY <2>10 DEF List, At
      <4> QED
        BY <1>1, <3>2, <4>1 DEF At, CallType, Ways
    <3> QED
      BY <2>10, <3>1, <3>2 DEF List
  <2>11. CASE DeleteListed(c)
    BY <1>1, <2>11 DEF DeleteListed, At, CallType
  <2>12. CASE DeletePrefix(c)
    BY <1>1, <2>12 DEF DeletePrefix, Ends, At, CallType, Ways
  <2> QED
    BY <2>1, <2>2, <2>3, <2>4, <2>5, <2>6, <2>7, <2>8, <2>9, <2>10, <2>11, <2>12 DEF StepOf
<1>3. tree'.calls = tree.calls
  BY OthersStay
<1> QED
  BY <1>2, <1>3 DEF Op

LEMMA Begins ==
  ASSUME NodesInv, NEW c \in Callers, Begin(c)
  PROVE  /\ At(c, "idle") /\ call'[c].n = call[c].n + 1 /\ call'[c].at = First(tree.calls[c][call[c].n + 1].do)
         /\ call'[c].handle = call[c].result /\ call'[c].result = "none" /\ call'[c].todo = {} /\ call'[c].found = {}
         /\ call[c].n + 1 \in DOMAIN tree.calls[c] /\ Op(c)' = tree.calls[c][call[c].n + 1] /\ Op(c)' \in Calls
         /\ tree.calls[c] \in Seq(Calls) /\ UNCHANGED <<tree, held, dirs, wrote>>
         /\ since'[c] = [ever |-> NodesOf(held), always |-> NodesOf(held)]
         /\ \A d \in Callers : d # c => since'[d] = since[d]
<1>1. /\ call \in [Callers -> CallType] /\ call[c] \in CallType /\ CallIs(c, call[c])
      /\ tree.calls[c] \in Seq(Calls) /\ DOMAIN since = Callers
  BY DEF NodesInv, NodesTyped, TreeType
<1> DEFINE n == call[c].n + 1
<1>2. n \in 1 .. Len(tree.calls[c]) /\ n \in DOMAIN tree.calls[c]
  BY <1>1 DEF Begin, CallIs
<1>3. /\ call'[c].n = n /\ call'[c].at = First(tree.calls[c][n].do) /\ call'[c].handle = call[c].result
      /\ call'[c].result = "none" /\ call'[c].todo = {} /\ call'[c].found = {}
  BY <1>1 DEF Begin, Idle
<1>4. Op(c)' = tree.calls[c][n] /\ tree.calls[c][n] \in Calls
  BY <1>1, <1>2, <1>3 DEF Begin, Op
<1>5. /\ since'[c] = [ever |-> NodesOf(held), always |-> NodesOf(held)]
      /\ \A d \in Callers : d # c => since'[d] = since[d]
  BY <1>1 DEF Begin
<1> QED
  BY <1>1, <1>2, <1>3, <1>4, <1>5 DEF Begin

LEMMA StoreMoves ==
  ASSUME NodesInv, NEW c \in Callers, StepOf(c)
  PROVE  Begin(c) \/ UNCHANGED <<held, dirs, since>> \/ Becomes(held')
<1>1. CASE Create(c) \/ WriteChunk(c) \/ SetAttributes(c)
  BY <1>1 DEF Create, CreateArray, CreateGroup, WriteChunk, SetAttributes, Becomes
<1>2. CASE DeleteMetadata(c) \/ DeleteListed(c)
  BY <1>2 DEF DeleteMetadata, DeleteKey, DeleteListed, Becomes
<1>3. CASE ~(Create(c) \/ WriteChunk(c) \/ SetAttributes(c) \/ DeleteMetadata(c) \/ DeleteListed(c))
  BY <1>3 DEF StepOf, Fail, MustBeNew, ReadOnly2, ReadMetadata, ReadV2, ReadOther, ReadAttributesV2,
       ListDir, Child, V2Child, Children, OpenArrays, List, DeletePrefix, StoreStays
<1> QED
  BY <1>1, <1>2, <1>3

LEMMA SinceMoves ==
  ASSUME NodesInv, NEW c \in Callers, StepOf(c), NEW d \in Callers, ~(Begin(c) /\ d = c)
  PROVE  \/ since'[d] = since[d] /\ UNCHANGED <<held, dirs>>
         \/ since'[d] = since[d] /\ call[d].at = "idle" /\ Becomes(held')
         \/ /\ call[d].at # "idle" /\ Becomes(held')
            /\ since'[d] = [ever |-> since[d].ever \cup NodesOf(held'), always |-> since[d].always \cap NodesOf(held')]
<1>1. CASE Begin(c)
  BY <1>1, Begins
<1>2. CASE UNCHANGED <<held, dirs, since>>
  BY <1>2
<1>3. CASE Becomes(held')
  BY <1>3 DEF Becomes
<1> QED
  BY <1>1, <1>2, <1>3, StoreMoves

LEMMA AlwaysStep ==
  ASSUME NodesInv, NodesInv', AlwaysThere, NEW c \in Callers, StepOf(c)
  PROVE  AlwaysThere'
<1> SUFFICES ASSUME NEW d \in Callers
             PROVE  /\ call'[d].at # "idle" => since'[d].always \subseteq NodesOf(held')
                    /\ call'[d].at = "create" => Unmade(d)'
  BY DEF AlwaysThere, At
<1>1. CASE Begin(c) /\ d = c
  <2>1. since'[d].always = NodesOf(held) /\ held' = held
    BY <1>1, Begins
  <2>2. call'[d].at # "create"
    <3>1. call'[d].at = First(Op(c)'.do) /\ Op(c)' \in Calls
      BY <1>1, Begins
    <3> QED
      BY <3>1 DEF First, Calls
  <2> QED
    BY <2>1, <2>2
<1>2. CASE ~(Begin(c) /\ d = c)
  <2>1. call[d].at = "idle" => call'[d].at = "idle"
    BY <1>2, OthersStay, GoesOn DEF At
  <2>0. \/ since'[d] = since[d] /\ held' = held
        \/ since'[d] = since[d] /\ call[d].at = "idle"
        \/ since'[d] = [ever |-> since[d].ever \cup NodesOf(held'), always |-> since[d].always \cap NodesOf(held')]
    BY <1>2, SinceMoves
  <2> DEFINE now == NodesOf(held')
  <2> HIDE DEF now
  <2>2. since'[d].always \subseteq since[d].always
    BY <2>0
  <2>3. call'[d].at # "idle" => since'[d].always \subseteq NodesOf(held')
    BY <2>0, <2>1 DEF AlwaysThere, At
  <2>4. ASSUME call'[d].at = "create" PROVE Unmade(d)'
    <3>1. CASE d # c
      <4>1. call'[d] = call[d] /\ Op(d)' = Op(d)
        BY <3>1, OthersStay DEF Op
      <4>2. Unmade(d)
        BY <2>4, <4>1 DEF AlwaysThere, At
      <4> QED
        BY <2>2, <4>1, <4>2 DEF Unmade
    <3>2. CASE d = c
      <4>1. Op(c)' = Op(c) /\ (call[c].at = "create" \/ call[c].at = "new")
        BY <1>2, <2>4, <3>2, GoesOn DEF Ways
      <4>2. CASE call[c].at = "create"
        BY <2>2, <3>2, <4>1, <4>2 DEF AlwaysThere, At, Unmade
      <4>3. CASE call[c].at = "new"
        <5>1. Fail(c) \/ MustBeNew(c)
          BY <1>2, <3>2, <4>3 DEF StepOf, Create, WriteChunk, SetAttributes, ReadOnly2, ReadMetadata, ReadV2,
             ReadOther, ReadAttributesV2, ListDir, Child, V2Child, Children, OpenArrays, DeleteMetadata, DeleteKey,
             List, DeleteListed, DeletePrefix, At
        <5>2. call \in [Callers -> CallType]
          BY DEF NodesInv, NodesTyped
        <5>3. ~Has(Op(c).path, "zarr.json")
          BY <2>4, <3>2, <5>1, <5>2 DEF Fail, MustBeNew, Ends, CallType
        <5>4. \A node \in since[c].always : node[1] = Op(c).path => node[2] \notin {"array", "group"}
          <6>1. since[c].always \subseteq NodesOf(held)
            BY <4>3 DEF AlwaysThere, At
          <6>2. ASSUME NEW node \in since[c].always, node[1] = Op(c).path
                PROVE  node[2] \notin {"array", "group"}
            <7>1. node[2] = NodeAt(held, Op(c).path)
              BY <6>1, <6>2, NodesOfIs
            <7> QED
              BY <5>3, <7>1 DEF NodeAt, Has
          <6> QED
            BY <6>2
        <5> QED
          BY <2>2, <3>2, <4>1, <5>4 DEF Unmade
      <4> QED
        BY <4>1, <4>2, <4>3
    <3> QED
      BY <3>1, <3>2
  <2> QED
    BY <2>3, <2>4
<1> QED
  BY <1>1, <1>2

LEMMA AlwaysInSpec == Spec => []AlwaysThere
<1>1. Init => AlwaysThere
  BY DEF Init, InitNodes, AlwaysThere, At, Idle
<1>2. NodesInv /\ NodesInv' /\ AlwaysThere /\ [Next]_vars => AlwaysThere'
  <2> SUFFICES ASSUME NodesInv, NodesInv', AlwaysThere, [Next]_vars PROVE AlwaysThere'
    OBVIOUS
  <2>1. [NodeNext]_nodeVars
    BY DEF Next, vars
  <2>2. CASE UNCHANGED nodeVars
    BY <2>2 DEF nodeVars, AlwaysThere, At, Unmade, Op
  <2>3. CASE NodeNext
    <3>1. PICK c \in Callers : StepOf(c)
      BY <2>3 DEF NodeNext, StepOf
    <3> QED
      BY <3>1, AlwaysStep
  <2> QED
    BY <2>1, <2>2, <2>3
<1> QED
  BY <1>1, <1>2, NodesAreTyped, PTL DEF Spec

(* A create does not replace a node of version 3 that was there before it   *)
(* began and all the while, though it looks and writes in two calls of the  *)
(* store and others create and delete meanwhile (metadata.go:479-492).  Of  *)
(* a node of version 2 it is not so: CreateKeepsVersion2.                   *)
THEOREM CreatesKeepVersion3 == Spec => CreateKeepsVersion3
<1>1. AlwaysThere => ~CreateOver({"array", "group"})
  BY DEF AlwaysThere, Unmade, CreateOver
<1> QED
  BY <1>1, AlwaysInSpec, PTL DEF CreateKeepsVersion3
-----------------------------------------------------------------------------
(* What can be opened, or will be, has the chunks that were written to it;  *)
(* what is being deleted cannot be opened once a key that is none of its    *)
(* metadata goes.                                                           *)
HasArray(h, p) == <<p, "zarr.json">> \in DOMAIN h /\ h[<<p, "zarr.json">>] = "array"
Openable(h, p) == HasArray(h, p) \/ <<p, ".zarray">> \in DOMAIN h
Intact(p) == \A k \in wrote : k[1] = p => k \in DOMAIN held

Gone(c) ==
  /\ call[c].at = "delete-.zarray" => ~HasArray(held, Op(c).path)
  /\ call[c].at \in {"delete-.zgroup"} \cup Deleting => ~Openable(held, Op(c).path)
  /\ call[c].at \in Deleting => \A k \in call[c].todo : k[1] = Op(c).path

(* Attributes are set by the call, or the next, of an array that was opened. *)
NextIs(c, do) == call[c].n + 1 \in DOMAIN tree.calls[c] /\ tree.calls[c][call[c].n + 1].do = do
Sets(c) ==
  /\ call[c].at = "attributes" /\ call[c].handle = "array" => Intact(Op(c).path)
  /\ call[c].at = "idle" /\ call[c].result = "array" /\ NextIs(c, "attributes") =>
       Intact(tree.calls[c][call[c].n + 1].path)

ChunksKept ==
  /\ Apart(tree)
  /\ \A k \in wrote : Openable(held, k[1]) => k \in DOMAIN held
  /\ \A c \in Callers : Gone(c) /\ Sets(c)

LEMMA ChunksKeptSuffices == NodesInv /\ ChunksKept => ArraysKeepTheirChunks
<1> SUFFICES ASSUME NodesInv, ChunksKept, NEW k \in wrote, NodeAt(held, k[1]) \in Arrays PROVE k \in DOMAIN held
  BY DEF ArraysKeepTheirChunks
<1> DEFINE z == <<k[1], "zarr.json">>
<1>1. z \in DOMAIN held => held[z] \in {"array", "group", "data"}
  BY HeldIs DEF NodesInv, NodesTyped
<1>2. Openable(held, k[1])
  BY <1>1 DEF NodeAt, Openable, HasArray, Arrays
<1> QED
  BY <1>2 DEF ChunksKept

(* What others delete is not what is created here, or set attributes of.    *)
LEMMA DeletedApart ==
  ASSUME NodesInv, Apart(tree), NEW d \in Callers, ~At(d, "idle"), Op(d).do = "delete"
  PROVE  /\ \A k \in AllKeys : IsPrefix(Op(d).path, k[1]) => k[1] = Op(d).path
         /\ \A c \in Callers \ {d} : \A n \in DOMAIN tree.calls[c] :
              tree.calls[c][n].do \in {"create-array", "attributes"} => tree.calls[c][n].path # Op(d).path
<1> DEFINE n == call[d].n
           o == tree.calls[d][n]
<1>1. n \in DOMAIN tree.calls[d] /\ Op(d) = o
  BY OpIs DEF Op
<1>2. o.do = "delete"
  BY <1>1
<1>3. /\ \A k \in AllKeys : IsPrefix(o.path, k[1]) => k[1] = o.path
      /\ \A c \in Callers \ {d} : \A m \in DOMAIN tree.calls[c] :
           tree.calls[c][m].do \in {"create-array", "attributes"} => tree.calls[c][m].path # o.path
  <2> HIDE DEF n
  <2> QED
    BY <1>1, <1>2 DEF Apart
<1> HIDE DEF o
<1> QED
  BY <1>1, <1>3

LEMMA DeleterIs ==
  ASSUME NodesInv, NEW d \in Callers, call[d].at \in {"delete-.zarray", "delete-.zgroup"} \cup Deleting
  PROVE  ~At(d, "idle") /\ Op(d).do = "delete"
BY DeletePlaces

(* Whoever holds something, of a path that may be opened no sooner and that *)
(* is no less whole, holds it still.                                        *)
LEMMA GoneStays ==
  ASSUME NodesInv, NEW d \in Callers, Gone(d), call'[d] = call[d], tree'.calls = tree.calls,
         call[d].at \in {"delete-.zarray", "delete-.zgroup"} \cup Deleting =>
           /\ HasArray(held', Op(d).path) => HasArray(held, Op(d).path)
           /\ Openable(held', Op(d).path) => Openable(held, Op(d).path)
  PROVE  Gone(d)'
BY DEF Gone, Op

LEMMA SetsStays ==
  ASSUME NodesInv, NEW d \in Callers, Sets(d), call'[d] = call[d], tree'.calls = tree.calls,
         \A n \in DOMAIN tree.calls[d] : tree.calls[d][n].do = "attributes" =>
           (Intact(tree.calls[d][n].path) => Intact(tree.calls[d][n].path)')
  PROVE  Sets(d)'
<1>1. ASSUME call[d].at = "attributes", call[d].handle = "array" PROVE Intact(Op(d).path)'
  <2>1. call[d].n \in DOMAIN tree.calls[d] /\ Op(d) = tree.calls[d][call[d].n] /\ Op(d).do = "attributes" /\ Op(d)' = Op(d)
    <3>1. ~At(d, "idle")
      BY <1>1 DEF At
    <3>2. call[d].n \in DOMAIN tree.calls[d] /\ Op(d) \in Calls /\ "attributes" \in PlacesOf(Op(d).do)
      BY <1>1, <3>1, OpIs
    <3>3. Op(d).do = "attributes"
      BY <3>2, PlaceIs DEF Calls
    <3> QED
      BY <3>2, <3>3 DEF Op
  <2> QED
    BY <1>1, <2>1 DEF Sets, Intact
<1>2. ASSUME call[d].at = "idle", call[d].result = "array", NextIs(d, "attributes")
      PROVE  Intact(tree.calls[d][call[d].n + 1].path)'
  BY <1>2 DEF Sets, NextIs, Intact
<1> QED
  BY <1>1, <1>2 DEF Sets, NextIs, Op

(* What is put or deleted, and what may be opened then.                     *)
LEMMA PutOpens ==
  ASSUME held \in HeldType, NEW k \in AllKeys, NEW v \in {"array", "group", "data"}, NEW p
  PROVE  /\ k # <<p, "zarr.json">> => (HasArray(With(k, v), p) <=> HasArray(held, p))
         /\ k \notin {<<p, "zarr.json">>, <<p, ".zarray">>} => (Openable(With(k, v), p) <=> Openable(held, p))
         /\ k = <<p, "zarr.json">> /\ v = "group" =>
              ~HasArray(With(k, v), p) /\ (Openable(With(k, v), p) => Openable(held, p))
<1>1. /\ DOMAIN With(k, v) = DOMAIN held \cup {k}
      /\ \A x \in DOMAIN held : x # k => With(k, v)[x] = held[x]
      /\ With(k, v)[k] = v
  BY WithTyped
<1> DEFINE h == With(k, v)
<1> HIDE DEF h
<1>2. /\ DOMAIN h = DOMAIN held \cup {k}
      /\ \A x \in DOMAIN held : x # k => h[x] = held[x]
      /\ h[k] = v
  BY <1>1 DEF h
<1>3. /\ k # <<p, "zarr.json">> => (HasArray(h, p) <=> HasArray(held, p))
      /\ k \notin {<<p, "zarr.json">>, <<p, ".zarray">>} => (Openable(h, p) <=> Openable(held, p))
  BY <1>2 DEF HasArray, Openable
<1>4. ASSUME k = <<p, "zarr.json">>, v = "group"
      PROVE  ~HasArray(h, p) /\ (Openable(h, p) => Openable(held, p))
  BY <1>2, <1>4 DEF HasArray, Openable
<1> QED
  BY <1>3, <1>4 DEF h

LEMMA DeleteOpens ==
  ASSUME held \in HeldType, NEW k, NEW p
  PROVE  /\ HasArray(Without(k), p) => HasArray(held, p) /\ k # <<p, "zarr.json">>
         /\ Openable(Without(k), p) => Openable(held, p)
         /\ Openable(Without(k), p) => HasArray(Without(k), p) \/ k # <<p, ".zarray">>
<1> DEFINE h == Without(k)
<1>1. /\ DOMAIN h = DOMAIN held \ {k}
      /\ \A x \in DOMAIN held : x # k => h[x] = held[x]
  BY WithoutTyped
<1> HIDE DEF h
<1>2. /\ HasArray(h, p) => HasArray(held, p) /\ k # <<p, "zarr.json">>
      /\ Openable(h, p) => Openable(held, p)
      /\ Openable(h, p) => HasArray(h, p) \/ k # <<p, ".zarray">>
  BY <1>1 DEF HasArray, Openable
<1> QED
  BY <1>2 DEF h

(* What no chunk is deleted of stays whole.                                 *)
LEMMA IntactStays ==
  ASSUME NEW p, \A k \in wrote' : k[1] = p => k \in wrote \/ k \in DOMAIN held',
         \A k \in wrote : k[1] = p /\ k \in DOMAIN held => k \in DOMAIN held', Intact(p)
  PROVE  Intact(p)'
BY DEF Intact

LEMMA ChunksAre ==
  ASSUME NodesInv, NEW k \in wrote, NEW p
  PROVE  k # <<p, "zarr.json">> /\ k # <<p, ".zarray">> /\ k # <<p, ".zgroup">> /\ (k[1] = p => k \in Chunks(p))
<1>1. k \in AllKeys /\ k[2] \notin Metadata \cup {"/"}
  BY DEF NodesInv, NodesTyped, Data
<1> QED
  BY <1>1 DEF Metadata, Chunks

(* What is created.                                                         *)
LEMMA CreateKeeps ==
  ASSUME NodesInv, ChunksKept, NEW c \in Callers, Create(c)
  PROVE  ChunksKept'
<1> DEFINE p == Op(c).path
           z == <<p, "zarr.json">>
<1>1. StepOf(c) /\ ~At(c, "idle") /\ ~Begin(c)
  BY DEF StepOf, Create, At, Begin
<1>2. /\ tree'.calls = tree.calls /\ \A d \in Callers : d # c => call'[d] = call[d]
  BY <1>1, OthersStay
<1>3. PICK v \in {"array", "group", "data"} :
        /\ Becomes(With(z, v)) /\ wrote' = wrote \ Chunks(p)
        /\ \/ v = "array" /\ Op(c).do = "create-array"
           \/ v = "group"
  BY DEF Create, CreateArray, CreateGroup
<1>4. held \in HeldType /\ z \in AllKeys
  BY <1>1, WrittenKey DEF NodesInv, NodesTyped, Create, CreateArray, CreateGroup
<1>5. held' = With(z, v) /\ DOMAIN held' = DOMAIN held \cup {z}
  BY <1>3, <1>4, WithTyped DEF Becomes
<1>6. \A k \in wrote' : k \in wrote /\ k[1] # p
  BY <1>3, ChunksAre
<1>7. \A q : Intact(q) => Intact(q)'
  BY <1>5, <1>6, IntactStays
<1>8. ASSUME NEW q, q # p
      PROVE  /\ HasArray(held', q) => HasArray(held, q)
             /\ Openable(held', q) => Openable(held, q)
  <2>1. z # <<q, "zarr.json">> /\ z \notin {<<q, "zarr.json">>, <<q, ".zarray">>}
    BY <1>8
  <2> QED
    BY <1>3, <1>4, <1>5, <2>1, PutOpens
<1>9. \A k \in wrote' : Openable(held', k[1]) => k \in DOMAIN held'
  BY <1>5, <1>6, <1>8 DEF ChunksKept
<1>10. ASSUME NEW d \in Callers, d # c PROVE Gone(d)' /\ Sets(d)'
  <2>1. ASSUME call[d].at \in {"delete-.zarray", "delete-.zgroup"} \cup Deleting
        PROVE  /\ HasArray(held', Op(d).path) => HasArray(held, Op(d).path)
               /\ Openable(held', Op(d).path) => Openable(held, Op(d).path)
    <3>1. CASE Op(d).path # p
      BY <1>8, <3>1
    <3>2. CASE Op(d).path = p
      <4>1. Op(c).do # "create-array"
        <5>1. ~At(d, "idle") /\ Op(d).do = "delete"
          BY <2>1, DeleterIs
        <5>2. call[c].n \in DOMAIN tree.calls[c] /\ Op(c) = tree.calls[c][call[c].n]
          BY <1>1, OpIs DEF Op
        <5> QED
          BY <1>10, <3>2, <5>1, <5>2, DeletedApart DEF ChunksKept
      <4>2. v = "group"
        BY <1>3, <4>1
      <4> QED
        BY <1>4, <1>5, <3>2, <4>2, PutOpens
    <3> QED
      BY <3>1, <3>2
  <2>2. Gone(d) /\ Sets(d) /\ call'[d] = call[d]
    BY <1>2, <1>10 DEF ChunksKept
  <2>3. Gone(d)'
    BY <1>2, <2>1, <2>2, GoneStays
  <2>4. Sets(d)'
    BY <1>2, <1>7, <2>2, SetsStays
  <2> QED
    BY <2>3, <2>4
<1>11. call'[c].at = "idle" /\ call'[c].n = call[c].n
  BY <1>1, GoesOn DEF Create, Ends, NodesInv, NodesTyped, CallType
<1>12. Gone(c)'
  BY <1>11 DEF Gone, Deleting
<1>13. Sets(c)'
  <2> SUFFICES ASSUME NextIs(c, "attributes") PROVE Intact(tree.calls[c][call[c].n + 1].path)'
    BY <1>2, <1>11 DEF Sets, NextIs
  <2>1. tree.calls[c][call[c].n + 1].path = p
    <3>1. call[c].n \in Nat /\ call[c].n # 0 /\ call[c].n + 1 > 1 /\ (call[c].n + 1) - 1 = call[c].n
      BY <1>1, OpIs DEF CallType
    <3> QED
      BY <3>1 DEF NextIs, Op, NodesInv, NodesTyped, Plans
  <2>2. tree'.calls[c][call'[c].n + 1].path = p
    BY <1>2, <1>11, <2>1
  <2> HIDE DEF p
  <2> QED
    BY <1>6, <2>2 DEF Intact
<1>14. Apart(tree)'
  BY <1>2 DEF ChunksKept, Apart
<1> QED
  BY <1>9, <1>10, <1>12, <1>13, <1>14 DEF ChunksKept

(* What is true of the others, as long as a step opens nothing that they    *)
(* delete and deletes no chunk of an array they may set attributes of.      *)
LEMMA OthersKeep ==
  ASSUME NodesInv, ChunksKept, NEW c \in Callers, StepOf(c), NEW d \in Callers, d # c,
         call[d].at \in {"delete-.zarray", "delete-.zgroup"} \cup Deleting =>
           /\ HasArray(held', Op(d).path) => HasArray(held, Op(d).path)
           /\ Openable(held', Op(d).path) => Openable(held, Op(d).path),
         \A n \in DOMAIN tree.calls[d] : tree.calls[d][n].do = "attributes" =>
           (Intact(tree.calls[d][n].path) => Intact(tree.calls[d][n].path)')
  PROVE  Gone(d)' /\ Sets(d)'
<1>1. tree'.calls = tree.calls /\ call'[d] = call[d] /\ Gone(d) /\ Sets(d)
  BY OthersStay DEF ChunksKept
<1> QED
  BY <1>1, GoneStays, SetsStays

LEMMA WriteKeeps ==
  ASSUME NodesInv, ChunksKept, NEW c \in Callers, WriteChunk(c)
  PROVE  ChunksKept'
<1>1. StepOf(c) /\ ~At(c, "idle") /\ ~Begin(c)
  BY DEF StepOf, WriteChunk, At, Begin
<1>2. tree'.calls = tree.calls
  BY <1>1, OthersStay
<1>3. PICK k \in Chunks(Op(c).path) : Becomes(With(k, "data")) /\ wrote' = wrote \cup {k}
  BY DEF WriteChunk
<1>4. held \in HeldType /\ k \in AllKeys /\ \A q : k \notin {<<q, "zarr.json">>, <<q, ".zarray">>}
  BY DEF NodesInv, NodesTyped, Chunks, Metadata
<1>5. held' = With(k, "data") /\ DOMAIN held' = DOMAIN held \cup {k}
  BY <1>3, <1>4, WithTyped DEF Becomes
<1>6. ASSUME NEW q
      PROVE  /\ HasArray(held', q) => HasArray(held, q)
             /\ Openable(held', q) => Openable(held, q)
  BY <1>4, <1>5, PutOpens
<1>7. \A q : Intact(q) => Intact(q)'
  BY <1>3, <1>5, IntactStays
<1>8. \A x \in wrote' : Openable(held', x[1]) => x \in DOMAIN held'
  BY <1>3, <1>5, <1>6 DEF ChunksKept
<1>9. ASSUME NEW d \in Callers, d # c PROVE Gone(d)' /\ Sets(d)'
  BY <1>1, <1>2, <1>6, <1>7, <1>9, OthersKeep
<1>10. call'[c].at = "idle" /\ call'[c].result = "ok"
  BY DEF WriteChunk, Ends, NodesInv, NodesTyped, CallType
<1>11. Gone(c)' /\ Sets(c)'
  BY <1>10 DEF Gone, Sets, Deleting
<1>12. Apart(tree)'
  BY <1>2 DEF ChunksKept, Apart
<1> QED
  BY <1>8, <1>9, <1>11, <1>12 DEF ChunksKept

LEMMA AttributesKeep ==
  ASSUME NodesInv, ChunksKept, NEW c \in Callers, SetAttributes(c)
  PROVE  ChunksKept'
<1> DEFINE p == Op(c).path
           z == <<p, "zarr.json">>
           v == call[c].handle
<1>1. StepOf(c) /\ ~At(c, "idle") /\ ~Begin(c) /\ call[c].at = "attributes"
  BY DEF StepOf, SetAttributes, At, Begin
<1>2. tree'.calls = tree.calls
  BY <1>1, OthersStay
<1>3. Op(c).do = "attributes"
  <2>1. Op(c) \in Calls /\ "attributes" \in PlacesOf(Op(c).do)
    BY <1>1, OpIs
  <2> QED
    BY <2>1, PlaceIs DEF Calls
<1>4. held \in HeldType /\ z \in AllKeys /\ v \in {"array", "group", "data"} /\ (v = "array" \/ v = "group")
  BY <1>1, <1>3, WrittenKey DEF NodesInv, NodesTyped, SetAttributes
<1>5. held' = With(z, v) /\ DOMAIN held' = DOMAIN held \cup {z} /\ wrote' = wrote
  BY <1>4, WithTyped DEF SetAttributes, Becomes
<1>6. \A q : Intact(q) => Intact(q)'
  BY <1>5, IntactStays
<1>7. ASSUME NEW q, q # p
      PROVE  /\ HasArray(held', q) => HasArray(held, q)
             /\ Openable(held', q) => Openable(held, q)
  <2>1. z # <<q, "zarr.json">> /\ z \notin {<<q, "zarr.json">>, <<q, ".zarray">>}
    BY <1>7
  <2> HIDE DEF v, z
  <2> QED
    BY <1>4, <1>5, <2>1, PutOpens
<1>8. ASSUME NEW k \in wrote', Openable(held', k[1])
      PROVE  k \in DOMAIN held'
  <2>1. CASE k[1] # p
    BY <1>5, <1>7, <1>8, <2>1 DEF ChunksKept
  <2>2. CASE k[1] = p /\ v = "array"
    <3>1. Intact(p)
      BY <1>1, <2>2 DEF ChunksKept, Sets
    <3> QED
      BY <1>5, <2>2, <3>1 DEF Intact
  <2>3. CASE k[1] = p /\ v = "group"
    <3>1. Openable(held, k[1])
      <4> HIDE DEF v
      <4> QED
        BY <1>4, <1>5, <1>8, <2>3, PutOpens
    <3> QED
      BY <1>5, <3>1 DEF ChunksKept
  <2> QED
    BY <1>4, <2>1, <2>2, <2>3
<1>9. ASSUME NEW d \in Callers, d # c PROVE Gone(d)' /\ Sets(d)'
  <2>1. ASSUME call[d].at \in {"delete-.zarray", "delete-.zgroup"} \cup Deleting
        PROVE  Op(d).path # p
    <3>1. ~At(d, "idle") /\ Op(d).do = "delete"
      BY <2>1, DeleterIs
    <3>2. call[c].n \in DOMAIN tree.calls[c] /\ Op(c) = tree.calls[c][call[c].n]
      BY <1>1, OpIs DEF Op
    <3> QED
      BY <1>3, <1>9, <3>1, <3>2, DeletedApart DEF ChunksKept
  <2>2. call[d].at \in {"delete-.zarray", "delete-.zgroup"} \cup Deleting =>
           /\ HasArray(held', Op(d).path) => HasArray(held, Op(d).path)
           /\ Openable(held', Op(d).path) => Openable(held, Op(d).path)
    BY <1>7, <2>1
  <2> QED
    BY <1>1, <1>2, <1>6, <1>9, <2>2, OthersKeep
<1>10. call'[c].at = "idle" /\ call'[c].result = "ok"
  BY DEF SetAttributes, Ends, NodesInv, NodesTyped, CallType
<1>11. Gone(c)' /\ Sets(c)'
  BY <1>10 DEF Gone, Sets, Deleting
<1>12. Apart(tree)'
  BY <1>2 DEF ChunksKept, Apart
<1> QED
  BY <1>8, <1>9, <1>11, <1>12 DEF ChunksKept

LEMMA DeleteMetadataKeeps ==
  ASSUME NodesInv, ChunksKept, NEW c \in Callers, DeleteMetadata(c)
  PROVE  ChunksKept'
<1> DEFINE p == Op(c).path
<1>1. StepOf(c) /\ ~At(c, "idle") /\ ~Begin(c)
  BY DEF StepOf, DeleteMetadata, DeleteKey, At, Begin
<1>2. tree'.calls = tree.calls /\ Op(c)' = Op(c)
  BY <1>1, OthersStay, GoesOn
<1>3. PICK name \in {"zarr.json", ".zarray", ".zgroup"} :
        /\ Becomes(Without(<<p, name>>)) /\ wrote' = wrote
        /\ \/ name = "zarr.json" /\ call[c].at = "delete-zarr.json" /\ Goto(c, "delete-.zarray")
           \/ name = ".zarray" /\ call[c].at = "delete-.zarray" /\ Goto(c, "delete-.zgroup")
           \/ name = ".zgroup" /\ call[c].at = "delete-.zgroup" /\ Goto(c, "list-keys")
  BY DEF DeleteMetadata, DeleteKey, At
<1> DEFINE k == <<p, name>>
<1>4. held \in HeldType
  BY DEF NodesInv, NodesTyped
<1>5. held' = Without(k) /\ DOMAIN held' = DOMAIN held \ {k}
  BY <1>3, <1>4, WithoutTyped DEF Becomes
<1>6. ASSUME NEW q
      PROVE  /\ HasArray(held', q) => HasArray(held, q) /\ k # <<q, "zarr.json">>
             /\ Openable(held', q) => Openable(held, q)
             /\ Openable(held', q) => HasArray(held', q) \/ k # <<q, ".zarray">>
  BY <1>4, <1>5, DeleteOpens
<1>7. \A x \in wrote : x # k
  <2> SUFFICES ASSUME NEW x \in wrote PROVE x # k
    OBVIOUS
  <2>1. x # <<p, "zarr.json">> /\ x # <<p, ".zarray">> /\ x # <<p, ".zgroup">>
    BY ChunksAre
  <2> QED
    BY <2>1
<1>8. \A q : Intact(q) => Intact(q)'
  BY <1>3, <1>5, <1>7, IntactStays
<1>9. \A x \in wrote' : Openable(held', x[1]) => x \in DOMAIN held'
  BY <1>3, <1>5, <1>6, <1>7 DEF ChunksKept
<1>10. ASSUME NEW d \in Callers, d # c PROVE Gone(d)' /\ Sets(d)'
  BY <1>1, <1>2, <1>6, <1>8, <1>10, OthersKeep
<1>11. call'[c].todo = call[c].todo /\ call \in [Callers -> CallType] /\ call[c].todo = {}
  <2>1. CallIs(c, call[c]) /\ call \in [Callers -> CallType]
    BY DEF NodesInv, NodesTyped
  <2> QED
    BY <1>3, <2>1 DEF Goto, CallIs, CallType
<1>12. Gone(c)'
  <2>1. CASE name = "zarr.json"
    <3>1. call'[c].at = "delete-.zarray" /\ ~HasArray(held', p)
      BY <1>3, <1>6, <1>11, <2>1 DEF Goto, CallType
    <3> QED
      BY <1>2, <3>1 DEF Gone, Deleting
  <2>2. CASE name = ".zarray"
    <3>1. call'[c].at = "delete-.zgroup"
      BY <1>3, <1>11, <2>2 DEF Goto, CallType
    <3>2. ~HasArray(held, p)
      BY <1>3, <2>2 DEF ChunksKept, Gone
    <3>3. ~Openable(held', p)
      BY <1>6, <2>2, <3>2
    <3> QED
      BY <1>2, <3>1, <3>3 DEF Gone, Deleting
  <2>3. CASE name = ".zgroup"
    <3>1. call'[c].at = "list-keys"
      BY <1>3, <1>11, <2>3 DEF Goto, CallType
    <3>2. ~Openable(held, p)
      BY <1>3, <2>3 DEF ChunksKept, Gone
    <3> QED
      BY <1>2, <1>6, <1>11, <3>1, <3>2 DEF Gone
  <2> QED
    BY <2>1, <2>2, <2>3
<1>13. Sets(c)'
  <2>1. call'[c].at \notin {"idle", "attributes"}
    BY <1>3, <1>11 DEF Goto, CallType
  <2> QED
    BY <2>1 DEF Sets
<1>14. Apart(tree)'
  BY <1>2 DEF ChunksKept, Apart
<1> QED
  BY <1>9, <1>10, <1>12, <1>13, <1>14 DEF ChunksKept

LEMMA DeleteListedKeeps ==
  ASSUME NodesInv, ChunksKept, NEW c \in Callers, DeleteListed(c)
  PROVE  ChunksKept'
<1> DEFINE p == Op(c).path
<1>1. StepOf(c) /\ ~At(c, "idle") /\ ~Begin(c) /\ call[c].at \in Deleting
  BY DEF StepOf, DeleteListed, At, Begin, Deleting
<1>2. tree'.calls = tree.calls /\ Op(c)' = Op(c) /\ Op(c).do = "delete"
  BY <1>1, OthersStay, GoesOn, DeletePlaces
<1>3. PICK k \in call[c].todo : Becomes(Without(k)) /\ call' = [call EXCEPT ![c].todo = @ \ {k}]
  BY DEF DeleteListed
<1>4. held \in HeldType /\ call \in [Callers -> CallType] /\ wrote' = wrote
  BY DEF NodesInv, NodesTyped, DeleteListed
<1>5. held' = Without(k) /\ DOMAIN held' = DOMAIN held \ {k}
  BY <1>3, <1>4, WithoutTyped DEF Becomes
<1>6. ASSUME NEW q
      PROVE  /\ HasArray(held', q) => HasArray(held, q)
             /\ Openable(held', q) => Openable(held, q)
  BY <1>4, <1>5, DeleteOpens
<1>7. k[1] = p /\ ~Openable(held, p) /\ \A x \in call[c].todo : x[1] = p
  BY <1>1, <1>3 DEF ChunksKept, Gone
<1>8. \A q : q # p => (Intact(q) => Intact(q)')
  BY <1>4, <1>5, <1>7, IntactStays
<1>9. \A x \in wrote' : Openable(held', x[1]) => x \in DOMAIN held'
  BY <1>4, <1>5, <1>6, <1>7 DEF ChunksKept
<1>10. ASSUME NEW d \in Callers, d # c PROVE Gone(d)' /\ Sets(d)'
  <2>1. \A n \in DOMAIN tree.calls[d] : tree.calls[d][n].do = "attributes" => tree.calls[d][n].path # p
    BY <1>1, <1>2, <1>10, DeletedApart DEF ChunksKept
  <2>2. \A n \in DOMAIN tree.calls[d] : tree.calls[d][n].do = "attributes" =>
           (Intact(tree.calls[d][n].path) => Intact(tree.calls[d][n].path)')
    BY <1>2, <1>8, <2>1 DEF Intact
  <2> QED
    BY <1>1, <1>6, <1>10, <2>2, OthersKeep
<1>11. call'[c].at = call[c].at /\ call'[c].todo = call[c].todo \ {k}
  BY <1>3, <1>4 DEF CallType
<1>12. Gone(c)'
  <2>1. call'[c].at # "delete-.zarray" /\ ~Openable(held', p)
    BY <1>1, <1>6, <1>7, <1>11 DEF Deleting
  <2> QED
    BY <1>2, <1>7, <1>11, <2>1 DEF Gone
<1>13. Sets(c)'
  BY <1>1, <1>11 DEF Sets, Deleting
<1>14. Apart(tree)'
  BY <1>2 DEF ChunksKept, Apart
<1> QED
  BY <1>9, <1>10, <1>12, <1>13, <1>14 DEF ChunksKept

(* What leaves the store as it is.                                          *)
LEMMA StayKeeps ==
  ASSUME NodesInv, ChunksKept, NEW c \in Callers, StepOf(c), UNCHANGED <<held, wrote>>, Gone(c)', Sets(c)'
  PROVE  ChunksKept'
<1>1. tree'.calls = tree.calls
  BY OthersStay
<1>2. \A q : Intact(q) => Intact(q)'
  BY DEF Intact
<1>3. ASSUME NEW d \in Callers, d # c PROVE Gone(d)' /\ Sets(d)'
  BY <1>1, <1>2, <1>3, OthersKeep
<1>4. Apart(tree)'
  BY <1>1 DEF ChunksKept, Apart
<1> QED
  BY <1>3, <1>4 DEF ChunksKept

LEMMA BeginKeeps ==
  ASSUME NodesInv, ChunksKept, NEW c \in Callers, Begin(c)
  PROVE  ChunksKept'
<1> DEFINE o == tree.calls[c][call[c].n + 1]
<1>1. /\ At(c, "idle") /\ call'[c].at = First(o.do) /\ call'[c].handle = call[c].result /\ o \in Calls
      /\ call[c].n + 1 \in DOMAIN tree.calls[c] /\ Op(c)' = o /\ UNCHANGED <<tree, held, wrote>>
  BY Begins
<1>2. /\ First(o.do) \notin {"idle", "delete-.zarray", "delete-.zgroup"} \cup Deleting
      /\ First(o.do) = "attributes" => o.do = "attributes"
  BY <1>1 DEF First, Calls, Deleting
<1>3. Gone(c)'
  BY <1>1, <1>2 DEF Gone, Deleting
<1>4. Sets(c)'
  <2> SUFFICES ASSUME call'[c].at = "attributes", call'[c].handle = "array"
               PROVE  Intact(Op(c).path)'
    BY <1>1, <1>2 DEF Sets
  <2>1. Intact(o.path)
    <3>1. NextIs(c, "attributes") /\ call[c].at = "idle" /\ call[c].result = "array"
      BY <1>1, <1>2 DEF NextIs, At
    <3> QED
      BY <3>1 DEF ChunksKept, Sets
  <2> HIDE DEF o
  <2> QED
    BY <1>1, <2>1 DEF Intact
<1> QED
  BY <1>1, <1>3, <1>4, StayKeeps DEF StepOf

LEMMA ReadMetadataKeeps ==
  ASSUME NodesInv, ChunksKept, NEW c \in Callers, ReadMetadata(c)
  PROVE  ChunksKept'
<1> DEFINE p == Op(c).path
           z == <<p, "zarr.json">>
<1>1. StepOf(c) /\ ~Begin(c) /\ call[c].at = "zarr.json" /\ ~At(c, "idle") /\ UNCHANGED <<tree, held, wrote>>
  BY DEF StepOf, ReadMetadata, Begin, At, StoreStays
<1>2. call \in [Callers -> CallType] /\ call'[c].n = call[c].n
  BY <1>1, GoesOn DEF NodesInv, NodesTyped
<1>3. \/ call'[c].at = "v2"
      \/ /\ call'[c].at = "idle"
         /\ call'[c].result = "array" => HasArray(held, p)
  BY <1>2 DEF ReadMetadata, Goto, Ends, Has, HasArray, Wanted, CallType
<1>4. Gone(c)'
  BY <1>3 DEF Gone, Deleting
<1>5. Sets(c)'
  <2> SUFFICES ASSUME HasArray(held, p), NextIs(c, "attributes")
               PROVE  Intact(tree.calls[c][call[c].n + 1].path)'
    BY <1>1, <1>2, <1>3 DEF Sets, NextIs
  <2>1. tree.calls[c][call[c].n + 1].path = p
    <3>1. call[c].n \in Nat /\ call[c].n # 0 /\ call[c].n + 1 > 1 /\ (call[c].n + 1) - 1 = call[c].n
      BY <1>1, OpIs DEF CallType
    <3> QED
      BY <3>1 DEF NextIs, Op, NodesInv, NodesTyped, Plans
  <2>2. Intact(p)
    BY DEF ChunksKept, Intact, Openable
  <2>3. tree'.calls[c][call'[c].n + 1].path = p
    BY <1>1, <1>2, <2>1
  <2> HIDE DEF p
  <2> QED
    BY <1>1, <2>2, <2>3 DEF Intact
<1> QED
  BY <1>1, <1>4, <1>5, StayKeeps

LEMMA ListKeeps ==
  ASSUME NodesInv, ChunksKept, NEW c \in Callers, List(c)
  PROVE  ChunksKept'
<1> DEFINE p == Op(c).path
           under == {k \in Listing(c) \cap DOMAIN held : IsPrefix(p, k[1]) /\ k[2] # "/"}
<1>1. /\ StepOf(c) /\ ~Begin(c) /\ call[c].at = "list-keys" /\ call[c].at \in Deleting
      /\ UNCHANGED <<tree, held, wrote>>
  BY DEF StepOf, List, Begin, At, StoreStays, Deleting
<1>2. call \in [Callers -> CallType] /\ Op(c)' = Op(c) /\ ~At(c, "idle") /\ Op(c).do = "delete"
  BY <1>1, GoesOn, DeletePlaces
<1>3. \A k \in under : k[1] = p
  <2>1. under \subseteq AllKeys
    BY HeldIs DEF NodesInv, NodesTyped
  <2> QED
    BY <1>2, <2>1, DeletedApart DEF ChunksKept
<1>4. ~Openable(held, p) /\ \A k \in call[c].todo : k[1] = p
  BY <1>1 DEF ChunksKept, Gone
<1>5. call'[c].at \in Deleting /\ \E some \in SUBSET under : call'[c].todo = call[c].todo \cup some
  <2>1. CASE Listed(c, under, "delete-keys")
    BY <1>1, <2>1, ListedMoves DEF Deleting
  <2>2. ASSUME NEW some \in SUBSET under,
               call' = [call EXCEPT ![c].todo = @ \cup some, ![c].at = "delete-batch"]
        PROVE  call'[c].at \in Deleting /\ call'[c].todo = call[c].todo \cup some
    <3> DEFINE todo == call[c].todo \cup some
    <3>1. call' = [call EXCEPT ![c].todo = todo, ![c].at = "delete-batch"]
      BY <2>2
    <3> HIDE DEF todo
    <3>2. call'[c].at \in Deleting /\ call'[c].todo = todo
      BY <1>2, <3>1 DEF CallType, Deleting
    <3> QED
      BY <3>2 DEF todo
  <2> QED
    BY <2>1, <2>2 DEF List
<1>6. Gone(c)'
  <2>1. \A k \in call'[c].todo : k[1] = p
    BY <1>3, <1>4, <1>5
  <2>2. call'[c].at # "delete-.zarray"
    BY <1>5 DEF Deleting
  <2> QED
    BY <1>1, <1>2, <1>4, <2>1, <2>2 DEF Gone
<1>7. Sets(c)'
  BY <1>5 DEF Sets, Deleting
<1> QED
  BY <1>1, <1>6, <1>7, StayKeeps

LEMMA DeletePrefixKeeps ==
  ASSUME NodesInv, ChunksKept, NEW c \in Callers, DeletePrefix(c)
  PROVE  ChunksKept'
<1>1. StepOf(c) /\ ~Begin(c) /\ call[c].at \in Deleting /\ UNCHANGED <<tree, held, wrote>> /\ call[c].todo = {}
  BY DEF StepOf, DeletePrefix, Begin, At, StoreStays, Deleting
<1>2. call \in [Callers -> CallType] /\ Op(c)' = Op(c)
  BY <1>1, GoesOn DEF NodesInv, NodesTyped
<1>3. \/ call'[c].at = "idle" /\ call'[c].result = "ok"
      \/ call'[c].at = "list-keys" /\ call'[c].todo = {}
  BY <1>1, <1>2 DEF DeletePrefix, Ends, CallType
<1>4. Gone(c)'
  BY <1>1, <1>2, <1>3 DEF Gone, ChunksKept, Deleting
<1>5. Sets(c)'
  BY <1>3 DEF Sets
<1> QED
  BY <1>1, <1>4, <1>5, StayKeeps

LEMMA OthersOpen ==
  ASSUME NodesInv, ChunksKept, NEW c \in Callers,
         \/ Fail(c) \/ MustBeNew(c) \/ ReadOnly2(c) \/ ReadV2(c) \/ ReadOther(c) \/ ReadAttributesV2(c)
         \/ ListDir(c) \/ Child(c) \/ V2Child(c) \/ Children(c) \/ OpenArrays(c)
  PROVE  ChunksKept'
<1>1. StepOf(c) /\ ~Begin(c)
  BY DEF StepOf, Begin, At, Fail, MustBeNew, ReadOnly2, ReadV2, ReadOther, ReadAttributesV2,
     ListDir, Child, V2Child, Children, OpenArrays
<1>2. UNCHANGED <<held, wrote>>
  BY DEF Fail, MustBeNew, ReadOnly2, ReadV2, ReadOther, ReadAttributesV2, ListDir, Child, V2Child,
     Children, OpenArrays, StoreStays
<1>3. call \in [Callers -> CallType]
  BY DEF NodesInv, NodesTyped
<1>4. \/ call'[c].at = "idle" /\ call'[c].result # "array"
      \/ call'[c].at \notin {"idle", "attributes", "delete-.zarray", "delete-.zgroup"} \cup Deleting
  <2>1. CASE Fail(c) \/ MustBeNew(c) \/ ReadOnly2(c) \/ ReadV2(c) \/ ReadOther(c) \/ ReadAttributesV2(c)
    BY <1>3, <2>1 DEF Fail, MustBeNew, ReadOnly2, ReadV2, ReadOther, ReadAttributesV2, Ends, Goto, CallType, Deleting
  <2>2. CASE Children(c) \/ OpenArrays(c)
    BY <1>3, <2>2 DEF Children, OpenArrays, Ends, CallType
  <2>3. CASE ListDir(c) \/ Child(c) \/ V2Child(c)
    <3>1. call[c].at \in {"list", "children"}
      BY <2>3 DEF ListDir, Child, V2Child, At
    <3>2. call'[c].at \in {"list", "children"}
      <4>1. CASE Child(c) \/ V2Child(c)
        <5>1. \E todo : \E found : call' = [call EXCEPT ![c].todo = todo, ![c].found = found]
          BY <4>1 DEF Child, V2Child
        <5> QED
          BY <1>3, <3>1, <5>1 DEF CallType
      <4>2. CASE ListDir(c) /\ tree.kind = "dir"
        BY <1>3, <4>2 DEF ListDir, CallType
      <4>3. CASE ListDir(c) /\ tree.kind # "dir"
        <5>1. PICK gives : Listed(c, gives, "children")
          BY <4>3 DEF ListDir
        <5> QED
          BY <3>1, <5>1, ListedMoves
      <4> QED
        BY <2>3, <4>1, <4>2, <4>3
    <3> QED
      BY <3>2 DEF Deleting
  <2> QED
    BY <2>1, <2>2, <2>3
<1>5. Gone(c)' /\ Sets(c)'
  BY <1>4 DEF Gone, Sets, Deleting
<1> QED
  BY <1>1, <1>2, <1>5, StayKeeps

LEMMA ChunksStayKept ==
  ASSUME NodesInv, ChunksKept, NEW c \in Callers, StepOf(c)
  PROVE  ChunksKept'
BY CreateKeeps, WriteKeeps, AttributesKeep, DeleteMetadataKeeps, DeleteListedKeeps, BeginKeeps, ReadMetadataKeeps,
   ListKeeps, DeletePrefixKeeps, OthersOpen DEF StepOf

(* An array that opens has its chunks, whatever calls are made of the nodes *)
(* and whichever of their steps fail (delete.go:8-17): the metadata went    *)
(* first, and does not come back before the chunks are gone or created anew. *)
THEOREM OpenArraysAreWhole == DeletesApart => (Spec => []ArraysKeepTheirChunks)
<1> SUFFICES ASSUME DeletesApart PROVE Spec => []ArraysKeepTheirChunks
  OBVIOUS
<1>1. Init => ChunksKept
  <2> SUFFICES ASSUME InitNodes PROVE ChunksKept
    BY DEF Init
  <2>1. Apart(tree)
    <3>1. \A c \in Callers : NoTree.calls[c] = <<>>
      BY DEF NoTree
    <3>2. Apart(NoTree)
      BY <3>1 DEF Apart
    <3> QED
      BY <3>2 DEF InitNodes, DeletesApart
  <2>2. wrote \subseteq DOMAIN held
    BY DEF InitNodes
  <2>3. \A c \in Callers : call[c].at = "idle" /\ call[c].result = "none"
    BY DEF InitNodes, Idle
  <2> QED
    BY <2>1, <2>2, <2>3 DEF ChunksKept, Gone, Sets, Deleting
<1>2. NodesInv /\ ChunksKept /\ [Next]_vars => ChunksKept'
  <2> SUFFICES ASSUME NodesInv, ChunksKept, [Next]_vars PROVE ChunksKept'
    OBVIOUS
  <2>1. [NodeNext]_nodeVars
    BY DEF Next, vars
  <2>2. CASE UNCHANGED nodeVars
    BY <2>2 DEF nodeVars, ChunksKept, Gone, Sets, Op, NextIs, Intact, Apart
  <2>3. CASE NodeNext
    <3>1. PICK c \in Callers : StepOf(c)
      BY <2>3 DEF NodeNext, StepOf
    <3> QED
      BY <3>1, ChunksStayKept
  <2> QED
    BY <2>1, <2>2, <2>3
<1> QED
  BY <1>1, <1>2, NodesAreTyped, ChunksKeptSuffices, PTL DEF Spec
-----------------------------------------------------------------------------
(* What is at a path stays of one kind: no key of version 2 is written, and *)
(* in a group of version 2 no other than the attributes of what was opened. *)
Kept(c) ==
  /\ call[c].n = 0 => call[c].result = "none"
  /\ At(c, "create") => tree.format = 3
  /\ tree.format = 2 /\ call[c].n > 0 /\ call[c].result \in {"array", "group"} => NoV2(held, Op(c).path)
  /\ tree.format = 2 /\ At(c, "attributes") /\ call[c].handle \in {"array", "group"} => NoV2(held, Op(c).path)
KindsKept ==
  /\ OneKind(held, tree.format)
  /\ \A k \in DOMAIN held : k[1] \in dirs
  /\ \A c \in Callers : Kept(c)

(* Which keys come to be.                                                   *)
LEMMA KeysAdded ==
  ASSUME NodesInv, NEW c \in Callers, StepOf(c), NEW k \in DOMAIN held', k \notin DOMAIN held
  PROVE  \/ Create(c) /\ k = <<Op(c).path, "zarr.json">>
         \/ SetAttributes(c) /\ k = <<Op(c).path, "zarr.json">>
         \/ k[2] \notin Metadata
<1>1. CASE Create(c)
  <2>1. \E v : held' = With(<<Op(c).path, "zarr.json">>, v)
    BY <1>1 DEF Create, CreateArray, CreateGroup, Becomes
  <2>2. k = <<Op(c).path, "zarr.json">>
    BY <2>1 DEF With
  <2> QED
    BY <1>1, <2>2
<1>2. CASE SetAttributes(c)
  BY <1>2 DEF SetAttributes, Becomes, With
<1>3. CASE WriteChunk(c)
  <2>1. PICK x \in Chunks(Op(c).path) : Becomes(With(x, "data"))
    BY <1>3 DEF WriteChunk
  <2>2. k = x
    BY <2>1 DEF Becomes, With
  <2> QED
    BY <2>2 DEF Chunks
<1>4. CASE DeleteMetadata(c) \/ DeleteListed(c)
  BY <1>4 DEF DeleteMetadata, DeleteKey, DeleteListed, Becomes, Without
<1>5. CASE UNCHANGED held
  BY <1>5
<1>6. ASSUME ~(Create(c) \/ WriteChunk(c) \/ SetAttributes(c) \/ DeleteMetadata(c) \/ DeleteListed(c))
      PROVE  UNCHANGED held
  BY <1>6 DEF StepOf, Begin, Fail, MustBeNew, ReadOnly2, ReadMetadata, ReadV2, ReadOther, ReadAttributesV2,
     ListDir, Child, V2Child, Children, OpenArrays, List, DeletePrefix, StoreStays
<1> QED
  BY <1>1, <1>2, <1>3, <1>4, <1>5, <1>6

LEMMA NoV2Added ==
  ASSUME NodesInv, NEW c \in Callers, StepOf(c), NEW p
  PROVE  /\ <<p, ".zarray">> \in DOMAIN held' => <<p, ".zarray">> \in DOMAIN held
         /\ <<p, ".zgroup">> \in DOMAIN held' => <<p, ".zgroup">> \in DOMAIN held
         /\ NoV2(held, p) => NoV2(held', p)
<1>1. ASSUME NEW name \in {".zarray", ".zgroup"}, <<p, name>> \in DOMAIN held', <<p, name>> \notin DOMAIN held
      PROVE  FALSE
  <2>1. <<p, name>>[2] = name /\ name \in Metadata /\ <<p, name>> # <<Op(c).path, "zarr.json">>
    BY DEF Metadata
  <2> QED
    BY <1>1, <2>1, KeysAdded
<1> QED
  BY <1>1 DEF NoV2

(* The directories a DirStore lists are those of its keys, and more.        *)
LEMMA DirsKept ==
  ASSUME NodesInv, NEW c \in Callers, StepOf(c), \A k \in DOMAIN held : k[1] \in dirs
  PROVE  \A k \in DOMAIN held' : k[1] \in dirs'
<1>1. CASE Becomes(held')
  BY <1>1 DEF Becomes
<1>2. CASE UNCHANGED <<held, dirs>>
  BY <1>2
<1> QED
  BY <1>1, <1>2, StoreMoves, Begins

(* In a group of version 2, what opens as of version 3 has no other.        *)
LEMMA NewResultIs ==
  ASSUME NodesInv, KindsKept, NEW c \in Callers, StepOf(c), ~Begin(c), tree.format = 2,
         call'[c].result \in {"array", "group"}, ~At(c, "idle")
  PROVE  \/ call'[c].result = call[c].result
         \/ UNCHANGED held /\ NoV2(held, Op(c).path)
<1>1. call \in [Callers -> CallType] /\ call[c] \in CallType /\ held \in HeldType
  BY DEF NodesInv, NodesTyped
<1>2. CASE ReadMetadata(c)
  <2>1. CASE Has(Op(c).path, "zarr.json")
    <3>1. <<Op(c).path, "zarr.json">> \in AllKeys /\ <<Op(c).path, "zarr.json">>[1] = Op(c).path
      BY <1>1, <2>1, HeldIs DEF Has
    <3>2. Op(c).path \in Paths
      BY <3>1 DEF Paths
    <3>3. NoV2(held, Op(c).path)
      BY <2>1, <3>2 DEF Has, KindsKept, OneKind
    <3> QED
      BY <1>2, <3>3 DEF ReadMetadata, StoreStays
  <2>2. CASE ~Has(Op(c).path, "zarr.json")
    BY <1>1, <1>2, <2>2 DEF ReadMetadata, Goto, CallType
  <2> QED
    BY <2>1, <2>2
<1>3. CASE Create(c)
  BY <1>3 DEF Create, KindsKept, Kept
<1>4. CASE Fail(c) \/ MustBeNew(c) \/ ReadOnly2(c) \/ ReadOther(c) \/ ReadAttributesV2(c)
  <2>1. \E result \in {"error", "refused", "exists", "notfound", "array2", "group2"} : Ends(c, result)
        \/ Goto(c, "create")
    BY <1>4 DEF Fail, MustBeNew, ReadOnly2, ReadOther, ReadAttributesV2
  <2> QED
    BY <1>1, <2>1 DEF Ends, Goto, CallType
<1>5. CASE WriteChunk(c) \/ SetAttributes(c) \/ Children(c)
  BY <1>1, <1>5 DEF WriteChunk, SetAttributes, Children, Ends, CallType
<1>6. CASE OpenArrays(c)
  BY <1>1, <1>6 DEF OpenArrays, CallType
<1>7. CASE ReadV2(c) \/ DeleteMetadata(c)
  BY <1>1, <1>7 DEF ReadV2, DeleteMetadata, DeleteKey, Goto, CallType
<1>8. CASE DeletePrefix(c)
  BY <1>1, <1>8 DEF DeletePrefix, Ends, CallType
<1>9. CASE ListDir(c) \/ Child(c) \/ V2Child(c) \/ List(c) \/ DeleteListed(c)
  <2>1. call'[c].at # "idle"
    <3>1. CASE ListDir(c) /\ tree.kind = "dir"
      BY <1>1, <3>1 DEF ListDir, CallType
    <3>2. CASE ListDir(c) /\ tree.kind # "dir"
      <4>1. PICK gives : Listed(c, gives, "children")
        BY <3>2 DEF ListDir
      <4> QED
        BY <4>1, ListedMoves DEF At
    <3>3. CASE Child(c) \/ V2Child(c)
      <4>1. \E todo : \E found : call' = [call EXCEPT ![c].todo = todo, ![c].found = found]
        BY <3>3 DEF Child, V2Child
      <4> QED
        BY <1>1, <4>1 DEF CallType, At
    <3>4. CASE List(c)
      <4>1. CASE \E gives : Listed(c, gives, "delete-keys")
        BY <4>1, ListedMoves DEF At
      <4>2. CASE \E todo : call' = [call EXCEPT ![c].todo = todo, ![c].at = "delete-batch"]
        BY <1>1, <4>2 DEF CallType
      <4> QED
        BY <3>4, <4>1, <4>2 DEF List
    <3>5. CASE DeleteListed(c)
      BY <1>1, <3>5 DEF DeleteListed, CallType, At
    <3> QED
      BY <1>9, <3>1, <3>2, <3>3, <3>4, <3>5
  <2> QED
    BY <2>1, GoesOn
<1> QED
  BY <1>2, <1>3, <1>4, <1>5, <1>6, <1>7, <1>8, <1>9 DEF StepOf

LEMMA KindsStep ==
  ASSUME NodesInv, NodesInv', KindsKept, NEW c \in Callers, StepOf(c)
  PROVE  KindsKept'
<1>1. call \in [Callers -> CallType] /\ held \in HeldType /\ tree'.format = tree.format /\ tree \in TreeType
  BY OthersStay DEF NodesInv, NodesTyped
<1>2. OneKind(held', tree'.format)
  <2>1. ASSUME NEW p \in Paths, <<p, ".zarray">> \in DOMAIN held' PROVE <<p, ".zgroup">> \notin DOMAIN held'
    BY <2>1, NoV2Added DEF KindsKept, OneKind
  <2>2. ASSUME NEW p \in Paths, tree.format = 2, <<p, "zarr.json">> \in DOMAIN held' PROVE NoV2(held', p)
    <3>1. CASE <<p, "zarr.json">> \in DOMAIN held
      BY <2>2, <3>1, NoV2Added DEF KindsKept, OneKind
    <3>2. CASE <<p, "zarr.json">> \notin DOMAIN held
      <4>1. <<p, "zarr.json">>[2] \in Metadata
        BY DEF Metadata
      <4>2. (Create(c) \/ SetAttributes(c)) /\ p = Op(c).path
        BY <2>2, <3>2, <4>1, KeysAdded
      <4>3. SetAttributes(c)
        BY <2>2, <4>2 DEF Create, KindsKept, Kept
      <4>4. NoV2(held, p)
        BY <2>2, <4>2, <4>3 DEF SetAttributes, KindsKept, Kept
      <4> QED
        BY <4>4, NoV2Added
    <3> QED
      BY <3>1, <3>2
  <2> QED
    BY <1>1, <2>1, <2>2 DEF OneKind
<1>3. \A k \in DOMAIN held' : k[1] \in dirs'
  BY DirsKept DEF KindsKept
<1>4. ASSUME NEW d \in Callers PROVE Kept(d)'
  <2>1. CASE d # c
    <3>1. call'[d] = call[d] /\ Op(d)' = Op(d)
      BY <2>1, OthersStay DEF Op
    <3>2. Kept(d)
      BY DEF KindsKept
    <3>3. NoV2(held, Op(d).path) => NoV2(held', Op(d).path)
      BY NoV2Added
    <3> QED
      BY <1>1, <3>1, <3>2, <3>3 DEF Kept, At
  <2>2. CASE d = c /\ Begin(c)
    <3>1. /\ At(c, "idle") /\ call'[c].n = call[c].n + 1 /\ call'[c].at = First(Op(c)'.do)
          /\ call'[c].handle = call[c].result /\ call'[c].result = "none" /\ Op(c)' \in Calls /\ held' = held
          /\ call[c].n + 1 \in DOMAIN tree.calls[c] /\ Op(c)' = tree.calls[c][call[c].n + 1]
      BY <2>2, Begins
    <3>2. call'[c].at # "create"
      BY <3>1 DEF First, Calls
    <3>3. ASSUME tree.format = 2, call'[c].at = "attributes", call[c].result \in {"array", "group"}
          PROVE  NoV2(held', Op(c)'.path)
      <4>1. Op(c)'.do = "attributes"
        BY <3>1, <3>3 DEF First, Calls
      <4>2. call[c].n \in Nat /\ call[c].n > 0
        BY <1>1, <3>3 DEF KindsKept, Kept, CallType
      <4>3. Op(c)'.path = Op(c).path
        <5> DEFINE n == call[c].n + 1
        <5>1. n > 1 /\ n - 1 = call[c].n /\ n \in DOMAIN tree.calls[c]
          BY <3>1, <4>2
        <5>2. Plans(tree) /\ tree.calls[c][n].do = "attributes"
          BY <3>1, <4>1 DEF NodesInv, NodesTyped
        <5> HIDE DEF n
        <5>3. tree.calls[c][n].path = tree.calls[c][n - 1].path
          BY <5>1, <5>2 DEF Plans
        <5> QED
          BY <3>1, <5>1, <5>3 DEF n, Op
      <4> QED
        BY <3>1, <3>3, <4>2, <4>3 DEF KindsKept, Kept
    <3>4. call'[c].n # 0
      BY <1>1, <3>1 DEF CallType
    <3> QED
      BY <1>1, <2>2, <3>1, <3>2, <3>3, <3>4 DEF Kept, At
  <2>3. CASE d = c /\ ~Begin(c)
    <3>1. call'[c].n = call[c].n /\ call'[c].handle = call[c].handle /\ Op(c)' = Op(c) /\ ~At(c, "idle")
      BY <2>3, GoesOn
    <3>2. ASSUME call'[c].at = "create" PROVE tree.format = 3
      <4>1. call[c].at = "create" \/ call[c].at = "new"
        BY <2>3, <3>2, GoesOn DEF Ways
      <4>2. CASE call[c].at = "create"
        BY <4>2 DEF KindsKept, Kept, At
      <4>3. CASE call[c].at = "new"
        <5>1. Fail(c) \/ MustBeNew(c)
          BY <2>3, <4>3 DEF StepOf, Create, WriteChunk, SetAttributes, ReadOnly2, ReadMetadata, ReadV2,
             ReadOther, ReadAttributesV2, ListDir, Child, V2Child, Children, OpenArrays, DeleteMetadata, DeleteKey,
             List, DeleteListed, DeletePrefix, At
        <5> QED
          BY <1>1, <3>2, <5>1 DEF Fail, MustBeNew, Ends, CallType, WritableGroup
      <4> QED
        BY <4>1, <4>2, <4>3
    <3>3. ASSUME tree.format = 2, call[c].n > 0, call'[c].result \in {"array", "group"} PROVE NoV2(held', Op(c).path)
      <4>1. CASE call'[c].result = call[c].result
        BY <3>3, <4>1, NoV2Added DEF KindsKept, Kept
      <4>2. CASE call'[c].result # call[c].result
        BY <2>3, <3>1, <3>3, <4>2, NewResultIs
      <4> QED
        BY <4>1, <4>2
    <3>4. ASSUME tree.format = 2, call'[c].at = "attributes", call[c].handle \in {"array", "group"}
          PROVE  NoV2(held', Op(c).path)
      <4>1. call[c].at = "attributes"
        BY <2>3, <3>4, GoesOn DEF Ways
      <4> QED
        BY <3>4, <4>1, NoV2Added DEF KindsKept, Kept, At
    <3>5. call'[c].n # 0
      BY <3>1, OpIs
    <3> QED
      BY <1>1, <2>3, <3>1, <3>2, <3>3, <3>4, <3>5 DEF Kept, At
  <2> QED
    BY <2>1, <2>2, <2>3
<1> QED
  BY <1>2, <1>3, <1>4 DEF KindsKept
-----------------------------------------------------------------------------
(* What a call has seen so far, of what there is and was: an open, in       *)
(* version 2, what it wants or that it was not there; and a listing, each   *)
(* node that is in it all the while whose key it has come by.               *)
Type2(c) == IF Wanted(c) = "array" THEN "array2" ELSE "group2"
OpenSeen(c) ==
  LET p == Op(c).path
      ever == since[c].ever
      always == since[c].always
  IN  /\ At(c, "v2") => /\ Has(p, ".zarray") => <<p, "array2">> \in ever
                        /\ Has(p, ".zgroup") => <<p, "group2">> \in ever
      /\ At(c, ".zattrs") => <<p, Type2(c)>> \in ever
      /\ At(c, "v2") \/ At(c, "other") =>
           \A node \in always : node[1] = p => node[2] \in {"array2", "group2", "none"}
      /\ At(c, "other") => \A node \in always : node[1] = p => node[2] # Type2(c)

MetadataOf(type) ==
  CASE type \in {"array", "group"} -> "zarr.json" [] type = "array2" -> ".zarray" [] OTHER -> ".zgroup"
NameIn(c, node) == node[1][Len(Op(c).path) + 1]
ChildOf(c, node) == InGroup(Op(c).path, node[1]) /\ OfFormat(node[2])
ListSeen(c) ==
  At(c, "list") \/ At(c, "children") =>
    /\ call[c].found \subseteq since[c].ever
    /\ \A node \in since[c].always : ChildOf(c, node) =>
         /\ At(c, "list") => \A m \in 1 .. call[c].pos - 1 :
              KeyOrder[m] = <<node[1], MetadataOf(node[2])>> => NameIn(c, node) \in call[c].todo
         /\ At(c, "children") => NameIn(c, node) \in call[c].todo \/ node \in call[c].found

OpenTold(c) ==
  Op(c).do \in {"open-array", "open-group"} =>
    /\ call[c].result \in {"array", "group", "array2", "group2"} => <<Op(c).path, call[c].result>> \in since[c].ever
    /\ call[c].result = "notfound" => \A node \in since[c].always : node[1] = Op(c).path => node[2] = "none"
ListTold(c) ==
  Op(c).do \in {"children", "open-arrays"} /\ call[c].result = "ok" =>
    /\ call[c].found \subseteq since[c].ever
    /\ \A node \in since[c].always :
         ChildOf(c, node) /\ (Op(c).do = "children" \/ node[2] \in Arrays) => node \in call[c].found

Seen(c) == ~At(c, "idle") => NodesOf(held) \subseteq since[c].ever /\ OpenSeen(c) /\ ListSeen(c)
Told(c) == At(c, "idle") /\ call[c].n > 0 => OpenTold(c) /\ ListTold(c)
AnswersInv == \A c \in Callers : Seen(c) /\ Told(c)

LEMMA AnswersSuffice == AnswersInv => AnswersOfTheirTime
<1> SUFFICES ASSUME AnswersInv, NEW c \in Callers, At(c, "idle"), call[c].n > 0
             PROVE  /\ Op(c).do \in {"open-array", "open-group"} => OpenTold(c)
                    /\ Op(c).do \in {"children", "open-arrays"} => ListTold(c)
  BY DEF AnswersOfTheirTime, OpenTold, ListTold, ChildOf
<1> QED
  BY DEF AnswersInv, Told

(* What a step leaves of a call that goes on.                               *)
LEMMA SinceGrows ==
  ASSUME NodesInv, NEW c \in Callers, StepOf(c), NEW d \in Callers, ~(Begin(c) /\ d = c), ~At(d, "idle")
  PROVE  /\ since[d].ever \subseteq since'[d].ever /\ since'[d].always \subseteq since[d].always
         /\ NodesOf(held) \subseteq since[d].ever => NodesOf(held') \subseteq since'[d].ever
<1> DEFINE now == NodesOf(held')
<1> HIDE DEF now
<1>1. \/ since'[d] = since[d] /\ held' = held
      \/ since'[d] = [ever |-> since[d].ever \cup now, always |-> since[d].always \cap now]
  BY SinceMoves DEF At, now
<1>2. CASE since'[d] = since[d] /\ held' = held
  BY <1>2
<1>3. CASE since'[d] = [ever |-> since[d].ever \cup now, always |-> since[d].always \cap now]
  BY <1>3 DEF now
<1> QED
  BY <1>1, <1>2, <1>3

LEMMA OthersSeen ==
  ASSUME NodesInv, NEW c \in Callers, StepOf(c), NEW d \in Callers, d # c, Seen(d), Told(d)
  PROVE  Seen(d)' /\ Told(d)'
<1>1. call'[d] = call[d] /\ Op(d)' = Op(d) /\ tree'.format = tree.format
  BY OthersStay DEF Op
<1>2. CASE At(d, "idle")
  <2>1. since'[d] = since[d]
    BY <1>2, SinceMoves DEF At
  <2>2. Told(d)'
    BY <1>1, <1>2, <2>1 DEF Told, OpenTold, ListTold, ChildOf, OfFormat, At
  <2> QED
    BY <1>1, <1>2, <2>2 DEF Seen, At
<1>3. CASE ~At(d, "idle")
  <2>1. /\ since[d].ever \subseteq since'[d].ever /\ since'[d].always \subseteq since[d].always
        /\ NodesOf(held') \subseteq since'[d].ever
    BY <1>3, SinceGrows DEF Seen
  <2>2. /\ Has(Op(d).path, ".zarray")' => Has(Op(d).path, ".zarray")
        /\ Has(Op(d).path, ".zgroup")' => Has(Op(d).path, ".zgroup")
    BY <1>1, NoV2Added DEF Has
  <2>3. Type2(d)' = Type2(d)
    BY <1>1 DEF Type2, Wanted
  <2>4. OpenSeen(d)'
    BY <1>1, <1>3, <2>1, <2>2, <2>3 DEF Seen, OpenSeen, At
  <2>5. \A node : ChildOf(d, node)' <=> ChildOf(d, node)
    BY <1>1 DEF ChildOf, OfFormat
  <2>6. ListSeen(d)'
    BY <1>1, <1>3, <2>1, <2>5 DEF Seen, ListSeen, NameIn, At
  <2> QED
    BY <1>1, <1>3, <2>1, <2>4, <2>6 DEF Seen, Told, At
<1> QED
  BY <1>2, <1>3

LEMMA BeginSeen ==
  ASSUME NodesInv, NEW c \in Callers, Begin(c)
  PROVE  Seen(c)' /\ Told(c)'
<1>1. /\ call'[c].at = First(Op(c)'.do) /\ Op(c)' \in Calls /\ call'[c].found = {} /\ UNCHANGED held
      /\ since'[c] = [ever |-> NodesOf(held), always |-> NodesOf(held)]
  BY Begins
<1>2. call'[c].pos = 1
  BY DEF Begin, Idle, NodesInv, NodesTyped
<1>3. call'[c].at \notin {"idle", "v2", ".zattrs", "other", "children"}
  BY <1>1 DEF First, Calls
<1>4. OpenSeen(c)' /\ Told(c)'
  BY <1>3 DEF OpenSeen, Told, At
<1>5. 1 .. call'[c].pos - 1 = {}
  BY <1>2
<1>6. ListSeen(c)'
  BY <1>1, <1>3, <1>5 DEF ListSeen, At
<1> QED
  BY <1>1, <1>4, <1>6 DEF Seen

Queries == {"open-array", "open-group", "children", "open-arrays"}
LEMMA OthersDone ==
  ASSUME NodesInv, NEW c \in Callers, StepOf(c), ~Begin(c), Seen(c),
         Op(c).do \notin Queries \/ Fail(c)
  PROVE  Seen(c)' /\ Told(c)'
<1>1. /\ Op(c)' = Op(c) /\ ~At(c, "idle")
      /\ call'[c].at = "idle" \/ call'[c].at = call[c].at \/ <<call[c].at, call'[c].at>> \in Ways
  BY GoesOn
<1>2. NodesOf(held') \subseteq since'[c].ever
  BY <1>1, SinceGrows DEF Seen
<1>3. CASE Fail(c)
  <2>1. call'[c].at = "idle" /\ call'[c].result = "error"
    BY <1>3 DEF Fail, Ends, NodesInv, NodesTyped, CallType
  <2> QED
    BY <2>1 DEF Seen, Told, OpenTold, ListTold, At
<1>4. CASE Op(c).do \notin Queries
  <2>1. call[c].at \in PlacesOf(Op(c).do) /\ Op(c) \in Calls
    BY <1>1, OpIs
  <2>2. call[c].at \notin {"zarr.json", "v2", ".zattrs", "other", "list", "children"}
    BY <1>4, <2>1, PlaceIs DEF Calls, Queries
  <2>3. call'[c].at \notin {"v2", ".zattrs", "other", "list", "children"}
    BY <1>1, <2>2 DEF Ways
  <2> QED
    BY <1>1, <1>2, <1>4, <2>3 DEF Seen, Told, OpenSeen, ListSeen, OpenTold, ListTold, At, Queries
<1> QED
  BY <1>3, <1>4

(* What there is at a path.                                                 *)
LEMMA NodeIs ==
  ASSUME held \in HeldType, NEW p
  PROVE  /\ \A name : Has(p, name) => p \in Paths
         /\ p \in Paths => <<p, NodeAt(held, p)>> \in NodesOf(held)
         /\ Has(p, "zarr.json") => NodeAt(held, p) = held[<<p, "zarr.json">>]
         /\ ~Has(p, "zarr.json") => NodeAt(held, p) \in {"array2", "group2", "none"}
         /\ ~Has(p, "zarr.json") /\ Has(p, ".zarray") => NodeAt(held, p) = "array2"
         /\ ~Has(p, "zarr.json") /\ ~Has(p, ".zarray") /\ Has(p, ".zgroup") => NodeAt(held, p) = "group2"
         /\ NodeAt(held, p) \in {"array", "group"} => Has(p, "zarr.json")
         /\ NodeAt(held, p) = "array2" => Has(p, ".zarray")
         /\ NodeAt(held, p) = "group2" => Has(p, ".zgroup")
<1>1. ASSUME NEW name, Has(p, name) PROVE p \in Paths
  <2>1. <<p, name>> \in AllKeys /\ <<p, name>>[1] = p
    BY <1>1, HeldIs DEF Has
  <2> QED
    BY <2>1 DEF Paths
<1>2. <<p, "zarr.json">> \in DOMAIN held => held[<<p, "zarr.json">>] \in {"array", "group", "data"}
  BY HeldIs
<1>3. p \in Paths => <<p, NodeAt(held, p)>> \in NodesOf(held)
  BY DEF NodesOf
<1> QED
  BY <1>1, <1>2, <1>3 DEF NodeAt, Has

LEMMA OpenSteps ==
  ASSUME NodesInv, KindsKept, AlwaysThere, NEW c \in Callers, Seen(c),
         ReadMetadata(c) \/ ReadV2(c) \/ ReadOther(c) \/ ReadAttributesV2(c)
  PROVE  Seen(c)' /\ Told(c)'
<1> DEFINE p == Op(c).path
           ever == since[c].ever
           always == since[c].always
           way == call'[c].at
           result == call'[c].result
<1>1. StepOf(c) /\ ~Begin(c) /\ StoreStays
  BY DEF StepOf, Begin, At, ReadMetadata, ReadV2, ReadOther, ReadAttributesV2
<1>2. /\ Op(c)' = Op(c) /\ ~At(c, "idle") /\ call'[c].n = call[c].n
      /\ call \in [Callers -> CallType] /\ call[c] \in CallType /\ held \in HeldType
  BY <1>1, GoesOn DEF NodesInv, NodesTyped
<1>3. Op(c).do \in {"open-array", "open-group"}
  <2>1. call[c].at \in PlacesOf(Op(c).do) /\ Op(c) \in Calls
    BY <1>2, OpIs
  <2>2. call[c].at \in {"zarr.json", "v2", "other", ".zattrs"}
    BY DEF At, ReadMetadata, ReadV2, ReadOther, ReadAttributesV2
  <2> QED
    BY <2>1, <2>2, PlaceIs DEF Calls
<1>4. UNCHANGED <<tree, held, since>> /\ NodesOf(held) \subseteq ever /\ OpenSeen(c) /\ always \subseteq NodesOf(held)
  BY <1>1, <1>2 DEF StoreStays, Seen, AlwaysThere
<1>5. \A node \in always : node[1] = p => node[2] = NodeAt(held, p)
  BY <1>4, NodesOfIs
<1>6. \A name : Has(p, name) => <<p, NodeAt(held, p)>> \in ever
  BY <1>2, <1>4, NodeIs
<1>7. Wanted(c) \in {"array", "group"} /\ Wanted(c)' = Wanted(c) /\ Type2(c)' = Type2(c)
  BY <1>2 DEF Wanted, Type2
<1> HIDE DEF p, ever, always
<1>8. ASSUME result \in {"array", "group", "array2", "group2"} => <<p, result>> \in ever,
             result = "notfound" => \A node \in always : node[1] = p => node[2] = "none",
             way = "idle"
      PROVE  Seen(c)' /\ Told(c)'
  <2>1. OpenTold(c)'
    BY <1>2, <1>4, <1>8 DEF OpenTold, p, ever, always
  <2>2. ListTold(c)'
    BY <1>2, <1>3 DEF ListTold
  <2> QED
    BY <1>8, <2>1, <2>2 DEF Seen, Told, At
<1>9. ASSUME way = "v2" => /\ Has(p, ".zarray") => <<p, "array2">> \in ever
                           /\ Has(p, ".zgroup") => <<p, "group2">> \in ever,
             way = ".zattrs" => <<p, Type2(c)>> \in ever,
             way \in {"v2", "other"} =>
               \A node \in always : node[1] = p => node[2] \in {"array2", "group2", "none"},
             way = "other" => \A node \in always : node[1] = p => node[2] # Type2(c),
             way \in {"v2", "other", ".zattrs"}
      PROVE  Seen(c)' /\ Told(c)'
  <2>1. \A name : Has(p, name)' <=> Has(p, name)
    BY <1>2, <1>4 DEF Has, p
  <2>2. OpenSeen(c)'
    BY <1>2, <1>4, <1>7, <1>9, <2>1 DEF OpenSeen, At, p, ever, always
  <2>3. ListSeen(c)' /\ Told(c)'
    BY <1>9 DEF ListSeen, Told, At
  <2> QED
    BY <1>4, <2>2, <2>3 DEF Seen, ever
<1>10. CASE ReadMetadata(c)
  <2>1. CASE Has(p, "zarr.json")
    <3>1. way = "idle" /\ (result = "refused" \/ (result = Wanted(c) /\ held[<<p, "zarr.json">>] = Wanted(c)))
      BY <1>2, <1>10, <2>1 DEF ReadMetadata, Ends, CallType, p
    <3>2. result = Wanted(c) => result = NodeAt(held, p)
      BY <1>2, <1>7, <2>1, <3>1, NodeIs
    <3>3. result # "refused" => <<p, result>> \in ever
      BY <1>6, <2>1, <3>1, <3>2
    <3> QED
      BY <1>7, <1>8, <3>1, <3>3
  <2>2. CASE ~Has(p, "zarr.json")
    <3>1. way = "v2"
      BY <1>2, <1>10, <2>2 DEF ReadMetadata, Goto, CallType, p
    <3>2. Has(p, ".zarray") => <<p, "array2">> \in ever
      BY <1>2, <1>6, <2>2, NodeIs
    <3>3. Has(p, ".zgroup") => <<p, "group2">> \in ever
      <4>1. Has(p, ".zgroup") => ~Has(p, ".zarray")
        BY <1>2, NodeIs DEF KindsKept, OneKind, Has
      <4> QED
        BY <1>2, <1>6, <2>2, <4>1, NodeIs
    <3>4. \A node \in always : node[1] = p => node[2] \in {"array2", "group2", "none"}
      BY <1>2, <1>5, <2>2, NodeIs
    <3> QED
      BY <1>9, <3>1, <3>2, <3>3, <3>4
  <2> QED
    BY <2>1, <2>2
<1>11. CASE ReadV2(c)
  <2>1. /\ At(c, "v2") /\ Has(p, ".zarray") => <<p, "array2">> \in ever
        /\ Has(p, ".zgroup") => <<p, "group2">> \in ever
        /\ \A node \in always : node[1] = p => node[2] \in {"array2", "group2", "none"}
    BY <1>4, <1>11 DEF ReadV2, OpenSeen, p, ever, always
  <2>2. way = IF Has(p, KeyV2(Wanted(c))) THEN ".zattrs" ELSE "other"
    BY <1>2, <1>11 DEF ReadV2, Goto, CallType, p
  <2>3. Has(p, KeyV2(Wanted(c))) => <<p, Type2(c)>> \in ever
    BY <1>11, <2>1 DEF ReadV2, KeyV2, Type2
  <2>4. ~Has(p, KeyV2(Wanted(c))) => NodeAt(held, p) # Type2(c)
    BY <1>2, <1>7, NodeIs DEF KeyV2, Type2
  <2> QED
    BY <1>5, <1>9, <2>1, <2>2, <2>3, <2>4
<1>12. CASE ReadOther(c)
  <2> DEFINE other == IF Wanted(c) = "array" THEN "group" ELSE "array"
  <2>1. way = "idle" /\ result = IF Has(p, KeyV2(other)) THEN "refused" ELSE "notfound"
    BY <1>2, <1>12 DEF ReadOther, Ends, CallType, p
  <2>2. \A node \in always : node[1] = p => node[2] \in {"array2", "group2", "none"} /\ node[2] # Type2(c)
    BY <1>4, <1>12 DEF ReadOther, OpenSeen, p, always
  <2>3. ~Has(p, KeyV2(other)) =>
          NodeAt(held, p) # (IF Wanted(c) = "array" THEN "group2" ELSE "array2")
    BY <1>2, <1>7, NodeIs DEF KeyV2
  <2>4. ~Has(p, KeyV2(other)) => \A node \in always : node[1] = p => node[2] = "none"
    BY <1>5, <1>7, <2>2, <2>3 DEF Type2
  <2> QED
    BY <1>8, <2>1, <2>4
<1>13. CASE ReadAttributesV2(c)
  <2>1. way = "idle" /\ result = Type2(c) /\ At(c, ".zattrs")
    BY <1>2, <1>13 DEF ReadAttributesV2, Ends, CallType, Type2
  <2>2. <<p, Type2(c)>> \in ever
    BY <1>4, <2>1 DEF OpenSeen, p, ever
  <2>3. result # "notfound"
    BY <2>1 DEF Type2
  <2> QED
    BY <1>8, <2>1, <2>2, <2>3
<1> QED
  BY <1>10, <1>11, <1>12, <1>13

(* A child that is there has metadata, and is of a name in the group.       *)
LEMMA ChildHas ==
  ASSUME NodesInv, NEW c \in Callers, ~At(c, "idle"), NEW node \in NodesOf(held), ChildOf(c, node)
  PROVE  /\ Has(node[1], MetadataOf(node[2])) /\ node[2] = NodeAt(held, node[1])
         /\ node = <<node[1], node[2]>> /\ node[1] = Append(Op(c).path, NameIn(c, node))
         /\ IsPrefix(Op(c).path, node[1]) /\ Len(node[1]) > Len(Op(c).path)
<1> DEFINE p == Op(c).path
           q == node[1]
<1>1. held \in HeldType /\ p \in Seq(STRING) /\ tree \in TreeType
  BY OpIs DEF NodesInv, NodesTyped
<1>2. q \in Paths /\ node[2] = NodeAt(held, q) /\ node = <<q, node[2]>>
  BY NodesOfIs
<1>3. q \in Seq(STRING)
  BY <1>2, KeysTyped
<1>4. node[2] \in {"array", "group", "array2", "group2"}
  BY DEF ChildOf, OfFormat
<1>5. Has(q, MetadataOf(node[2]))
  BY <1>1, <1>2, <1>4, NodeIs DEF MetadataOf
<1>6. Len(q) = Len(p) + 1 /\ Len(p) <= Len(q) /\ SubSeq(q, 1, Len(p)) = p /\ Len(p) \in Nat
  BY <1>1 DEF ChildOf, InGroup, IsPrefix
<1> HIDE DEF p, q
<1>7. q = Append(p, q[Len(p) + 1])
  <2>1. \A i \in 1 .. Len(p) : q[i] = p[i]
    <3>1. \A i \in 1 .. Len(p) : SubSeq(q, 1, Len(p))[i] = q[i]
      BY <1>3, <1>6
    <3> QED
      BY <1>6, <3>1
  <2>2. q[Len(p) + 1] \in STRING
    BY <1>3, <1>6
  <2> DEFINE r == Append(p, q[Len(p) + 1])
  <2>3. /\ r \in Seq(STRING) /\ Len(r) = Len(p) + 1 /\ r[Len(p) + 1] = q[Len(p) + 1]
        /\ \A i \in 1 .. Len(p) : r[i] = p[i]
    BY <1>1, <2>2, AppendProperties DEF p
  <2> HIDE DEF r
  <2>4. \A i \in 1 .. Len(p) + 1 : i \in 1 .. Len(p) \/ i = Len(p) + 1
    BY <1>6
  <2>5. \A i \in 1 .. Len(q) : q[i] = r[i]
    BY <1>6, <2>1, <2>3, <2>4
  <2>6. q = r
    BY <1>3, <1>6, <2>3, <2>5, SeqEqual
  <2> QED
    BY <2>6 DEF r
<1>8. IsPrefix(p, q) /\ Len(q) > Len(p)
  BY <1>6 DEF IsPrefix
<1> QED
  BY <1>2, <1>5, <1>7, <1>8 DEF NameIn, p, q

(* Where a listing is that goes on, or ends.                                *)
LEMMA ListGoesOn ==
  ASSUME NodesInv, AlwaysThere, NEW c \in Callers, Seen(c),
         ListDir(c) \/ Child(c) \/ V2Child(c) \/ Children(c) \/ OpenArrays(c)
  PROVE  /\ Op(c)' = Op(c) /\ ~At(c, "idle") /\ UNCHANGED <<tree, held, dirs, since>>
         /\ call \in [Callers -> CallType] /\ call[c] \in CallType /\ held \in HeldType
         /\ Op(c).do \in {"children", "open-arrays"}
         /\ NodesOf(held) \subseteq since[c].ever /\ ListSeen(c) /\ since[c].always \subseteq NodesOf(held)
         /\ \A node : ChildOf(c, node)' <=> ChildOf(c, node)
         /\ \A node : NameIn(c, node)' = NameIn(c, node)
<1>1. StepOf(c) /\ ~Begin(c) /\ StoreStays
  BY DEF StepOf, Begin, At, ListDir, Child, V2Child, Children, OpenArrays
<1>2. /\ Op(c)' = Op(c) /\ ~At(c, "idle")
      /\ call \in [Callers -> CallType] /\ call[c] \in CallType /\ held \in HeldType
  BY <1>1, GoesOn DEF NodesInv, NodesTyped
<1>3. Op(c).do \in {"children", "open-arrays"}
  <2>1. call[c].at \in PlacesOf(Op(c).do) /\ Op(c) \in Calls
    BY <1>2, OpIs
  <2>2. call[c].at \in {"list", "children"}
    BY DEF At, ListDir, Child, V2Child, Children, OpenArrays
  <2> QED
    BY <2>1, <2>2, PlaceIs DEF Calls
<1>4. UNCHANGED <<tree, held, dirs, since>>
  BY <1>1 DEF StoreStays
<1>5. NodesOf(held) \subseteq since[c].ever /\ ListSeen(c) /\ since[c].always \subseteq NodesOf(held)
  BY <1>2 DEF Seen, AlwaysThere
<1>6. /\ \A node : ChildOf(c, node)' <=> ChildOf(c, node)
      /\ \A node : NameIn(c, node)' = NameIn(c, node)
  BY <1>2, <1>4 DEF ChildOf, OfFormat, NameIn
<1> QED
  BY <1>2, <1>3, <1>4, <1>5, <1>6

LEMMA ListDirSteps ==
  ASSUME NodesInv, KindsKept, AlwaysThere, NEW c \in Callers, Seen(c), ListDir(c)
  PROVE  Seen(c)' /\ Told(c)'
<1> DEFINE p == Op(c).path
           pos == call[c].pos
<1>1. /\ Op(c)' = Op(c) /\ ~At(c, "idle") /\ UNCHANGED <<tree, held, dirs, since>>
      /\ call \in [Callers -> CallType] /\ call[c] \in CallType
      /\ NodesOf(held) \subseteq since[c].ever /\ ListSeen(c) /\ since[c].always \subseteq NodesOf(held)
      /\ \A node : ChildOf(c, node)' <=> ChildOf(c, node)
      /\ \A node : NameIn(c, node)' = NameIn(c, node)
  BY ListGoesOn
<1>2. At(c, "list") /\ pos \in 1 .. Len(KeyOrder) /\ Len(KeyOrder) \in Nat
  <2>1. At(c, "list") /\ CallIs(c, call[c]) /\ Len(KeyOrder) \in Nat
    BY KeysTyped DEF ListDir, NodesInv
  <2> QED
    BY <2>1 DEF CallIs, At
<1>3. call'[c].found = call[c].found /\ call[c].found \subseteq since[c].ever /\ call'[c].at \in {"list", "children"}
  <2>1. CASE tree.kind = "dir"
    BY <1>1, <1>2, <2>1 DEF ListDir, CallType, ListSeen
  <2>2. CASE tree.kind # "dir"
    <3>1. PICK gives : Listed(c, gives, "children")
      BY <2>2 DEF ListDir
    <3> QED
      BY <1>1, <1>2, <3>1, ListedMoves DEF ListSeen, At
  <2> QED
    BY <2>1, <2>2
<1>4. ASSUME NEW node \in since[c].always, ChildOf(c, node)
      PROVE  /\ call'[c].at = "list" => \A m \in 1 .. call'[c].pos - 1 :
                  KeyOrder[m] = <<node[1], MetadataOf(node[2])>> => NameIn(c, node) \in call'[c].todo
             /\ call'[c].at = "children" => NameIn(c, node) \in call'[c].todo
  <2> DEFINE k == <<node[1], MetadataOf(node[2])>>
             name == NameIn(c, node)
  <2>1. k \in DOMAIN held /\ IsPrefix(p, k[1]) /\ Len(k[1]) > Len(p) /\ name = k[1][Len(p) + 1]
    BY <1>1, <1>4, ChildHas DEF Has, NameIn
  <2>2. CASE tree.kind = "dir"
    <3>1. call'[c].todo = DirNames(p) /\ call'[c].at = "children"
      BY <1>1, <2>2 DEF ListDir, CallType
    <3>2. k[1] \in dirs
      BY <2>1 DEF KindsKept
    <3>3. name \in DirNames(p)
      BY <2>1, <3>2 DEF DirNames
    <3> QED
      BY <3>1, <3>3
  <2>3. CASE tree.kind # "dir"
    <3> DEFINE gives == NamesIn(Listing(c) \cap DOMAIN held, p)
               last == ListedTo(pos)
    <3>1. Listed(c, gives, "children")
      BY <2>3 DEF ListDir
    <3>2. /\ call'[c].at = IF last = Len(KeyOrder) THEN "children" ELSE "list"
          /\ call'[c].todo = call[c].todo \cup gives /\ call'[c].pos = last + 1
      BY <1>2, <3>1, ListedMoves DEF At
    <3>3. last \in pos .. Len(KeyOrder)
      BY <1>2, ListedToIs DEF NodesInv, NodesTyped
    <3> HIDE DEF gives, last, k, name, pos
    <3>4. ASSUME NEW m \in 1 .. last, KeyOrder[m] = k PROVE name \in call'[c].todo
      <4>1. CASE m \in 1 .. pos - 1
        BY <1>1, <1>2, <1>4, <3>2, <3>4, <4>1 DEF ListSeen, k, name, pos
      <4>2. CASE m \in pos .. last
        <5>1. k \in Listing(c)
          BY <3>4, <4>2 DEF Listing, last, pos
        <5>2. name \in gives
          BY <2>1, <5>1 DEF gives, NamesIn
        <5> QED
          BY <3>2, <5>2
      <4> QED
        BY <1>2, <3>3, <4>1, <4>2
    <3>5. last = Len(KeyOrder) => \E m \in 1 .. last : KeyOrder[m] = k
      <4>1. k \in AllKeys
        BY <2>1, HeldIs DEF NodesInv, NodesTyped
      <4>2. DOMAIN KeyOrder = 1 .. Len(KeyOrder)
        BY NodesAssumption
      <4> QED
        BY <4>1, <4>2 DEF AllKeys
    <3>6. call'[c].pos - 1 = last
      BY <1>2, <3>2, <3>3
    <3> QED
      BY <3>2, <3>4, <3>5, <3>6 DEF k, name
  <2> QED
    BY <2>2, <2>3
<1>5. ListSeen(c)'
  BY <1>1, <1>3, <1>4 DEF ListSeen, At
<1> QED
  BY <1>1, <1>3, <1>5 DEF Seen, Told, OpenSeen, At

LEMMA ChildSteps ==
  ASSUME NodesInv, KindsKept, AlwaysThere, NEW c \in Callers, Seen(c), Child(c) \/ V2Child(c)
  PROVE  Seen(c)' /\ Told(c)'
<1> DEFINE p == Op(c).path
           found == call[c].found
           todo == call[c].todo
<1>1. /\ Op(c)' = Op(c) /\ ~At(c, "idle") /\ UNCHANGED <<tree, held, dirs, since>>
      /\ call \in [Callers -> CallType] /\ call[c] \in CallType /\ held \in HeldType
      /\ NodesOf(held) \subseteq since[c].ever /\ ListSeen(c) /\ since[c].always \subseteq NodesOf(held)
      /\ \A node : ChildOf(c, node)' <=> ChildOf(c, node)
      /\ \A node : NameIn(c, node)' = NameIn(c, node)
  BY ListGoesOn
<1>2. At(c, "children") /\ found \subseteq since[c].ever
  BY <1>1 DEF Child, V2Child, ListSeen
<1> DEFINE Finds(name, new) ==
             /\ call' = [call EXCEPT ![c].todo = @ \ {name}, ![c].found = @ \cup new]
             /\ new \subseteq NodesOf(held)
             /\ \A node \in NodesOf(held) :
                  OfFormat(node[2]) /\ node[1] = Append(p, name) => <<node[1], node[2]>> \in new
<1>3. \E name \in todo : \E new : Finds(name, new)
  <2>1. CASE Child(c)
    <3>1. PICK name \in todo :
            call' = [call EXCEPT
             ![c].todo = @ \ {name},
             ![c].found = @ \cup (IF Has(Append(p, name), "zarr.json")
                                  THEN {<<Append(p, name), held[<<Append(p, name), "zarr.json">>]>>} ELSE {})]
      BY <2>1 DEF Child
    <3> DEFINE q == Append(p, name)
               new == IF Has(q, "zarr.json") THEN {<<q, held[<<q, "zarr.json">>]>>} ELSE {}
    <3>2. call' = [call EXCEPT ![c].todo = @ \ {name}, ![c].found = @ \cup new]
      BY <3>1
    <3> HIDE DEF q
    <3>3. new \subseteq NodesOf(held)
      BY <1>1, NodeIs
    <3>4. ASSUME NEW node \in NodesOf(held), OfFormat(node[2]), node[1] = q
          PROVE  <<node[1], node[2]>> \in new
      <4>1. node[2] = NodeAt(held, q) /\ node[2] \in {"array", "group"}
        BY <2>1, <3>4, NodesOfIs DEF Child, OfFormat
      <4> QED
        BY <1>1, <3>4, <4>1, NodeIs
    <3> HIDE DEF new
    <3> QED
      BY <3>2, <3>3, <3>4 DEF q
  <2>2. CASE V2Child(c)
    <3>1. PICK name \in todo :
            call' = [call EXCEPT
             ![c].todo = @ \ {name},
             ![c].found = @ \cup (IF Has(Append(p, name), ".zarray") THEN {<<Append(p, name), "array2">>}
                                  ELSE IF Has(Append(p, name), ".zgroup") THEN {<<Append(p, name), "group2">>} ELSE {})]
      BY <2>2 DEF V2Child
    <3> DEFINE q == Append(p, name)
               new == IF Has(q, ".zarray") THEN {<<q, "array2">>}
                      ELSE IF Has(q, ".zgroup") THEN {<<q, "group2">>} ELSE {}
    <3>2. call' = [call EXCEPT ![c].todo = @ \ {name}, ![c].found = @ \cup new]
      BY <3>1
    <3> HIDE DEF q
    <3>3. Has(q, ".zarray") \/ Has(q, ".zgroup") =>
            q \in Paths /\ ~Has(q, "zarr.json") /\ ~(Has(q, ".zarray") /\ Has(q, ".zgroup"))
      <4>1. tree.format = 2
        BY <2>2 DEF V2Child
      <4>2. \A name2 : Has(q, name2) => q \in Paths
        BY <1>1, NodeIs
      <4> QED
        BY <4>1, <4>2 DEF KindsKept, OneKind, NoV2, Has
    <3>4. new \subseteq NodesOf(held)
      BY <1>1, <3>3, NodeIs
    <3>5. ASSUME NEW node \in NodesOf(held), OfFormat(node[2]), node[1] = q
          PROVE  <<node[1], node[2]>> \in new
      <4>1. node[2] = NodeAt(held, q) /\ node[2] \in {"array2", "group2"}
        BY <2>2, <3>5, NodesOfIs DEF V2Child, OfFormat
      <4> QED
        BY <1>1, <3>3, <3>5, <4>1, NodeIs
    <3> HIDE DEF new
    <3> QED
      BY <3>2, <3>4, <3>5 DEF q
  <2> QED
    BY <2>1, <2>2
<1>4. PICK name \in todo : \E new : Finds(name, new)
  BY <1>3
<1>5. PICK new : Finds(name, new)
  BY <1>4
<1>6. call'[c].todo = todo \ {name} /\ call'[c].found = found \cup new /\ call'[c].at = "children"
  BY <1>1, <1>2, <1>5 DEF CallType, At
<1>7. ASSUME NEW node \in since[c].always, ChildOf(c, node)
      PROVE  NameIn(c, node) \in call'[c].todo \/ node \in call'[c].found
  <2>1. NameIn(c, node) \in todo \/ node \in found
    BY <1>1, <1>2, <1>7 DEF ListSeen
  <2>2. ASSUME NameIn(c, node) = name PROVE node \in new
    <3>1. node \in NodesOf(held) /\ node = <<node[1], node[2]>> /\ node[1] = Append(p, name) /\ OfFormat(node[2])
      BY <1>1, <1>7, <2>2, ChildHas DEF ChildOf
    <3>2. <<node[1], node[2]>> \in new
      BY <1>5, <3>1
    <3> QED
      BY <3>1, <3>2
  <2> QED
    BY <1>6, <2>1, <2>2
<1>8. call'[c].found \subseteq since[c].ever
  BY <1>1, <1>2, <1>5, <1>6
<1>9. ListSeen(c)'
  BY <1>1, <1>6, <1>7, <1>8 DEF ListSeen, At
<1> QED
  BY <1>1, <1>6, <1>9 DEF Seen, Told, OpenSeen, At

LEMMA ListEnds ==
  ASSUME NodesInv, AlwaysThere, NEW c \in Callers, Seen(c), Children(c) \/ OpenArrays(c)
  PROVE  Seen(c)' /\ Told(c)'
<1>1. /\ Op(c)' = Op(c) /\ UNCHANGED <<tree, held, dirs, since>>
      /\ call \in [Callers -> CallType] /\ call[c] \in CallType
      /\ Op(c).do \in {"children", "open-arrays"} /\ ListSeen(c)
      /\ \A node : ChildOf(c, node)' <=> ChildOf(c, node)
  BY ListGoesOn
<1>2. /\ call[c].found \subseteq since[c].ever
      /\ \A node \in since[c].always : ChildOf(c, node) => node \in call[c].found
  BY <1>1 DEF Children, OpenArrays, ListSeen
<1>3. CASE Children(c)
  <2>1. call'[c].at = "idle" /\ call'[c].found = call[c].found
    BY <1>1, <1>3 DEF Children, Ends, CallType
  <2>2. ListTold(c)' /\ OpenTold(c)'
    BY <1>1, <1>2, <2>1 DEF ListTold, OpenTold
  <2> QED
    BY <2>1, <2>2 DEF Seen, Told, At
<1>4. CASE OpenArrays(c)
  <2>1. /\ call'[c].at = "idle" /\ call'[c].found = {n \in call[c].found : n[2] \in Arrays}
        /\ Op(c).do = "open-arrays"
    BY <1>1, <1>4 DEF OpenArrays, CallType
  <2>2. ListTold(c)' /\ OpenTold(c)'
    BY <1>1, <1>2, <2>1 DEF ListTold, OpenTold
  <2> QED
    BY <2>1, <2>2 DEF Seen, Told, At
<1> QED
  BY <1>3, <1>4

LEMMA AnswersStep ==
  ASSUME NodesInv, KindsKept, AlwaysThere, AnswersInv, NEW c \in Callers, StepOf(c)
  PROVE  AnswersInv'
<1>1. \A d \in Callers : Seen(d) /\ Told(d)
  BY DEF AnswersInv
<1>2. ASSUME NEW d \in Callers, d # c PROVE Seen(d)' /\ Told(d)'
  BY <1>1, <1>2, OthersSeen
<1>3. Seen(c)' /\ Told(c)'
  <2>1. CASE Begin(c)
    BY <2>1, BeginSeen
  <2>2. CASE Fail(c)
    BY <1>1, <2>2, OthersDone DEF Fail, Begin
  <2>3. CASE ReadMetadata(c) \/ ReadV2(c) \/ ReadOther(c) \/ ReadAttributesV2(c)
    BY <1>1, <2>3, OpenSteps
  <2>4. CASE ListDir(c) \/ Child(c) \/ V2Child(c) \/ Children(c) \/ OpenArrays(c)
    BY <1>1, <2>4, ListDirSteps, ChildSteps, ListEnds
  <2>5. CASE \/ MustBeNew(c) \/ Create(c) \/ WriteChunk(c) \/ SetAttributes(c) \/ ReadOnly2(c)
             \/ DeleteMetadata(c) \/ List(c) \/ DeleteListed(c) \/ DeletePrefix(c)
    <3>1. call[c].at \in {"new", "create", "write", "attributes", "delete-zarr.json", "delete-.zarray",
                          "delete-.zgroup"} \cup Deleting
      BY <2>5 DEF MustBeNew, Create, WriteChunk, SetAttributes, ReadOnly2, DeleteMetadata, DeleteKey, List,
         DeleteListed, DeletePrefix, At, Deleting
    <3>2. ~At(c, "idle") /\ ~Begin(c)
      BY <3>1 DEF At, Begin, Deleting
    <3>3. call[c].at \in PlacesOf(Op(c).do) /\ Op(c) \in Calls
      BY <3>2, OpIs
    <3>4. Op(c).do \notin Queries
      BY <3>1, <3>3 DEF Queries, PlacesOf, Deleting
    <3> QED
      BY <1>1, <3>2, <3>4, OthersDone
  <2> QED
    BY <2>1, <2>2, <2>3, <2>4, <2>5 DEF StepOf
<1> QED
  BY <1>2, <1>3 DEF AnswersInv

(* Whatever calls are made of the nodes meanwhile, and whichever of their   *)
(* steps fail, an open says what was there at some time while it lasted, or *)
(* that there was not always something; and the children of a group are     *)
(* none that never were, and all that always were (group.go:100-247,        *)
(* v2.go:33-102, 292-308), however a store lists.                           *)
THEOREM AnswersAreOfTheirTime == TreesOfOneKind => (Spec => []AnswersOfTheirTime)
<1> SUFFICES ASSUME TreesOfOneKind PROVE Spec => []AnswersOfTheirTime
  OBVIOUS
<1>1. Init => KindsKept /\ AnswersInv
  <2> SUFFICES ASSUME InitNodes PROVE KindsKept /\ AnswersInv
    BY DEF Init
  <2>1. \A c \in Callers : call[c].at = "idle" /\ call[c].n = 0 /\ call[c].result = "none"
    BY DEF InitNodes, Idle
  <2>2. AnswersInv
    BY <2>1 DEF AnswersInv, Seen, Told, At
  <2>3. OneKind(held, tree.format)
    <3>1. CASE tree = NoTree
      <4>1. DOMAIN held = {}
        BY <3>1 DEF InitNodes, NoTree
      <4> QED
        BY <4>1 DEF OneKind
    <3>2. CASE tree \in Trees
      BY <3>2 DEF InitNodes, TreesOfOneKind
    <3> QED
      BY <3>1, <3>2 DEF InitNodes
  <2>4. \A k \in DOMAIN held : k[1] \in dirs
    BY DEF InitNodes
  <2>5. \A c \in Callers : Kept(c)
    BY <2>1 DEF Kept, At
  <2> QED
    BY <2>2, <2>3, <2>4, <2>5 DEF KindsKept
<1>2. /\ NodesInv /\ NodesInv' /\ AlwaysThere /\ KindsKept /\ AnswersInv /\ [Next]_vars
      => KindsKept' /\ AnswersInv'
  <2> SUFFICES ASSUME NodesInv, NodesInv', AlwaysThere, KindsKept, AnswersInv, [Next]_vars
               PROVE  KindsKept' /\ AnswersInv'
    OBVIOUS
  <2>1. [NodeNext]_nodeVars
    BY DEF Next, vars
  <2>2. CASE UNCHANGED nodeVars
    <3>1. \A d \in Callers : call'[d] = call[d] /\ since'[d] = since[d] /\ Op(d)' = Op(d)
      BY <2>2 DEF nodeVars, Op
    <3>2. tree' = tree /\ held' = held /\ dirs' = dirs
      BY <2>2 DEF nodeVars
    <3>3. KindsKept'
      BY <3>1, <3>2 DEF KindsKept, Kept, At
    <3>4. ASSUME NEW d \in Callers PROVE Seen(d)' /\ Told(d)'
      <4>1. Seen(d) /\ Told(d)
        BY DEF AnswersInv
      <4>2. Told(d)'
        BY <3>1, <3>2, <4>1 DEF Told, OpenTold, ListTold, ChildOf, OfFormat, At
      <4>3. \A name : Has(Op(d).path, name)' <=> Has(Op(d).path, name)
        BY <3>1, <3>2 DEF Has
      <4>4. Type2(d)' = Type2(d)
        BY <3>1 DEF Type2, Wanted
      <4>5. OpenSeen(d)' <=> OpenSeen(d)
        BY <3>1, <4>3, <4>4 DEF OpenSeen, At
      <4>6. ListSeen(d)' <=> ListSeen(d)
        BY <3>1, <3>2 DEF ListSeen, NameIn, ChildOf, OfFormat, At
      <4> QED
        BY <3>1, <3>2, <4>1, <4>2, <4>5, <4>6 DEF Seen, At
    <3> QED
      BY <3>3, <3>4 DEF AnswersInv
  <2>3. CASE NodeNext
    <3>1. PICK c \in Callers : StepOf(c)
      BY <2>3 DEF NodeNext, StepOf
    <3> QED
      BY <3>1, KindsStep, AnswersStep
  <2> QED
    BY <2>1, <2>2, <2>3
<1> QED
  BY <1>1, <1>2, NodesAreTyped, AlwaysInSpec, AnswersSuffice, PTL DEF Spec
-----------------------------------------------------------------------------
(* A read answers what was read, or says why not.                           *)
IsAnswer(a) == a.is \in {"bytes", "notfound", "outside", "toolarge", "error"}
Answered == answer # None => IsAnswer(answer)

LEMMA AnswersAre ==
  /\ \A b : IsAnswer(Bytes(b))
  /\ \A v : IsAnswer(Whole(v)) /\ IsAnswer(WholeUpTo(v))
  /\ \A v, ask : IsAnswer(FromSpan(v, ask)) /\ IsAnswer(EmptyRange(v, ask)) /\ IsAnswer(CutRange(v, ask))
  /\ \A a, ask, want : IsAnswer(Checked206(a, ask, want)) /\ IsAnswer(Counted(a, ask, want))
  /\ \A status : IsAnswer(Failed(status))
<1>1. /\ \A b : Bytes(b).is = "bytes"
      /\ \A why : Refused(why).is = why
  BY DEF Bytes, Refused
<1>2. \A status : IsAnswer(Failed(status))
  BY <1>1 DEF Failed, IsAnswer
<1>3. \A v : IsAnswer(Whole(v))
  BY <1>1 DEF Whole, IsAnswer
<1>4. \A v : IsAnswer(WholeUpTo(v))
  BY <1>1, <1>3 DEF WholeUpTo, IsAnswer
<1>5. \A v, ask : IsAnswer(FromSpan(v, ask)) /\ IsAnswer(EmptyRange(v, ask)) /\ IsAnswer(CutRange(v, ask))
  BY <1>1 DEF FromSpan, EmptyRange, CutRange, IsAnswer
<1>6. \A a, ask, want : IsAnswer(Checked206(a, ask, want))
  BY <1>1 DEF Checked206, IsAnswer
<1>7. \A a, ask, want : IsAnswer(Counted(a, ask, want))
  BY <1>1, <1>2 DEF Counted, IsAnswer
<1> QED
  BY <1>1, <1>2, <1>3, <1>4, <1>5, <1>6, <1>7 DEF IsAnswer

LEMMA ReadAnswers ==
  ASSUME Read
  PROVE  IsAnswer(answer')
<1>1. \A why \in {"notfound", "outside", "toolarge", "error"} : IsAnswer(Refused(why))
  BY DEF Refused, IsAnswer
<1>2. \A ask : \A a \in HTTPAnswer(ask) : IsAnswer(a)
  BY <1>1, AnswersAre DEF HTTPAnswer
<1>3. \A ask : \A a \in CountedRange(ask) : IsAnswer(a)
  BY <1>1, AnswersAre DEF CountedRange
<1>4. \A ask : \A a \in AzureAnswer(ask) : IsAnswer(a)
  BY <1>1, AnswersAre DEF AzureAnswer
<1>5. CASE MemoryGet \/ MemoryGetRange \/ DirGet \/ DirGetRange
  BY <1>5, AnswersAre DEF MemoryGet, MemoryGetRange, DirGet, DirGetRange
<1>6. CASE HTTPGet \/ HTTPGetRange
  BY <1>1, <1>2, <1>6, AnswersAre DEF HTTPGet, HTTPGetRange
<1>7. CASE S3Get \/ GCSGet \/ AzureGet \/ S3GetRange \/ GCSGetRange
  BY <1>3, <1>7, AnswersAre DEF S3Get, GCSGet, AzureGet, S3GetRange, GCSGetRange
<1>8. CASE AzureGetRange
  BY <1>1, <1>4, <1>8 DEF AzureGetRange
<1> QED
  BY <1>5, <1>6, <1>7, <1>8 DEF Read

LEMMA AnsweredInSpec == Spec => []Answered
<1>1. Init => Answered
  BY DEF Init, InitObject, Answered
<1>2. ASSUME Answered, [Next]_vars PROVE Answered'
  <2>1. CASE Read
    BY <2>1, ReadAnswers DEF Answered, IsAnswer
  <2>2. CASE ~Read
    <3>1. answer' = answer
      BY <1>2, <2>2 DEF Next, vars, objectVars, ObjectNext, BeginPut, Delete, SetAtOnce, ReadOnly, CreateTemp,
           WriteTemp, EndSet, SetFails, BeginGet, DirOpen, AzureProperties
    <3> QED
      BY <1>2, <3>1 DEF Answered, IsAnswer
  <2> QED
    BY <2>1, <2>2
<1> QED
  BY <1>1, <1>2, PTL DEF Spec

(* The state has its type, and a delete never holds more than a batch of    *)
(* keys (delete.go:36-65), for any stores, trees, plans and sizes of page   *)
(* and batch.                                                               *)
THEOREM StoresAreTyped == Spec => []TypeOK
<1>1. ObjectInv => /\ setup \in Setups \cup {NoSetup}
                   /\ put.pc \in {"idle", "set", "write", "delete"} /\ put.n \in 0 .. Len(setup.puts)
                   /\ get.pc \in {"idle", "ask", "read", "range"}
  BY DEF ObjectInv, Writing
<1>2. NodesInv => /\ DOMAIN held \subseteq AllKeys /\ dirs \subseteq Paths /\ wrote \subseteq AllKeys
                  /\ \A c \in Callers :
                       /\ call[c].n \in 0 .. Len(tree.calls[c]) /\ call[c].pos \in 1 .. Len(KeyOrder) + 1
                       /\ call[c].at \in {"list-keys", "delete-keys", "delete-batch"} =>
                            Cardinality(call[c].todo) <= Batch
  BY HeldIs DEF NodesInv, NodesTyped, CallIs, Data, Deleting
<1>3. ObjectInv /\ NodesInv /\ Answered => TypeOK
  BY <1>1, <1>2 DEF TypeOK, Answered, IsAnswer
<1> QED
  BY <1>3, ObjectInStep, NodesAreTyped, AnsweredInSpec, PTL
=============================================================================
