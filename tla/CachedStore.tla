----------------------------- MODULE CachedStore -----------------------------
(***************************************************************************)
(* The cache of geodb (geodb/cache.go): reads that join one another's, the  *)
(* least recently used value going first, and Set, Delete and Purge, which  *)
(* forget what is held and disown the reads under way.                      *)
(*                                                                          *)
(* The values of a key are numbered in the order the store takes them, a    *)
(* key deleted being one more.  floor is not in the code: it is the value   *)
(* of a key that every read begun from now on is to see, or a later one.    *)
(***************************************************************************)
EXTENDS Integers, Sequences, SequencesExt, FiniteSetsExt

CONSTANTS Keys,        \* the keys of the store
          CacheKeys,   \* what is read: a key whole, or a range of one
          KeyOf,       \* the key of each
          Readers, Writers,
          Flights,     \* the flight structs
          NoFlight,
          MaxVersion,  \* bound: how often the store is written
          Size,        \* what each value of a key counts for in the cache
          MaxBytes,    \* CacheOptions.MaxBytes
          Retries,     \* how many times a read joins another's: 3
          MaxCancels,  \* bound: how many reads of the store are cancelled
          Unlimited,   \* whether there is no such bound
          Outside      \* whether another process writes the store

ASSUME CacheAssumption ==
  /\ KeyOf \in [CacheKeys -> Keys]
  /\ Size \in [0 .. MaxVersion -> Nat \ {0}]
  /\ {MaxBytes, MaxVersion, Retries, MaxCancels} \subseteq Nat
  /\ NoFlight \notin Flights

VARIABLES stored,   \* the number of the value of each key in the store
          lru,      \* CachedStore.lru and entries, most recent first
          bytes,    \* CachedStore.bytes
          flights,  \* CachedStore.flights
          flight,   \* the flight structs
          read,     \* the reads
          write,    \* the writes
          cancels,  \* how many reads of the store were cancelled
          floor     \* what a read begun now is to see at least

vars == <<stored, lru, bytes, flights, flight, read, write, cancels, floor>>

Versions == 0 .. MaxVersion
NewFlight == [at |-> "reading", value |-> 0, stale |-> FALSE]
Reading == [key : CacheKeys, at : {"look", "wait", "fetch", "fetched"},
            on : Flights \cup {NoFlight}, attempt : 0 .. Retries, floor : Versions]
Answered == [at : {"done"}, value : Versions, floor : Versions]
Writing == [key : Keys, at : {"begun", "written", "failed", "done"}, value : Versions]
Idle == [at |-> "idle"]

TypeOK ==
  /\ stored \in [Keys -> Versions]
  /\ lru \in Seq([k : CacheKeys, value : Versions])
  /\ bytes \in Nat
  /\ flights \in [CacheKeys -> Flights \cup {NoFlight}]
  /\ flight \in [Flights -> [at : {"reading", "ok", "cancelled", "failed"},
                             value : Versions, stale : BOOLEAN]]
  /\ read \in [Readers -> Reading \cup Answered \cup {Idle}]
  /\ write \in [Writers -> Writing \cup {Idle}]
  /\ floor \in [Keys -> Versions]

Init ==
  /\ stored = [x \in Keys |-> 0]
  /\ lru = <<>>
  /\ bytes = 0
  /\ flights = [k \in CacheKeys |-> NoFlight]
  /\ flight = [f \in Flights |-> NewFlight]
  /\ read = [r \in Readers |-> Idle]
  /\ write = [w \in Writers |-> Idle]
  /\ cancels = 0
  /\ floor = [x \in Keys |-> 0]
-----------------------------------------------------------------------------
SizeOf(seq) ==
  LET size[n \in 0 .. Len(seq)] == IF n = 0 THEN 0 ELSE size[n - 1] + Size[seq[n].value]
  IN  size[Len(seq)]

(* What is left of the list when the entries of some keys are taken out.    *)
Without(seq, gone) ==
  LET left[n \in 0 .. Len(seq)] ==
        IF n = 0 THEN <<>>
        ELSE IF seq[n].k \in gone THEN left[n - 1] ELSE Append(left[n - 1], seq[n])
  IN  left[Len(seq)]

(* Mutant: a value that is kept is not counted.                             *)
PutUncounted(k, v) ==
  LET others == Without(lru, {k})
  IN  IF Size[v] > MaxBytes THEN UNCHANGED <<lru, bytes>>
      ELSE lru' = <<[k |-> k, value |-> v]>> \o others /\ UNCHANGED bytes

(* put of a value of k: what is pushed out is the least recently used, and  *)
(* a value bigger than the cache is not kept.                               *)
Put(k, v) ==
  LET others == Without(lru, {k})
      after(n) == bytes - (SizeOf(lru) - SizeOf(SubSeq(others, 1, n))) + Size[v]
      n == Max({m \in 0 .. Len(others) : after(m) <= MaxBytes})
  IN  IF Size[v] > MaxBytes THEN UNCHANGED <<lru, bytes>>
      ELSE /\ lru' = <<[k |-> k, value |-> v]>> \o SubSeq(others, 1, n)
           /\ bytes' = after(n)

(* Mutant: what is dropped is still counted.                                *)
ForgetUncounted(gone) ==
  /\ lru' = Without(lru, gone)
  /\ flight' = [f \in Flights |->
                 IF \E k \in gone : flights[k] = f THEN [flight[f] EXCEPT !.stale = TRUE]
                 ELSE flight[f]]
  /\ flights' = [k \in CacheKeys |-> IF k \in gone THEN NoFlight ELSE flights[k]]
  /\ UNCHANGED bytes

(* forget, forgetIf: what is held goes, and the reads under way are stale   *)
(* and no longer there to join.                                             *)
Forget(gone) ==
  LET kept == Without(lru, gone)
  IN  /\ lru' = kept
      /\ bytes' = bytes - (SizeOf(lru) - SizeOf(kept))
      /\ flight' = [f \in Flights |->
                     IF \E k \in gone : flights[k] = f THEN [flight[f] EXCEPT !.stale = TRUE]
                     ELSE flight[f]]
      /\ flights' = [k \in CacheKeys |-> IF k \in gone THEN NoFlight ELSE flights[k]]

RangesOf(x) == {k \in CacheKeys : KeyOf[k] = x}
-----------------------------------------------------------------------------
(* A read, by Get or GetRange.                                              *)
Begin(r, k) ==
  /\ read[r].at \in {"idle", "done"}
  /\ read' = [read EXCEPT ![r] = [key |-> k, at |-> "look", on |-> NoFlight, attempt |-> 0,
                                  floor |-> floor[KeyOf[k]]]]
  /\ UNCHANGED <<stored, lru, bytes, flights, flight, write, cancels, floor>>

Answer(r, v) == read' = [read EXCEPT ![r] = [at |-> "done", value |-> v, floor |-> @.floor]]
ReturnError(r) == read' = [read EXCEPT ![r] = Idle]

Hit(r) ==
  /\ read[r].at = "look"
  /\ \E i \in DOMAIN lru :
       /\ lru[i].k = read[r].key
       /\ lru' = <<lru[i]>> \o RemoveAt(lru, i)
       /\ Answer(r, lru[i].value)
  /\ UNCHANGED <<stored, bytes, flights, flight, write, cancels, floor>>

Misses(r) == read[r].at = "look" /\ \A i \in DOMAIN lru : lru[i].k # read[r].key

(* Mutant: a read joins another's however often that one was stopped.       *)
MayJoinEver(r) == flights[read[r].key] # NoFlight

(* Mutant: every read reads the store.                                      *)
MayJoinNever(r) == FALSE

MayJoin(r) == flights[read[r].key] # NoFlight /\ read[r].attempt < Retries

Join(r) ==
  /\ Misses(r) /\ MayJoin(r)
  /\ read' = [read EXCEPT ![r].at = "wait", ![r].on = flights[read[r].key]]
  /\ UNCHANGED <<stored, lru, bytes, flights, flight, write, cancels, floor>>

OnFlight == {"wait", "fetch", "fetched"}

(* The struct is a new one: one no read has any more.                       *)
Fly(r) ==
  /\ Misses(r) /\ ~MayJoin(r)
  /\ \E f \in Flights :
       /\ \A s \in Readers : read[s].at \in OnFlight => read[s].on # f
       /\ flight' = [flight EXCEPT ![f] = NewFlight]
       /\ flights' = [flights EXCEPT ![read[r].key] = f]
       /\ read' = [read EXCEPT ![r].at = "fetch", ![r].on = f]
  /\ UNCHANGED <<stored, lru, bytes, write, cancels, floor>>

(* The read of the store, whose value the flight has from here on; or its   *)
(* error, of the store's or of the caller's context.                        *)
Fetch(r) ==
  /\ read[r].at = "fetch"
  /\ read' = [read EXCEPT ![r].at = "fetched"]
  /\ LET f == read[r].on
     IN  \/ /\ flight' = [flight EXCEPT ![f].at = "ok", ![f].value = stored[KeyOf[read[r].key]]]
            /\ UNCHANGED cancels
         \/ /\ flight' = [flight EXCEPT ![f].at = "failed"]
            /\ UNCHANGED cancels
         \/ /\ Unlimited \/ cancels < MaxCancels
            /\ flight' = [flight EXCEPT ![f].at = "cancelled"]
            /\ cancels' = IF Unlimited THEN cancels ELSE cancels + 1
  /\ UNCHANGED <<stored, lru, bytes, flights, write, floor>>

(* Mutant: a value is kept whatever came while it was read.                 *)
KeepsStale(f) == flight[f].at = "ok"

Keeps(f) == flight[f].at = "ok" /\ ~flight[f].stale

(* The flight is over: its value is kept, and those that wait are woken.    *)
Land(r) ==
  /\ read[r].at = "fetched"
  /\ LET f == read[r].on
         k == read[r].key
     IN  /\ flights' = IF flights[k] = f THEN [flights EXCEPT ![k] = NoFlight] ELSE flights
         /\ IF Keeps(f) THEN Put(k, flight[f].value) ELSE UNCHANGED <<lru, bytes>>
         /\ IF flight[f].at = "ok" THEN Answer(r, flight[f].value)
            ELSE ReturnError(r)
  /\ UNCHANGED <<stored, flight, write, cancels, floor>>

Landed(f) == \A s \in Readers : read[s].at \in {"fetch", "fetched"} => read[s].on # f

(* The wait for another's flight ends: with its answer, with its error, or, *)
(* if it was its caller's context that ended it, with another look.         *)
Wake(r) ==
  /\ read[r].at = "wait" /\ Landed(read[r].on)
  /\ LET f == read[r].on
     IN  \/ flight[f].at = "ok" /\ Answer(r, flight[f].value)
         \/ flight[f].at = "failed" /\ ReturnError(r)
         \/ /\ flight[f].at = "cancelled"
            /\ read' = [read EXCEPT ![r].at = "look", ![r].on = NoFlight, ![r].attempt = Min({@ + 1, Retries})]
  /\ UNCHANGED <<stored, lru, bytes, flights, flight, write, cancels, floor>>

(* The context of the one that waits ends.                                  *)
GiveUp(r) ==
  /\ read[r].at = "wait"
  /\ ReturnError(r)
  /\ UNCHANGED <<stored, lru, bytes, flights, flight, write, cancels, floor>>
-----------------------------------------------------------------------------
(* Set and Delete.                                                          *)
BeginWrite(w, x) ==
  /\ write[w].at \in {"idle", "done"}
  /\ Forget(RangesOf(x))
  /\ write' = [write EXCEPT ![w] = [key |-> x, at |-> "begun", value |-> 0]]
  /\ UNCHANGED <<stored, read, cancels, floor>>

(* The store takes the value; what error it returns, if any, is returned.   *)
WriteStore(w) ==
  /\ write[w].at = "begun"
  /\ LET x == write[w].key
     IN  /\ stored[x] < MaxVersion
         /\ stored' = [stored EXCEPT ![x] = @ + 1]
         /\ write' = [write EXCEPT ![w].at = "written", ![w].value = stored[x] + 1]
  /\ UNCHANGED <<lru, bytes, flights, flight, read, cancels, floor>>

WriteFails(w) ==
  /\ write[w].at = "begun"
  /\ write' = [write EXCEPT ![w].at = "failed"]
  /\ UNCHANGED <<stored, lru, bytes, flights, flight, read, cancels, floor>>

(* Mutant: the cache forgets before the write and not after it.             *)
EndWriteUnforgotten(w) ==
  /\ write[w].at \in {"written", "failed"}
  /\ write' = [write EXCEPT ![w].at = "done"]
  /\ floor' = [floor EXCEPT ![write[w].key] = Max({@, write[w].value})]
  /\ UNCHANGED <<stored, lru, bytes, flights, flight, read, cancels>>

EndWrite(w) ==
  /\ write[w].at \in {"written", "failed"}
  /\ Forget(RangesOf(write[w].key))
  /\ write' = [write EXCEPT ![w].at = "done"]
  /\ floor' = [floor EXCEPT ![write[w].key] = Max({@, write[w].value})]
  /\ UNCHANGED <<stored, read, cancels>>

(* Another process writes the store, of which the cache is told nothing.    *)
WriteOutside(x) ==
  /\ Outside /\ stored[x] < MaxVersion
  /\ stored' = [stored EXCEPT ![x] = @ + 1]
  /\ UNCHANGED <<lru, bytes, flights, flight, read, write, cancels, floor>>

(* Purge, of every key: "so that it reads afresh what another process may   *)
(* have written".                                                           *)
Purge ==
  /\ Outside
  /\ Forget(CacheKeys)
  /\ floor' = stored
  /\ UNCHANGED <<stored, read, write, cancels>>

Work(r) == Hit(r) \/ Join(r) \/ Fly(r) \/ Fetch(r) \/ Land(r) \/ Wake(r)

Next ==
  \/ \E r \in Readers : Work(r) \/ GiveUp(r) \/ \E k \in CacheKeys : Begin(r, k)
  \/ \E w \in Writers : WriteStore(w) \/ WriteFails(w) \/ EndWrite(w) \/ \E x \in Keys : BeginWrite(w, x)
  \/ \E x \in Keys : WriteOutside(x)
  \/ Purge

Spec == Init /\ [][Next]_vars

(* Goroutines run, and reads of the store end.                              *)
FairSpec == Spec /\ \A r \in Readers : WF_vars(Work(r))
-----------------------------------------------------------------------------
(* A Set or Delete "through the cache forgets what it held of the key"      *)
(* (cache.go:32-33): what is kept is no older than the last that returned,  *)
(* or than what was stored at the last Purge.                               *)
KeptIsCurrent == \A i \in DOMAIN lru : lru[i].value >= floor[KeyOf[lru[i].k]]

(* "Reads that begin from now on do not join it" (cache.go:247): a read     *)
(* that begins after a write or a Purge returned answers with that write's  *)
(* value, or a later one.                                                   *)
ReadsSeeWrites ==
  \A r \in Readers : read[r].at = "done" => read[r].value >= read[r].floor

(* "Many reads of one key at once make one read of the store" (cache.go:32).*)
OneReadOfTheStore ==
  \A r, s \in Readers :
    /\ r # s
    /\ read[r].at \in {"fetch", "fetched"} /\ read[s].at \in {"fetch", "fetched"}
    /\ read[r].key = read[s].key
    => flight[read[r].on].stale \/ flight[read[s].on].stale

(* What the cache says it holds is what it holds, each value once, and no   *)
(* more than MaxBytes.                                                      *)
BytesAreHeld ==
  /\ bytes = SizeOf(lru) /\ bytes <= MaxBytes
  /\ \A i, j \in DOMAIN lru : lru[i].k = lru[j].k => i = j

(* A read is answered, though those it joins are stopped "a few times".     *)
ReadsEnd ==
  \A r \in Readers : read[r].at = "look" ~> read[r].at \in {"done", "idle"}
=============================================================================
