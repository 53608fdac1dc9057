------------------------------ MODULE Objects -------------------------------
(***************************************************************************)
(* A key of a store, in each of the stores there are: in memory and in a    *)
(* directory (store.go), over HTTP (http.go), and in S3, GCS and Azure Blob *)
(* Storage (s3, gcs, azblob).  One read of it, whole or of a range, beside  *)
(* the puts and deletes of it, which may fail or stop part way.             *)
(*                                                                          *)
(* A byte is the number of its put and its place in what was put, so that   *)
(* bytes of two values, or from the wrong place, are told apart.  What a    *)
(* server answers is modelled from what the stores ask and check of it.     *)
(***************************************************************************)
EXTENDS Integers, Sequences

CONSTANTS Setups,  \* bound: each a store, its server, and what is put
          Ranges,  \* bound: the ranges that are asked for
          MaxInt,  \* the largest int64
          None     \* no value, and no answer

Kinds == {"memory", "dir", "http", "s3", "gcs", "azblob"}
Removed == 0 - 1
Values == Seq(Nat \X Nat)

ASSUME ObjectsAssumption ==
  /\ MaxInt \in Nat
  /\ Setups \subseteq [kind : Kinds,
                       server : {"ranges", "ignores", "others"},
                       cap : Nat,                     \* MaxObjectBytes, none if 0
                       puts : Seq(Nat \cup {Removed})] \* how long, or a delete
  /\ Ranges \subseteq [whole : {FALSE}, offset : Int, length : Int]

(* What stands for no value and for nothing asked is no value and no ask.   *)
ASSUME NoneAssumption ==
  None \notin Values \cup [ask : [whole : BOOLEAN, offset : Int, length : Int], kind : Kinds,
                           server : {"ranges", "ignores", "others"}, cap : Nat]

VARIABLES
  setup,   \* the kind of store and server, MaxObjectBytes, and what is put in turn
  stored,  \* the value under the key
  opened,  \* put: the temporary file, or what was uploaded of a value
  put,     \* put: where it is, and the number of the value
  get,     \* get: where it is, what it asks, and what it knows of the value
  seen,    \* history: the values there were since it began
  answer   \* what it returned

objectVars == <<setup, stored, opened, put, get, seen, answer>>

ValueOf(n, size) == [i \in 1 .. size |-> <<n, i>>]
Bytes(b) == [is |-> "bytes", bytes |-> b]
Refused(why) == [is |-> why, bytes |-> <<>>]

(* No read: what there is of a store that nothing is done with.             *)
NoSetup == [kind |-> "none", server |-> "ranges", cap |-> 0, puts |-> <<>>]

InitObject ==
  /\ setup \in Setups \cup {NoSetup}
  /\ stored = None /\ opened = None /\ seen = {} /\ answer = None
  /\ put = [pc |-> "idle", n |-> 0]
  /\ get = [pc |-> "idle", ask |-> None, value |-> None]

Size(n) == setup.puts[n]
Is(kinds) == setup.kind \in kinds
-----------------------------------------------------------------------------
(* Set and Delete.                                                          *)
StoresNow(v) ==
  /\ stored' = v
  /\ seen' = IF get.pc = "idle" THEN seen ELSE seen \cup {v}
Putting(pc) == put' = [put EXCEPT !.pc = pc]

BeginPut ==
  /\ put.pc = "idle" /\ put.n < Len(setup.puts)
  /\ put' = [pc |-> IF Size(put.n + 1) = Removed THEN "delete" ELSE "set", n |-> put.n + 1]
  /\ UNCHANGED <<setup, stored, opened, get, seen, answer>>

(* A key that is not there is deleted all the same.                         *)
MemoryDelete == Is({"memory"}) /\ put.pc = "delete" /\ StoresNow(None)
DirDelete == Is({"dir"}) /\ put.pc = "delete" /\ StoresNow(None)
S3Delete == Is({"s3"}) /\ put.pc = "delete" /\ StoresNow(None)
GCSDelete == Is({"gcs"}) /\ put.pc = "delete" /\ StoresNow(None)
AzureDelete == Is({"azblob"}) /\ put.pc = "delete" /\ StoresNow(None)
Delete ==
  /\ MemoryDelete \/ DirDelete \/ S3Delete \/ GCSDelete \/ AzureDelete
  /\ Putting("idle")
  /\ UNCHANGED <<setup, opened, get, answer>>

(* In memory, and by one request to S3 or to Azure.                         *)
NewValue == ValueOf(put.n, Size(put.n))
MemorySet == Is({"memory"}) /\ put.pc = "set" /\ StoresNow(NewValue)
S3Set == Is({"s3"}) /\ put.pc = "set" /\ StoresNow(NewValue)
AzureSet == Is({"azblob"}) /\ put.pc = "set" /\ StoresNow(NewValue)
SetAtOnce ==
  /\ MemorySet \/ S3Set \/ AzureSet
  /\ Putting("idle")
  /\ UNCHANGED <<setup, opened, get, answer>>

(* Over HTTP nothing can be put or deleted: somebody else does.             *)
HTTPSet == put.pc = "set" /\ UNCHANGED <<stored, seen>>
HTTPDelete == put.pc = "delete" /\ UNCHANGED <<stored, seen>>
Published ==
  \/ put.pc = "set" /\ StoresNow(NewValue)
  \/ put.pc = "delete" /\ StoresNow(None)
ReadOnly ==
  /\ Is({"http"})
  /\ HTTPSet \/ HTTPDelete \/ Published
  /\ Putting("idle")
  /\ UNCHANGED <<setup, opened, get, answer>>

(* In a directory: a file beside the key's is made and written, and renamed *)
(* into its place; to GCS: what is written is uploaded, and counts once the *)
(* upload is closed.                                                        *)
Part(m) == SubSeq(NewValue, 1, m)
CreateTemp ==
  /\ Is({"dir", "gcs"}) /\ put.pc = "set"
  /\ opened' = <<>> /\ Putting("write")
  /\ UNCHANGED <<setup, stored, get, seen, answer>>

WriteTemp ==
  /\ put.pc = "write" /\ Len(opened) < Size(put.n)
  /\ opened' = Part(Len(opened) + 1)
  /\ UNCHANGED <<setup, stored, put, get, seen, answer>>

Rename == Is({"dir"}) /\ Len(opened) = Size(put.n) /\ StoresNow(opened)
CloseUpload == Is({"gcs"}) /\ Len(opened) = Size(put.n) /\ StoresNow(opened)
EndSet ==
  /\ put.pc = "write" /\ (Rename \/ CloseUpload)
  /\ opened' = None /\ Putting("idle")
  /\ UNCHANGED <<setup, get, answer>>

(* One that fails removes the temporary file, or cancels the upload; one    *)
(* that stops leaves the file, which nothing reads or lists.                *)
RemoveTemp == Is({"dir"}) /\ UNCHANGED <<stored, seen>>
(* Mutant: the way out closes the upload. *)
CancelUploadNot == Is({"gcs"}) /\ StoresNow(opened)
CancelUpload == Is({"gcs"}) /\ UNCHANGED <<stored, seen>>
SetFails ==
  /\ put.pc = "write" /\ (RemoveTemp \/ CancelUpload)
  /\ opened' = None /\ Putting("idle")
  /\ UNCHANGED <<setup, get, answer>>
-----------------------------------------------------------------------------
(* Get, and GetRange: a negative offset counts back from the end.           *)
Wrapped(x) == IF x > MaxInt THEN x - 2 * (MaxInt + 1) ELSE x
Start(size, ask) == IF ask.offset < 0 THEN ask.offset + size ELSE ask.offset
Cut(v, ask) == SubSeq(v, Start(Len(v), ask) + 1, Start(Len(v), ask) + ask.length)

(* Bound: a range whose end no int64 can hold is asked for over HTTP alone. *)
WholeAsk == [whole |-> TRUE, offset |-> 0, length |-> 0]
Asked(kind) == {WholeAsk} \cup {ask \in Ranges : kind = "http" \/ ask.offset + ask.length <= MaxInt}

BeginGet ==
  /\ ~Is({"none"}) /\ get.pc = "idle" /\ answer = None
  /\ \E ask \in Asked(setup.kind) : get' = [pc |-> "ask", ask |-> ask, value |-> None]
  /\ seen' = {stored}
  /\ UNCHANGED <<setup, stored, opened, put, answer>>

(* span: where a range falls in a value of size bytes, or that it does not. *)
OutsideSpan(size, ask) ==
  LET at == Start(size, ask)
  IN  at < 0 \/ ask.length < 0 \/ Wrapped(at + ask.length) > size

FromSpan(v, ask) ==
  IF v = None THEN Refused("notfound")
  ELSE IF OutsideSpan(Len(v), ask) THEN Refused("outside") ELSE Bytes(Cut(v, ask))
Whole(v) == IF v = None THEN Refused("notfound") ELSE Bytes(v)

MemoryGet == Is({"memory"}) /\ get.ask.whole /\ answer' = Whole(stored)
MemoryGetRange == Is({"memory"}) /\ ~get.ask.whole /\ answer' = FromSpan(stored, get.ask)

(* The file stays the one it is while it is open, whatever is renamed over  *)
(* it: its length and its bytes are of one value.                           *)
DirOpen ==
  /\ Is({"dir"}) /\ get.pc = "ask" /\ answer = None /\ stored # None
  /\ get' = [get EXCEPT !.pc = "read", !.value = stored]
  /\ UNCHANGED <<setup, stored, opened, put, seen, answer>>
DirGet ==
  /\ Is({"dir"}) /\ get.ask.whole
  /\ get.pc = "read" \/ stored = None
  /\ answer' = Whole(get.value)
DirGetRange ==
  /\ Is({"dir"}) /\ ~get.ask.whole
  /\ get.pc = "read" \/ stored = None
  /\ answer' = FromSpan(get.value, get.ask)
-----------------------------------------------------------------------------
(* What a server answers when asked for a range: what there is of it, or    *)
(* that there is none; the whole value, if it ignores ranges; or some other *)
(* range, and what it says of it is true but for the length of the value,   *)
(* which it need not say, and of a body that is cut short.                  *)
Part206(v, first, last, size, body) ==
  [status |-> 206, first |-> first, last |-> last, size |-> size, body |-> body]
Honest(v, ask, want) ==
  LET first == IF ask.offset < 0 THEN (IF want > Len(v) THEN 0 ELSE Len(v) - want) ELSE ask.offset
      last == IF first + want > Len(v) THEN Len(v) - 1 ELSE first + want - 1
  IN  IF first >= Len(v) THEN [status |-> 416]
      ELSE Part206(v, first, last, Len(v), SubSeq(v, first + 1, last + 1))
Other(v) ==
  {Part206(v, first, last, size, SubSeq(v, first + 1, last + 1 - short)) :
     first \in 0 .. Len(v) - 1, last \in 0 .. Len(v) - 1, size \in {Len(v), Removed}, short \in {0, 1}}
Served(v, ask, want) ==
  IF v = None THEN {[status |-> 404]}
  ELSE CASE setup.server = "ranges" -> {Honest(v, ask, want)}
         [] setup.server = "ignores" -> {[status |-> 200, body |-> v]}
         [] setup.server = "others" -> {a \in Other(v) : a.first <= a.last} \cup {[status |-> 500]}

TooLarge(n) == setup.cap > 0 /\ n > setup.cap
Failed(status) == Refused(IF status = 404 THEN "notfound" ELSE "error")

HTTPGet ==
  /\ Is({"http"}) /\ get.ask.whole
  /\ answer' = IF stored # None /\ TooLarge(Len(stored)) THEN Refused("toolarge") ELSE Whole(stored)

(* emptyRange: the length is what a HEAD says.                              *)
EmptyRange(v, ask) ==
  IF v = None THEN Refused("notfound")
  ELSE IF ask.offset > Len(v) THEN Refused("outside") ELSE Bytes(<<>>)

(* cutRange, of a value that came whole.                                    *)
CutRange(v, ask) ==
  LET end == IF ask.offset < 0 THEN Len(v) ELSE ask.offset + ask.length
  IN  IF TooLarge(end) THEN Refused("toolarge")
      ELSE IF Start(Len(v), ask) < 0 \/ Start(Len(v), ask) + ask.length > Len(v) THEN Refused("outside")
      ELSE Bytes(Cut(v, ask))

(* A 206 counts if its Content-Range is the range asked for.                *)
Checked206(a, ask, want) ==
  IF a.last - a.first + 1 # want THEN Refused("outside")
  ELSE IF \/ (ask.offset >= 0 /\ a.first # ask.offset)
          \/ (ask.offset < 0 /\ (a.size < 0 \/ a.last # a.size - 1))
          \/ Len(a.body) # want THEN Refused("error")
  ELSE Bytes(SubSeq(a.body, 1, ask.length))

Want(ask) == IF ask.offset < 0 THEN 0 - ask.offset ELSE ask.length
BackwardsShort(ask) == ask.length < 0 \/ (ask.offset < 0 /\ ask.length > 0 - ask.offset)

HTTPAnswer(ask) ==
  IF BackwardsShort(ask) \/ ask.offset > MaxInt - ask.length THEN {Refused("outside")}
  ELSE IF ask.offset >= 0 /\ ask.length = 0 THEN {EmptyRange(stored, ask)}
  ELSE IF TooLarge(Want(ask)) THEN {Refused("toolarge")}
  ELSE {CASE a.status = 206 -> Checked206(a, ask, Want(ask))
          [] a.status = 200 -> CutRange(a.body, ask)
          [] a.status = 416 -> Refused("outside")
          [] OTHER -> Failed(a.status) : a \in Served(stored, ask, Want(ask))}
HTTPGetRange == Is({"http"}) /\ ~get.ask.whole /\ answer' \in HTTPAnswer(get.ask)
-----------------------------------------------------------------------------
(* The clients of S3, GCS and Azure say nothing of where what they read is  *)
(* from: it counts if there is as much of it as was asked for.              *)
Counted(a, ask, want) ==
  CASE a.status \in {200, 206} ->
         IF Len(a.body) = want THEN Bytes(SubSeq(a.body, 1, ask.length)) ELSE Refused("outside")
    [] a.status = 416 -> Refused("outside")
    [] OTHER -> Failed(a.status)
WholeUpTo(v) == IF v # None /\ TooLarge(Len(v)) THEN Refused("toolarge") ELSE Whole(v)

S3Get == Is({"s3"}) /\ get.ask.whole /\ answer' = WholeUpTo(stored)
GCSGet == Is({"gcs"}) /\ get.ask.whole /\ answer' = WholeUpTo(stored)
AzureGet == Is({"azblob"}) /\ get.ask.whole /\ answer' = WholeUpTo(stored)

CountedRange(ask) ==
  IF BackwardsShort(ask) THEN {Refused("outside")}
  ELSE IF ask.offset >= 0 /\ ask.length = 0 THEN {EmptyRange(stored, ask)}
  ELSE {Counted(a, ask, Want(ask)) : a \in Served(stored, ask, Want(ask))}
S3GetRange == Is({"s3"}) /\ ~get.ask.whole /\ answer' \in CountedRange(get.ask)
GCSGetRange == Is({"gcs"}) /\ ~get.ask.whole /\ answer' \in CountedRange(get.ask)

(* Azure has no range for the end of a blob: its length is asked for first, *)
(* and the range then on condition that the blob is still the one it was.   *)
FromEnd(ask) == ask.offset < 0 \/ ask.length = 0
AzureProperties ==
  /\ Is({"azblob"}) /\ get.pc = "ask" /\ answer = None /\ ~get.ask.whole
  /\ FromEnd(get.ask) /\ ~BackwardsShort(get.ask) /\ stored # None
  /\ get' = [get EXCEPT !.pc = "range", !.value = stored]
  /\ UNCHANGED <<setup, stored, opened, put, seen, answer>>

AzureAnswer(ask) ==
  LET v == get.value
      at == Start(Len(v), ask)
      from == [ask EXCEPT !.offset = at]
  IN  IF BackwardsShort(ask) THEN {Refused("outside")}
      ELSE IF get.pc = "ask" THEN {Counted(a, ask, ask.length) : a \in Served(stored, ask, ask.length)}
      ELSE IF at < 0 \/ at > Len(v) THEN {Refused("outside")}
      ELSE IF ask.length = 0 THEN {Bytes(<<>>)}
      ELSE IF stored \notin {v, None} THEN {Refused("error")}
      ELSE {Counted(a, from, ask.length) : a \in Served(stored, from, ask.length)}
AzureGetRange ==
  /\ Is({"azblob"}) /\ ~get.ask.whole
  /\ get.pc = "range" \/ ~FromEnd(get.ask) \/ BackwardsShort(get.ask) \/ stored = None
  /\ answer' \in IF get.pc = "ask" /\ stored = None /\ ~BackwardsShort(get.ask)
                 THEN {Refused("notfound")} ELSE AzureAnswer(get.ask)
-----------------------------------------------------------------------------
Read ==
  /\ get.pc # "idle" /\ answer = None
  /\ \/ MemoryGet \/ MemoryGetRange \/ DirGet \/ DirGetRange \/ HTTPGet \/ HTTPGetRange
     \/ S3Get \/ S3GetRange \/ GCSGet \/ GCSGetRange \/ AzureGet \/ AzureGetRange
  /\ UNCHANGED <<setup, stored, opened, put, get, seen>>

ObjectNext ==
  \/ BeginPut \/ Delete \/ SetAtOnce \/ ReadOnly \/ CreateTemp \/ WriteTemp \/ EndSet \/ SetFails
  \/ BeginGet \/ DirOpen \/ AzureProperties \/ Read
=============================================================================
