------------------------------ MODULE SceneLog ------------------------------
(***************************************************************************)
(* What a tile or a weather source of geodb promises: its scenes or steps   *)
(* are a log that only grows, by what was appended whole, and a reader with *)
(* a snapshot reads a prefix of it, which only gets longer.                 *)
(***************************************************************************)
EXTENDS Naturals, Sequences

CONSTANTS Entry,   \* what is appended
          Batch    \* how many at once, at most

VARIABLES log,   \* what was committed
          view   \* what a reader reads

Init == log = <<>> /\ view = <<>>

Commit ==
  /\ \E n \in 1 .. Batch : \E new \in [1 .. n -> Entry] : log' = log \o new
  /\ UNCHANGED view

(* Refresh: a reader takes a snapshot of what there is, or was when it      *)
(* began.                                                                   *)
Refresh ==
  /\ \E n \in Len(view) .. Len(log) : view' = SubSeq(log, 1, n)
  /\ UNCHANGED log

Next == Commit \/ Refresh

Spec == Init /\ [][Next]_<<log, view>>
=============================================================================
