------------------------------ MODULE KeyStore ------------------------------
(***************************************************************************)
(* What a store promises of a key (store.go:19-47): its value is put whole  *)
(* or not at all, and a read answers with what was asked of a value that    *)
(* there was at some time while it read.                                    *)
(***************************************************************************)
CONSTANTS Value,         \* what may be put, and what says that there is none
          Ask, NoAsk,    \* what may be asked, and nothing
          Answers(_, _)  \* what may be answered, of the values seen and what was asked

VARIABLES value,  \* what there is
          seen,   \* what there was since the read began
          asked,  \* what it asks
          answer  \* and was answered

Init == value \in Value /\ seen = {} /\ asked = NoAsk /\ answer = NoAsk

Put ==
  /\ value' \in Value
  /\ seen' = IF asked = NoAsk THEN seen ELSE seen \cup {value'}
  /\ UNCHANGED <<asked, answer>>

Begin ==
  /\ asked = NoAsk /\ asked' \in Ask /\ seen' = {value}
  /\ UNCHANGED <<value, answer>>

Read ==
  /\ asked # NoAsk /\ answer = NoAsk /\ answer' \in Answers(seen, asked)
  /\ UNCHANGED <<value, seen, asked>>

Next == Put \/ Begin \/ Read

Spec == Init /\ [][Next]_<<value, seen, asked, answer>>
=============================================================================
