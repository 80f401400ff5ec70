---------------------------- MODULE BoundedLog ----------------------------
(***************************************************************************)
(* What internal/ringbuf promises its users: a log that remembers the      *)
(* newest Capacity records, newest first, tells the writer when a record   *)
(* pushed an older one out, and hands everything over at most once.        *)
(***************************************************************************)
EXTENDS Naturals, Sequences

CONSTANTS Records,   \* the observations the buffer carries
          Capacity   \* how many of them it can hold

VARIABLES log,       \* the records held, newest first
          dropped,   \* what the last Record returned
          drained    \* what the last Drain returned

vars == <<log, dropped, drained>>

Newest(r, s) ==
    [i \in 1 .. (IF Len(s) < Capacity THEN Len(s) + 1 ELSE Capacity) |->
        IF i = 1 THEN r ELSE s[i - 1]]

Init ==
    /\ log = << >>
    /\ dropped = FALSE
    /\ drained = << >>

Record(r) ==
    /\ log' = Newest(r, log)
    /\ dropped' = (Len(log) = Capacity)
    /\ UNCHANGED drained

Drain ==
    /\ drained' = log
    /\ log' = << >>
    /\ UNCHANGED dropped

Next == Drain \/ \E r \in Records : Record(r)

Spec == Init /\ [][Next]_vars
=============================================================================
