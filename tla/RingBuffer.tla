---------------------------- MODULE RingBuffer ----------------------------
(***************************************************************************)
(* internal/ringbuf/buffer.go: the mutex-protected ring buffer between the *)
(* flow scrapers (Record) and the status sync (Drain).  Both methods run   *)
(* under the mutex, so each is one action.                                 *)
(***************************************************************************)
EXTENDS Integers, Sequences

CONSTANTS Records,           \* the observations that may be recorded
          Size,              \* the size asked of NewWithSize
          MaxBufferEntries,  \* the size used when Size is not positive
          Zero,              \* Go's zero value: a slot never written
          MaxPos             \* bound on the write position

ASSUME BufferAssumption ==
    /\ Size \in Int
    /\ MaxBufferEntries \in Nat \ {0}
    /\ MaxPos \in Nat
    /\ Zero \notin Records

VARIABLES buf,      \* the slots
          pos,      \* records written since the last Drain
          dropped,  \* what the last Record returned
          drained   \* what the last Drain returned

buffer == <<buf, pos, dropped, drained>>

Capacity == IF Size <= 0 THEN MaxBufferEntries ELSE Size

Held == IF pos <= Capacity THEN pos ELSE Capacity

SlotOf(p) == p % Capacity

EmptyBuffer ==
    /\ buf = [i \in 0 .. Capacity - 1 |-> Zero]
    /\ pos = 0
    /\ dropped = FALSE
    /\ drained = << >>

\* The records Drain copies out: the i-th newest sits i slots behind pos.
Copied == [i \in 1 .. Held |-> buf[SlotOf(pos - i)]]

\* Mutant: a full buffer reports its first overwrite one record late.
RecordReportsLate(r) ==
    /\ pos < MaxPos
    /\ dropped' = (pos > Capacity)
    /\ buf' = [buf EXCEPT ![SlotOf(pos)] = r]
    /\ pos' = pos + 1
    /\ UNCHANGED drained

Record(r) ==
    /\ pos < MaxPos
    /\ dropped' = (pos >= Capacity)
    /\ buf' = [buf EXCEPT ![SlotOf(pos)] = r]
    /\ pos' = pos + 1
    /\ UNCHANGED drained

\* An empty buffer is returned early as nil; its position is already 0.
Drain ==
    /\ drained' = Copied
    /\ pos' = 0
    /\ UNCHANGED <<buf, dropped>>

UseBuffer == Drain \/ \E r \in Records : Record(r)

BufferSpec == EmptyBuffer /\ [][UseBuffer]_buffer
-----------------------------------------------------------------------------
\* Slots, position and both results stay in range: in particular Drain never
\* hands out a slot that holds Go's zero value.
BufferTypeOK ==
    /\ buf \in [0 .. Capacity - 1 -> Records \union {Zero}]
    /\ pos \in 0 .. MaxPos
    /\ dropped \in BOOLEAN
    /\ drained \in Seq(Records)

\* Every slot behind the write position holds a record, before and after the
\* position has wrapped around: what Drain relies on when it reads them.
WrittenSlots == \A k \in 0 .. Capacity - 1 : k < pos => buf[k] \in Records

\* The ring buffer is a BoundedLog: over- or under-reading after a wrap, a
\* record left over from before a Drain, a changed order or a wrong dropped
\* flag would each break this.
Log == INSTANCE BoundedLog WITH log <- Copied
ImplementsBoundedLog == Log!Spec
=============================================================================
