-------------------------------- MODULE Tailer --------------------------------
(***************************************************************************)
(* The node agent: it follows the log of ztunnel, hands each line to its   *)
(* handler, and keeps its place in a checkpoint file, so that it goes on   *)
(* there after a restart.  The tailer wraps a file consumer (external),    *)
(* which reads lines, remembers an offset, and stores it through the       *)
(* persister after each poll and when it is stopped.                       *)
(*                                                                         *)
(* The log is the number of lines written to it; an offset is a number of  *)
(* lines.  The checkpoint file is a record: a kind, and the offset when it *)
(* is a store with one.  A crash may come between any two steps, and       *)
(* writes may fail.                                                        *)
(***************************************************************************)
EXTENDS Naturals, FiniteSets

CONSTANTS
    MaxLines,     \* bound on the lines written
    MaxFaults     \* bound on stops, crashes, failed writes and damaged files

ASSUME TailerAssumption == MaxLines \in Nat /\ MaxFaults \in Nat

VARIABLES
    log,         \* lines in the log
    file,        \* the checkpoint file
    tmp,         \* the temporary file next to it
    agent,       \* "down", "loaded", "running" or "stopping"
    data,        \* the store of the persister
    offset,      \* of the file consumer: {n}, or {} before its first poll
    flush,       \* the step the persister is in: "none", "write" or "rename"
    delivered,   \* lines the handler has got
    faults,
    checkpoint,  \* history: "none" completed, "kept" since it was, or "damaged"
    skipped,     \* history: lines a start without a checkpoint passed over
    forgotten,   \* history: lines a start from a damaged one passed over
    stoppedAt    \* history: where a stop left off that completed its checkpoint

disk == <<file, tmp>>
memory == <<agent, data, offset, flush>>
history == <<checkpoint, skipped, forgotten, stoppedAt>>
vars == <<log, disk, memory, delivered, faults, history>>

(* The contents of the file.  A store holds an offset, {n}, or none; of a    *)
(* malformed one the persister can read the JSON but the file consumer not *)
(* the offset.                                                             *)
Contents(kind, n) == [kind |-> kind, offset |-> n]
Store(n) == Contents("store", n)
Malformed == Contents("malformed", {})
Missing == Contents("missing", {})
Partial == Contents("corrupt", {})

Damaged == {Missing, Partial, Malformed, Contents("empty", {}), Contents("null", {})}

Init ==
    /\ log \in 0 .. MaxLines
    /\ file = Missing /\ tmp = Missing
    /\ agent = "down" /\ data = Store({}) /\ offset = {} /\ flush = "none"
    /\ delivered = {}
    /\ faults = 0
    /\ checkpoint = "none" /\ skipped = {} /\ forgotten = {} /\ stoppedAt = 0

(* The process is gone, and its memory with it. *)
Down == agent' = "down" /\ data' = Store({}) /\ offset' = {}

Fault == faults < MaxFaults /\ faults' = faults + 1

(***************************************************************************)
(* Start-up.                                                               *)
(***************************************************************************)
(* newFilePersister: whatever is no JSON object is an empty store. *)
Loaded(contents) ==
    IF contents.kind \in {"store", "malformed"} THEN contents ELSE Store({})

(* An unreadable file ends the agent. *)
New ==
    /\ agent = "down"
    /\ \/ data' = Loaded(file) /\ agent' = "loaded" /\ UNCHANGED faults
       \/ Fault /\ UNCHANGED <<data, agent>>
    /\ UNCHANGED <<log, disk, offset, flush, delivered, history>>

\* Mutant: a malformed payload is an error.
ResetNever ==
    /\ agent = "loaded" /\ flush = "none"
    /\ data = Malformed
    /\ Down
    /\ UNCHANGED <<log, disk, flush, delivered, faults, history>>

(* Start, when the file consumer rejects the offsets: the persister is      *)
(* emptied, in memory and on disk.                                         *)
Reset ==
    /\ agent = "loaded" /\ flush = "none"
    /\ data = Malformed
    /\ data' = Store({})
    /\ flush' = "write"
    /\ UNCHANGED <<log, disk, agent, offset, delivered, faults, history>>

(* The file consumer takes over the offset, if there is one. *)
Start ==
    /\ agent = "loaded" /\ flush = "none"
    /\ data # Malformed
    /\ offset' = data.offset
    /\ agent' = "running"
    /\ UNCHANGED <<log, disk, data, flush, delivered, faults, history>>

(***************************************************************************)
(* Polling, by the file consumer.                                          *)
(***************************************************************************)
Polling == agent = "running" /\ flush = "none"

(* Without an offset the first poll starts at the end of the log, whatever  *)
(* the reason there is none.                                               *)
FirstPoll ==
    /\ Polling
    /\ offset = {}
    /\ offset' = {log}
    /\ LET passed == (1 .. log) \ delivered
       IN  /\ skipped' = IF checkpoint = "none" THEN skipped \cup passed ELSE skipped
           /\ forgotten' = IF checkpoint = "damaged" THEN forgotten \cup passed ELSE forgotten
    /\ UNCHANGED <<log, disk, agent, data, flush, delivered, faults, checkpoint, stoppedAt>>

\* Mutant: of the lines read together only the last is handed over.
EmitLast ==
    /\ Polling
    /\ \E n \in offset :
          /\ n < log
          /\ offset' = {log}
          /\ delivered' = delivered \cup {log}
    /\ UNCHANGED <<log, disk, agent, data, flush, faults, history>>

(* The callback hands over the next line. *)
Emit ==
    /\ Polling
    /\ \E n \in offset :
          /\ n < log
          /\ offset' = {n + 1}
          /\ delivered' = delivered \cup {n + 1}
    /\ UNCHANGED <<log, disk, agent, data, flush, faults, history>>

(* The poll ends: the offset goes to the persister. *)
Checkpoint ==
    /\ Polling
    /\ offset # {} /\ file # Store(offset)
    /\ data' = Store(offset)
    /\ flush' = "write"
    /\ UNCHANGED <<log, disk, agent, offset, delivered, faults, history>>

(* Stop ends the poll loop and stores the offset once more. *)
Stop ==
    /\ Fault /\ Polling
    /\ agent' = "stopping"
    /\ data' = Store(offset)
    /\ flush' = "write"
    /\ UNCHANGED <<log, disk, offset, delivered, history>>

(***************************************************************************)
(* flush, under the mutex of the persister.                                *)
(***************************************************************************)
(* The caller goes on: a reset that failed ends the agent, a checkpoint     *)
(* that failed does not.                                                   *)
Flushed(ok) ==
    /\ flush' = "none"
    /\ IF agent = "stopping" \/ (agent = "loaded" /\ ~ok)
       THEN Down
       ELSE UNCHANGED <<agent, data, offset>>
    /\ stoppedAt' \in IF ok /\ agent = "stopping" /\ offset # {} THEN offset ELSE {stoppedAt}
    /\ UNCHANGED <<log, delivered, skipped, forgotten>>

\* Mutant: the file itself is written.
WriteInPlace ==
    /\ flush = "write"
    /\ file' = Partial
    /\ tmp' = data
    /\ flush' = "rename"
    /\ UNCHANGED <<log, agent, data, offset, delivered, faults, history>>

WriteTemporary ==
    /\ flush = "write"
    /\ \/ /\ tmp' = data
          /\ flush' = "rename"
          /\ UNCHANGED <<log, agent, data, offset, delivered, faults, history>>
       \/ /\ Fault
          /\ tmp' \in {tmp, Partial}
          /\ Flushed(FALSE)
          /\ UNCHANGED checkpoint
    /\ UNCHANGED file

Rename ==
    /\ flush = "rename"
    /\ \/ /\ file' = tmp /\ tmp' = Missing
          /\ checkpoint' = IF tmp.offset # {} THEN "kept" ELSE checkpoint
          /\ Flushed(TRUE)
          /\ UNCHANGED faults
       \/ /\ Fault
          /\ Flushed(FALSE)
          /\ UNCHANGED <<disk, checkpoint>>

(***************************************************************************)
(* ztunnel, crashes and damage.                                            *)
(***************************************************************************)
WriteLine ==
    /\ log < MaxLines
    /\ log' = log + 1
    /\ UNCHANGED <<disk, memory, delivered, faults, history>>

(* A write that was going on may have reached a part of the file. *)
Crash ==
    /\ Fault
    /\ agent # "down"
    /\ Down /\ flush' = "none"
    /\ tmp' \in IF flush = "write" THEN {tmp, Partial, data} ELSE {tmp}
    /\ UNCHANGED <<log, file, delivered, history>>

(* The file is damaged, or removed: then no checkpoint exists any more. *)
Damage ==
    /\ Fault
    /\ agent = "down"
    /\ file' \in Damaged
    /\ checkpoint' = IF file' = Missing \/ checkpoint = "none" THEN "none" ELSE "damaged"
    /\ stoppedAt' = 0
    /\ UNCHANGED <<log, tmp, memory, delivered, skipped, forgotten>>

Work == New \/ Reset \/ Start \/ FirstPoll \/ Emit \/ Checkpoint \/ WriteTemporary \/ Rename

Next == Work \/ Stop \/ WriteLine \/ Crash \/ Damage

(* The kubelet starts the agent again, and the agent and its disk go on. *)
Spec == Init /\ [][Next]_vars /\ WF_vars(Work)

(***************************************************************************)
(* Properties.                                                             *)
(***************************************************************************)
Stores == {Store({})} \cup {Store({n}) : n \in 0 .. MaxLines}

TypeOK ==
    /\ log \in 0 .. MaxLines
    /\ file \in Stores \cup Damaged /\ tmp \in Stores \cup {Missing, Partial}
    /\ data \in Stores \cup {Malformed}
    /\ agent \in {"down", "loaded", "running", "stopping"}
    /\ offset \in {{}} \cup {{n} : n \in 0 .. log}
    /\ flush \in {"none", "write", "rename"}
    /\ delivered \subseteq 1 .. log /\ skipped \subseteq 1 .. log /\ forgotten \subseteq 1 .. log
    /\ faults \in 0 .. MaxFaults
    /\ checkpoint \in {"none", "kept", "damaged"} /\ stoppedAt \in 0 .. log

(* The place of the file consumer and those a restart may resume from. *)
Places == offset \cup data.offset \cup tmp.offset \cup file.offset

(* No line is lost by stops, crashes and failed writes: all lines before    *)
(* every place have been handed to the handler, except those a start passed *)
(* over before there was a checkpoint, and those a start passed over        *)
(* because the checkpoint had been damaged from outside (the offset is      *)
(* stored after the callback returns; newFilePersister, flush, reset).      *)
NoLineLost == \A n \in Places : 1 .. n \subseteq delivered \cup skipped \cup forgotten

(* What RFC 0007 asks of a tailer: a corrupt checkpoint is recovered by a   *)
(* replay, and only a start without a checkpoint passes over lines          *)
(* (newFilePersister, Start).                                              *)
DeliveredAtLeastOnce == \A n \in Places : 1 .. n \subseteq delivered \cup skipped

(* Once a checkpoint has been completed, the tailer never starts at the     *)
(* end of the log again: no crash, failed write or failed rename leaves a   *)
(* checkpoint file that does not load (flush), only damage from outside.    *)
ResumesFromCheckpoint == checkpoint = "kept" /\ agent = "running" => offset # {}

(* A line handed over before a stop that completed its checkpoint is not    *)
(* handed over again, though earlier checkpoints may have failed (Stop      *)
(* flushes the final offsets).                                             *)
NoRepeatAfterStop == agent = "running" => \A n \in offset : n >= stoppedAt

(* A start resumes from a completed checkpoint, and not before a completed  *)
(* stop (newFilePersister, flush, Stop).                                   *)
ResumesWhereItStopped == ResumesFromCheckpoint /\ NoRepeatAfterStop

(* When stops, crashes and damage have an end, the checkpoint reaches the   *)
(* end of the log, and every line was handed over, but for those of         *)
(* NoLineLost: no damaged or malformed checkpoint keeps the agent down      *)
(* (Start, reset).                                                         *)
CatchesUp == <>[](file = Store({log}) /\ NoLineLost)
================================================================================
