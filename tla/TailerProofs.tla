----------------------------- MODULE TailerProofs -----------------------------
(***************************************************************************)
(* The safety properties of Tailer for a log of any length and any number  *)
(* of faults.                                                              *)
(*                                                                         *)
(* What an agent resumes from is decided before it crashed, so the          *)
(* properties of a running agent are not inductive.  The invariant follows *)
(* the offset on its way from the file consumer through the store and the  *)
(* temporary file to the checkpoint file, and back at the next start.      *)
(*                                                                         *)
(* And what becomes of each line that is read: the event that both readers *)
(* of the log make of it, and what the Istio scraper then learns or        *)
(* records, in a cluster with any pods, workloads and policies.            *)
(***************************************************************************)
EXTENDS Tailer, IstioDecision, TLAPS

(* What the steps of the agent say about its memory: a write in progress is *)
(* of the offset of the file consumer, or of the empty store of a reset.   *)
WriteInProgress ==
    /\ agent = "down" => flush = "none" /\ offset = {}
    /\ agent = "stopping" => flush # "none"
    /\ flush # "none" => data = IF agent = "loaded" THEN Store({}) ELSE Store(offset)
    /\ flush = "rename" => tmp = data

(* A place to resume from that is not before the last orderly stop. *)
NotBefore(place, n) == place # {} /\ \A m \in place : m >= n

(* Once a checkpoint has been completed, the checkpoint file holds a place  *)
(* to resume from, and whoever has read it has one as well.                *)
PlaceKept ==
    /\ stoppedAt > 0 => checkpoint = "kept"
    /\ checkpoint = "kept" =>
          /\ file.kind = "store" /\ NotBefore(file.offset, stoppedAt)
          /\ agent = "loaded" => data = file
          /\ agent \in {"running", "stopping"} => NotBefore(offset, stoppedAt)

IInv == TypeOK /\ NoLineLost /\ WriteInProgress /\ PlaceKept

-----------------------------------------------------------------------------
\* The contents that occur are records with a kind and an offset.
LEMMA StoreFields ==
  ASSUME NEW n
  PROVE  /\ Store(n).kind = "store" /\ Store(n).offset = n
         /\ Store(n) # Malformed /\ Store(n) # Missing /\ Store(n) # Partial
  BY DEF Store, Contents, Malformed, Missing, Partial

\* Nothing but a store has an offset.
LEMMA DamagedFields ==
  ASSUME NEW c \in Damaged
  PROVE  c.offset = {} /\ c.kind # "store"
  BY DEF Damaged, Contents, Malformed, Missing, Partial

\* What the persister loads is a store with the offset of the file, or the
\* malformed one.
LEMMA LoadedFields ==
  ASSUME NEW c \in Stores \cup Damaged
  PROVE  /\ Loaded(c) \in Stores \cup {Malformed}
         /\ Loaded(c).offset \subseteq c.offset
         /\ c.kind = "store" => Loaded(c) = c
<1>1. CASE c \in Stores
  BY <1>1, StoreFields DEF Stores, Loaded
<1>2. CASE c \in Damaged
  BY <1>2, StoreFields DEF Damaged, Loaded, Stores, Contents, Malformed, Missing, Partial, Store
<1>. QED BY <1>1, <1>2

\* The stores are those of no place and of the places in the log.
LEMMA StoresAre ==
  /\ Store({}) \in Stores
  /\ \A n \in 0 .. MaxLines : Store({n}) \in Stores
  /\ \A c \in Stores : c = Store(c.offset) /\ c.kind = "store"
                       /\ (c.offset = {} \/ \E n \in 0 .. MaxLines : c.offset = {n})
  BY StoreFields DEF Stores

\* An offset of the file consumer makes a store.
LEMMA OffsetStores ==
  ASSUME TypeOK
  PROVE  Store(offset) \in Stores
<1>1. CASE offset = {}
  BY <1>1, StoresAre
<1>2. CASE \E n \in 0 .. log : offset = {n}
  <2>1. PICK n \in 0 .. log : offset = {n}
    BY <1>2
  <2>2. n \in 0 .. MaxLines
    BY TailerAssumption DEF TypeOK
  <2>. QED BY <2>1, <2>2, StoresAre
<1>. QED BY <1>1, <1>2 DEF TypeOK

\* A place the handler has got all lines before is a place in the log.
LEMMA StoredPlace ==
  ASSUME TypeOK, NoLineLost, data \in Stores
  PROVE  data.offset \in {{}} \cup {{n} : n \in 0 .. log}
<1>1. CASE data.offset = {}
  BY <1>1
<1>2. CASE \E n \in 0 .. MaxLines : data.offset = {n}
  <2>1. PICK n \in 0 .. MaxLines : data.offset = {n}
    BY <1>2
  <2>2. 1 .. n \subseteq 1 .. log
    BY <2>1 DEF NoLineLost, Places, TypeOK
  <2>3. n \in 0 .. log
    BY <2>2, TailerAssumption DEF TypeOK
  <2>. QED BY <2>1, <2>3
<1>. QED BY <1>1, <1>2, StoresAre

\* The invariant holds before the first start.
LEMMA InitIInv == Init => IInv
<1>. SUFFICES ASSUME Init PROVE IInv
  OBVIOUS
<1>1. TypeOK
  <2>1. file \in Damaged /\ tmp = Missing /\ data \in Stores
    BY StoresAre DEF Init, Damaged
  <2>2. log \in 0 .. MaxLines /\ 0 \in 0 .. log /\ 0 \in 0 .. MaxFaults
    BY TailerAssumption DEF Init
  <2>. QED BY <2>1, <2>2 DEF Init, TypeOK
<1>2. NoLineLost
  <2>1. Missing.offset = {} /\ Store({}).offset = {}
    BY StoreFields DEF Missing, Contents
  <2>. QED BY <2>1 DEF Init, NoLineLost, Places
<1>3. WriteInProgress /\ PlaceKept
  BY DEF Init, WriteInProgress, PlaceKept
<1>. QED BY <1>1, <1>2, <1>3 DEF IInv

\* The bound on the faults is kept.
LEMMA FaultBounded ==
  ASSUME TypeOK, Fault
  PROVE  faults' \in 0 .. MaxFaults
  BY TailerAssumption DEF TypeOK, Fault

-----------------------------------------------------------------------------
\* The persister loads the file as the last process left it, ...
LEMMA NewIInv ==
  ASSUME IInv, New
  PROVE  IInv'
<1>. USE DEF IInv, New
<1>1. /\ Loaded(file) \in Stores \cup {Malformed}
      /\ Loaded(file).offset \subseteq file.offset
      /\ file.kind = "store" => Loaded(file) = file
  BY LoadedFields DEF TypeOK
<1>2. TypeOK'
  BY <1>1, FaultBounded DEF TypeOK, disk, history
<1>3. NoLineLost'
  BY <1>1 DEF NoLineLost, Places, disk, history
<1>4. WriteInProgress'
  BY DEF WriteInProgress, disk
<1>5. PlaceKept'
  BY <1>1 DEF PlaceKept, NotBefore, disk, history, WriteInProgress
<1>. QED BY <1>2, <1>3, <1>4, <1>5

\* ... is emptied when the consumer rejects what it loaded, ...
LEMMA ResetIInv ==
  ASSUME IInv, Reset
  PROVE  IInv'
<1>. USE DEF IInv, Reset
<1>2. TypeOK'
  BY StoresAre DEF TypeOK, disk, history
<1>3. NoLineLost'
  BY StoreFields DEF NoLineLost, Places, disk, history
<1>4. WriteInProgress'
  BY DEF WriteInProgress, disk
<1>5. PlaceKept'
  <2>1. checkpoint # "kept"
    BY StoreFields DEF PlaceKept, Malformed, Contents
  <2>. QED BY <2>1 DEF PlaceKept, disk, history
<1>. QED BY <1>2, <1>3, <1>4, <1>5

\* ... and gives the consumer its offset.
LEMMA StartIInv ==
  ASSUME IInv, Start
  PROVE  IInv'
<1>. USE DEF IInv, Start
<1>1. data.offset \in {{}} \cup {{n} : n \in 0 .. log}
  BY StoredPlace DEF TypeOK
<1>2. TypeOK'
  BY <1>1 DEF TypeOK, disk, history
<1>3. NoLineLost'
  BY DEF NoLineLost, Places, disk, history
<1>4. WriteInProgress'
  BY DEF WriteInProgress, disk
<1>5. PlaceKept'
  BY DEF PlaceKept, disk, history
<1>. QED BY <1>2, <1>3, <1>4, <1>5

-----------------------------------------------------------------------------
\* Without an offset, the first poll passes over what the log has.
LEMMA FirstPollIInv ==
  ASSUME IInv, FirstPoll
  PROVE  IInv'
<1>. USE DEF IInv, FirstPoll
<1>1. checkpoint # "kept"
  BY DEF PlaceKept, NotBefore, Polling
<1>2. TypeOK'
  BY DEF TypeOK, disk
<1>3. NoLineLost'
  BY <1>1 DEF NoLineLost, Places, disk, TypeOK
<1>4. WriteInProgress'
  BY DEF WriteInProgress, disk, Polling
<1>5. PlaceKept'
  BY <1>1 DEF PlaceKept, disk
<1>. QED BY <1>2, <1>3, <1>4, <1>5

\* A line that is handed over moves the offset by one.
LEMMA EmitIInv ==
  ASSUME IInv, Emit
  PROVE  IInv'
<1>. USE DEF IInv, Emit
<1>1. PICK n \in offset : n < log /\ offset' = {n + 1} /\ delivered' = delivered \cup {n + 1}
  OBVIOUS
<1>1a. n \in 0 .. log /\ log \in Nat
  BY TailerAssumption DEF TypeOK
<1>2. TypeOK'
  BY <1>1, <1>1a DEF TypeOK, disk, history
<1>3. NoLineLost'
  <2>1. 1 .. n + 1 \subseteq 1 .. n \cup {n + 1}
    BY <1>1a
  <2>. QED BY <1>1, <2>1 DEF NoLineLost, Places, disk, history
<1>4. WriteInProgress'
  BY DEF WriteInProgress, disk, Polling
<1>5. PlaceKept'
  <2>1. checkpoint = "kept" => n + 1 >= stoppedAt
    BY <1>1a DEF PlaceKept, NotBefore, Polling, TypeOK
  <2>. QED BY <1>1, <2>1 DEF PlaceKept, NotBefore, disk, history, Polling
<1>. QED BY <1>2, <1>3, <1>4, <1>5

\* The end of a poll gives the persister the offset to write.
LEMMA CheckpointIInv ==
  ASSUME IInv, Checkpoint
  PROVE  IInv'
<1>. USE DEF IInv, Checkpoint
<1>2. TypeOK'
  BY OffsetStores DEF TypeOK, disk, history
<1>3. NoLineLost'
  BY StoreFields DEF NoLineLost, Places, disk, history
<1>4. WriteInProgress'
  BY DEF WriteInProgress, disk, Polling
<1>5. PlaceKept'
  BY DEF PlaceKept, disk, history, Polling
<1>. QED BY <1>2, <1>3, <1>4, <1>5

\* So does an orderly stop.
LEMMA StopIInv ==
  ASSUME IInv, Stop
  PROVE  IInv'
<1>. USE DEF IInv, Stop
<1>2. TypeOK'
  BY OffsetStores, FaultBounded DEF TypeOK, disk, history
<1>3. NoLineLost'
  BY StoreFields DEF NoLineLost, Places, disk, history
<1>4. WriteInProgress'
  BY DEF WriteInProgress, disk, Polling
<1>5. PlaceKept'
  BY DEF PlaceKept, disk, history, Polling
<1>. QED BY <1>2, <1>3, <1>4, <1>5

\* ztunnel appends a line to its log.
LEMMA WriteLineIInv ==
  ASSUME IInv, WriteLine
  PROVE  IInv'
<1>. USE DEF IInv, WriteLine
<1>1. log \in Nat /\ log + 1 \in 0 .. MaxLines /\ 0 .. log \subseteq 0 .. log + 1 /\ 1 .. log \subseteq 1 .. log + 1
  BY TailerAssumption DEF TypeOK
<1>2. TypeOK'
  BY <1>1 DEF TypeOK, disk, memory, history
<1>3. NoLineLost'
  BY DEF NoLineLost, Places, disk, memory, history
<1>4. WriteInProgress'
  BY DEF WriteInProgress, disk, memory
<1>5. PlaceKept'
  BY DEF PlaceKept, NotBefore, disk, memory, history
<1>. QED BY <1>2, <1>3, <1>4, <1>5

-----------------------------------------------------------------------------
\* The end of a flush: Flushed changes memory only by ending the process.
LEMMA WriteTemporaryIInv ==
  ASSUME IInv, WriteTemporary
  PROVE  IInv'
<1>. USE DEF IInv, WriteTemporary
<1>0. flush = "write" /\ file' = file /\ agent # "down"
  BY DEF WriteInProgress
<1>1. data \in Stores /\ data.offset \subseteq offset
  BY <1>0, OffsetStores, StoresAre, StoreFields DEF WriteInProgress
<1>2. CASE tmp' = data /\ flush' = "rename"
           /\ UNCHANGED <<log, agent, data, offset, delivered, faults, history>>
  <2>1. TypeOK'
    BY <1>0, <1>1, <1>2 DEF TypeOK, history
  <2>2. NoLineLost'
    BY <1>0, <1>1, <1>2 DEF NoLineLost, Places, history
  <2>3. WriteInProgress'
    BY <1>0, <1>2 DEF WriteInProgress
  <2>4. PlaceKept'
    BY <1>0, <1>2 DEF PlaceKept, history
  <2>. QED BY <2>1, <2>2, <2>3, <2>4
<1>3. CASE Fault /\ tmp' \in {tmp, Partial} /\ Flushed(FALSE) /\ UNCHANGED checkpoint
  <2>. USE DEF Flushed
  <2>0. Partial.offset = {} /\ Store({}).offset = {} /\ Store({}) \in Stores
    BY StoreFields, StoresAre DEF Partial, Contents
  <2>m. /\ stoppedAt' = stoppedAt
        /\ \/ agent' = "down" /\ data' = Store({}) /\ offset' = {}
           \/ agent = "running" /\ UNCHANGED <<agent, data, offset>>
    BY <1>0, <1>3 DEF Down, TypeOK
  <2>1. TypeOK'
    BY <1>0, <1>3, <2>0, <2>m, FaultBounded DEF TypeOK
  <2>2. NoLineLost'
    BY <1>0, <1>3, <2>0, <2>m DEF NoLineLost, Places
  <2>3. WriteInProgress'
    BY <1>0, <1>3, <2>m DEF WriteInProgress
  <2>4. PlaceKept'
    BY <1>0, <1>3, <2>m DEF PlaceKept
  <2>. QED BY <2>1, <2>2, <2>3, <2>4
<1>. QED BY <1>2, <1>3

\* A complete temporary file replaces the checkpoint.
LEMMA RenameIInv ==
  ASSUME IInv, Rename
  PROVE  IInv'
<1>. USE DEF IInv, Rename
<1>0. flush = "rename" /\ agent # "down" /\ tmp = data
  BY DEF WriteInProgress
<1>1. tmp \in Stores /\ tmp = IF agent = "loaded" THEN Store({}) ELSE Store(offset)
  BY <1>0, OffsetStores, StoresAre DEF WriteInProgress
<1>s. Missing.offset = {} /\ Store({}).offset = {} /\ Store({}) \in Stores
  BY StoreFields, StoresAre DEF Missing, Contents
<1>2. CASE /\ file' = tmp /\ tmp' = Missing
           /\ checkpoint' = IF tmp.offset # {} THEN "kept" ELSE checkpoint
           /\ Flushed(TRUE) /\ UNCHANGED faults
  <2>. USE DEF Flushed
  <2>m. \/ agent' = "down" /\ data' = Store({}) /\ offset' = {}
        \/ agent \in {"loaded", "running"} /\ UNCHANGED <<agent, data, offset>>
    BY <1>0, <1>2 DEF Down, TypeOK
  <2>1. TypeOK'
    <3>1. stoppedAt' \in 0 .. log
      BY <1>2 DEF TypeOK
    <3>. QED BY <1>0, <1>1, <1>2, <1>s, <2>m, <3>1 DEF TypeOK
  <2>2. NoLineLost'
    BY <1>0, <1>2, <1>s, <2>m DEF NoLineLost, Places
  <2>3. WriteInProgress'
    BY <1>0, <1>2, <2>m DEF WriteInProgress
  <2>4. PlaceKept'
    <3>1. CASE agent = "loaded"
      <4>1. checkpoint # "kept"
        BY <1>0, <1>1, <1>s, <3>1 DEF PlaceKept, NotBefore
      <4>2. checkpoint' # "kept" /\ stoppedAt' = stoppedAt
        BY <1>1, <1>2, <1>s, <3>1, <4>1
      <4>. QED BY <4>1, <4>2 DEF PlaceKept, TypeOK
    <3>2. CASE agent \in {"running", "stopping"} /\ offset = {}
      <4>1. checkpoint # "kept"
        BY <3>2 DEF PlaceKept, NotBefore
      <4>2. checkpoint' # "kept" /\ stoppedAt' = stoppedAt
        BY <1>1, <1>2, <3>2, <4>1, StoreFields
      <4>. QED BY <4>1, <4>2 DEF PlaceKept, TypeOK
    <3>3. CASE agent \in {"running", "stopping"} /\ offset # {}
      <4>1. file' = Store(offset) /\ file'.kind = "store" /\ file'.offset = offset
        BY <1>1, <1>2, <3>3, StoreFields
      <4>2. checkpoint' = "kept"
        BY <1>2, <4>1, <3>3
      <4>3. NotBefore(offset, stoppedAt')
        <5>1. CASE agent = "stopping"
          <6>1. PICK n \in 0 .. log : offset = {n}
            BY <3>3 DEF TypeOK
          <6>2. stoppedAt' = n
            BY <1>2, <5>1, <6>1
          <6>. QED BY <6>1, <6>2 DEF NotBefore
        <5>2. CASE agent = "running"
          <6>1. stoppedAt' = stoppedAt
            BY <1>2, <5>2
          <6>2. CASE checkpoint = "kept"
            BY <6>1, <6>2, <5>2 DEF PlaceKept
          <6>3. CASE checkpoint # "kept"
            BY <6>1, <6>3, <3>3 DEF PlaceKept, NotBefore, TypeOK
          <6>. QED BY <6>2, <6>3
        <5>. QED BY <3>3, <5>1, <5>2
      <4>4. agent' = "down" \/ (agent' = "running" /\ offset' = offset)
        BY <2>m, <3>3
      <4>. QED BY <4>1, <4>2, <4>3, <4>4 DEF PlaceKept, NotBefore
    <3>. QED BY <1>0, <3>1, <3>2, <3>3 DEF TypeOK
  <2>. QED BY <2>1, <2>2, <2>3, <2>4
<1>3. CASE Fault /\ Flushed(FALSE) /\ UNCHANGED <<disk, checkpoint>>
  <2>. USE DEF Flushed, disk
  <2>m. /\ stoppedAt' = stoppedAt
        /\ \/ agent' = "down" /\ data' = Store({}) /\ offset' = {}
           \/ agent = "running" /\ UNCHANGED <<agent, data, offset>>
    BY <1>0, <1>3 DEF Down, TypeOK
  <2>1. TypeOK'
    BY <1>3, <1>s, <2>m, FaultBounded DEF TypeOK
  <2>2. NoLineLost'
    BY <1>3, <1>s, <2>m DEF NoLineLost, Places
  <2>3. WriteInProgress'
    BY <1>3, <2>m DEF WriteInProgress
  <2>4. PlaceKept'
    BY <1>3, <2>m DEF PlaceKept
  <2>. QED BY <2>1, <2>2, <2>3, <2>4
<1>. QED BY <1>2, <1>3

\* A process that dies loses what it held and not the files.
LEMMA CrashIInv ==
  ASSUME IInv, Crash
  PROVE  IInv'
<1>. USE DEF IInv, Crash, Down
<1>0. Partial.offset = {} /\ Store({}).offset = {} /\ Store({}) \in Stores
  BY StoreFields, StoresAre DEF Partial, Contents
<1>1. flush = "write" => data \in Stores
  BY OffsetStores, StoresAre DEF WriteInProgress
<1>t. tmp' \in {tmp, Partial} \/ (flush = "write" /\ tmp' = data)
  OBVIOUS
<1>2. TypeOK'
  BY <1>0, <1>1, <1>t, FaultBounded DEF TypeOK, history
<1>3. NoLineLost'
  BY <1>0, <1>t DEF NoLineLost, Places, history
<1>4. WriteInProgress'
  BY DEF WriteInProgress
<1>5. PlaceKept'
  BY DEF PlaceKept, history
<1>. QED BY <1>2, <1>3, <1>4, <1>5

\* Damage to the file makes it one no agent completed.
LEMMA DamageIInv ==
  ASSUME IInv, Damage
  PROVE  IInv'
<1>. USE DEF IInv, Damage
<1>0. file'.offset = {}
  BY DamagedFields
<1>2. TypeOK'
  <2>1. 0 \in 0 .. log
    BY TailerAssumption DEF TypeOK
  <2>. QED BY <2>1, FaultBounded DEF TypeOK, memory
<1>3. NoLineLost'
  BY <1>0 DEF NoLineLost, Places, memory
<1>4. WriteInProgress'
  BY DEF WriteInProgress, memory
<1>5. PlaceKept'
  BY DEF PlaceKept
<1>. QED BY <1>2, <1>3, <1>4, <1>5

-----------------------------------------------------------------------------
\* The inductive invariant holds in every state.
THEOREM TailerInvariance == Spec => []IInv
<1>1. Init => IInv
  BY InitIInv
<1>2. IInv /\ [Next]_vars => IInv'
  <2>. SUFFICES ASSUME IInv, [Next]_vars PROVE IInv'
    OBVIOUS
  <2>1. CASE UNCHANGED vars
    BY <2>1 DEF IInv, TypeOK, NoLineLost, Places, WriteInProgress, PlaceKept, NotBefore,
                vars, disk, memory, history
  <2>. QED
    BY <2>1, NewIInv, ResetIInv, StartIInv, FirstPollIInv, EmitIInv, CheckpointIInv, StopIInv,
       WriteTemporaryIInv, RenameIInv, WriteLineIInv, CrashIInv, DamageIInv DEF Next, Work
<1>. QED BY <1>1, <1>2, PTL DEF Spec

\* Only a start without a readable checkpoint passes over lines, whatever
\* number of lines is written and of crashes and failed writes interrupts the
\* agent (the offset is stored after the callback, and loaded as it was
\* stored); what is passed over for want of a damaged file is in forgotten.
THEOREM LinesKept == Spec => []NoLineLost
<1>1. IInv => NoLineLost
  BY DEF IInv
<1>. QED BY <1>1, TailerInvariance, PTL

\* A completed checkpoint is resumed from, and an orderly stop repeats no
\* line: the write to a temporary file and the rename never leave a checkpoint
\* file that does not load (flush).
THEOREM PlaceResumed == Spec => []ResumesWhereItStopped
<1>1. IInv => ResumesFromCheckpoint
  BY DEF IInv, PlaceKept, NotBefore, ResumesFromCheckpoint
<1>2. IInv => NoRepeatAfterStop
  <2>. SUFFICES ASSUME IInv, agent = "running", NEW n \in offset PROVE n >= stoppedAt
    BY DEF NoRepeatAfterStop
  <2>1. CASE checkpoint = "kept"
    BY <2>1 DEF IInv, PlaceKept, NotBefore
  <2>2. CASE checkpoint # "kept"
    BY <2>2 DEF IInv, PlaceKept, TypeOK
  <2>. QED BY <2>1, <2>2
<1>3. IInv => ResumesWhereItStopped
  BY <1>1, <1>2 DEF ResumesWhereItStopped
<1>. QED BY <1>3, TailerInvariance, PTL

-----------------------------------------------------------------------------
USE SMTT(30), ZenonT(20)

(* The two readers of the mesh's log (Parser.Parse, to_otel). *)

(* Every line of the supported schema. *)
MeshSpec == question.about = "mesh" /\ answer = {} /\ [][Handle]_asked

\* Whatever strings a line holds, both readers make the same event of it, or none.
LEMMA SameReading ==
  ASSUME NEW line
  PROVE  Parse(line) = ToOtel(line)
<1>1. CASE line.message \in {"dry-run: deny policy match", "dry-run: no allow policies match"}
  BY <1>1 DEF Parse, ToOtel, EventType, PolicyEvent
<1>2. CASE line.message \in {"deny policy match", "no allow policies matched"}
  BY <1>2 DEF Parse, ToOtel, EventType, PolicyEvent
<1>3. CASE line.message = "connection complete"
  <2>1. CASE line.direction = "inbound" /\ line.srcIdentity # {} /\ line.dstIdentity # {}
    <3>1. {x \in {line} : x.direction = "inbound" /\ {} \notin {x.srcIdentity, x.dstIdentity}} = {line}
      BY <2>1
    <3>2. LearnEvent(line) = {[NoAttributes EXCEPT !["type"] = {"learn"}, !["dstName"] = line.dstName,
                                                   !["dstNamespace"] = line.dstNamespace,
                                                   !["dstPort"] = UNION {a.port : a \in line.dstAddr},
                                                   !["srcIdentity"] = line.srcIdentity]}
      BY <3>1 DEF LearnEvent
    <3>3. EventType(line.message) = "learn"
      BY <1>3 DEF EventType
    <3>4. Parse(line) = {[NoAttributes EXCEPT !["type"] = {"learn"}, !["dstName"] = line.dstName,
                                              !["dstNamespace"] = line.dstNamespace,
                                              !["dstPort"] = ExtractPort(line.dstAddr),
                                              !["srcIdentity"] = line.srcIdentity]}
      BY <2>1, <3>3 DEF Parse
    <3>. QED BY <1>3, <3>2, <3>4 DEF ToOtel, ExtractPort
  <2>2. CASE ~(line.direction = "inbound" /\ line.srcIdentity # {} /\ line.dstIdentity # {})
    <3>1. LearnEvent(line) = {}
      BY <2>2 DEF LearnEvent
    <3>. QED BY <1>3, <2>2, <3>1 DEF Parse, ToOtel, EventType
  <2>. QED BY <2>1, <2>2
<1>4. CASE line.message \notin {"dry-run: deny policy match", "dry-run: no allow policies match",
                                "deny policy match", "no allow policies matched", "connection complete"}
  BY <1>4 DEF Parse, ToOtel, EventType
<1>. QED BY <1>1, <1>2, <1>3, <1>4

\* The parser and the script of the log forwarder agree on every line of the
\* supported schema: the line is not one of a few, it holds any message,
\* identities and addresses.
THEOREM LogReadersAgree == MeshSpec => []ParsersAgree
<1>. DEFINE Read == \A a \in answer : a.parsed = a.sent
<1>1. answer = {} => Read
  OBVIOUS
<1>2. ASSUME Read, [Handle]_asked PROVE Read'
  <2>1. CASE Handle
    <3>1. PICK made : answer' = {[parsed |-> Parse(LineOf(question)), sent |-> ToOtel(LineOf(question)),
                                  made |-> made]}
      BY <2>1, ZenonT(30) DEF Handle, Decide
    <3>2. Parse(LineOf(question)) = ToOtel(LineOf(question))
      BY SameReading
    <3>. QED BY <3>1, <3>2
  <2>2. CASE UNCHANGED asked
    BY <1>2, <2>2 DEF asked
  <2>. QED BY <1>2, <2>1, <2>2
<1>3. Read => ParsersAgree
  BY DEF ParsersAgree, About
<1>. QED BY <1>1, <1>2, <1>3, PTL DEF MeshSpec

-----------------------------------------------------------------------------
(* What becomes of a connection that ztunnel logged (to_otel, Export). *)

(* What an end of a connection is, besides built as the control plane       *)
(* builds pods: it is in a namespace and has a name.                       *)
IsEnd(e) ==
    /\ WellBuilt(e)
    /\ e.pod.namespace # "" /\ e.pod.name # NoName
    /\ \E parts : e.name \in Seq(parts)

(* Any connection between two pods of a cluster of any size, logged with    *)
(* any fields gone, under any policies.  Pods of a namespace have different *)
(* names, and a resource carries no attribute of a line but its type.      *)
Connection(q) ==
    /\ q.gone \subseteq Fields
    /\ \E type : q.resource = [NoAttributes EXCEPT !["type"] = type]
    /\ \A e \in q.cached \cup {q.source, q.dest} : IsEnd(e)
    /\ \A e, f \in q.cached \cup {q.source, q.dest} :
          e.pod.namespace = f.pod.namespace /\ e.pod.name = f.pod.name => e = f

\* A pair is a sequence.
LEMMA Pair ==
  ASSUME NEW S, NEW a \in S, NEW b \in S
  PROVE  <<a, b>> \in Seq(S) /\ Len(<<a, b>>) = 2 /\ <<a, b>>[1] = a /\ <<a, b>>[2] = b
  OBVIOUS

\* A name ends in what was appended to it, ...
LEMMA JoinedSuffix ==
  ASSUME NEW S, NEW s \in Seq(S), NEW t \in Seq(S)
  PROVE  HasSuffix(s \o t, t)
  BY DEF HasSuffix

\* ... and begins with what it was appended to.
LEMMA JoinedRest ==
  ASSUME NEW S, NEW s \in Seq(S), NEW t \in Seq(S)
  PROVE  SubSeq(s \o t, 1, Len(s \o t) - Len(t)) = s
  OBVIOUS

\* What a concatenation ends in.
LEMMA JoinedLast ==
  ASSUME NEW S, NEW s \in Seq(S), NEW t \in Seq(S), NEW n \in Nat, n = Len(t), n > 0
  PROVE  /\ s \o t \in Seq(S) /\ Len(s \o t) = Len(s) + n
         /\ (s \o t)[Len(s) + n] = t[n]
  OBVIOUS

\* A name ends in its last part, ...
LEMMA LastPart ==
  ASSUME NEW S, NEW s \in Seq(S), NEW n \in Nat, n > 0, n = Len(s), NEW b, s[n] = b
  PROVE  HasSuffix(s, <<b>>)
<1>. DEFINE tail == SubSeq(s, n, n)
<1>1. tail \in Seq(S) /\ Len(tail) = 1 /\ tail[1] = b
  OBVIOUS
<1>. HIDE DEF tail
<1>2. tail = <<b>>
  BY <1>1
<1>3. Len(<<b>>) = 1
  OBVIOUS
<1>4. n - 1 + 1 = n
  OBVIOUS
<1>. QED BY <1>2, <1>3, <1>4 DEF HasSuffix, tail

\* ... also when several were appended, ...
LEMMA LastAppended ==
  ASSUME NEW S, NEW s \in Seq(S), NEW t \in Seq(S), NEW n \in Nat, n = Len(t), n > 0
  PROVE  HasSuffix(s \o t, <<t[n]>>)
<1>. DEFINE long == s \o t
<1>1. long \in Seq(S) /\ Len(long) = Len(s) + n /\ long[Len(s) + n] = t[n]
  BY JoinedLast
<1>2. Len(s) + n \in Nat /\ Len(s) + n > 0
  OBVIOUS
<1>. HIDE DEF long
<1>3. HasSuffix(long, <<t[n]>>)
  BY <1>1, <1>2, LastPart
<1>. QED BY <1>3 DEF long

\* ... or two.
LEMMA LastOfPair ==
  ASSUME NEW S, NEW s \in Seq(S), NEW a \in S, NEW b \in S
  PROVE  HasSuffix(s \o <<a, b>>, <<b>>)
<1>. DEFINE two == <<a, b>>
<1>1. two \in Seq(S) /\ 2 = Len(two) /\ two[2] = b
  BY Pair
<1>2. 2 \in Nat /\ 2 > 0
  OBVIOUS
<1>. HIDE DEF two
<1>3. HasSuffix(s \o two, <<two[2]>>)
  BY <1>1, <1>2, LastAppended
<1>. QED BY <1>1, <1>3 DEF two

\* A pod is given the workload that it belongs to, from what it shows of it.
LEMMA NamedAfterRoot ==
  ASSUME NEW e, IsEnd(e)
  PROVE  GetNameAndKind(e.pod) = Root(e)
<1>1. CASE e.kind = "Deployment"
  <2>. DEFINE name == e.name \o <<"-", e.pod.hash>>
              ref == [kind |-> "ReplicaSet", name |-> name]
  <2>1. e.pod.owner = {ref} /\ e.pod.hash # ""
    BY <1>1 DEF IsEnd, WellBuilt
  <2>2. /\ SubSeq(name, 1, Len(name) - 2) = e.name
        /\ HasSuffix(name, <<"-", e.pod.hash>>) /\ HasSuffix(name, <<e.pod.hash>>)
    <3>1. PICK parts : e.name \in Seq(parts) /\ e.pod.hash \in parts /\ "-" \in parts
      <4>1. PICK some : e.name \in Seq(some)
        BY DEF IsEnd
      <4>2. e.name \in Seq(some \cup {"-", e.pod.hash})
        BY <4>1
      <4>. QED BY <4>2
    <3>. DEFINE two == <<"-", e.pod.hash>>
    <3>2. two \in Seq(parts) /\ Len(two) = 2
      BY <3>1, Pair
    <3>3. HasSuffix(name, <<e.pod.hash>>)
      BY <3>1, LastOfPair
    <3>. HIDE DEF two
    <3>4. HasSuffix(name, two) /\ SubSeq(name, 1, Len(name) - Len(two)) = e.name
      BY <3>1, <3>2, JoinedSuffix, JoinedRest, ZenonT(30) DEF two
    <3>. QED BY <3>2, <3>3, <3>4 DEF two
  <2>3. (CHOOSE r \in e.pod.owner : TRUE) = ref
    BY <2>1
  <2>4. GetNameAndKind(e.pod) =
           WorkloadRef(e.pod.namespace, "Deployment",
                       IF HasSuffix(ref.name, <<"-", e.pod.hash>>)
                       THEN SubSeq(ref.name, 1, Len(ref.name) - 2)
                       ELSE ref.name)
    <3>. HIDE DEF name
    <3>1. ref.kind = "ReplicaSet" /\ ref.name = name
      OBVIOUS
    <3>2. e.pod.owner # {}
      BY <2>1
    <3>. HIDE DEF ref
    <3>. QED BY <2>1, <2>2, <2>3, <3>1, <3>2, ZenonT(30) DEF GetNameAndKind
  <2>. HIDE DEF name
  <2>. QED BY <1>1, <2>2, <2>4, ZenonT(30) DEF Root
<1>2. CASE e.kind = "Pod"
  BY <1>2 DEF IsEnd, WellBuilt, GetNameAndKind, Root
<1>3. CASE e.kind \notin {"Deployment", "Pod"}
  <2>. DEFINE ref == [kind |-> e.kind, name |-> e.name]
  <2>1. e.pod.owner = {ref} /\ (e.kind = "ReplicaSet" => e.pod.hash = "")
    BY <1>3 DEF IsEnd, WellBuilt
  <2>2. (CHOOSE r \in e.pod.owner : TRUE) = ref
    BY <2>1
  <2>3. e.pod.owner # {} /\ ref.kind = e.kind /\ ref.name = e.name
    BY <2>1
  <2>. HIDE DEF ref
  <2>. QED BY <2>1, <2>2, <2>3, ZenonT(30) DEF GetNameAndKind, Root
<1>. QED BY <1>1, <1>2, <1>3

\* What a record identifies a cached pod by.
LEMMA IdentifiedByPod ==
  ASSUME NEW e, IsEnd(e)
  PROVE  WorkloadRefFromPod(e.pod) = Identified(e)
BY NamedAfterRoot DEF WorkloadRefFromPod, Identified, SpiffeIdentity, Principal, Account

\* A pod is found by its namespace and name if it is there, and no other is.
LEMMA FoundByName ==
  ASSUME NEW q, Connection(q)
  PROVE  {p \in MeshCache(q).pods : p.namespace = q.dest.pod.namespace /\ p.name = q.dest.pod.name}
            = IF q.dest \in q.cached THEN {q.dest.pod} ELSE {}
BY DEF Connection, MeshCache, Informed

\* The workload of the destination is found with its selector exactly when
\* the destination is cached.
LEMMA WorkloadFound ==
  ASSUME NEW q, Connection(q)
  PROVE  {w \in GetWorkload(q.dest.pod.namespace, q.dest.pod.name, MeshCache(q)) : IsSupported(w)}
            = IF q.dest \in q.cached /\ IsKept(q.dest) THEN {Selected(q.dest)} ELSE {}
<1>. DEFINE cache == MeshCache(q)
            Of(pod) == LET ref == GetNameAndKind(pod)
                       IN  IF IsSupported(ref) THEN LookupPodSelectorForWorkload(ref, cache) ELSE {ref}
            found == GetWorkload(q.dest.pod.namespace, q.dest.pod.name, cache)
<1>1. CASE q.dest \notin q.cached
  <2>1. found = {}
    BY <1>1, FoundByName DEF GetWorkload
  <2>. QED BY <1>1, <2>1
<1>2. CASE q.dest \in q.cached
  <2>1. found = Of(q.dest.pod)
    <3>1. found = UNION {Of(pod) : pod \in {q.dest.pod}}
      BY <1>2, FoundByName, ZenonT(30) DEF GetWorkload
    <3>. HIDE DEF Of, found
    <3>. QED BY <3>1
  <2>2. GetNameAndKind(q.dest.pod) = Root(q.dest)
    BY NamedAfterRoot DEF Connection
  <2>. IsSupported(Root(q.dest)) <=> IsKept(q.dest)
    BY DEF IsSupported, IsKept, Root, WorkloadRef
  <2>3. CASE ~IsKept(q.dest)
    <3>1. found = {Root(q.dest)}
      BY <2>1, <2>2, <2>3
    <3>. QED BY <2>3, <3>1
  <2>4. CASE IsKept(q.dest)
    <3>. DEFINE ref == Root(q.dest)
                w == Workload(q.dest)
    <3>1. found = LookupPodSelectorForWorkload(ref, cache)
      BY <2>1, <2>2, <2>4
    <3>2. {x \in cache.workloads :
                  /\ IsSupported(ref)
                  /\ x.namespace = ref.namespace /\ x.kind = ref.kind /\ x.name = ref.name
                  /\ x.selector # Unknown} = {w}
      <4>1. cache.workloads = {Workload(e) : e \in {r \in q.cached : IsKept(r)}}
        BY DEF MeshCache, Informed
      <4>2. w \in cache.workloads /\ w.selector # Unknown
        BY <1>2, <2>4, <4>1, ZenonT(30) DEF Unknown, Workload
      <4>3. ref.namespace = q.dest.pod.namespace /\ ref.kind = q.dest.kind /\ ref.name = q.dest.name
        BY DEF Root, WorkloadRef
      <4>4. ASSUME NEW x \in cache.workloads,
                   x.namespace = ref.namespace, x.kind = ref.kind, x.name = ref.name
            PROVE  x = w
        <5>. HIDE DEF w, ref, cache
        <5>1. PICK e : x = Workload(e)
          BY <4>1, <4>4, ZenonT(30)
        <5>2. e.pod.namespace = q.dest.pod.namespace /\ e.kind = q.dest.kind /\ e.name = q.dest.name
          BY <4>3, <4>4, <5>1 DEF Workload
        <5>. QED BY <5>1, <5>2 DEF Workload, w
      <4>5. w.namespace = ref.namespace /\ w.kind = ref.kind /\ w.name = ref.name
        BY <4>3 DEF Workload
      <4>. HIDE DEF w, ref, cache
      <4>. QED BY <2>4, <4>2, <4>4, <4>5 DEF ref
    <3>3. found = {[ref EXCEPT !.selector = {q.dest.name}]}
      <4>1. found = {[ref EXCEPT !.selector = x.selector] : x \in {w}}
        <5>. HIDE DEF ref, found, cache, w
        <5>. QED BY <3>1, <3>2, ZenonT(30) DEF LookupPodSelectorForWorkload
      <4>2. w.selector = {q.dest.name}
        BY DEF Workload
      <4>. HIDE DEF ref, found, cache, w
      <4>. QED BY <4>1, <4>2
    <3>4. found = {Selected(q.dest)}
      BY <3>3 DEF Selected
    <3>5. IsSupported(Selected(q.dest))
      BY <2>4 DEF Selected, Root, WorkloadRef, IsSupported
    <3>. QED BY <1>2, <2>4, <3>4, <3>5
  <2>. QED BY <2>3, <2>4
<1>. QED BY <1>1, <1>2

\* A type is all a resource could add to a line, and the line has its own.
LEMMA LineWins ==
  ASSUME NEW attrs, attrs = [k \in Attributes |-> attrs[k]], attrs["type"] # {}, NEW type
  PROVE  MergeAttrMaps([NoAttributes EXCEPT !["type"] = type], attrs) = attrs
<1>1. \A k \in Attributes : k # "type" => [NoAttributes EXCEPT !["type"] = type][k] = {}
  BY DEF NoAttributes
<1>2. \A k \in Attributes :
         (IF attrs[k] # {} THEN attrs[k] ELSE [NoAttributes EXCEPT !["type"] = type][k]) = attrs[k]
  BY <1>1
<1>. QED BY <1>2 DEF MergeAttrMaps

(* What the collector makes of the line of a connection. *)
Made(q) == UNION {Export(q.resource, attrs, MeshCache(q)) : attrs \in ToOtel(LineOf(q))}

\* The event of a line of a completed connection, and its attributes.
LEMMA LearnAttributes ==
  ASSUME NEW line, line.direction = "inbound", line.srcIdentity # {}, line.dstIdentity # {}
  PROVE  \E e : /\ LearnEvent(line) = {e}
               /\ e = [k \in Attributes |-> e[k]]
               /\ e["type"] = {"learn"} /\ e["dstName"] = line.dstName
               /\ e["dstNamespace"] = line.dstNamespace
               /\ e["dstPort"] = UNION {a.port : a \in line.dstAddr}
               /\ e["srcIdentity"] = line.srcIdentity
<1>. DEFINE e == [NoAttributes EXCEPT !["type"] = {"learn"}, !["dstName"] = line.dstName,
                                      !["dstNamespace"] = line.dstNamespace,
                                      !["dstPort"] = UNION {a.port : a \in line.dstAddr},
                                      !["srcIdentity"] = line.srcIdentity]
<1>1. {x \in {line} : x.direction = "inbound" /\ {} \notin {x.srcIdentity, x.dstIdentity}} = {line}
  OBVIOUS
<1>2. LearnEvent(line) = {e}
  BY <1>1 DEF LearnEvent
<1>3. /\ e = [k \in Attributes |-> e[k]]
      /\ e["type"] = {"learn"} /\ e["dstName"] = line.dstName
      /\ e["dstNamespace"] = line.dstNamespace
      /\ e["dstPort"] = UNION {a.port : a \in line.dstAddr}
      /\ e["srcIdentity"] = line.srcIdentity
  BY ZenonT(30) DEF NoAttributes, Attributes
<1>. HIDE DEF e
<1>. QED BY <1>2, <1>3

\* No event is made of a line that lacks an end, or that its sender logged.
LEMMA NoLearnEvent ==
  ASSUME NEW line, line.direction # "inbound" \/ line.srcIdentity = {} \/ line.dstIdentity = {}
  PROVE  LearnEvent(line) = {}
BY DEF LearnEvent

(* What is learned of a connection to a workload. *)
Learnt(principal, dest, port) ==
    [kind |-> "learn", source |-> [WorkloadRef("", "", NoName) EXCEPT !.identity = {principal}],
     dest |-> dest, port |-> port, action |-> "", policy |-> {}]

\* The ports of one address.
LEMMA PortsOfOne ==
  ASSUME NEW host, NEW ports
  PROVE  UNION {a.port : a \in {[host |-> host, port |-> ports]}} = ports
<1>1. {a.port : a \in {[host |-> host, port |-> ports]}} = {ports}
  OBVIOUS
<1>. QED BY <1>1

(* The workloads of a named pod that rules are learned for. *)
Learners(ns, name, cache) == {w \in GetWorkload(ns, name, cache) : IsSupported(w)}

(* The identities a learner accepts. *)
SpiffeIds(attrs) == {i \in attrs["srcIdentity"] : i.spiffe}

(* What an event needs for x to be learned of it. *)
IsLearned(x, attrs, cache) ==
    \E port \in attrs["dstPort"] : \E ns \in attrs["dstNamespace"] : \E name \in attrs["dstName"] :
    \E i \in SpiffeIds(attrs) : \E dest \in Learners(ns, name, cache) :
       port \in 1 .. MaxValidPort /\ x = Learnt(i.principal, dest, port)

\* Nothing else is learned of it (enqueueLearningEvent).
LEMMA Enqueued ==
  ASSUME NEW attrs, NEW cache, NEW x
  PROVE  x \in EnqueueLearningEvent(attrs, cache) <=> IsLearned(x, attrs, cache)
<1>. DEFINE Of(port, ns, name) ==
                {Learnt(i.principal, dest, port) : i \in SpiffeIds(attrs), dest \in Learners(ns, name, cache)}
            ports == attrs["dstPort"] \cap 1 .. MaxValidPort
<1>1. EnqueueLearningEvent(attrs, cache) =
         UNION {Of(port, ns, name) : port \in ports, ns \in attrs["dstNamespace"], name \in attrs["dstName"]}
  BY DEF EnqueueLearningEvent, Learnt, Learners, SpiffeIds
<1>2. ASSUME NEW port, NEW ns, NEW name
      PROVE  x \in Of(port, ns, name)
                <=> \E i \in SpiffeIds(attrs) : \E dest \in Learners(ns, name, cache) :
                       x = Learnt(i.principal, dest, port)
  OBVIOUS
<1>3. x \in EnqueueLearningEvent(attrs, cache)
         <=> \E port \in ports : \E ns \in attrs["dstNamespace"] : \E name \in attrs["dstName"] :
                x \in Of(port, ns, name)
  <2>. HIDE DEF Of, ports
  <2>. QED BY <1>1
<1>4. \A port : port \in ports <=> port \in attrs["dstPort"] /\ port \in 1 .. MaxValidPort
  OBVIOUS
<1>. HIDE DEF Of, ports
<1>. QED BY <1>2, <1>3, <1>4 DEF IsLearned

(* An event that lacks nothing. *)
InFull(attrs, port, ns, name, i) ==
    /\ attrs["dstPort"] = {port} /\ attrs["dstNamespace"] = {ns} /\ attrs["dstName"] = {name}
    /\ SpiffeIds(attrs) = {i}

(* A flow to one of some workloads, at a port that can be in a rule. *)
IsFlow(x, principal, dests, port) ==
    port \in 1 .. MaxValidPort /\ \E dest \in dests : x = Learnt(principal, dest, port)

\* What is learned of it is a flow.
LEMMA LearnedInFull ==
  ASSUME NEW attrs, NEW cache, NEW x, NEW port, NEW ns, NEW name, NEW i,
         InFull(attrs, port, ns, name, i)
  PROVE  IsLearned(x, attrs, cache) <=> IsFlow(x, i.principal, Learners(ns, name, cache), port)
BY DEF IsLearned, InFull, IsFlow

\* The event of a line of a rejection, and its attributes.
LEMMA PolicyAttributes ==
  ASSUME NEW line, NEW type
  PROVE  \E e : /\ PolicyEvent(type, line) = {e}
               /\ e = [k \in Attributes |-> e[k]]
               /\ e["type"] = {type} /\ e["dstNamespacedName"] = line.workload
               /\ e["policy"] = line.policy /\ e["srcAddr"] = line.peer
<1>. DEFINE e == [NoAttributes EXCEPT !["type"] = {type}, !["dstNamespacedName"] = line.workload,
                                      !["policy"] = line.policy, !["srcAddr"] = line.peer]
<1>1. PolicyEvent(type, line) = {e}
  BY DEF PolicyEvent
<1>2. /\ e = [k \in Attributes |-> e[k]]
      /\ e["type"] = {type} /\ e["dstNamespacedName"] = line.workload
      /\ e["policy"] = line.policy /\ e["srcAddr"] = line.peer
  BY ZenonT(30) DEF NoAttributes, Attributes
<1>. HIDE DEF e
<1>. QED BY <1>1, <1>2

\* A completed connection is learned when it was logged in full by the end
\* that received it and its destination is cached.
LEMMA LearnMade ==
  ASSUME NEW q, Connection(q), q.message = "connection complete"
  PROVE  Made(q) = IF /\ q.direction = "inbound" /\ q.gone = {} /\ q.port \in 1 .. MaxValidPort
                      /\ q.dest \in q.cached /\ IsKept(q.dest)
                   THEN {Learnt(Principal(q.source), Selected(q.dest), q.port)} ELSE {}
<1>. DEFINE line == LineOf(q)
            cache == MeshCache(q)
            ns == q.dest.pod.namespace
            name == q.dest.pod.name
            Dests == Learners(ns, name, cache)
            id == [spiffe |-> "scheme" \notin q.gone, principal |-> Principal(q.source)]
<1>1. ToOtel(line) = LearnEvent(line)
  BY DEF ToOtel, LineOf
<1>2. PICK type : q.resource = [NoAttributes EXCEPT !["type"] = type]
  BY DEF Connection
<1>3. CASE line.direction = "inbound" /\ line.srcIdentity # {} /\ line.dstIdentity # {}
  <2>1. PICK e : /\ LearnEvent(line) = {e}
                 /\ e = [k \in Attributes |-> e[k]]
                 /\ e["type"] = {"learn"} /\ e["dstName"] = line.dstName
                 /\ e["dstNamespace"] = line.dstNamespace
                 /\ e["dstPort"] = UNION {a.port : a \in line.dstAddr}
                 /\ e["srcIdentity"] = line.srcIdentity
    <3>. HIDE DEF line
    <3>. QED BY <1>3, LearnAttributes
  <2>2. MergeAttrMaps(q.resource, e) = e
    BY <1>2, <2>1, LineWins
  <2>3. Export(q.resource, e, cache) = EnqueueLearningEvent(e, cache)
    BY <2>1, <2>2 DEF Export
  <2>4. Made(q) = EnqueueLearningEvent(e, cache)
    <3>1. Made(q) = UNION {Export(q.resource, attrs, cache) : attrs \in {e}}
      BY <1>1, <2>1, ZenonT(30) DEF Made
    <3>. HIDE DEF cache
    <3>. QED BY <2>3, <3>1
  <2>5. q.direction = "inbound" /\ "srcIdentity" \notin q.gone /\ "dstIdentity" \notin q.gone
    BY <1>3, ZenonT(30) DEF LineOf
  <2>6. /\ line.srcIdentity = {id}
        /\ line.dstName = IF "dst" \in q.gone THEN {} ELSE {name}
        /\ line.dstNamespace = IF "dst" \in q.gone THEN {} ELSE {ns}
        /\ line.dstAddr = {[host |-> q.dest.pod.ip, port |-> IF "port" \in q.gone THEN {} ELSE {q.port}]}
    BY <2>5, ZenonT(30) DEF LineOf
  <2>7. id.spiffe <=> "scheme" \notin q.gone
    BY ZenonT(30)
  <2>8. id.principal = Principal(q.source)
    OBVIOUS
  <2>9. UNION {a.port : a \in line.dstAddr} = IF "port" \in q.gone THEN {} ELSE {q.port}
    <3>. DEFINE port == IF "port" \in q.gone THEN {} ELSE {q.port}
    <3>1. line.dstAddr = {[host |-> q.dest.pod.ip, port |-> port]}
      BY <2>6, ZenonT(30)
    <3>2. UNION {a.port : a \in {[host |-> q.dest.pod.ip, port |-> port]}} = port
      BY PortsOfOne
    <3>. HIDE DEF port, line
    <3>. QED BY <3>1, <3>2, ZenonT(30) DEF port
  <2>10. q.gone = {} <=> "dst" \notin q.gone /\ "port" \notin q.gone /\ "scheme" \notin q.gone
    BY <2>5 DEF Connection, Fields
  <2>11. Dests = IF q.dest \in q.cached /\ IsKept(q.dest) THEN {Selected(q.dest)} ELSE {}
    BY WorkloadFound DEF Learners
  <2>. HIDE DEF line, cache, id, Dests
  <2>12. ASSUME NEW x
         PROVE  x \in Made(q) <=> q.gone = {} /\ IsFlow(x, Principal(q.source), Dests, q.port)
    <3>1. x \in Made(q) <=> IsLearned(x, e, cache)
      BY <2>4, Enqueued
    <3>2. CASE q.gone = {}
      <4>1. InFull(e, q.port, ns, name, id)
        <5>1. id.spiffe
          BY <2>7, <3>2
        <5>2. e["srcIdentity"] = {id}
          BY <2>1, <2>6
        <5>3. SpiffeIds(e) = {id}
          BY <5>1, <5>2, ZenonT(30) DEF SpiffeIds
        <5>. QED BY <2>1, <2>6, <2>9, <3>2, <5>3 DEF InFull
      <4>2. IsLearned(x, e, cache) <=> IsFlow(x, id.principal, Learners(ns, name, cache), q.port)
        BY <4>1, LearnedInFull
      <4>. QED BY <2>8, <3>1, <3>2, <4>2 DEF Dests
    <3>3. CASE q.gone # {}
      <4>1. CASE "dst" \in q.gone
        BY <2>1, <2>6, <3>1, <3>3, <4>1 DEF IsLearned
      <4>2. CASE "port" \in q.gone
        BY <2>1, <2>9, <3>1, <3>3, <4>2 DEF IsLearned
      <4>3. CASE "scheme" \in q.gone
        <5>1. e["srcIdentity"] = {id} /\ ~id.spiffe
          BY <2>1, <2>6, <2>7, <4>3
        <5>2. SpiffeIds(e) = {}
          BY <5>1, ZenonT(30) DEF SpiffeIds
        <5>. QED BY <3>1, <3>3, <5>2 DEF IsLearned
      <4>. QED BY <2>10, <3>3, <4>1, <4>2, <4>3
    <3>. QED BY <3>2, <3>3
  <2>. QED BY <2>5, <2>11, <2>12 DEF IsFlow
<1>4. CASE ~(line.direction = "inbound" /\ line.srcIdentity # {} /\ line.dstIdentity # {})
  <2>1. LearnEvent(line) = {}
    BY <1>4, NoLearnEvent
  <2>2. Made(q) = {}
    BY <1>1, <2>1 DEF Made
  <2>3. ~(q.direction = "inbound" /\ q.gone = {})
    BY <1>4, ZenonT(30) DEF LineOf
  <2>. QED BY <2>2, <2>3
<1>. QED BY <1>3, <1>4

(* The mode a rejection is recorded in. *)
Mode(message) ==
    IF message \in {"deny policy match", "no allow policies matched"} THEN "protect" ELSE "monitor"

(* The ends of a rejection as its line reports them. *)
ReportedSource(q) == WorkloadRef("", "", LineOf(q).peer)
ReportedDest(q) == RawRef(LineOf(q).workload)

(* What the enricher finds for them. *)
EnrichedSource(q) == OneOf(ResolveSourceWorkload(LineOf(q).peer, MeshCache(q)), ReportedSource(q))
DestPods(q) == ResolveDestWorkload(ReportedDest(q), MeshCache(q))
EnrichedDest(q) == OneOf({WorkloadRefFromPod(p) : p \in DestPods(q)}, ReportedDest(q))
EnrichedPolicy(q) ==
    IF DestPods(q) = {} \/ LineOf(q).policy # {} THEN LineOf(q).policy
    ELSE ResolveDenyingPolicy(EnrichedDest(q), "Ingress", MeshCache(q))

\* A rejection becomes one record (policyEventToObservation, Enrich).
LEMMA RejectMade ==
  ASSUME NEW q, Connection(q), Rejects(q.message)
  PROVE  Made(q) = {[kind |-> "violation", source |-> EnrichedSource(q), dest |-> EnrichedDest(q),
                     port |-> 0, action |-> Mode(q.message), policy |-> EnrichedPolicy(q)]}
<1>. DEFINE line == LineOf(q)
            cache == MeshCache(q)
            mode == Mode(q.message)
<1>1. ToOtel(line) = PolicyEvent(mode, line)
  <2>1. line.message = q.message
    BY DEF LineOf
  <2>. HIDE DEF line
  <2>2. CASE q.message \in {"dry-run: deny policy match", "dry-run: no allow policies match"}
    BY <2>1, <2>2 DEF ToOtel, Mode
  <2>3. CASE q.message \in {"deny policy match", "no allow policies matched"}
    BY <2>1, <2>3 DEF ToOtel, Mode
  <2>. QED BY <2>2, <2>3 DEF Rejects, Denies
<1>2. PICK type : q.resource = [NoAttributes EXCEPT !["type"] = type]
  BY ZenonT(30) DEF Connection
<1>3. PICK e : /\ PolicyEvent(mode, line) = {e}
               /\ e = [k \in Attributes |-> e[k]]
               /\ e["type"] = {mode} /\ e["dstNamespacedName"] = line.workload
               /\ e["policy"] = line.policy /\ e["srcAddr"] = line.peer
  <2>. HIDE DEF line, mode
  <2>. QED BY PolicyAttributes
<1>4. MergeAttrMaps(q.resource, e) = e
  BY <1>2, <1>3, LineWins
<1>5. Export(q.resource, e, cache) = {Enrich(PolicyEventToObservation(e), cache)}
  <2>1. e["type"] \in {{"monitor"}, {"protect"}} /\ e["type"] # {"learn"}
    BY <1>3 DEF Mode
  <2>. HIDE DEF cache
  <2>. QED BY <1>4, <2>1 DEF Export
<1>6. Made(q) = {Enrich(PolicyEventToObservation(e), cache)}
  <2>1. Made(q) = UNION {Export(q.resource, attrs, cache) : attrs \in {e}}
    BY <1>1, <1>3, ZenonT(30) DEF Made
  <2>. HIDE DEF cache
  <2>. QED BY <1>5, <2>1
<1>7. PolicyEventToObservation(e) =
         [kind |-> "violation", source |-> ReportedSource(q), dest |-> ReportedDest(q),
          port |-> 0, action |-> mode, policy |-> line.policy]
  <2>1. (IF e["type"] = {"monitor"} THEN "monitor" ELSE "protect") = mode
    BY <1>3 DEF Mode
  <2>. HIDE DEF mode
  <2>. QED BY <1>3, <2>1 DEF PolicyEventToObservation, ReportedSource, ReportedDest
<1>. DEFINE obs == PolicyEventToObservation(e)
<1>8. /\ obs.source = ReportedSource(q) /\ obs.dest = ReportedDest(q) /\ obs.policy = line.policy
      /\ obs.source.name = line.peer
  <2>1. ReportedSource(q).name = line.peer
    BY DEF ReportedSource, WorkloadRef
  <2>. HIDE DEF obs, line, mode
  <2>2. obs.source = ReportedSource(q) /\ obs.dest = ReportedDest(q) /\ obs.policy = line.policy
    BY <1>7 DEF obs
  <2>. QED BY <2>1, <2>2
<1>9. Enrich(obs, cache) = [obs EXCEPT !.source = EnrichedSource(q), !.dest = EnrichedDest(q),
                                       !.policy = EnrichedPolicy(q)]
  <2>. HIDE DEF obs
  <2>. QED BY <1>8, ZenonT(30) DEF Enrich, EnrichedSource, EnrichedDest, EnrichedPolicy, DestPods
<1>10. Enrich(obs, cache) = [kind |-> "violation", source |-> EnrichedSource(q), dest |-> EnrichedDest(q),
                             port |-> 0, action |-> mode, policy |-> EnrichedPolicy(q)]
  <2>. HIDE DEF obs, line, mode, cache
  <2>1. obs = [kind |-> "violation", source |-> ReportedSource(q), dest |-> ReportedDest(q),
               port |-> 0, action |-> mode, policy |-> line.policy]
    BY <1>7 DEF obs
  <2>. QED BY <1>9, <2>1, ZenonT(30)
<1>. QED BY <1>6, <1>10, ZenonT(30)

\* While the pod that called is cached no other is named in its place, and
\* it is named when it is alone at its address (resolveSourceWorkload).
LEMMA SourceNamed ==
  ASSUME NEW q, Connection(q), q.source \in q.cached
  PROVE  /\ EnrichedSource(q).kind = "" \/ EnrichedSource(q) = Identified(q.source)
         /\ q.gone \cap {"srcIdentity", "port"} = {} /\ SoleAtAddress(q)
               => EnrichedSource(q) = Identified(q.source)
<1>. DEFINE peer == LineOf(q).peer
            cache == MeshCache(q)
            pod == q.source.pod
            found == UNION {PodsByIP(a.host, cache) : a \in {x \in peer : x.port # {}}}
            resolved == ResolveSourceWorkload(peer, cache)
<1>1. resolved = {WorkloadRefFromPod(p) : p \in {r \in found : found = {r}}}
  BY DEF ResolveSourceWorkload
<1>2. ReportedSource(q).kind = ""
  BY DEF ReportedSource, WorkloadRef
<1>3. resolved = {} => EnrichedSource(q).kind = ""
  BY <1>2 DEF EnrichedSource, OneOf
<1>4. found = {pod} => EnrichedSource(q) = Identified(q.source)
  <2>1. SUFFICES ASSUME found = {pod} PROVE EnrichedSource(q) = Identified(q.source)
    OBVIOUS
  <2>2. WorkloadRefFromPod(pod) = Identified(q.source)
    BY IdentifiedByPod DEF Connection
  <2>3. resolved = {Identified(q.source)}
    <3>. HIDE DEF found, pod, resolved
    <3>. QED BY <1>1, <2>1, <2>2
  <2>. QED BY <2>3 DEF EnrichedSource, OneOf
<1>5. CASE q.gone \cap {"srcIdentity", "port"} # {}
  <2>1. {x \in peer : x.port # {}} = {}
    <3>1. peer = IF "srcIdentity" \in q.gone THEN {}
                 ELSE {[host |-> pod.ip, port |-> IF "port" \in q.gone THEN {} ELSE {q.port}]}
      BY ZenonT(30) DEF LineOf
    <3>. HIDE DEF peer, pod
    <3>2. CASE "srcIdentity" \in q.gone
      BY <3>1, <3>2
    <3>3. CASE "srcIdentity" \notin q.gone /\ "port" \in q.gone
      BY <3>1, <3>3
    <3>. QED BY <1>5, <3>2, <3>3
  <2>2. found = {}
    BY <2>1
  <2>3. resolved = {}
    <3>. HIDE DEF found, resolved
    <3>. QED BY <1>1, <2>2
  <2>. QED BY <1>3, <1>5, <2>3
<1>6. CASE q.gone \cap {"srcIdentity", "port"} = {}
  <2>1. peer = {[host |-> pod.ip, port |-> {q.port}]}
    BY <1>6, ZenonT(30) DEF LineOf
  <2>2. {x \in peer : x.port # {}} = {[host |-> pod.ip, port |-> {q.port}]}
    BY <2>1
  <2>3. found = PodsByIP(pod.ip, cache)
    <3>. DEFINE address == [host |-> pod.ip, port |-> {q.port}]
    <3>1. address.host = pod.ip
      OBVIOUS
    <3>2. found = UNION {PodsByIP(a.host, cache) : a \in {address}}
      BY <2>2, ZenonT(30)
    <3>. HIDE DEF address, found, cache, pod
    <3>3. found = PodsByIP(address.host, cache)
      BY <3>2
    <3>. QED BY <3>1, <3>3
  <2>4. found = {p \in {e.pod : e \in q.cached} : pod.ip # "" /\ p.ip = pod.ip}
    BY <2>3, ZenonT(30) DEF PodsByIP, MeshCache, Informed
  <2>5. CASE pod.ip = ""
    <3>1. found = {}
      BY <2>4, <2>5
    <3>2. resolved = {}
      <4>. HIDE DEF found, resolved
      <4>. QED BY <1>1, <3>1
    <3>. QED BY <1>3, <2>5, <3>2 DEF SoleAtAddress
  <2>6. CASE pod.ip # ""
    <3>1. pod \in found
      BY <2>4, <2>6
    <3>2. SoleAtAddress(q) => found = {pod}
      <4>1. SUFFICES ASSUME SoleAtAddress(q), NEW p \in found PROVE p = pod
        <5>. HIDE DEF found, pod
        <5>. QED BY <3>1
      <4>2. PICK e \in q.cached : p = e.pod /\ p.ip = pod.ip
        BY <2>4
      <4>. QED BY <4>1, <4>2 DEF SoleAtAddress
    <3>3. CASE found = {pod}
      BY <1>4, <3>3
    <3>4. CASE found # {pod}
      <4>1. resolved = {}
        <5>. HIDE DEF found, resolved, pod
        <5>. QED BY <1>1, <3>1, <3>4
      <4>. QED BY <1>3, <3>2, <3>4, <4>1
    <3>. QED BY <3>3, <3>4
  <2>. QED BY <2>5, <2>6
<1>. QED BY <1>5, <1>6

(* The line names the pod that was called in full, and it is cached. *)
Reached(q) == q.gone \cap {"dst", "scheme"} = {} /\ q.dest \in q.cached

\* What is reported of a destination with a namespaced name.
LEMMA ReportedName ==
  ASSUME NEW ns, NEW name
  PROVE  RawRef({[namespace |-> ns, name |-> name]}) = WorkloadRef(ns, "", name)
<1>. DEFINE n == [namespace |-> ns, name |-> name]
<1>1. (CHOOSE x \in {n} : TRUE) = n /\ {n} # {}
  OBVIOUS
<1>2. n.namespace = ns /\ n.name = name
  OBVIOUS
<1>3. RawRef({n}) = WorkloadRef(ns, "", name)
  <2>. HIDE DEF n
  <2>. QED BY <1>1, <1>2, ZenonT(30) DEF RawRef
<1>. QED BY <1>3

\* The destination is named when it is cached and was reported in full, and
\* no other workload ever is.
LEMMA DestNamed ==
  ASSUME NEW q, Connection(q)
  PROVE  IF Reached(q)
         THEN DestPods(q) = {q.dest.pod} /\ EnrichedDest(q) = Identified(q.dest)
         ELSE DestPods(q) = {} /\ EnrichedDest(q).kind = ""
<1>. DEFINE dest == ReportedDest(q)
            pods == MeshCache(q).pods
<1>1. dest.kind = ""
  BY DEF ReportedDest, RawRef, WorkloadRef
<1>2. DestPods(q) = {} => EnrichedDest(q).kind = ""
  BY <1>1 DEF EnrichedDest, OneOf
<1>3. DestPods(q) = {p \in pods : /\ dest.namespace # "" /\ dest.name # NoName
                                  /\ p.namespace = dest.namespace /\ p.name = dest.name}
  BY DEF DestPods, ResolveDestWorkload
<1>4. CASE q.gone \cap {"dst", "scheme"} # {}
  <2>1. dest.namespace = ""
    <3>1. CASE "dst" \in q.gone
      BY <3>1, ZenonT(30) DEF ReportedDest, RawRef, LineOf, WorkloadRef
    <3>2. CASE "dst" \notin q.gone
      <4>1. LineOf(q).workload = {[namespace |-> "", name |-> q.dest.pod.name]}
        BY <1>4, <3>2, ZenonT(30) DEF LineOf
      <4>2. dest = WorkloadRef("", "", q.dest.pod.name)
        BY <4>1, ReportedName, ZenonT(30) DEF ReportedDest
      <4>. HIDE DEF dest
      <4>. QED BY <4>2 DEF WorkloadRef
    <3>. QED BY <3>1, <3>2
  <2>2. DestPods(q) = {}
    <3>. HIDE DEF dest, pods
    <3>. QED BY <1>3, <2>1
  <2>. QED BY <1>2, <1>4, <2>2 DEF Reached
<1>5. CASE q.gone \cap {"dst", "scheme"} = {}
  <2>1. LineOf(q).workload = {[namespace |-> q.dest.pod.namespace, name |-> q.dest.pod.name]}
    BY <1>5, ZenonT(30) DEF LineOf
  <2>2. dest.namespace = q.dest.pod.namespace /\ dest.name = q.dest.pod.name
    <3>1. dest = WorkloadRef(q.dest.pod.namespace, "", q.dest.pod.name)
      BY <2>1, ReportedName, ZenonT(30) DEF ReportedDest
    <3>. HIDE DEF dest
    <3>. QED BY <3>1 DEF WorkloadRef
  <2>3. dest.namespace # "" /\ dest.name # NoName
    BY <2>2 DEF Connection, IsEnd
  <2>4. DestPods(q) = {p \in pods : p.namespace = q.dest.pod.namespace /\ p.name = q.dest.pod.name}
    <3>. HIDE DEF dest, pods
    <3>. QED BY <1>3, <2>2, <2>3
  <2>5. DestPods(q) = IF q.dest \in q.cached THEN {q.dest.pod} ELSE {}
    BY <2>4, FoundByName
  <2>6. WorkloadRefFromPod(q.dest.pod) = Identified(q.dest)
    BY IdentifiedByPod DEF Connection
  <2>7. q.dest \in q.cached => {WorkloadRefFromPod(p) : p \in DestPods(q)} = {Identified(q.dest)}
    BY <2>5, <2>6
  <2>8. q.dest \in q.cached => EnrichedDest(q) = Identified(q.dest)
    BY <2>7 DEF EnrichedDest, OneOf
  <2>. QED BY <1>2, <1>5, <2>5, <2>8 DEF Reached
<1>. QED BY <1>4, <1>5

\* A policy is found for a workload when there is exactly one.
LEMMA OnlyPolicyFound ==
  ASSUME NEW t, NEW direction, NEW cache,
         NEW ref, ref.namespace = t.pod.namespace, ref.kind = t.kind, ref.name = t.name
  PROVE  ResolveDenyingPolicy(ref, direction, cache) = NameOfOnly(PoliciesFor(t, direction, cache.policies))
<1>. DEFINE all == PoliciesFor(t, direction, cache.policies)
<1>1. all = {p \in cache.policies : /\ p.namespace = ref.namespace /\ p.direction = direction
                                    /\ p.kind = ref.kind /\ p.target = ref.name}
  BY DEF PoliciesFor
<1>. HIDE DEF all
<1>. QED BY <1>1, ZenonT(30) DEF ResolveDenyingPolicy, NameOfOnly, all

\* The policy is the one the line names, or else the only one there is.
LEMMA PolicyNamed ==
  ASSUME NEW q, Connection(q)
  PROVE  EnrichedPolicy(q) =
            IF Denies(q.message) THEN {DenyPolicy}
            ELSE IF Reached(q) THEN NameOfOnly(PoliciesFor(q.dest, "Ingress", q.policies)) ELSE {}
<1>1. LineOf(q).policy = IF Denies(q.message) THEN {DenyPolicy} ELSE {}
  BY DEF LineOf
<1>2. CASE Denies(q.message)
  BY <1>1, <1>2 DEF EnrichedPolicy
<1>3. CASE ~Denies(q.message) /\ ~Reached(q)
  <2>1. EnrichedPolicy(q) = {}
    BY <1>1, <1>3, DestNamed, ZenonT(30) DEF EnrichedPolicy
  <2>. QED BY <1>3, <2>1
<1>4. CASE ~Denies(q.message) /\ Reached(q)
  <2>. DEFINE cache == MeshCache(q)
  <2>1. EnrichedPolicy(q) = ResolveDenyingPolicy(Identified(q.dest), "Ingress", cache)
    BY <1>1, <1>4, DestNamed DEF EnrichedPolicy
  <2>2. /\ Identified(q.dest).namespace = q.dest.pod.namespace
        /\ Identified(q.dest).kind = q.dest.kind /\ Identified(q.dest).name = q.dest.name
    BY DEF Identified, Root, WorkloadRef
  <2>3. cache.policies = q.policies
    BY DEF MeshCache, Informed
  <2>. HIDE DEF cache
  <2>. QED BY <1>4, <2>1, <2>2, <2>3, OnlyPolicyFound
<1>. QED BY <1>2, <1>3, <1>4

\* No other message becomes anything.
LEMMA OthersMadeNothing ==
  ASSUME NEW q, q.message # "connection complete", ~Rejects(q.message)
  PROVE  Made(q) = {}
<1>1. ToOtel(LineOf(q)) = {}
  BY DEF ToOtel, LineOf, Rejects, Denies
<1>. QED BY <1>1 DEF Made

(* What MeshRecords says of one record. *)
RecordRight(q, m) ==
    /\ m.action = Mode(q.message)
    /\ q.source \in q.cached => m.source.kind = "" \/ m.source = Identified(q.source)
    /\ (q.gone \cap {"srcIdentity", "port"} = {} /\ q.source \in q.cached) /\ SoleAtAddress(q)
          => m.source = Identified(q.source)
    /\ IF Reached(q) THEN m.dest = Identified(q.dest) ELSE m.dest.kind = ""
    /\ m.policy = IF Denies(q.message) THEN {DenyPolicy}
                  ELSE IF Reached(q) THEN NameOfOnly(PoliciesFor(q.dest, "Ingress", q.policies)) ELSE {}

(* Every connection. *)
ConnectionInit == question.about = "mesh" /\ answer = {} /\ Connection(question)
ConnectionSpec == ConnectionInit /\ [][Handle]_asked

(* The answer is the one the collector gives. *)
Collected ==
    /\ question.about = "mesh" /\ Connection(question)
    /\ \A a \in answer : a.made = Made(question)

\* The cache and the line do not change while the record is handled.
LEMMA MeshAnswered == ConnectionSpec => []Collected
<1>1. ConnectionInit => Collected
  BY DEF ConnectionInit, Collected
<1>2. ASSUME Collected, [Handle]_asked PROVE Collected'
  <2>1. CASE Handle
    <3>1. PICK parsed, sent : answer' = {[parsed |-> parsed, sent |-> sent, made |-> Made(question)]}
      BY <2>1, ZenonT(30) DEF Handle, Decide, Made
    <3>2. question' = question
      BY <2>1 DEF Handle, Decide
    <3>. QED BY <1>2, <3>1, <3>2 DEF Collected
  <2>2. CASE UNCHANGED asked
    BY <1>2, <2>2 DEF asked, Collected
  <2>. QED BY <1>2, <2>1, <2>2
<1>. QED BY <1>1, <1>2, PTL DEF ConnectionSpec

\* MeshLearns for a cluster of any size: a connection is learned exactly
\* when the receiving end logged it in full and its workload is known, with
\* the principal of its source, and the selector and port of its destination.
THEOREM MeshLearned == ConnectionSpec => []MeshLearns
<1>1. Collected => MeshLearns
  <2>. DEFINE q == question
              full == /\ q.direction = "inbound" /\ q.gone = {} /\ q.port \in 1 .. MaxValidPort
                      /\ q.dest \in q.cached /\ IsKept(q.dest)
              event == Learnt(Principal(q.source), Selected(q.dest), q.port)
  <2>1. SUFFICES ASSUME Collected, NEW a \in answer
                 PROVE  {m \in a.made : m.kind = "learn"} =
                           IF q.message = "connection complete" /\ full THEN {event} ELSE {}
    BY ZenonT(30) DEF MeshLearns, Learnt
  <2>2. Connection(q) /\ a.made = Made(q)
    BY <2>1 DEF Collected
  <2>3. event.kind = "learn"
    BY DEF Learnt
  <2>4. CASE q.message = "connection complete"
    <3>1. a.made = IF full THEN {event} ELSE {}
      BY <2>2, <2>4, LearnMade
    <3>. HIDE DEF full, event
    <3>. QED BY <2>3, <2>4, <3>1
  <2>5. CASE Rejects(q.message)
    <3>. DEFINE r == [kind |-> "violation", source |-> EnrichedSource(q), dest |-> EnrichedDest(q),
                      port |-> 0, action |-> Mode(q.message), policy |-> EnrichedPolicy(q)]
    <3>1. Made(q) = {r} /\ r.kind = "violation"
      BY <2>2, <2>5, RejectMade
    <3>2. q.message # "connection complete"
      BY <2>5 DEF Rejects, Denies
    <3>. HIDE DEF full, event, r
    <3>. QED BY <2>2, <3>1, <3>2
  <2>6. CASE q.message # "connection complete" /\ ~Rejects(q.message)
    <3>1. a.made = {}
      BY <2>2, <2>6, OthersMadeNothing
    <3>. HIDE DEF full, event
    <3>. QED BY <2>6, <3>1
  <2>. QED BY <2>4, <2>5, <2>6
<1>. QED BY <1>1, MeshAnswered, PTL

\* MeshRecords for a cluster of any size: each rejection is recorded once,
\* and the record names no workload and no policy wrongly.
THEOREM MeshRecorded == ConnectionSpec => []MeshRecords
<1>1. Collected => MeshRecords
  <2>. DEFINE q == question
  <2>1. SUFFICES ASSUME Collected, NEW a \in answer
                 PROVE  LET recorded == {m \in a.made : m.kind = "violation"}
                        IN  /\ IF Rejects(q.message) THEN \E m \in recorded : recorded = {m} ELSE recorded = {}
                            /\ \A m \in recorded : RecordRight(q, m)
    BY ZenonT(30) DEF MeshRecords, RecordRight, Reached, Mode
  <2>. DEFINE recorded == {m \in a.made : m.kind = "violation"}
  <2>2. Connection(q) /\ a.made = Made(q)
    BY <2>1 DEF Collected
  <2>3. ASSUME Rejects(q.message)
        PROVE  (\E m \in recorded : recorded = {m}) /\ \A m \in recorded : RecordRight(q, m)
    <3>. DEFINE r == [kind |-> "violation", source |-> EnrichedSource(q), dest |-> EnrichedDest(q),
                      port |-> 0, action |-> Mode(q.message), policy |-> EnrichedPolicy(q)]
    <3>1. a.made = {r}
      BY <2>2, <2>3, RejectMade
    <3>2. /\ r.kind = "violation" /\ r.source = EnrichedSource(q) /\ r.dest = EnrichedDest(q)
          /\ r.action = Mode(q.message) /\ r.policy = EnrichedPolicy(q)
      OBVIOUS
    <3>. HIDE DEF r
    <3>3. recorded = {r}
      BY <3>1, <3>2
    <3>4. RecordRight(q, r)
      <4>. HIDE DEF q
      <4>. QED BY <2>2, <3>2, SourceNamed, DestNamed, PolicyNamed, ZenonT(30) DEF RecordRight
    <3>. HIDE DEF recorded
    <3>. QED BY <3>3, <3>4
  <2>4. ASSUME ~Rejects(q.message)
        PROVE  recorded = {}
    <3>1. CASE q.message = "connection complete"
      <4>. DEFINE event == Learnt(Principal(q.source), Selected(q.dest), q.port)
      <4>1. a.made \subseteq {event}
        BY <2>2, <3>1, LearnMade
      <4>2. event.kind = "learn"
        BY DEF Learnt
      <4>. HIDE DEF event
      <4>. QED BY <4>1, <4>2
    <3>2. CASE q.message # "connection complete"
      BY <2>2, <2>4, <3>2, OthersMadeNothing
    <3>. QED BY <3>1, <3>2
  <2>. QED BY <2>3, <2>4, ZenonT(30)
<1>. QED BY <1>1, MeshAnswered, PTL
=============================================================================
