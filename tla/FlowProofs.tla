------------------------------ MODULE FlowProofs ------------------------------
(***************************************************************************)
(* From a flow to the buffer that keeps its violation.                     *)
(*                                                                         *)
(* First the buffer: RingBuffer's invariants, and that it implements       *)
(* BoundedLog, for every capacity.  Then what the Calico and the Cilium     *)
(* scraper make of the flows they are sent, for clusters of any size: what  *)
(* is reported of an end, a workload, a pod or the beginning of the names   *)
(* of its pods, resolves to the workload if it is known and to no other    *)
(* (EndSeen, EndReported), so each report becomes what it must             *)
(* (HubbleMade, GoldmaneMade).                                             *)
(***************************************************************************)
EXTENDS RingBuffer, FlowDecision, TLAPS

\* NewWithSize always builds a buffer of at least one slot.
LEMMA CapacityPositive == Capacity \in Nat \ {0}
  BY BufferAssumption DEF Capacity

\* Division with remainder, the one fact about % the layout rests on.
LEMMA ModRange ==
  ASSUME NEW n \in Nat, NEW c \in Nat \ {0}
  PROVE  /\ n % c \in 0 .. c - 1
         /\ n = c * (n \div c) + (n % c)
         /\ n \div c \in Int
  OBVIOUS

\* Before the first wrap a position is its own slot.
LEMMA ModSmall ==
  ASSUME NEW n \in Nat, NEW c \in Nat \ {0}, n < c
  PROVE  n % c = n
  OBVIOUS

\* No multiple of c lies strictly between 0 and c.
LEMMA NoSmallMultiple ==
  ASSUME NEW c \in Nat \ {0}, NEW q \in Int
  PROVE  c * q \notin 1 .. c - 1
<1>1. CASE q <= 0
  <2>1. c * q <= 0
    BY <1>1
  <2>. QED BY <2>1
<1>2. CASE q >= 1
  <2>1. c * q >= c
    BY <1>2
  <2>. QED BY <2>1
<1>. QED BY <1>1, <1>2

\* Two positions less than a whole lap apart use different slots.
LEMMA DistinctSlots ==
  ASSUME NEW c \in Nat \ {0}, NEW p \in Nat, NEW j \in 1 .. c - 1, j <= p
  PROVE  p % c # (p - j) % c
<1>. DEFINE q == p \div c
            r == (p - j) \div c
<1>1. p - j \in Nat
  OBVIOUS
<1>2. p = c * q + (p % c) /\ q \in Int
  BY ModRange
<1>3. p - j = c * r + ((p - j) % c) /\ r \in Int
  BY <1>1, ModRange
<1>4. SUFFICES ASSUME p % c = (p - j) % c PROVE FALSE
  OBVIOUS
<1>5. p % c \in Int /\ c * q \in Int /\ c * r \in Int
  BY <1>1, <1>2, <1>3, ModRange
<1>. HIDE DEF q, r
<1>6. j = c * q - c * r
  BY <1>2, <1>3, <1>4, <1>5
<1>7. c * q - c * r = c * (q - r) /\ q - r \in Int
  BY <1>2, <1>3
<1>. QED BY <1>6, <1>7, NoSmallMultiple

IInv == BufferTypeOK /\ WrittenSlots

\* The part of Copied Drain reads was written, so it is a sequence of records.
LEMMA CopiedIsSeq ==
  ASSUME IInv
  PROVE  /\ Held \in Nat /\ Held <= Capacity /\ Held <= pos
         /\ Copied \in Seq(Records)
         /\ Len(Copied) = Held
         /\ \A i \in 1 .. Held : Copied[i] = buf[SlotOf(pos - i)]
<1>. USE CapacityPositive
<1>1. pos \in Nat /\ Held \in Nat /\ Held <= Capacity /\ Held <= pos
  BY BufferAssumption DEF IInv, BufferTypeOK, Held
<1>2. ASSUME NEW i \in 1 .. Held
      PROVE  buf[SlotOf(pos - i)] \in Records
  <2>1. pos - i \in Nat /\ pos - i < pos
    BY <1>1
  <2>2. SlotOf(pos - i) \in 0 .. Capacity - 1
    BY <2>1, ModRange DEF SlotOf
  <2>3. SlotOf(pos - i) < pos
    <3>1. CASE pos <= Capacity
      BY <1>1, <2>1, <3>1, ModSmall DEF SlotOf
    <3>2. CASE pos > Capacity
      BY <1>1, <2>2, <3>2
    <3>. QED BY <3>1, <3>2, <1>1
  <2>. QED BY <2>2, <2>3 DEF IInv, WrittenSlots
<1>3. Copied \in [1 .. Held -> Records]
  BY <1>2 DEF Copied
<1>. QED BY <1>1, <1>3 DEF Copied

\* Every reachable buffer keeps its types and has no unwritten slot behind the
\* write position (buffer.go Record and Drain).
THEOREM Invariance == BufferSpec => [](BufferTypeOK /\ WrittenSlots)
<1>. USE CapacityPositive, BufferAssumption
<1>1. EmptyBuffer => IInv
  <2>. SUFFICES ASSUME EmptyBuffer PROVE IInv
    OBVIOUS
  <2>1. /\ buf \in [0 .. Capacity - 1 -> Records \union {Zero}]
        /\ pos \in 0 .. MaxPos
        /\ drained \in Seq(Records)
    BY DEF EmptyBuffer
  <2>2. dropped \in BOOLEAN
    BY ZenonT(30) DEF EmptyBuffer
  <2>3. WrittenSlots
    BY DEF EmptyBuffer, WrittenSlots
  <2>. QED BY <2>1, <2>2, <2>3 DEF IInv, BufferTypeOK
<1>2. IInv /\ [UseBuffer]_buffer => IInv'
  <2>. SUFFICES ASSUME IInv, [UseBuffer]_buffer PROVE IInv'
    OBVIOUS
  <2>. USE DEF IInv
  <2>1. ASSUME NEW r \in Records, Record(r) PROVE IInv'
    <3>1. pos \in Nat /\ SlotOf(pos) \in 0 .. Capacity - 1
      BY ModRange DEF SlotOf, BufferTypeOK
    <3>2. BufferTypeOK'
      BY <2>1, <3>1 DEF Record, BufferTypeOK
    <3>3. ASSUME NEW k \in 0 .. Capacity - 1, k < pos' PROVE buf'[k] \in Records
      <4>1. CASE k < pos
        BY <2>1, <3>1, <4>1 DEF Record, BufferTypeOK, WrittenSlots
      <4>2. CASE k = pos
        <5>1. pos % Capacity = pos
          BY <3>1, <4>2, ModSmall
        <5>. QED BY <2>1, <3>1, <4>2, <5>1 DEF Record, BufferTypeOK, SlotOf
      <4>. QED BY <2>1, <3>1, <3>3, <4>1, <4>2 DEF Record
    <3>. QED BY <3>2, <3>3 DEF WrittenSlots
  <2>2. CASE Drain
    <3>1. BufferTypeOK'
      BY <2>2, CopiedIsSeq DEF Drain, BufferTypeOK
    <3>. QED BY <2>2, <3>1 DEF Drain, WrittenSlots, BufferTypeOK
  <2>3. CASE UNCHANGED buffer
    BY <2>3 DEF buffer, BufferTypeOK, WrittenSlots
  <2>. QED BY <2>1, <2>2, <2>3 DEF UseBuffer
<1>3. IInv => BufferTypeOK /\ WrittenSlots
  BY DEF IInv
<1>. QED BY <1>1, <1>2, <1>3, PTL DEF BufferSpec

\* A Record of the ring buffer is a Record of the bounded log: the new record
\* comes first and the older ones move back one place, across a wrap too.
LEMMA RecordRefines ==
  ASSUME IInv, IInv', NEW r \in Records, Record(r)
  PROVE  Log!Record(r)
<1>. USE CapacityPositive, BufferAssumption
<1>1. pos \in Nat /\ pos' = pos + 1 /\ SlotOf(pos) \in 0 .. Capacity - 1
  BY ModRange DEF Record, SlotOf, BufferTypeOK, IInv
<1>2. Held \in Nat /\ Held' = IF Held < Capacity THEN Held + 1 ELSE Capacity
  BY <1>1 DEF Held
<1>3. /\ Copied \in Seq(Records) /\ Len(Copied) = Held
      /\ \A i \in 1 .. Held : Copied[i] = buf[SlotOf(pos - i)]
  BY CopiedIsSeq
<1>4. ASSUME NEW i \in 1 .. Held'
      PROVE  buf'[SlotOf(pos' - i)] = IF i = 1 THEN r ELSE Copied[i - 1]
  <2>1. CASE i = 1
    BY <1>1, <2>1 DEF Record, IInv, BufferTypeOK
  <2>2. CASE i # 1
    <3>1. /\ i - 1 \in 1 .. Held /\ i - 1 \in 1 .. Capacity - 1 /\ i - 1 <= pos
          /\ pos' - i = pos - (i - 1) /\ pos - (i - 1) \in Nat
      BY <1>1, <1>2, <2>2 DEF Held
    <3>2. SlotOf(pos) # SlotOf(pos - (i - 1))
      BY <1>1, <3>1, DistinctSlots, ZenonT(30) DEF SlotOf
    <3>3. SlotOf(pos - (i - 1)) \in 0 .. Capacity - 1
      BY <3>1, ModRange, ZenonT(30) DEF SlotOf
    <3>4. buf'[SlotOf(pos' - i)] = buf[SlotOf(pos - (i - 1))]
      BY <3>1, <3>2, <3>3 DEF Record, IInv, BufferTypeOK
    <3>. QED BY <1>3, <2>2, <3>1, <3>4
  <2>. QED BY <2>1, <2>2
<1>5. Copied' = Log!Newest(r, Copied)
  BY <1>2, <1>3, <1>4, ZenonT(30) DEF Copied, Log!Newest
<1>6. dropped' = (Len(Copied) = Capacity)
  BY <1>1, <1>3 DEF Record, Held
<1>. QED BY <1>5, <1>6 DEF Log!Record, Record

\* The ring buffer implements the bounded log: users of internal/ringbuf may
\* reason about "the newest Capacity records, newest first, each drained at
\* most once" instead of slots and positions.
THEOREM Refinement == BufferSpec => ImplementsBoundedLog
<1>. USE CapacityPositive, BufferAssumption
<1>1. EmptyBuffer => Log!Init
  BY DEF EmptyBuffer, Log!Init, Copied, Held
<1>2. IInv /\ IInv' /\ [UseBuffer]_buffer => [Log!Next]_(Log!vars)
  <2>. SUFFICES ASSUME IInv, IInv', [UseBuffer]_buffer PROVE [Log!Next]_(Log!vars)
    OBVIOUS
  <2>1. ASSUME NEW r \in Records, Record(r) PROVE Log!Next
    BY <2>1, RecordRefines DEF Log!Next
  <2>2. CASE Drain
    <3>1. Copied' = << >>
      BY <2>2 DEF Drain, Copied, Held
    <3>. QED BY <2>2, <3>1 DEF Drain, Log!Next, Log!Drain
  <2>3. CASE UNCHANGED buffer
    BY <2>3 DEF buffer, Log!vars, Copied, Held
  <2>. QED BY <2>1, <2>2, <2>3 DEF UseBuffer
<1>3. BufferSpec => []IInv
  BY Invariance, PTL DEF IInv
<1>. QED BY <1>1, <1>2, <1>3, PTL DEF BufferSpec, ImplementsBoundedLog, Log!Spec

-------------------------------------------------------------------------------
USE SMTT(30), ZenonT(20)

(* What becomes of a connection that Hubble or Goldmane reported            *)
(* (ProcessCiliumFlow, ProcessCalicoFlow).                                 *)

IsName(s) == \E parts : s \in Seq(parts)

(* The names the control plane gives pods: those of a controller are        *)
(* generated from a prefix that ends in a dash.  No name has a star.       *)
Generated(pod) ==
    \E parts : \E stem, rest \in Seq(parts) :
        /\ stem # << >>
        /\ pod.generateName = stem \o <<"-">> /\ pod.name = pod.generateName \o rest

IsThing(t) ==
    /\ IsPod(t) /\ (WellBuilt(t) \/ Abandoned(t))
    /\ t.pod.namespace # "" /\ t.pod.name # NoName
    /\ IsName(t.name) /\ IsName(t.pod.name)
    /\ IF t.pod.generateName = NoName
       THEN ~IsKept(t) /\ ~HasSuffix(t.pod.name, <<"-", "*">>)
       ELSE Generated(t.pod)

(* Any connection of a cluster of any size, under any policies.  Pods of a  *)
(* namespace have different names, and a ReplicaSet without a Deployment is *)
(* not named after one that is there.                                      *)
Flow(q) ==
    /\ {q.source, q.dest} \subseteq q.present \cup Others
    /\ q.verdict \in Verdicts
    /\ \E port \in Nat : \E proto : q.message = <<port, proto>>
    /\ \A t \in q.present : IsThing(t)
    /\ \A t, u \in q.present :
          t.pod.namespace = u.pod.namespace =>
             /\ t.pod.name = u.pod.name => t = u
             /\ Abandoned(t) /\ u.kind = "Deployment" =>
                   t.name # u.name /\ t.name # u.name \o <<"-", t.pod.hash>>

\* A pair is a sequence.
LEMMA Pair ==
  ASSUME NEW S, NEW a \in S, NEW b \in S
  PROVE  <<a, b>> \in Seq(S) /\ Len(<<a, b>>) = 2 /\ <<a, b>>[1] = a /\ <<a, b>>[2] = b
  OBVIOUS

\* A name ends in what was appended to it, ...
LEMMA JoinedSuffix ==
  ASSUME NEW S, NEW s \in Seq(S), NEW t \in Seq(S)
  PROVE  HasSuffix(s \o t, t)
  BY DEF HasSuffix

\* ... and begins with what it was appended to.
LEMMA JoinedRest ==
  ASSUME NEW S, NEW s \in Seq(S), NEW t \in Seq(S)
  PROVE  SubSeq(s \o t, 1, Len(s \o t) - Len(t)) = s
  OBVIOUS

\* What a concatenation ends in.
LEMMA JoinedLast ==
  ASSUME NEW S, NEW s \in Seq(S), NEW t \in Seq(S), NEW n \in Nat, n = Len(t), n > 0
  PROVE  /\ s \o t \in Seq(S) /\ Len(s \o t) = Len(s) + n
         /\ (s \o t)[Len(s) + n] = t[n]
  OBVIOUS

\* A name ends in its last part, ...
LEMMA LastPart ==
  ASSUME NEW S, NEW s \in Seq(S), NEW n \in Nat, n > 0, n = Len(s), NEW b, s[n] = b
  PROVE  HasSuffix(s, <<b>>)
<1>. DEFINE tail == SubSeq(s, n, n)
<1>1. tail \in Seq(S) /\ Len(tail) = 1 /\ tail[1] = b
  OBVIOUS
<1>. HIDE DEF tail
<1>2. tail = <<b>>
  BY <1>1
<1>3. Len(<<b>>) = 1
  OBVIOUS
<1>4. n - 1 + 1 = n
  OBVIOUS
<1>. QED BY <1>2, <1>3, <1>4 DEF HasSuffix, tail

\* ... also when several were appended, ...
LEMMA LastAppended ==
  ASSUME NEW S, NEW s \in Seq(S), NEW t \in Seq(S), NEW n \in Nat, n = Len(t), n > 0
  PROVE  HasSuffix(s \o t, <<t[n]>>)
<1>. DEFINE long == s \o t
<1>1. long \in Seq(S) /\ Len(long) = Len(s) + n /\ long[Len(s) + n] = t[n]
  BY JoinedLast
<1>2. Len(s) + n \in Nat /\ Len(s) + n > 0
  OBVIOUS
<1>. HIDE DEF long
<1>3. HasSuffix(long, <<t[n]>>)
  BY <1>1, <1>2, LastPart
<1>. QED BY <1>3 DEF long

\* ... or two.
LEMMA LastOfPair ==
  ASSUME NEW S, NEW s \in Seq(S), NEW a \in S, NEW b \in S
  PROVE  HasSuffix(s \o <<a, b>>, <<b>>)
<1>. DEFINE two == <<a, b>>
<1>1. two \in Seq(S) /\ 2 = Len(two) /\ two[2] = b
  BY Pair
<1>2. 2 \in Nat /\ 2 > 0
  OBVIOUS
<1>. HIDE DEF two
<1>3. HasSuffix(s \o two, <<two[2]>>)
  BY <1>1, <1>2, LastAppended
<1>. QED BY <1>1, <1>3 DEF two

\* A pod is given the workload that it belongs to, from what it shows of it.
LEMMA NamedAfterRoot ==
  ASSUME NEW e, WellBuilt(e), IsName(e.name)
  PROVE  GetNameAndKind(e.pod) = Root(e)
<1>1. CASE e.kind = "Deployment"
  <2>. DEFINE name == e.name \o <<"-", e.pod.hash>>
              ref == [kind |-> "ReplicaSet", name |-> name]
  <2>1. e.pod.owner = {ref} /\ e.pod.hash # ""
    BY <1>1, ZenonT(30) DEF WellBuilt
  <2>2. /\ SubSeq(name, 1, Len(name) - 2) = e.name
        /\ HasSuffix(name, <<"-", e.pod.hash>>) /\ HasSuffix(name, <<e.pod.hash>>)
    <3>1. PICK parts : e.name \in Seq(parts) /\ e.pod.hash \in parts /\ "-" \in parts
      <4>1. PICK some : e.name \in Seq(some)
        BY DEF IsName
      <4>2. e.name \in Seq(some \cup {"-", e.pod.hash})
        BY <4>1
      <4>. QED BY <4>2
    <3>. DEFINE two == <<"-", e.pod.hash>>
    <3>2. two \in Seq(parts) /\ Len(two) = 2
      BY <3>1, Pair
    <3>3. HasSuffix(name, <<e.pod.hash>>)
      BY <3>1, LastOfPair
    <3>. HIDE DEF two
    <3>4. HasSuffix(name, two) /\ SubSeq(name, 1, Len(name) - Len(two)) = e.name
      BY <3>1, <3>2, JoinedSuffix, JoinedRest, ZenonT(30) DEF two
    <3>. QED BY <3>2, <3>3, <3>4 DEF two
  <2>3. (CHOOSE r \in e.pod.owner : TRUE) = ref
    BY <2>1, ZenonT(30)
  <2>4. GetNameAndKind(e.pod) =
           WorkloadRef(e.pod.namespace, "Deployment",
                       IF HasSuffix(ref.name, <<"-", e.pod.hash>>)
                       THEN SubSeq(ref.name, 1, Len(ref.name) - 2)
                       ELSE ref.name)
    <3>. HIDE DEF name
    <3>1. ref.kind = "ReplicaSet" /\ ref.name = name
      OBVIOUS
    <3>2. e.pod.owner # {}
      BY <2>1, ZenonT(30)
    <3>. HIDE DEF ref
    <3>. QED BY <2>1, <2>2, <2>3, <3>1, <3>2, ZenonT(30) DEF GetNameAndKind
  <2>. HIDE DEF name
  <2>. QED BY <1>1, <2>2, <2>4, ZenonT(30) DEF Root
<1>2. CASE e.kind = "Pod"
  BY <1>2, ZenonT(30) DEF WellBuilt, GetNameAndKind, Root
<1>3. CASE e.kind \notin {"Deployment", "Pod"}
  <2>. DEFINE ref == [kind |-> e.kind, name |-> e.name]
  <2>1. e.pod.owner = {ref} /\ (e.kind = "ReplicaSet" => e.pod.hash = "")
    BY <1>3, ZenonT(30) DEF WellBuilt
  <2>2. (CHOOSE r \in e.pod.owner : TRUE) = ref
    BY <2>1, ZenonT(30)
  <2>3. e.pod.owner # {} /\ ref.kind = e.kind /\ ref.name = e.name
    BY <2>1, ZenonT(30)
  <2>. HIDE DEF ref
  <2>. QED BY <2>1, <2>2, <2>3, ZenonT(30) DEF GetNameAndKind, Root
<1>. QED BY <1>1, <1>2, <1>3

\* What ends in two parts is the rest with these appended.
LEMMA CutAndJoined ==
  ASSUME NEW S, NEW s \in Seq(S), NEW a \in S, NEW b \in S, HasSuffix(s, <<a, b>>)
  PROVE  s = SubSeq(s, 1, Len(s) - 2) \o <<a, b>>
<1>. DEFINE two == <<a, b>>
            tail == SubSeq(s, Len(s) - 1, Len(s))
            front == SubSeq(s, 1, Len(s) - 2)
<1>1. two \in Seq(S) /\ Len(two) = 2
  BY Pair
<1>2. Len(s) >= 2 /\ tail = two
  <2>1. Len(two) <= Len(s) /\ SubSeq(s, Len(s) - Len(two) + 1, Len(s)) = two
    BY DEF HasSuffix
  <2>2. Len(s) - 2 + 1 = Len(s) - 1
    OBVIOUS
  <2>. HIDE DEF two
  <2>. QED BY <1>1, <2>1, <2>2
<1>3. s = front \o tail
  <2>1. /\ front \in Seq(S) /\ Len(front) = Len(s) - 2
        /\ \A i \in 1 .. Len(s) - 2 : front[i] = s[i]
    BY <1>2
  <2>2. /\ tail \in Seq(S) /\ Len(tail) = 2 /\ tail[1] = s[Len(s) - 1] /\ tail[2] = s[Len(s)]
    BY <1>2
  <2>. DEFINE c == front \o tail
  <2>. HIDE DEF front, tail
  <2>3. c \in Seq(S) /\ Len(c) = Len(s)
    BY <1>2, <2>1, <2>2
  <2>4. \A i \in 1 .. Len(s) : c[i] = s[i]
    BY <1>2, <2>1, <2>2
  <2>. HIDE DEF c
  <2>5. c = s
    BY <2>3, <2>4
  <2>. QED BY <2>5 DEF c
<1>. QED BY <1>2, <1>3, ZenonT(30)

\* A workload of a kind policies are for is found with its selector, unless
\* it has not arrived.
LEMMA LookedUp ==
  ASSUME NEW q, NEW t \in q.present, IsKept(t)
  PROVE  LookupPodSelectorForWorkload(Root(t), CacheOf(q)) = IF Known(t, q) THEN {Selected(t)} ELSE {}
<1>. DEFINE ref == Root(t)
            w == Workload(t)
            all == CacheOf(q).workloads
            matching == {x \in all : /\ IsSupported(ref)
                                     /\ x.namespace = ref.namespace /\ x.kind = ref.kind /\ x.name = ref.name
                                     /\ x.selector # Unknown}
<1>1. all = {Workload(u) : u \in {v \in q.present : IsKept(v)}} \ q.late
  BY DEF CacheOf, Informed
<1>2. IsSupported(ref) /\ ref.namespace = w.namespace /\ ref.kind = w.kind /\ ref.name = w.name
  BY DEF IsSupported, IsKept, Root, WorkloadRef, Workload
<1>3. w.selector = {t.name} /\ w.selector # Unknown
  BY DEF Workload, Unknown
<1>4. ASSUME NEW x \in all, x.namespace = w.namespace, x.kind = w.kind, x.name = w.name
      PROVE  x = w
  BY <1>1, <1>4 DEF Workload
<1>5. w \in all <=> Known(t, q)
  BY <1>1, ZenonT(30) DEF Known
<1>6. matching = IF Known(t, q) THEN {w} ELSE {}
  <2>. HIDE DEF w, ref, all
  <2>. QED BY <1>2, <1>3, <1>4, <1>5
<1>7. LookupPodSelectorForWorkload(ref, CacheOf(q)) = {[ref EXCEPT !.selector = x.selector] : x \in matching}
  <2>. HIDE DEF ref
  <2>. QED BY ZenonT(30) DEF LookupPodSelectorForWorkload
<1>8. Selected(t) = [ref EXCEPT !.selector = w.selector]
  BY <1>3 DEF Selected
<1>. HIDE DEF w, ref, matching
<1>. QED BY <1>6, <1>7, <1>8 DEF ref

\* A pod is found by its namespace and name, and no other is.
LEMMA PodFound ==
  ASSUME NEW q, Flow(q), NEW t \in q.present
  PROVE  GetWorkload(t.pod.namespace, t.pod.name, CacheOf(q)) =
            LET ref == GetNameAndKind(t.pod)
            IN  IF IsSupported(ref) THEN LookupPodSelectorForWorkload(ref, CacheOf(q)) ELSE {ref}
<1>. DEFINE cache == CacheOf(q)
            Of(pod) == LET ref == GetNameAndKind(pod)
                       IN  IF IsSupported(ref) THEN LookupPodSelectorForWorkload(ref, cache) ELSE {ref}
            found == GetWorkload(t.pod.namespace, t.pod.name, cache)
<1>1. {p \in cache.pods : p.namespace = t.pod.namespace /\ p.name = t.pod.name} = {t.pod}
  <2>1. cache.pods = {u.pod : u \in q.present}
    BY DEF CacheOf, Informed
  <2>2. \A u \in q.present : u.pod.namespace = t.pod.namespace /\ u.pod.name = t.pod.name => u = t
    BY ZenonT(30) DEF Flow
  <2>. HIDE DEF cache
  <2>. QED BY <2>1, <2>2
<1>2. found = UNION {Of(pod) : pod \in {t.pod}}
  BY <1>1, ZenonT(30) DEF GetWorkload
<1>3. found = Of(t.pod)
  <2>. HIDE DEF Of, found
  <2>. QED BY <1>2
<1>. QED BY <1>3

\* A ReplicaSet without a Deployment is not taken for one that is there.
LEMMA AbandonedUnknown ==
  ASSUME NEW q, Flow(q), NEW t \in q.present, Abandoned(t),
         NEW r \in GetWorkload(t.pod.namespace, t.pod.name, CacheOf(q))
  PROVE  ~IsSupported(r)
<1>. DEFINE ref == GetNameAndKind(t.pod)
            owner == [kind |-> "ReplicaSet", name |-> t.name]
            hash == t.pod.hash
<1>1. r \in IF IsSupported(ref) THEN LookupPodSelectorForWorkload(ref, CacheOf(q)) ELSE {ref}
  BY PodFound, ZenonT(30)
<1>2. t.pod.owner = {owner} /\ t.kind = "ReplicaSet"
  BY DEF Abandoned, ControlledBy
<1>3. (CHOOSE x \in t.pod.owner : TRUE) = owner /\ t.pod.owner # {}
  BY <1>2
<1>4. owner.kind = "ReplicaSet" /\ owner.name = t.name
  OBVIOUS
<1>5. CASE hash # "" /\ HasSuffix(t.name, <<hash>>)
  <2>. DEFINE name == IF HasSuffix(t.name, <<"-", hash>>) THEN SubSeq(t.name, 1, Len(t.name) - 2) ELSE t.name
  <2>1. ref = WorkloadRef(t.pod.namespace, "Deployment", name)
    <3>. HIDE DEF owner
    <3>. QED BY <1>3, <1>4, <1>5, ZenonT(30) DEF GetNameAndKind
  <2>2. t.name = name \/ t.name = name \o <<"-", hash>>
    <3>1. PICK some : t.name \in Seq(some)
      BY ZenonT(30) DEF Flow, IsThing, IsName
    <3>2. PICK parts : t.name \in Seq(parts) /\ hash \in parts /\ "-" \in parts
      <4>1. t.name \in Seq(some \cup {"-", hash})
        BY <3>1
      <4>. QED BY <4>1
    <3>. QED BY <3>2, CutAndJoined, ZenonT(30)
  <2>3. ref.namespace = t.pod.namespace /\ ref.kind = "Deployment" /\ ref.name = name
    BY <2>1 DEF WorkloadRef
  <2>4. ASSUME NEW x \in CacheOf(q).workloads, x.namespace = ref.namespace, x.kind = ref.kind, x.name = ref.name
        PROVE  FALSE
    <3>1. PICK u \in q.present : x = Workload(u)
      BY <2>4 DEF CacheOf, Informed
    <3>2. u.pod.namespace = t.pod.namespace /\ u.kind = "Deployment" /\ u.name = name
      BY <2>3, <2>4, <3>1 DEF Workload
    <3>3. t.name # u.name /\ t.name # u.name \o <<"-", hash>>
      BY <3>2, ZenonT(30) DEF Flow
    <3>. HIDE DEF name
    <3>. QED BY <2>2, <3>2, <3>3
  <2>5. LookupPodSelectorForWorkload(ref, CacheOf(q)) = {}
    <3>. HIDE DEF ref
    <3>. QED BY <2>4, ZenonT(30) DEF LookupPodSelectorForWorkload
  <2>6. IsSupported(ref)
    BY <2>3 DEF IsSupported, Supported
  <2>. HIDE DEF ref
  <2>. QED BY <1>1, <2>5, <2>6
<1>6. CASE ~(hash # "" /\ HasSuffix(t.name, <<hash>>))
  <2>1. ref = WorkloadRef(t.pod.namespace, "ReplicaSet", t.name)
    <3>. HIDE DEF owner
    <3>. QED BY <1>3, <1>4, <1>6, ZenonT(30) DEF GetNameAndKind
  <2>2. ~IsSupported(ref)
    BY <2>1 DEF WorkloadRef, IsSupported, Supported
  <2>. HIDE DEF ref
  <2>. QED BY <1>1, <2>2
<1>. QED BY <1>5, <1>6, ZenonT(30)

\* The workload of a pod is found with its selector if it is known, and
\* otherwise none that policies are for is.
LEMMA WorkloadOfPod ==
  ASSUME NEW q, Flow(q), NEW t \in q.present
  PROVE  LET found == GetWorkload(t.pod.namespace, t.pod.name, CacheOf(q))
         IN  /\ Known(t, q) => found = {Selected(t)}
             /\ ~Known(t, q) => \A r \in found : ~IsSupported(r)
<1>. DEFINE found == GetWorkload(t.pod.namespace, t.pod.name, CacheOf(q))
<1>1. CASE Abandoned(t)
  <2>1. ~Known(t, q)
    BY <1>1 DEF Abandoned, Known, IsKept, Supported
  <2>. QED BY <1>1, <2>1, AbandonedUnknown
<1>2. CASE ~Abandoned(t)
  <2>1. GetNameAndKind(t.pod) = Root(t)
    BY <1>2, NamedAfterRoot, ZenonT(30) DEF Flow, IsThing
  <2>2. IsSupported(Root(t)) <=> IsKept(t)
    BY DEF IsSupported, IsKept, Root, WorkloadRef
  <2>3. found = IF IsKept(t) THEN LookupPodSelectorForWorkload(Root(t), CacheOf(q)) ELSE {Root(t)}
    BY <2>1, <2>2, PodFound
  <2>4. found = IF IsKept(t) THEN IF Known(t, q) THEN {Selected(t)} ELSE {} ELSE {Root(t)}
    BY <2>3, LookedUp
  <2>5. Known(t, q) => IsKept(t)
    BY DEF Known
  <2>. HIDE DEF found
  <2>6. Known(t, q) => found = {Selected(t)}
    BY <2>4, <2>5
  <2>7. ~Known(t, q) => \A r \in found : ~IsSupported(r)
    BY <2>2, <2>4
  <2>. QED BY <2>6, <2>7 DEF found
<1>. QED BY <1>1, <1>2

-----------------------------------------------------------------------------
\* Of a result, the policy can be replaced.
LEMMA PolicyReplaced ==
  ASSUME NEW outcome, NEW a, NEW b, NEW port, NEW proto, NEW direction, NEW policy, NEW x
  PROVE  [Result(outcome, a, b, port, proto, direction, policy) EXCEPT !.policy = x]
            = Result(outcome, a, b, port, proto, direction, x)
BY DEF Result

\* What is learned of a flow, ...
LEMMA LearnedFields ==
  ASSUME NEW a, NEW b, NEW port, NEW proto
  PROVE  LET o == Learned(a, b, port, proto)
         IN  o.outcome = "enqueue" /\ o.source = a /\ o.dest = b /\ o.port = port /\ o.proto = proto
BY DEF Learned, Result

\* ... and what is recorded of it.
LEMMA ViolatedFields ==
  ASSUME NEW a, NEW b, NEW port, NEW proto, NEW direction, NEW policy
  PROVE  LET o == Violated(a, b, port, proto, direction, policy)
         IN  /\ o.outcome = "violation" /\ o.source = a /\ o.dest = b /\ o.port = port
             /\ o.proto = proto /\ o.direction = direction /\ o.policy = policy
BY DEF Violated, Result

\* What is resolved of a flow to learn: both ends, or nothing is learned.
LEMMA LearnResolved ==
  ASSUME NEW a, NEW b, NEW port, NEW proto, NEW s, NEW d, NEW cache
  PROVE  LET o == Resolve(Learned(a, b, port, proto), s, d, cache)
         IN  IF s.status = "ok" /\ d.status = "ok" THEN o = Learned(s.ref, d.ref, port, proto)
                                                   ELSE o \in {Skipped, Failed}
<1>. DEFINE parsed == Learned(a, b, port, proto)
            needed == <<s, d>>
            bad == {i \in DOMAIN needed : needed[i].status # "ok"}
            resolved == [parsed EXCEPT !.source = s.ref, !.dest = d.ref]
<1>0. parsed.outcome = "enqueue"
  BY DEF Learned, Result
<1>1. resolved = Learned(s.ref, d.ref, port, proto)
  <2>. DEFINE half == Learned(s.ref, b, port, proto)
              whole == Learned(s.ref, d.ref, port, proto)
  <2>0. PICK outcome, direction, policy :
            /\ parsed = Result(outcome, a, b, port, proto, direction, policy)
            /\ half = Result(outcome, s.ref, b, port, proto, direction, policy)
            /\ whole = Result(outcome, s.ref, d.ref, port, proto, direction, policy)
    BY ZenonT(30) DEF Learned
  <2>. HIDE DEF parsed, half, whole
  <2>1. [parsed EXCEPT !.source = s.ref] = half
    BY <2>0 DEF Result
  <2>2. [half EXCEPT !.dest = d.ref] = whole
    BY <2>0 DEF Result
  <2>3. resolved = [[parsed EXCEPT !.source = s.ref] EXCEPT !.dest = d.ref]
    OBVIOUS
  <2>4. resolved = whole
    BY <2>1, <2>2, <2>3, ZenonT(30)
  <2>. QED BY <2>4 DEF whole
<1>2. bad = {} <=> s.status = "ok" /\ d.status = "ok"
  OBVIOUS
<1>3. Resolve(parsed, s, d, cache) = IF bad # {} THEN Unresolved(needed[First(bad)]) ELSE resolved
  <2>. HIDE DEF parsed
  <2>. QED BY <1>0, ZenonT(30) DEF Resolve
<1>4. \A r : Unresolved(r) \in {Skipped, Failed}
  BY DEF Unresolved
<1>. HIDE DEF bad, needed, resolved, parsed
<1>. QED BY <1>1, <1>2, <1>3, <1>4 DEF parsed

\* What is resolved of a violation: its subject, or nothing is recorded.
LEMMA ViolationResolved ==
  ASSUME NEW a, NEW b, NEW port, NEW proto, NEW direction, NEW policy, NEW s, NEW d, NEW cache
  PROVE  LET o == Resolve(Violated(a, b, port, proto, direction, policy), s, d, cache)
             subject == IF direction = "Ingress" THEN d ELSE s
         IN  IF subject.status = "ok"
             THEN o = Violated(s.ref, d.ref, port, proto, direction,
                               IF policy # {} THEN policy
                               ELSE ResolveDenyingPolicy(subject.ref, direction, cache))
             ELSE o \in {Skipped, Failed}
<1>. DEFINE parsed == Violated(a, b, port, proto, direction, policy)
            subject == IF direction = "Ingress" THEN d ELSE s
            needed == <<subject>>
            bad == {i \in DOMAIN needed : needed[i].status # "ok"}
            resolved == [parsed EXCEPT !.source = s.ref, !.dest = d.ref]
<1>0. parsed.outcome = "violation" /\ parsed.direction = direction
  BY DEF Violated, Result
<1>1. resolved = Violated(s.ref, d.ref, port, proto, direction, policy)
  <2>. DEFINE half == Violated(s.ref, b, port, proto, direction, policy)
              whole == Violated(s.ref, d.ref, port, proto, direction, policy)
  <2>1. [parsed EXCEPT !.source = s.ref] = half
    BY DEF Violated, Result
  <2>2. [half EXCEPT !.dest = d.ref] = whole
    BY DEF Violated, Result
  <2>. HIDE DEF parsed, half, whole
  <2>3. resolved = [[parsed EXCEPT !.source = s.ref] EXCEPT !.dest = d.ref]
    OBVIOUS
  <2>4. resolved = whole
    BY <2>1, <2>2, <2>3, ZenonT(30)
  <2>. QED BY <2>4 DEF whole
<1>2. bad = {} <=> subject.status = "ok"
  <2>. HIDE DEF subject
  <2>. QED OBVIOUS
<1>3. Resolve(parsed, s, d, cache) =
         IF bad # {} THEN Unresolved(needed[First(bad)]) ELSE WithDenyingPolicy(resolved, cache)
  <2>1. (IF parsed.direction = "Ingress" THEN <<d>> ELSE <<s>>) = needed
    BY <1>0
  <2>. HIDE DEF parsed, needed
  <2>. QED BY <1>0, <2>1, ZenonT(30) DEF Resolve
<1>4. \A r : Unresolved(r) \in {Skipped, Failed}
  BY DEF Unresolved
<1>5. WithDenyingPolicy(resolved, cache) =
         Violated(s.ref, d.ref, port, proto, direction,
                  IF policy # {} THEN policy ELSE ResolveDenyingPolicy(subject.ref, direction, cache))
  <2>1. /\ resolved.direction = direction /\ resolved.policy = policy
        /\ resolved.source = s.ref /\ resolved.dest = d.ref
    BY <1>1 DEF Violated, Result
  <2>2. \A x : [resolved EXCEPT !.policy = x] = Violated(s.ref, d.ref, port, proto, direction, x)
    <3>. HIDE DEF resolved
    <3>. QED BY <1>1, PolicyReplaced DEF Violated
  <2>3. (IF resolved.direction = "Ingress" THEN resolved.dest ELSE resolved.source) = subject.ref
    BY <2>1
  <2>. HIDE DEF resolved, subject
  <2>. QED BY <1>1, <2>1, <2>2, <2>3 DEF WithDenyingPolicy
<1>. HIDE DEF bad, needed, resolved, parsed
<1>. QED BY <1>2, <1>3, <1>4, <1>5 DEF parsed

-----------------------------------------------------------------------------
(* What resolving must make of the end of a connection, whatever was        *)
(* reported of it: the workload if it is known, and no other.              *)
Resolves(r, t, q) ==
    /\ r.status = "ok" <=> Known(t, q)
    /\ Known(t, q) => r.ref = Selected(t)
    /\ IsSupported(r.ref) => Same(r.ref, t)

(* What Hubble reports of a pod. *)
ReportedRef(t, named) ==
    IF named /\ t.kind # "Pod" THEN Root(t) ELSE WorkloadRef(t.pod.namespace, "Pod", t.pod.name)

\* A known workload is what its selector is added to.
LEMMA SelectedIsSame ==
  ASSUME NEW t, IsPod(t)
  PROVE  Same(Selected(t), t) /\ (IsKept(t) => IsSupported(Selected(t)))
BY DEF Same, Selected, Root, WorkloadRef, IsKept, IsSupported

\* A pod that Hubble reports, with its workload or without.
LEMMA CiliumResolves ==
  ASSUME NEW q, Flow(q), NEW t \in q.present, NEW named \in BOOLEAN
  PROVE  LET res == ResolveCilium(ReportedRef(t, named), CacheOf(q))
         IN  res # {} /\ \A r \in res : Resolves(r, t, q)
<1>. DEFINE ref == ReportedRef(t, named)
            found == IF ref.kind = "Pod" THEN GetWorkload(ref.namespace, ref.name, CacheOf(q))
                     ELSE LookupPodSelectorForWorkload(ref, CacheOf(q))
            res == ResolveCilium(ref, CacheOf(q))
<1>0. IsPod(t)
  BY ZenonT(30) DEF Flow, IsThing
<1>1. IsSupported(ref) => Same(ref, t)
  BY <1>0 DEF ReportedRef, Root, WorkloadRef, IsSupported, Supported, Same
<1>2. /\ Known(t, q) => found = {Selected(t)}
      /\ ~Known(t, q) => \A r \in found : ~IsSupported(r)
  <2>1. CASE named /\ t.kind # "Pod"
    <3>1. ref = Root(t) /\ ref.kind # "Pod"
      BY <2>1 DEF ReportedRef, Root, WorkloadRef
    <3>2. found = LookupPodSelectorForWorkload(Root(t), CacheOf(q))
      BY <3>1
    <3>3. CASE IsKept(t)
      BY <3>2, <3>3, LookedUp
    <3>4. CASE ~IsKept(t)
      <4>1. ~IsSupported(Root(t)) /\ ~Known(t, q)
        BY <3>4 DEF IsSupported, IsKept, Root, WorkloadRef, Known
      <4>2. found = {}
        BY <3>2, <4>1 DEF LookupPodSelectorForWorkload
      <4>. QED BY <4>1, <4>2
    <3>. QED BY <3>3, <3>4
  <2>2. CASE ~(named /\ t.kind # "Pod")
    <3>1. ref.kind = "Pod" /\ ref.namespace = t.pod.namespace /\ ref.name = t.pod.name
      BY <2>2 DEF ReportedRef, WorkloadRef
    <3>2. found = GetWorkload(t.pod.namespace, t.pod.name, CacheOf(q))
      BY <3>1
    <3>. QED BY <3>2, WorkloadOfPod
  <2>. QED BY <2>1, <2>2
<1>3. res = IF found = {} THEN {Resolution("error", ref)}
            ELSE {IF IsSupported(r) THEN Resolution("ok", r) ELSE Resolution("skip", ref) : r \in found}
  <2>. HIDE DEF ref
  <2>. QED BY ZenonT(30) DEF ResolveCilium
<1>4. CASE Known(t, q)
  <2>1. Same(Selected(t), t) /\ IsSupported(Selected(t))
    BY <1>0, <1>4, SelectedIsSame DEF Known
  <2>2. res = {Resolution("ok", Selected(t))}
    <3>. HIDE DEF found, ref, res
    <3>. QED BY <1>2, <1>3, <1>4, <2>1
  <2>. QED BY <1>4, <2>1, <2>2 DEF Resolves, Resolution
<1>5. CASE ~Known(t, q)
  <2>1. res # {} /\ \A r \in res : r.ref = ref /\ r.status # "ok"
    <3>. HIDE DEF found, ref, res
    <3>1. Resolution("error", ref).ref = ref /\ Resolution("error", ref).status # "ok"
      BY DEF Resolution
    <3>2. Resolution("skip", ref).ref = ref /\ Resolution("skip", ref).status # "ok"
      BY DEF Resolution
    <3>3. CASE found = {}
      BY <1>3, <3>1, <3>3
    <3>4. CASE found # {}
      <4>1. res = {Resolution("skip", ref) : r \in found}
        BY <1>2, <1>3, <1>5, <3>4
      <4>. QED BY <3>2, <3>4, <4>1
    <3>. QED BY <3>3, <3>4
  <2>. QED BY <1>1, <1>5, <2>1 DEF Resolves
<1>. QED BY <1>4, <1>5

\* An address is no workload.
LEMMA AddressKept ==
  ASSUME NEW q, NEW t \in Others, NEW ip
  PROVE  LET res == ResolveCilium(ByAddress(ip), CacheOf(q))
         IN  res # {} /\ \A r \in res : Resolves(r, t, q)
<1>. DEFINE ref == ByAddress(ip)
<1>1. ref.kind = "" /\ ~IsSupported(ref)
  BY DEF ByAddress, WorkloadRef, IsSupported, Supported
<1>2. LookupPodSelectorForWorkload(ref, CacheOf(q)) = {}
  BY <1>1, ZenonT(30) DEF LookupPodSelectorForWorkload
<1>3. ResolveCilium(ref, CacheOf(q)) = {Resolution("error", ref)}
  <2>. HIDE DEF ref
  <2>. QED BY <1>1, <1>2, ZenonT(30) DEF ResolveCilium
<1>4. ~Known(t, q)
  BY DEF Known, IsKept, Supported, Others, FarEnd, Node, Missing, Thing
<1>. HIDE DEF ref
<1>5. Resolves(Resolution("error", ref), t, q)
  BY <1>1, <1>4, ZenonT(30) DEF Resolves, Resolution
<1>. QED BY <1>3, <1>5 DEF ref

(* What is known of an end once it was parsed, from what Hubble reports. *)
Seen(e, t, q) ==
    /\ e.error <=> t = Missing
    /\ ~e.error /\ e.skip => ~Known(t, q)
    /\ ~e.error /\ ~e.skip => e.ref # {}
    /\ ~e.error => \A ip : LET res == ResolveCilium(OrByAddress(e.ref, ip), CacheOf(q))
                           IN  res # {} /\ \A r \in res : Resolves(r, t, q)

\* What was reported of an end leads to its workload, or to none.
LEMMA EndSeen ==
  ASSUME NEW q, Flow(q), NEW t \in q.present \cup Others, NEW named \in BOOLEAN
  PROVE  Seen(CiliumWorkloadRef(HubbleEndpoint(t, named)), t, q)
<1>. DEFINE e == CiliumWorkloadRef(HubbleEndpoint(t, named))
<1>0. Missing # FarEnd /\ Missing # Node
  BY DEF Missing, FarEnd, Node, Thing
<1>1. CASE t = Missing
  <2>1. HubbleEndpoint(t, named) = {}
    BY <1>0, <1>1, ZenonT(30) DEF HubbleEndpoint
  <2>2. e = Endpoint(TRUE, {}, FALSE)
    BY <2>1 DEF CiliumWorkloadRef
  <2>. QED BY <1>1, <2>2 DEF Seen, Endpoint
<1>2. CASE t \in {FarEnd, Node}
  <2>. DEFINE x == [namespace |-> "", pod |-> NoName, workloads |-> << >>]
  <2>1. HubbleEndpoint(t, named) = {x}
    BY <1>0, <1>2 DEF HubbleEndpoint
  <2>2. /\ x.workloads = << >> /\ x.pod = NoName
        /\ Len(x.workloads) = 0 /\ ~(Len(x.workloads) > 1) /\ Len(x.workloads) # 1
    OBVIOUS
  <2>3. (CHOOSE y \in {x} : TRUE) = x
    BY ZenonT(30)
  <2>. HIDE DEF x
  <2>4. e = Endpoint(FALSE, {}, TRUE)
    BY <2>1, <2>2, <2>3, ZenonT(30) DEF CiliumWorkloadRef
  <2>5. e.error = FALSE /\ e.skip = TRUE /\ e.ref = {}
    BY <2>4 DEF Endpoint
  <2>6. t \in Others /\ t # Missing
    BY <1>0, <1>2 DEF Others
  <2>7. ~Known(t, q)
    BY <2>6 DEF Known, IsKept, Supported, Others, FarEnd, Node, Missing, Thing
  <2>8. \A ip : OrByAddress(e.ref, ip) = ByAddress(ip)
    BY <2>5 DEF OrByAddress
  <2>. HIDE DEF e
  <2>. QED BY <2>5, <2>6, <2>7, <2>8, AddressKept DEF Seen, e
<1>3. CASE t \notin Others
  <2>. DEFINE ref == ReportedRef(t, named)
              skip == named /\ t.kind \notin Supported \cup {"Pod"}
              list == IF named /\ t.kind # "Pod" THEN <<[kind |-> t.kind, name |-> t.name]>> ELSE << >>
              x == [namespace |-> t.pod.namespace, pod |-> t.pod.name, workloads |-> list]
  <2>0. t \in q.present /\ t # Missing /\ t \notin {FarEnd, Node} /\ t.pod.name # NoName
    BY <1>3, ZenonT(30) DEF Others, Flow, IsThing
  <2>1. HubbleEndpoint(t, named) = {x}
    BY <2>0 DEF HubbleEndpoint
  <2>2. x.namespace = t.pod.namespace /\ x.pod = t.pod.name /\ x.workloads = list
    OBVIOUS
  <2>3. (CHOOSE y \in {x} : TRUE) = x
    OBVIOUS
  <2>. HIDE DEF x
  <2>4. e = Endpoint(FALSE, {ref}, skip)
    <3>1. CASE named /\ t.kind # "Pod"
      <4>. DEFINE w == [kind |-> t.kind, name |-> t.name]
      <4>1. /\ x.workloads = <<w>> /\ x.workloads[1] = w /\ w.kind = t.kind /\ w.name = t.name
            /\ Len(x.workloads) = 1 /\ ~(Len(x.workloads) > 1) /\ Len(x.workloads) # 0
        BY <2>2, <3>1
      <4>2. ref = WorkloadRef(t.pod.namespace, t.kind, t.name) /\ (skip <=> t.kind \notin Supported \cup {"Pod"})
        BY <3>1 DEF ReportedRef, Root
      <4>. HIDE DEF w, ref, skip, list
      <4>. QED BY <2>1, <2>2, <2>3, <4>1, <4>2, ZenonT(30) DEF CiliumWorkloadRef
    <3>2. CASE ~(named /\ t.kind # "Pod")
      <4>1. /\ x.workloads = << >>
            /\ Len(x.workloads) = 0 /\ ~(Len(x.workloads) > 1) /\ Len(x.workloads) # 1
        BY <2>2, <3>2
      <4>2. ref = WorkloadRef(t.pod.namespace, "Pod", t.pod.name) /\ skip = FALSE
        BY <3>2 DEF ReportedRef
      <4>. HIDE DEF ref, skip, list
      <4>. QED BY <2>0, <2>1, <2>2, <2>3, <4>1, <4>2, ZenonT(30) DEF CiliumWorkloadRef
    <3>. QED BY <3>1, <3>2, ZenonT(30)
  <2>5. e.error = FALSE /\ e.skip = skip /\ e.ref = {ref}
    BY <2>4 DEF Endpoint
  <2>6. skip => ~Known(t, q)
    BY DEF Known, IsKept
  <2>7. \A ip : OrByAddress(e.ref, ip) = ref
    BY <2>5 DEF OrByAddress
  <2>8. LET res == ResolveCilium(ref, CacheOf(q)) IN res # {} /\ \A r \in res : Resolves(r, t, q)
    BY <2>0, CiliumResolves
  <2>. HIDE DEF e, ref, skip
  <2>. QED BY <2>0, <2>5, <2>6, <2>7, <2>8 DEF Seen, e
<1>. QED BY <1>1, <1>2, <1>3 DEF Others

\* Ports are compared with a number.
LEMMA PortLimit == MaxValidPort \in Nat /\ MaxValidPort > 0
BY SMT DEF MaxValidPort

(* A flow that is learned is learned right; none is recorded. *)
LearnsRight(o, q) ==
    /\ o.outcome # "violation"
    /\ o.outcome = "enqueue" =>
          o = Learned(Selected(q.source), Selected(q.dest), q.message[1], q.message[2])

\* What becomes of a flow that Hubble saw go through.
LEMMA ForwardedMade ==
  ASSUME NEW q, Flow(q), NEW named \in BOOLEAN, NEW direction, NEW reason,
         NEW o \in ProcessCiliumFlow(HubbleFlow(q, direction, "FORWARDED", reason, named), CacheOf(q))
  PROVE  LearnsRight(o, q)
<1>. DEFINE f == HubbleFlow(q, direction, "FORWARDED", reason, named)
            s == CiliumWorkloadRef(HubbleEndpoint(q.source, named))
            d == CiliumWorkloadRef(HubbleEndpoint(q.dest, named))
            parsed == ParseCiliumFlow(f)
            a == CHOOSE r \in s.ref : TRUE
            b == CHOOSE r \in d.ref : TRUE
            cache == CacheOf(q)
<1>1. Seen(s, q.source, q) /\ Seen(d, q.dest, q)
  BY EndSeen, ZenonT(30) DEF Flow
<1>2. /\ f.source = HubbleEndpoint(q.source, named) /\ f.dest = HubbleEndpoint(q.dest, named)
      /\ f.verdict = "FORWARDED" /\ f.port = q.message[1] /\ f.l4 = q.message[2]
  BY DEF HubbleFlow
<1>3. \/ parsed \in {Skipped, Failed}
      \/ /\ ~s.error /\ ~s.skip /\ ~d.error /\ ~d.skip
         /\ parsed = Learned(a, b, q.message[1], q.message[2])
  <2>. HIDE DEF f
  <2>. QED BY <1>2, ZenonT(30) DEF ParseCiliumFlow
<1>4. /\ Skipped.outcome = "skip" /\ Failed.outcome = "error"
      /\ Learned(a, b, q.message[1], q.message[2]).outcome = "enqueue"
  BY DEF Skipped, Failed, Learned, Result
<1>5. ProcessCiliumFlow(f, cache) =
         IF parsed.outcome \notin {"enqueue", "violation"} THEN {parsed}
         ELSE {Resolve(parsed, x, y, cache) : x \in ResolveCilium(parsed.source, cache),
                                              y \in ResolveCilium(parsed.dest, cache)}
  BY DEF ProcessCiliumFlow
<1>6. CASE parsed \in {Skipped, Failed}
  <2>1. o = parsed
    BY <1>4, <1>5, <1>6
  <2>. QED BY <1>4, <1>6, <2>1 DEF LearnsRight
<1>7. CASE /\ ~s.error /\ ~s.skip /\ ~d.error /\ ~d.skip
           /\ parsed = Learned(a, b, q.message[1], q.message[2])
  <2>1. OrByAddress(s.ref, "") = a /\ OrByAddress(d.ref, "") = b
    BY <1>1, <1>7, ZenonT(30) DEF Seen, OrByAddress
  <2>2. /\ \A r \in ResolveCilium(a, cache) : Resolves(r, q.source, q)
        /\ \A r \in ResolveCilium(b, cache) : Resolves(r, q.dest, q)
    BY <1>1, <1>7, <2>1, ZenonT(30) DEF Seen
  <2>3. parsed.source = a /\ parsed.dest = b
    <3>. HIDE DEF a, b, parsed
    <3>. QED BY <1>7, LearnedFields
  <2>4. PICK x \in ResolveCilium(a, cache), y \in ResolveCilium(b, cache) : o = Resolve(parsed, x, y, cache)
    <3>. HIDE DEF parsed, a, b, s, d, cache
    <3>. QED BY <1>4, <1>5, <1>7, <2>3 DEF cache
  <2>5. Resolves(x, q.source, q) /\ Resolves(y, q.dest, q)
    BY <2>2
  <2>6. IF x.status = "ok" /\ y.status = "ok"
        THEN o = Learned(x.ref, y.ref, q.message[1], q.message[2]) ELSE o \in {Skipped, Failed}
    BY <1>7, <2>4, LearnResolved
  <2>7. \A u, v : Learned(u, v, q.message[1], q.message[2]).outcome = "enqueue"
    BY DEF Learned, Result
  <2>. QED BY <1>4, <2>5, <2>6, <2>7 DEF Resolves, LearnsRight
<1>. QED BY <1>3, <1>6, <1>7

\* A policy is found for a workload when there is exactly one.
LEMMA OnlyPolicyFound ==
  ASSUME NEW t, NEW direction, NEW cache,
         NEW ref, ref.namespace = t.pod.namespace, ref.kind = t.kind, ref.name = t.name
  PROVE  ResolveDenyingPolicy(ref, direction, cache) = NameOfOnly(PoliciesFor(t, direction, cache.policies))
<1>. DEFINE all == PoliciesFor(t, direction, cache.policies)
<1>1. all = {p \in cache.policies : /\ p.namespace = ref.namespace /\ p.direction = direction
                                    /\ p.kind = ref.kind /\ p.target = ref.name}
  BY DEF PoliciesFor
<1>. HIDE DEF all
<1>. QED BY <1>1, ZenonT(30) DEF ResolveDenyingPolicy, NameOfOnly, all

(* A violation that is recorded right: its subject, its peer, and a policy. *)
RecordsRight(o, direction, policy, q) ==
    /\ o.outcome = "violation" /\ o.direction = direction
    /\ o.port = q.message[1] /\ o.proto = q.message[2]
    /\ SubjectRef(o) = Selected(Subject(direction, q))
    /\ IsSupported(PeerRef(o)) => Same(PeerRef(o), Peer(direction, q))
    /\ o.policy = policy

\* A violation whose ends resolve is recorded right.
LEMMA ResolvedRight ==
  ASSUME NEW q, Flow(q), NEW a, NEW b, NEW direction \in {"Ingress", "Egress"}, NEW policy,
         NEW x, Resolves(x, q.source, q), NEW y, Resolves(y, q.dest, q)
  PROVE  LET o == Resolve(Violated(a, b, q.message[1], q.message[2], direction, policy), x, y, CacheOf(q))
             t == Subject(direction, q)
         IN  IF Known(t, q)
             THEN RecordsRight(o, direction,
                               IF policy # {} THEN policy ELSE NameOfOnly(PoliciesFor(t, direction, q.policies)), q)
             ELSE o \in {Skipped, Failed}
<1>. DEFINE o == Resolve(Violated(a, b, q.message[1], q.message[2], direction, policy), x, y, CacheOf(q))
            t == Subject(direction, q)
            sub == IF direction = "Ingress" THEN y ELSE x
            peer == IF direction = "Ingress" THEN x ELSE y
            pol == IF policy # {} THEN policy ELSE ResolveDenyingPolicy(sub.ref, direction, CacheOf(q))
            name == IF policy # {} THEN policy ELSE NameOfOnly(PoliciesFor(t, direction, q.policies))
<1>1. Resolves(sub, t, q) /\ Resolves(peer, Peer(direction, q), q)
  BY DEF Subject, Peer
<1>2. IF sub.status = "ok" THEN o = Violated(x.ref, y.ref, q.message[1], q.message[2], direction, pol)
      ELSE o \in {Skipped, Failed}
  <2>. HIDE DEF o
  <2>. QED BY ViolationResolved, ZenonT(30) DEF o
<1>3. CASE ~Known(t, q)
  BY <1>1, <1>2, <1>3 DEF Resolves
<1>4. CASE Known(t, q)
  <2>1. sub.status = "ok" /\ sub.ref = Selected(t)
    BY <1>1, <1>4 DEF Resolves
  <2>2. pol = name
    <3>1. CacheOf(q).policies = q.policies
      BY DEF CacheOf, Informed
    <3>2. Selected(t).namespace = t.pod.namespace /\ Selected(t).kind = t.kind /\ Selected(t).name = t.name
      BY DEF Selected, Root, WorkloadRef
    <3>3. ResolveDenyingPolicy(Selected(t), direction, CacheOf(q)) = NameOfOnly(PoliciesFor(t, direction, q.policies))
      <4>. HIDE DEF t
      <4>. QED BY <3>1, <3>2, OnlyPolicyFound
    <3>. HIDE DEF sub, t
    <3>. QED BY <2>1, <3>3
  <2>3. o = Violated(x.ref, y.ref, q.message[1], q.message[2], direction, name)
    BY <1>2, <2>1, <2>2
  <2>4. /\ o.outcome = "violation" /\ o.direction = direction /\ o.policy = name
        /\ o.port = q.message[1] /\ o.proto = q.message[2] /\ o.source = x.ref /\ o.dest = y.ref
    <3>. HIDE DEF o, name
    <3>. QED BY <2>3, ViolatedFields
  <2>5. SubjectRef(o) = sub.ref /\ PeerRef(o) = peer.ref
    BY <2>4, ZenonT(30) DEF SubjectRef, PeerRef
  <2>6. IsSupported(peer.ref) => Same(peer.ref, Peer(direction, q))
    BY <1>1 DEF Resolves
  <2>7. RecordsRight(o, direction, name, q)
    <3>. HIDE DEF o, name, sub, peer
    <3>. QED BY <2>1, <2>4, <2>5, <2>6 DEF RecordsRight
  <2>. QED BY <1>4, <2>7, ZenonT(30)
<1>. QED BY <1>3, <1>4

(* The drops of a policy that must be recorded. *)
Valid(q) == q.message \in (0 .. MaxValidPort) \X {"TCP", "UDP"}
ToRecord(q, direction, reason) ==
    /\ reason \in {"POLICY_DENIED", "POLICY_DENY"} /\ direction # "TRAFFIC_DIRECTION_UNKNOWN"
    /\ Valid(q) /\ Missing \notin {q.source, q.dest}
    /\ Known(Subject(PolicyType(direction), q), q)

\* What becomes of a flow that Hubble saw dropped.
LEMMA DroppedMade ==
  ASSUME NEW q, Flow(q), NEW named \in BOOLEAN, NEW reason,
         NEW direction \in {"EGRESS", "INGRESS", "TRAFFIC_DIRECTION_UNKNOWN"},
         NEW o \in ProcessCiliumFlow(HubbleFlow(q, direction, "DROPPED", reason, named), CacheOf(q))
  PROVE  IF ToRecord(q, direction, reason)
         THEN RecordsRight(o, PolicyType(direction),
                           NameOfOnly(PoliciesFor(Subject(PolicyType(direction), q), PolicyType(direction), q.policies)), q)
         ELSE o \in {Skipped, Failed}
<1>. DEFINE f == HubbleFlow(q, direction, "DROPPED", reason, named)
            s == CiliumWorkloadRef(HubbleEndpoint(q.source, named))
            d == CiliumWorkloadRef(HubbleEndpoint(q.dest, named))
            parsed == ParseCiliumFlow(f)
            a == OrByAddress(s.ref, "sourceIP")
            b == OrByAddress(d.ref, "destIP")
            type == PolicyType(direction)
            t == Subject(type, q)
            cache == CacheOf(q)
            counts == /\ q.message[2] \in {"TCP", "UDP"} /\ ~(q.message[1] > MaxValidPort)
                      /\ ~s.error /\ ~d.error
                      /\ reason \in {"POLICY_DENIED", "POLICY_DENY"}
                      /\ direction # "TRAFFIC_DIRECTION_UNKNOWN"
                      /\ ~(direction = "EGRESS" /\ s.skip) /\ ~(direction = "INGRESS" /\ d.skip)
            violated == Violated(a, b, q.message[1], q.message[2], type, {})
<1>1. Seen(s, q.source, q) /\ Seen(d, q.dest, q)
  BY EndSeen, ZenonT(30) DEF Flow
<1>2. /\ f.source = HubbleEndpoint(q.source, named) /\ f.dest = HubbleEndpoint(q.dest, named)
      /\ f.verdict = "DROPPED" /\ f.port = q.message[1] /\ f.l4 = q.message[2]
      /\ f.sourceIP = "sourceIP" /\ f.destIP = "destIP"
      /\ f.reason = reason /\ f.direction = direction /\ f.type = "flow" /\ f.reply = "unset"
  BY DEF HubbleFlow
<1>3. IF counts THEN parsed = violated ELSE parsed \in {Skipped, Failed}
  <2>1. parsed = IF q.message[2] \notin {"TCP", "UDP", "none"} THEN Skipped
                 ELSE IF q.message[2] = "none" \/ q.message[1] > MaxValidPort \/ s.error \/ d.error THEN Failed
                 ELSE CiliumViolation(f, s, d)
    <3>. HIDE DEF f
    <3>. QED BY <1>2, ZenonT(30) DEF ParseCiliumFlow
  <2>2. CiliumViolation(f, s, d) =
           IF /\ reason \in {"POLICY_DENIED", "POLICY_DENY"} /\ direction # "TRAFFIC_DIRECTION_UNKNOWN"
              /\ ~(direction = "EGRESS" /\ s.skip) /\ ~(direction = "INGRESS" /\ d.skip)
           THEN violated
           ELSE IF reason \in {"POLICY_DENIED", "POLICY_DENY"} /\ direction = "TRAFFIC_DIRECTION_UNKNOWN"
           THEN Failed ELSE Skipped
    <3>. HIDE DEF f, s, d
    <3>. QED BY <1>2 DEF CiliumViolation
  <2>. HIDE DEF f, s, d, parsed, violated
  <2>. QED BY <2>1, <2>2
<1>4. /\ Skipped.outcome = "skip" /\ Failed.outcome = "error"
      /\ violated.outcome = "violation" /\ violated.source = a /\ violated.dest = b
  <2>1. Skipped.outcome = "skip" /\ Failed.outcome = "error"
    BY DEF Skipped, Failed, Result
  <2>. HIDE DEF a, b
  <2>. QED BY <2>1, ViolatedFields
<1>5. o \in IF parsed.outcome \notin {"enqueue", "violation"} THEN {parsed}
            ELSE {Resolve(parsed, x, y, cache) : x \in ResolveCilium(parsed.source, cache),
                                                 y \in ResolveCilium(parsed.dest, cache)}
  <2>1. o \in ProcessCiliumFlow(f, cache)
    OBVIOUS
  <2>. HIDE DEF f, cache
  <2>. QED BY <2>1 DEF ProcessCiliumFlow
<1>6. ToRecord(q, direction, reason) <=> counts /\ Known(t, q)
  <2>1. Valid(q) <=> q.message[2] \in {"TCP", "UDP"} /\ ~(q.message[1] > MaxValidPort)
    BY PortLimit DEF Valid, Flow
  <2>2. Missing \notin {q.source, q.dest} <=> ~s.error /\ ~d.error
    BY <1>1, ZenonT(30) DEF Seen
  <2>3. ASSUME counts \/ ToRecord(q, direction, reason), Known(t, q)
        PROVE  ~(direction = "EGRESS" /\ s.skip) /\ ~(direction = "INGRESS" /\ d.skip)
    <3>1. ~s.error /\ ~d.error
      BY <2>2, <2>3 DEF ToRecord
    <3>2. direction = "EGRESS" => t = q.source
      BY DEF Subject, PolicyType
    <3>3. direction = "INGRESS" => t = q.dest
      BY DEF Subject, PolicyType
    <3>. HIDE DEF t, s, d
    <3>. QED BY <1>1, <2>3, <3>1, <3>2, <3>3 DEF Seen
  <2>. HIDE DEF s, d
  <2>. QED BY <2>1, <2>2, <2>3 DEF ToRecord
<1>. HIDE DEF f, s, d, parsed, a, b, cache, counts, violated
<1>7. CASE ~counts
  <2>1. parsed \in {Skipped, Failed}
    BY <1>3, <1>7
  <2>2. o = parsed
    BY <1>4, <1>5, <2>1
  <2>. QED BY <1>6, <1>7, <2>1, <2>2
<1>8. CASE counts
  <2>1. parsed = violated
    BY <1>3, <1>8
  <2>2. /\ \A r \in ResolveCilium(a, cache) : Resolves(r, q.source, q)
        /\ \A r \in ResolveCilium(b, cache) : Resolves(r, q.dest, q)
    BY <1>1, <1>8, ZenonT(30) DEF Seen, a, b, counts, cache
  <2>3. PICK x \in ResolveCilium(a, cache), y \in ResolveCilium(b, cache) : o = Resolve(violated, x, y, cache)
    BY <1>4, <1>5, <2>1
  <2>4. Resolves(x, q.source, q) /\ Resolves(y, q.dest, q)
    BY <2>2
  <2>5. type \in {"Ingress", "Egress"}
    BY DEF PolicyType
  <2>6. IF Known(t, q)
        THEN RecordsRight(o, type, NameOfOnly(PoliciesFor(t, type, q.policies)), q)
        ELSE o \in {Skipped, Failed}
    <3>. HIDE DEF type
    <3>. QED BY <2>3, <2>4, <2>5, ResolvedRight, ZenonT(30) DEF violated, cache
  <2>. HIDE DEF type, t
  <2>. QED BY <1>6, <1>8, <2>6 DEF type, t
<1>. QED BY <1>7, <1>8

(* What must become of each report of Hubble. *)
HubbleRecords(r, q) ==
    /\ q.verdict # "lost" /\ Valid(q) /\ Missing \notin {q.source, q.dest}
    /\ Known(Subject(PolicyType(r.direction), q), q)

HubbleRight(a, q) ==
    LET type == PolicyType(a.report.direction)
    IN  \/ /\ a.report.verdict = "FORWARDED"
           /\ a.outcome.outcome = "enqueue" => a.report.reply = "no"
           /\ LearnsRight(a.outcome, q)
        \/ /\ a.report.verdict = "DROPPED"
           /\ q.verdict # "lost" => a.report.direction \in {"EGRESS", "INGRESS"}
           /\ IF HubbleRecords(a.report, q)
              THEN RecordsRight(a.outcome, type, NameOfOnly(PoliciesFor(Subject(type, q), type, q.policies)), q)
              ELSE a.outcome \in {Skipped, Failed}

\* Neither a reply nor a lost event is looked into.
LEMMA NotAFlow ==
  ASSUME NEW r, NEW cache, r.type # "flow" \/ r.reply = "yes",
         NEW o \in ProcessCiliumFlow(r, cache)
  PROVE  o = Skipped
<1>1. ParseCiliumFlow(r) = Skipped
  BY DEF ParseCiliumFlow
<1>2. Skipped.outcome = "skip"
  BY DEF Skipped, Result
<1>. QED BY <1>1, <1>2 DEF ProcessCiliumFlow

\* A flow that went through, ...
LEMMA ForwardedRight ==
  ASSUME NEW q, Flow(q), NEW named \in BOOLEAN, NEW direction,
         NEW o \in ProcessCiliumFlow(HubbleFlow(q, direction, "FORWARDED", "none", named), CacheOf(q))
  PROVE  HubbleRight(Made(HubbleFlow(q, direction, "FORWARDED", "none", named), o), q)
<1>. DEFINE r == HubbleFlow(q, direction, "FORWARDED", "none", named)
<1>1. r.verdict = "FORWARDED" /\ r.reply = "no"
  BY ZenonT(30) DEF HubbleFlow
<1>2. LearnsRight(o, q)
  BY ForwardedMade
<1>3. Made(r, o).report = r /\ Made(r, o).outcome = o
  BY DEF Made
<1>. HIDE DEF r
<1>. QED BY <1>1, <1>2, <1>3, ZenonT(30) DEF HubbleRight, r

\* ... a flow that was not looked into, ...
LEMMA PassedOverRight ==
  ASSUME NEW q, NEW r, r.verdict = "FORWARDED", r.type # "flow" \/ r.reply = "yes",
         NEW o \in ProcessCiliumFlow(r, CacheOf(q))
  PROVE  HubbleRight(Made(r, o), q)
<1>1. o = Skipped /\ Skipped.outcome = "skip"
  BY NotAFlow, ZenonT(30) DEF Skipped, Result
<1>2. Made(r, o).report = r /\ Made(r, o).outcome = o
  BY DEF Made
<1>. QED BY <1>1, <1>2 DEF HubbleRight, LearnsRight

\* ... and one that was dropped.
LEMMA DroppedRight ==
  ASSUME NEW q, Flow(q), NEW named \in BOOLEAN, NEW reason,
         NEW direction \in {"EGRESS", "INGRESS", "TRAFFIC_DIRECTION_UNKNOWN"},
         q.verdict # "lost" <=> /\ reason \in {"POLICY_DENIED", "POLICY_DENY"}
                                /\ direction # "TRAFFIC_DIRECTION_UNKNOWN",
         NEW o \in ProcessCiliumFlow(HubbleFlow(q, direction, "DROPPED", reason, named), CacheOf(q))
  PROVE  HubbleRight(Made(HubbleFlow(q, direction, "DROPPED", reason, named), o), q)
<1>. DEFINE r == HubbleFlow(q, direction, "DROPPED", reason, named)
            type == PolicyType(direction)
<1>1. r.verdict = "DROPPED" /\ r.direction = direction
  BY ZenonT(30) DEF HubbleFlow
<1>2. ToRecord(q, direction, reason) <=> HubbleRecords(r, q)
  BY <1>1 DEF ToRecord, HubbleRecords
<1>3. IF ToRecord(q, direction, reason)
      THEN RecordsRight(o, type, NameOfOnly(PoliciesFor(Subject(type, q), type, q.policies)), q)
      ELSE o \in {Skipped, Failed}
  BY DroppedMade
<1>4. Made(r, o).report = r /\ Made(r, o).outcome = o
  BY DEF Made
<1>. HIDE DEF r
<1>. QED BY <1>1, <1>2, <1>3, <1>4, ZenonT(30) DEF HubbleRight, r

\* So every report becomes what it must.
LEMMA HubbleMade ==
  ASSUME NEW q, Flow(q), NEW a \in MadeOfHubble(q)
  PROVE  HubbleRight(a, q)
<1>. DEFINE forwarded(direction) == {HubbleFlow(q, direction, "FORWARDED", "none", named) : named \in BOOLEAN}
            drops(direction, reason) == {HubbleFlow(q, direction, "DROPPED", reason, named) : named \in BOOLEAN}
<1>1. PICK r \in HubbleReports(q) : \E o \in ProcessCiliumFlow(r, CacheOf(q)) : a = Made(r, o)
  BY DEF MadeOfHubble
<1>2. PICK o \in ProcessCiliumFlow(r, CacheOf(q)) : a = Made(r, o)
  BY <1>1
<1>3. ASSUME NEW direction, r \in forwarded(direction) PROVE HubbleRight(a, q)
  BY <1>2, <1>3, ForwardedRight
<1>4. ASSUME NEW x \in forwarded("INGRESS"),
             r = [x EXCEPT !.reply = "yes"] \/ r = [x EXCEPT !.type = "lost"]
      PROVE  HubbleRight(a, q)
  <2>1. r.verdict = "FORWARDED" /\ (r.type # "flow" \/ r.reply = "yes")
    BY <1>4 DEF HubbleFlow
  <2>. QED BY <1>2, <2>1, PassedOverRight
<1>5. ASSUME NEW direction \in {"EGRESS", "INGRESS", "TRAFFIC_DIRECTION_UNKNOWN"}, NEW reason,
             r \in drops(direction, reason),
             q.verdict # "lost" <=> /\ reason \in {"POLICY_DENIED", "POLICY_DENY"}
                                    /\ direction # "TRAFFIC_DIRECTION_UNKNOWN"
      PROVE  HubbleRight(a, q)
  BY <1>2, <1>5, DroppedRight
<1>6. CASE q.verdict = "allowed"
  <2>1. HubbleReports(q) = forwarded("EGRESS") \cup forwarded("INGRESS")
                           \cup {[f EXCEPT !.reply = "yes"] : f \in forwarded("INGRESS")}
                           \cup {[f EXCEPT !.type = "lost"] : f \in forwarded("INGRESS")}
    BY <1>6 DEF HubbleReports
  <2>. HIDE DEF forwarded
  <2>. QED BY <1>3, <1>4, <2>1
<1>7. CASE q.verdict = "deniedAtSource"
  <2>1. HubbleReports(q) = drops("EGRESS", "POLICY_DENIED")
    BY <1>7 DEF HubbleReports
  <2>. HIDE DEF drops
  <2>. QED BY <1>5, <1>7, <2>1
<1>8. CASE q.verdict = "deniedAtDest"
  <2>1. HubbleReports(q) = forwarded("EGRESS") \cup drops("INGRESS", "POLICY_DENY")
    BY <1>8 DEF HubbleReports
  <2>. HIDE DEF forwarded, drops
  <2>. QED BY <1>3, <1>5, <1>8, <2>1
<1>9. CASE q.verdict = "lost"
  <2>1. HubbleReports(q) = drops("EGRESS", "INVALID_PACKET")
                           \cup drops("TRAFFIC_DIRECTION_UNKNOWN", "POLICY_DENIED")
    BY <1>9 DEF HubbleReports
  <2>. HIDE DEF drops
  <2>. QED BY <1>5, <1>9, <2>1
<1>. QED BY <1>6, <1>7, <1>8, <1>9 DEF Flow, Verdicts

-----------------------------------------------------------------------------
\* What begins with the generate name of a pod, ...
LEMMA JoinedPrefix ==
  ASSUME NEW S, NEW s \in Seq(S), NEW t \in Seq(S)
  PROVE  HasPrefix(s \o t, s)
  BY DEF HasPrefix

\* ... what is appended one after the other, ...
LEMMA AppendedTwice ==
  ASSUME NEW S, NEW s \in Seq(S), NEW a \in S, NEW b \in S
  PROVE  (s \o <<a>>) \o <<b>> = s \o <<a, b>> /\ Len(s \o <<a, b>>) = Len(s) + 2
<1>. DEFINE c == s \o <<a, b>>
            d == (s \o <<a>>) \o <<b>>
<1>1. /\ c \in Seq(S) /\ Len(c) = Len(s) + 2
      /\ \A i \in 1 .. Len(s) : c[i] = s[i]
      /\ c[Len(s) + 1] = a /\ c[Len(s) + 2] = b
  OBVIOUS
<1>2. /\ d \in Seq(S) /\ Len(d) = Len(s) + 2
      /\ \A i \in 1 .. Len(s) : d[i] = s[i]
      /\ d[Len(s) + 1] = a /\ d[Len(s) + 2] = b
  OBVIOUS
<1>. HIDE DEF c, d
<1>3. Len(s) \in Nat
  OBVIOUS
<1>4. c = d
  BY <1>1, <1>2, <1>3
<1>. QED BY <1>1, <1>4 DEF c, d

\* ... and what Goldmane makes of that name.
LEMMA Starred ==
  ASSUME NEW S, NEW stem \in Seq(S), stem # << >>, NEW gen, gen = stem \o <<"-">>
  PROVE  LET name == gen \o <<"*">>
         IN  /\ HasSuffix(name, <<"-", "*">>) /\ Len(name) # 2 /\ name # NoName /\ gen # NoName
             /\ SubSeq(name, 1, Len(name) - 1) = gen
<1>. DEFINE name == gen \o <<"*">>
            two == <<"-", "*">>
<1>1. PICK parts : stem \in Seq(parts) /\ "-" \in parts /\ "*" \in parts
  <2>1. stem \in Seq(S \cup {"-", "*"})
    OBVIOUS
  <2>. QED BY <2>1
<1>2. two \in Seq(parts)
  BY <1>1, Pair
<1>3. <<"*">> \in Seq(parts) /\ Len(<<"*">>) = 1 /\ <<"-">> \in Seq(parts)
  BY <1>1
<1>4. gen \in Seq(parts) /\ Len(gen) = Len(stem) + 1
  BY <1>1, <1>3
<1>5. name = stem \o two /\ Len(name) = Len(stem) + 2
  BY <1>1, AppendedTwice
<1>6. HasSuffix(name, two)
  <2>. HIDE DEF two, name
  <2>. QED BY <1>1, <1>2, <1>5, JoinedSuffix
<1>7. Len(stem) > 0 /\ Len(stem) \in Nat /\ Len(NoName) = 0
  BY <1>1 DEF NoName
<1>8. SubSeq(name, 1, Len(name) - 1) = gen
  BY <1>3, <1>4, JoinedRest
<1>. HIDE DEF name
<1>. QED BY <1>4, <1>5, <1>6, <1>7, <1>8 DEF name

(* How Goldmane names an end. *)
GoldmaneRef(t) == WorkloadRef(GoldmaneEndpoint(t).namespace, "", GoldmaneEndpoint(t).name)

\* Pods of one workload are known together.
LEMMA SameRoot ==
  ASSUME NEW q, NEW t, NEW u, Root(u) = Root(t)
  PROVE  Selected(u) = Selected(t) /\ (Known(u, q) <=> Known(t, q))
<1>1. u.pod.namespace = t.pod.namespace /\ u.kind = t.kind /\ u.name = t.name
  <2>1. Root(u).namespace = Root(t).namespace /\ Root(u).kind = Root(t).kind /\ Root(u).name = Root(t).name
    OBVIOUS
  <2>. QED BY <2>1 DEF Root, WorkloadRef
<1>2. Workload(u) = Workload(t)
  BY <1>1 DEF Workload
<1>. QED BY <1>1, <1>2 DEF Selected, Known, IsKept

\* What one of the pods that a name stands for resolves to.
LEMMA PodResolves ==
  ASSUME NEW q, Flow(q), NEW t \in q.present, NEW u \in q.present, Root(u) = Root(t),
         NEW ref, ~IsSupported(ref)
  PROVE  LET found == GetWorkload(u.pod.namespace, u.pod.name, CacheOf(q))
             res == IF found = {} THEN {Resolution("error", ref)}
                    ELSE {IF IsSupported(r) THEN Resolution("ok", r) ELSE Resolution("skip", ref) : r \in found}
         IN  res # {} /\ \A r \in res : Resolves(r, t, q)
<1>. DEFINE found == GetWorkload(u.pod.namespace, u.pod.name, CacheOf(q))
            res == IF found = {} THEN {Resolution("error", ref)}
                   ELSE {IF IsSupported(r) THEN Resolution("ok", r) ELSE Resolution("skip", ref) : r \in found}
<1>0. IsPod(t) /\ Selected(u) = Selected(t) /\ (Known(u, q) <=> Known(t, q))
  BY SameRoot, ZenonT(30) DEF Flow, IsThing
<1>1. /\ Known(t, q) => found = {Selected(t)}
      /\ ~Known(t, q) => \A r \in found : ~IsSupported(r)
  BY <1>0, WorkloadOfPod
<1>2. ASSUME Known(t, q) PROVE res # {} /\ \A r \in res : Resolves(r, t, q)
  <2>1. Same(Selected(t), t) /\ IsSupported(Selected(t))
    BY <1>0, <1>2, SelectedIsSame DEF Known
  <2>2. res = {Resolution("ok", Selected(t))}
    <3>. HIDE DEF found
    <3>. QED BY <1>1, <1>2, <2>1
  <2>3. Resolves(Resolution("ok", Selected(t)), t, q)
    BY <1>2, <2>1 DEF Resolves, Resolution
  <2>. HIDE DEF res
  <2>. QED BY <2>2, <2>3
<1>3. ASSUME ~Known(t, q) PROVE res # {} /\ \A r \in res : Resolves(r, t, q)
  <2>1. Resolves(Resolution("error", ref), t, q) /\ Resolves(Resolution("skip", ref), t, q)
    BY <1>3 DEF Resolves, Resolution
  <2>. HIDE DEF found
  <2>2. CASE found = {}
    BY <2>1, <2>2
  <2>3. CASE found # {}
    <3>1. res = {Resolution("skip", ref) : r \in found}
      BY <1>1, <1>3, <2>3
    <3>. HIDE DEF res
    <3>. QED BY <2>1, <2>3, <3>1
  <2>. QED BY <2>2, <2>3
<1>4. res # {} /\ \A r \in res : Resolves(r, t, q)
  <2>. HIDE DEF res
  <2>. QED BY <1>2, <1>3
<1>. QED BY <1>4, ZenonT(30)

\* A pod that Goldmane reports, by the name it shares with others.
LEMMA CalicoResolves ==
  ASSUME NEW q, Flow(q), NEW t \in q.present, Alone(t, q)
  PROVE  LET res == ResolveCalico(GoldmaneRef(t), CacheOf(q))
         IN  res # {} /\ \A r \in res : Resolves(r, t, q)
<1>. DEFINE gen == t.pod.generateName
            name == IF gen = NoName THEN t.pod.name ELSE gen \o <<"*">>
            ref == WorkloadRef(t.pod.namespace, "", name)
            cache == CacheOf(q)
            Of(p) == LET found == GetWorkload(p.namespace, p.name, cache)
                     IN  IF found = {} THEN {Resolution("error", ref)}
                         ELSE {IF IsSupported(r) THEN Resolution("ok", r) ELSE Resolution("skip", ref) : r \in found}
            pods == PodsOf(t.pod.namespace, SubSeq(name, 1, Len(name) - 1), cache)
            res == ResolveCalico(ref, cache)
<1>0. IsThing(t) /\ IsPod(t)
  BY ZenonT(30) DEF Flow, IsThing
<1>1. GoldmaneRef(t) = ref
  <2>1. t # FarEnd /\ t # Node /\ t # Missing
    BY <1>0 DEF IsPod, Others
  <2>2. GoldmaneEndpoint(t) = [kind |-> "WorkloadEndpoint", namespace |-> t.pod.namespace, name |-> name]
    BY <2>1 DEF GoldmaneEndpoint
  <2>. HIDE DEF name
  <2>. QED BY <2>2 DEF GoldmaneRef
<1>2. ref.namespace = t.pod.namespace /\ ref.name = name /\ ~IsSupported(ref)
  <2>. HIDE DEF name
  <2>. QED BY DEF WorkloadRef, IsSupported, Supported
<1>3. res = IF ~HasSuffix(name, <<"-", "*">>) \/ Len(name) = 2 \/ pods = {} THEN {Resolution("skip", ref)}
            ELSE UNION {Of(p) : p \in pods}
  <2>. HIDE DEF name, ref
  <2>. QED BY <1>2, ZenonT(30) DEF ResolveCalico
<1>4. ASSUME gen = NoName PROVE res # {} /\ \A r \in res : Resolves(r, t, q)
  <2>1. ~HasSuffix(name, <<"-", "*">>) /\ ~Known(t, q)
    BY <1>0, <1>4, ZenonT(30) DEF IsThing, Known
  <2>. HIDE DEF name, ref, res, pods
  <2>2. Resolves(Resolution("skip", ref), t, q)
    BY <1>2, <2>1 DEF Resolves, Resolution
  <2>. QED BY <1>3, <2>1, <2>2
<1>5. ASSUME gen # NoName PROVE res # {} /\ \A r \in res : Resolves(r, t, q)
  <2>1. HasSuffix(name, <<"-", "*">>) /\ Len(name) # 2 /\ SubSeq(name, 1, Len(name) - 1) = gen
    <3>1. PICK parts : \E stem \in Seq(parts) : stem # << >> /\ gen = stem \o <<"-">>
      BY <1>0, <1>5, ZenonT(30) DEF IsThing, Generated
    <3>. QED BY <1>5, <3>1, Starred, ZenonT(30)
  <2>2. ASSUME NEW u \in q.present, u.pod.generateName = gen PROVE HasPrefix(u.pod.name, gen)
    <3>1. Generated(u.pod)
      BY <1>5, <2>2, ZenonT(30) DEF Flow, IsThing
    <3>2. PICK parts : \E stem, rest \in Seq(parts) :
              gen = stem \o <<"-">> /\ u.pod.name = gen \o rest
      BY <2>2, <3>1, ZenonT(30) DEF Generated
    <3>3. PICK stem \in Seq(parts), rest \in Seq(parts) :
              gen = stem \o <<"-">> /\ u.pod.name = gen \o rest
      BY <3>2
    <3>4. PICK all : rest \in Seq(all) /\ gen \in Seq(all)
      <4>1. rest \in Seq(parts \cup {"-"}) /\ stem \o <<"-">> \in Seq(parts \cup {"-"})
        OBVIOUS
      <4>. QED BY <3>3, <4>1
    <3>. QED BY <3>3, <3>4, JoinedPrefix, ZenonT(30)
  <2>3. pods = {p \in {u.pod : u \in q.present} :
                   /\ t.pod.namespace = "" \/ p.namespace = t.pod.namespace
                   /\ p.generateName = gen \/ HasPrefix(p.name, gen)}
    <3>1. cache.pods = {u.pod : u \in q.present}
      BY DEF CacheOf, Informed
    <3>. HIDE DEF name, cache
    <3>. QED BY <2>1, <3>1, ZenonT(30) DEF PodsOf
  <2>4. t.pod \in pods
    <3>. HIDE DEF pods
    <3>. QED BY <2>3, ZenonT(30)
  <2>5. ASSUME NEW p \in pods PROVE Of(p) # {} /\ \A r \in Of(p) : Resolves(r, t, q)
    <3>1. PICK u \in q.present : /\ p = u.pod
                                 /\ t.pod.namespace = "" \/ p.namespace = t.pod.namespace
                                 /\ p.generateName = gen \/ HasPrefix(p.name, gen)
      <4>. HIDE DEF pods
      <4>. QED BY <2>3, <2>5, ZenonT(30)
    <3>2. t.pod.namespace # ""
      BY <1>0, ZenonT(30) DEF IsThing
    <3>3. Root(u) = Root(t)
      BY <1>0, <1>5, <2>2, <3>1, <3>2, ZenonT(30) DEF Alone
    <3>4. Of(u.pod) # {} /\ \A r \in Of(u.pod) : Resolves(r, t, q)
      <4>. HIDE DEF ref
      <4>. QED BY <1>2, <3>3, PodResolves, ZenonT(30)
    <3>. QED BY <3>1, <3>4, ZenonT(30)
  <2>. HIDE DEF name, ref, res, pods, Of
  <2>6. res = UNION {Of(p) : p \in pods}
    BY <1>3, <2>1, <2>4
  <2>. QED BY <2>4, <2>5, <2>6
<1>. QED BY <1>1, <1>4, <1>5, ZenonT(30)

(* What can be the peer of a violation: a pod, or an address. *)
MayBePeer(t) == IsPod(t) \/ t = FarEnd

\* What Goldmane says an end is, and what becomes of its name.
LEMMA EndReported ==
  ASSUME NEW q, Flow(q), NEW t \in q.present \cup Others
  PROVE  /\ IsWorkloadEndpoint(GoldmaneEndpoint(t)) <=> IsPod(t)
         /\ IsViolationPeer(GoldmaneEndpoint(t)) <=> MayBePeer(t)
         /\ MayBePeer(t) /\ Alone(t, q) =>
               LET res == ResolveCalico(GoldmaneRef(t), CacheOf(q))
               IN  res # {} /\ \A r \in res : Resolves(r, t, q)
<1>. DEFINE e == GoldmaneEndpoint(t)
<1>0. FarEnd # Missing /\ FarEnd # Node /\ Node # Missing
  BY ZenonT(30) DEF FarEnd, Missing, Node, Thing
<1>1. CASE IsPod(t)
  <2>. DEFINE gen == t.pod.generateName
              name == IF gen = NoName THEN t.pod.name ELSE gen \o <<"*">>
  <2>1. t \in q.present /\ t # FarEnd /\ t # Node /\ t # Missing
    BY <1>1 DEF IsPod, Others
  <2>2. e = [kind |-> "WorkloadEndpoint", namespace |-> t.pod.namespace, name |-> name]
    BY <2>1 DEF GoldmaneEndpoint
  <2>3. name # NoName
    <3>1. CASE gen = NoName
      BY <2>1, <3>1, ZenonT(30) DEF Flow, IsThing
    <3>2. CASE gen # NoName
      <4>1. PICK parts : \E stem \in Seq(parts) : stem # << >> /\ gen = stem \o <<"-">>
        BY <2>1, <3>2, ZenonT(30) DEF Flow, IsThing, Generated
      <4>. QED BY <3>2, <4>1, Starred, ZenonT(30)
    <3>. QED BY <3>1, <3>2
  <2>4. t.pod.namespace # ""
    BY <2>1, ZenonT(30) DEF Flow, IsThing
  <2>. HIDE DEF name
  <2>5. e.kind = "WorkloadEndpoint" /\ e.namespace # "" /\ e.name # NoName
    <3>1. e.kind = "WorkloadEndpoint" /\ e.namespace = t.pod.namespace /\ e.name = name
      <4>. HIDE DEF e
      <4>. QED BY <2>2
    <3>. HIDE DEF e
    <3>. QED BY <2>3, <2>4, <3>1, ZenonT(30)
  <2>6. Alone(t, q) => LET res == ResolveCalico(GoldmaneRef(t), CacheOf(q))
                       IN  res # {} /\ \A r \in res : Resolves(r, t, q)
    BY <2>1, CalicoResolves
  <2>. HIDE DEF e
  <2>. QED BY <1>1, <2>5, <2>6, ZenonT(30) DEF IsWorkloadEndpoint, IsViolationPeer, MayBePeer, e
<1>2. CASE t = FarEnd
  <2>. DEFINE ref == GoldmaneRef(t)
  <2>1. e = [kind |-> "Network", namespace |-> "", name |-> <<"pub">>]
    BY <1>0, <1>2 DEF GoldmaneEndpoint
  <2>2. e.kind = "Network" /\ e.namespace = "" /\ e.name = <<"pub">> /\ e.name # NoName
    <3>1. e.kind = "Network" /\ e.namespace = "" /\ e.name = <<"pub">>
      <4>. HIDE DEF e
      <4>. QED BY <2>1, ZenonT(30)
    <3>2. <<"pub">> # NoName
      BY DEF NoName
    <3>. HIDE DEF e
    <3>. QED BY <3>1, <3>2, ZenonT(30)
  <2>3. ~IsPod(t) /\ ~Known(t, q)
    BY <1>2 DEF IsPod, Others, Known, IsKept, Supported, FarEnd, Thing
  <2>4. ref.name = <<"pub">> /\ ~IsSupported(ref)
    BY <2>2, ZenonT(30) DEF GoldmaneRef, WorkloadRef, IsSupported, Supported
  <2>5. ~HasSuffix(<<"pub">>, <<"-", "*">>)
    <3>1. Len(<<"pub">>) = 1 /\ Len(<<"-", "*">>) = 2 /\ ~(2 <= 1)
      OBVIOUS
    <3>. QED BY <3>1 DEF HasSuffix
  <2>. HIDE DEF ref, e
  <2>6. ResolveCalico(ref, CacheOf(q)) = {Resolution("skip", ref)}
    BY <2>4, <2>5, ZenonT(30) DEF ResolveCalico
  <2>7. Resolves(Resolution("skip", ref), t, q)
    BY <2>3, <2>4 DEF Resolves, Resolution
  <2>8. LET res == ResolveCalico(ref, CacheOf(q)) IN res # {} /\ \A r \in res : Resolves(r, t, q)
    BY <2>6, <2>7
  <2>. QED BY <1>2, <2>2, <2>3, <2>8, ZenonT(30) DEF IsWorkloadEndpoint, IsViolationPeer, MayBePeer, e, ref
<1>3. CASE t \in {Node, Missing}
  <2>1. e.kind \in {"HostEndpoint", "EndpointTypeUnspecified"}
    BY <1>0, <1>3 DEF GoldmaneEndpoint
  <2>2. ~IsPod(t) /\ t # FarEnd
    BY <1>0, <1>3 DEF IsPod, Others
  <2>. HIDE DEF e
  <2>. QED BY <2>1, <2>2, ZenonT(30) DEF IsWorkloadEndpoint, IsViolationPeer, MayBePeer, e
<1>. QED BY <1>1, <1>2, <1>3, ZenonT(30) DEF IsPod, Others

(* The messages Goldmane's flows count with. *)
Sound(q) == q.message \in (1 .. MaxValidPort) \X {"TCP", "UDP"}

\* Whatever has neither verdict is dropped.
LEMMA UnspecifiedMade ==
  ASSUME NEW q, NEW reporter, NEW policies,
         NEW o \in ProcessCalicoFlow(GoldmaneFlow(q, reporter, "ActionUnspecified", policies), CacheOf(q))
  PROVE  o = Skipped
<1>. DEFINE f == GoldmaneFlow(q, reporter, "ActionUnspecified", policies)
<1>1. f.action = "ActionUnspecified"
  BY DEF GoldmaneFlow
<1>. HIDE DEF f
<1>2. DiscardCalicoFlow(f)
  BY <1>1 DEF DiscardCalicoFlow
<1>3. ParseCalicoFlow(f) = Skipped /\ Skipped.outcome = "skip"
  BY <1>2 DEF ParseCalicoFlow, Skipped, Result
<1>. QED BY <1>3 DEF ProcessCalicoFlow, f

\* What becomes of a flow that one end let through.
LEMMA AllowedMade ==
  ASSUME NEW q, Flow(q), AloneBoth(q), NEW reporter, NEW policies
  PROVE  LET made == ProcessCalicoFlow(GoldmaneFlow(q, reporter, "Allow", policies), CacheOf(q))
         IN  /\ made # {}
             /\ \A o \in made :
                   /\ LearnsRight(o, q)
                   /\ o.outcome = "enqueue" <=>
                         reporter = "Dst" /\ Sound(q) /\ Known(q.source, q) /\ Known(q.dest, q)
<1>. DEFINE f == GoldmaneFlow(q, reporter, "Allow", policies)
            made == ProcessCalicoFlow(f, CacheOf(q))
            a == GoldmaneRef(q.source)
            b == GoldmaneRef(q.dest)
            port == q.message[1]
            proto == q.message[2]
            learned == Learned(a, b, port, proto)
            parsed == ParseCalicoFlow(f)
            cache == CacheOf(q)
            counts == reporter = "Dst" /\ Sound(q) /\ IsPod(q.source) /\ IsPod(q.dest)
            right(o) == /\ LearnsRight(o, q)
                        /\ o.outcome = "enqueue" <=>
                              reporter = "Dst" /\ Sound(q) /\ Known(q.source, q) /\ Known(q.dest, q)
<1>1. /\ f.source = GoldmaneEndpoint(q.source) /\ f.dest = GoldmaneEndpoint(q.dest)
      /\ f.port = port /\ f.proto = proto /\ f.action = "Allow" /\ f.reporter = reporter
  BY DEF GoldmaneFlow
<1>2. q.source \in q.present \cup Others /\ q.dest \in q.present \cup Others
  BY DEF Flow
<1>3. Sound(q) <=> port \in 1 .. MaxValidPort /\ proto \in {"TCP", "UDP"}
  BY PortLimit DEF Sound, Flow
<1>4. parsed = IF counts THEN learned ELSE Skipped
  <2>1. DiscardCalicoFlow(f) <=> \/ port \notin 1 .. MaxValidPort
                                 \/ reporter # "Dst" \/ ~IsPod(q.source) \/ ~IsPod(q.dest)
    <3>. HIDE DEF f
    <3>1. /\ IsWorkloadEndpoint(f.source) <=> IsPod(q.source)
          /\ IsWorkloadEndpoint(f.dest) <=> IsPod(q.dest)
      BY <1>1, <1>2, EndReported
    <3>. QED BY <1>1, <3>1 DEF DiscardCalicoFlow
  <2>2. f.action # "Deny"
    BY <1>1
  <2>3. /\ WorkloadRef(f.source.namespace, "", f.source.name) = a
        /\ WorkloadRef(f.dest.namespace, "", f.dest.name) = b
    BY <1>1, ZenonT(30) DEF GoldmaneRef
  <2>. HIDE DEF f, a, b
  <2>4. parsed = IF DiscardCalicoFlow(f) \/ proto \notin {"TCP", "UDP"} THEN Skipped ELSE learned
    BY <1>1, <2>2, <2>3, ZenonT(30) DEF ParseCalicoFlow
  <2>. HIDE DEF parsed, learned, port, proto
  <2>. QED BY <1>3, <2>1, <2>4
<1>5. made = IF parsed.outcome \notin {"enqueue", "violation"} THEN {parsed}
             ELSE {Resolve(parsed, x, y, cache) : x \in ResolveCalico(parsed.source, cache),
                                                  y \in ResolveCalico(parsed.dest, cache)}
  BY DEF ProcessCalicoFlow
<1>6. /\ Skipped.outcome = "skip" /\ Failed.outcome = "error"
      /\ learned.outcome = "enqueue" /\ learned.source = a /\ learned.dest = b
  <2>1. Skipped.outcome = "skip" /\ Failed.outcome = "error"
    BY DEF Skipped, Failed, Result
  <2>. HIDE DEF a, b
  <2>. QED BY <2>1, LearnedFields
<1>7. \A t : Known(t, q) => IsPod(t)
  BY DEF Known, IsKept, Supported, IsPod, Others, FarEnd, Node, Missing, Thing
<1>8. ASSUME ~counts PROVE made # {} /\ \A o \in made : right(o)
  <2>1. made = {Skipped}
    <3>. HIDE DEF parsed, made, counts
    <3>. QED BY <1>4, <1>5, <1>6, <1>8
  <2>2. right(Skipped)
    BY <1>6, <1>7, <1>8 DEF LearnsRight
  <2>. HIDE DEF right, made
  <2>. QED BY <2>1, <2>2
<1>9. ASSUME counts PROVE made # {} /\ \A o \in made : right(o)
  <2>. DEFINE froms == ResolveCalico(a, cache)
              tos == ResolveCalico(b, cache)
  <2>1. /\ froms # {} /\ \A r \in froms : Resolves(r, q.source, q)
        /\ tos # {} /\ \A r \in tos : Resolves(r, q.dest, q)
    BY <1>2, <1>9, EndReported, ZenonT(30) DEF AloneBoth, MayBePeer
  <2>2. made = {Resolve(learned, x, y, cache) : x \in froms, y \in tos}
    <3>. HIDE DEF parsed, made, counts, learned, a, b
    <3>. QED BY <1>4, <1>5, <1>6, <1>9
  <2>3. ASSUME NEW x \in froms, NEW y \in tos PROVE right(Resolve(learned, x, y, cache))
    <3>1. Resolves(x, q.source, q) /\ Resolves(y, q.dest, q)
      BY <2>1
    <3>. DEFINE o == Resolve(learned, x, y, cache)
    <3>2. IF x.status = "ok" /\ y.status = "ok" THEN o = Learned(x.ref, y.ref, port, proto)
          ELSE o \in {Skipped, Failed}
      <4>. HIDE DEF a, b, port, proto
      <4>. QED BY LearnResolved
    <3>3. \A u, v : Learned(u, v, port, proto).outcome = "enqueue"
      BY DEF Learned, Result
    <3>. HIDE DEF o
    <3>4. right(o)
      BY <1>6, <1>9, <3>1, <3>2, <3>3, ZenonT(30) DEF Resolves, LearnsRight
    <3>. QED BY <3>4, ZenonT(30) DEF o
  <2>. HIDE DEF right, made, froms, tos, learned
  <2>. QED BY <2>1, <2>2, <2>3
<1>. QED BY <1>8, <1>9, ZenonT(30)

\* What was reported of a denied flow names the policy, or does not.
LEMMA TraceRead ==
  ASSUME NEW policies \in Traces, NEW key, key.policies = policies
  PROVE  GetDenyingPolicy(key) = IF policies = << >> THEN {} ELSE {Reported}
<1>. DEFINE allowing == PolicyHit("Allow", "NetworkPolicy", {[namespace |-> "ns", name |-> "allowing"]}, {})
            foreign == PolicyHit("Deny", "CalicoNetworkPolicy", {[namespace |-> "ns", name |-> "foreign"]}, {})
            last == PolicyHit("Deny", "EndOfTier", {}, {Reported})
            named == {i \in DOMAIN policies : PolicyOf(policies[i]) # {}}
<1>1. PolicyOf(allowing) = {} /\ PolicyOf(foreign) = {} /\ PolicyOf(last) = {Reported}
  BY DEF PolicyOf, PolicyHit
<1>2. policies = << >> \/ policies = <<allowing, foreign, last>>
  BY DEF Traces
<1>3. GetDenyingPolicy(key) = IF named = {} THEN {} ELSE PolicyOf(policies[First(named)])
  BY ZenonT(30) DEF GetDenyingPolicy
<1>. HIDE DEF allowing, foreign, last
<1>4. CASE policies = << >>
  <2>1. named = {}
    BY <1>4
  <2>. QED BY <1>3, <1>4, <2>1
<1>5. CASE policies = <<allowing, foreign, last>>
  <2>1. /\ DOMAIN policies = {1, 2, 3} /\ policies # << >>
        /\ policies[1] = allowing /\ policies[2] = foreign /\ policies[3] = last
    BY <1>5
  <2>2. named = {3}
    BY <1>1, <2>1
  <2>3. First(named) = 3
    BY <2>2 DEF First
  <2>. HIDE DEF named
  <2>. QED BY <1>1, <1>3, <2>1, <2>2, <2>3
<1>. QED BY <1>2, <1>4, <1>5

(* The type of the policy that an end refused a flow by. *)
TypeAt(reporter) == IF reporter = "Src" THEN "Egress" ELSE "Ingress"

GoldmanePolicy(policies, type, q) ==
    IF policies # << >> THEN {Reported} ELSE NameOfOnly(PoliciesFor(Subject(type, q), type, q.policies))

\* What becomes of a flow that one end refused.
LEMMA DeniedMade ==
  ASSUME NEW q, Flow(q), AloneBoth(q), NEW reporter \in {"Src", "Dst"}, NEW policies \in Traces
  PROVE  LET made == ProcessCalicoFlow(GoldmaneFlow(q, reporter, "Deny", policies), CacheOf(q))
             type == TypeAt(reporter)
         IN  /\ made # {}
             /\ \A o \in made :
                   IF Sound(q) /\ Known(Subject(type, q), q) /\ MayBePeer(Peer(type, q))
                   THEN RecordsRight(o, type, GoldmanePolicy(policies, type, q), q)
                   ELSE o \in {Skipped, Failed}
<1>. DEFINE f == GoldmaneFlow(q, reporter, "Deny", policies)
            made == ProcessCalicoFlow(f, CacheOf(q))
            a == GoldmaneRef(q.source)
            b == GoldmaneRef(q.dest)
            port == q.message[1]
            proto == q.message[2]
            type == TypeAt(reporter)
            t == Subject(type, q)
            reported == IF policies = << >> THEN {} ELSE {Reported}
            violated == Violated(a, b, port, proto, type, reported)
            parsed == ParseCalicoFlow(f)
            cache == CacheOf(q)
            counts == Sound(q) /\ IsPod(t) /\ MayBePeer(Peer(type, q))
            right(o) == IF Sound(q) /\ Known(t, q) /\ MayBePeer(Peer(type, q))
                        THEN RecordsRight(o, type, GoldmanePolicy(policies, type, q), q)
                        ELSE o \in {Skipped, Failed}
<1>1. /\ f.source = GoldmaneEndpoint(q.source) /\ f.dest = GoldmaneEndpoint(q.dest)
      /\ f.port = port /\ f.proto = proto /\ f.action = "Deny" /\ f.reporter = reporter
      /\ f.policies = policies
  BY ZenonT(30) DEF GoldmaneFlow
<1>2. q.source \in q.present \cup Others /\ q.dest \in q.present \cup Others
  BY DEF Flow
<1>3. Sound(q) <=> port \in 1 .. MaxValidPort /\ proto \in {"TCP", "UDP"}
  BY PortLimit DEF Sound, Flow
<1>4. parsed = IF counts THEN violated ELSE Skipped
  <2>. HIDE DEF f
  <2>1. DiscardCalicoFlow(f) <=> port \notin 1 .. MaxValidPort \/ ~IsPod(t) \/ ~MayBePeer(Peer(type, q))
    <3>1. /\ IsWorkloadEndpoint(f.source) <=> IsPod(q.source)
          /\ IsWorkloadEndpoint(f.dest) <=> IsPod(q.dest)
          /\ IsViolationPeer(f.source) <=> MayBePeer(q.source)
          /\ IsViolationPeer(f.dest) <=> MayBePeer(q.dest)
      BY <1>1, <1>2, EndReported
    <3>2. CASE reporter = "Src"
      <4>1. t = q.source /\ Peer(type, q) = q.dest
        BY <3>2 DEF TypeAt, Subject, Peer
      <4>. HIDE DEF t, type
      <4>. QED BY <1>1, <3>1, <3>2, <4>1 DEF DiscardCalicoFlow
    <3>3. CASE reporter = "Dst"
      <4>1. t = q.dest /\ Peer(type, q) = q.source
        BY <3>3 DEF TypeAt, Subject, Peer
      <4>. HIDE DEF t, type
      <4>. QED BY <1>1, <3>1, <3>3, <4>1 DEF DiscardCalicoFlow
    <3>. QED BY <3>2, <3>3
  <2>2. GetDenyingPolicy(f) = reported
    BY <1>1, TraceRead
  <2>3. /\ WorkloadRef(f.source.namespace, "", f.source.name) = a
        /\ WorkloadRef(f.dest.namespace, "", f.dest.name) = b
    BY <1>1 DEF GoldmaneRef
  <2>4. (IF f.reporter = "Src" THEN "Egress" ELSE "Ingress") = type
    BY <1>1 DEF TypeAt
  <2>. HIDE DEF a, b, reported, type
  <2>5. parsed = IF DiscardCalicoFlow(f) \/ proto \notin {"TCP", "UDP"} THEN Skipped ELSE violated
    BY <1>1, <2>2, <2>3, <2>4, ZenonT(30) DEF ParseCalicoFlow
  <2>. HIDE DEF parsed, violated, port, proto, t
  <2>. QED BY <1>3, <2>1, <2>5
<1>5. made = IF parsed.outcome \notin {"enqueue", "violation"} THEN {parsed}
             ELSE {Resolve(parsed, x, y, cache) : x \in ResolveCalico(parsed.source, cache),
                                                  y \in ResolveCalico(parsed.dest, cache)}
  BY DEF ProcessCalicoFlow
<1>6. /\ Skipped.outcome = "skip"
      /\ violated.outcome = "violation" /\ violated.source = a /\ violated.dest = b
  <2>1. Skipped.outcome = "skip"
    BY DEF Skipped, Result
  <2>. HIDE DEF a, b, reported
  <2>. QED BY <2>1, ViolatedFields
<1>7. Known(t, q) => IsPod(t)
  BY DEF Known, IsKept, Supported, IsPod, Others, FarEnd, Node, Missing, Thing
<1>8. ASSUME ~counts PROVE made # {} /\ \A o \in made : right(o)
  <2>1. made = {Skipped}
    <3>. HIDE DEF parsed, made, counts
    <3>. QED BY <1>4, <1>5, <1>6, <1>8
  <2>2. right(Skipped)
    <3>. HIDE DEF t, type
    <3>. QED BY <1>7, <1>8
  <2>. HIDE DEF right, made
  <2>. QED BY <2>1, <2>2
<1>9. ASSUME counts PROVE made # {} /\ \A o \in made : right(o)
  <2>. DEFINE froms == ResolveCalico(a, cache)
              tos == ResolveCalico(b, cache)
  <2>0. MayBePeer(q.source) /\ MayBePeer(q.dest)
    BY <1>9 DEF MayBePeer, Subject, Peer
  <2>1. /\ froms # {} /\ \A r \in froms : Resolves(r, q.source, q)
        /\ tos # {} /\ \A r \in tos : Resolves(r, q.dest, q)
    BY <1>2, <2>0, EndReported, ZenonT(30) DEF AloneBoth
  <2>2. made = {Resolve(violated, x, y, cache) : x \in froms, y \in tos}
    <3>. HIDE DEF parsed, made, counts, violated, a, b
    <3>. QED BY <1>4, <1>5, <1>6, <1>9
  <2>3. ASSUME NEW x \in froms, NEW y \in tos PROVE right(Resolve(violated, x, y, cache))
    <3>1. Resolves(x, q.source, q) /\ Resolves(y, q.dest, q)
      BY <2>1, ZenonT(30)
    <3>2. type \in {"Ingress", "Egress"}
      BY ZenonT(30) DEF TypeAt
    <3>. DEFINE o == Resolve(violated, x, y, cache)
                name == IF reported # {} THEN reported ELSE NameOfOnly(PoliciesFor(t, type, q.policies))
    <3>3. IF Known(t, q) THEN RecordsRight(o, type, name, q) ELSE o \in {Skipped, Failed}
      <4>. HIDE DEF a, b, type, reported
      <4>. QED BY <3>1, <3>2, ResolvedRight, ZenonT(30)
    <3>4. name = GoldmanePolicy(policies, type, q)
      BY ZenonT(30) DEF GoldmanePolicy
    <3>. HIDE DEF o, name, t, type
    <3>5. right(o)
      BY <1>9, <3>3, <3>4, ZenonT(30)
    <3>. QED BY <3>5, ZenonT(30) DEF o
  <2>. HIDE DEF right, made, froms, tos, violated
  <2>. QED BY <2>1, <2>2, <2>3
<1>10. made # {} /\ \A o \in made : right(o)
  <2>. HIDE DEF made, counts, right
  <2>. QED BY <1>8, <1>9
<1>. QED BY <1>10, ZenonT(30)

(* What must become of each report of Goldmane. *)
GoldmaneLearns(r, q) == r.reporter = "Dst" /\ Sound(q) /\ Known(q.source, q) /\ Known(q.dest, q)

GoldmaneRecords(r, q) ==
    LET type == TypeAt(r.reporter)
    IN  Sound(q) /\ Known(Subject(type, q), q) /\ MayBePeer(Peer(type, q))

GoldmaneRight(a, q) ==
    LET r == a.report
        type == TypeAt(r.reporter)
    IN  \/ /\ r = GoldmaneFlow(q, r.reporter, "Allow", << >>)
           /\ q.verdict = "allowed" \/ (r.reporter = "Src" /\ q.verdict = "deniedAtDest")
           /\ LearnsRight(a.outcome, q)
           /\ a.outcome.outcome = "enqueue" <=> GoldmaneLearns(r, q)
        \/ /\ r.reporter \in {"Src", "Dst"}
           /\ q.verdict = IF r.reporter = "Src" THEN "deniedAtSource" ELSE "deniedAtDest"
           /\ IF GoldmaneRecords(r, q)
              THEN RecordsRight(a.outcome, type, GoldmanePolicy(r.policies, type, q), q)
              ELSE a.outcome \in {Skipped, Failed}
        \/ /\ q.verdict = "lost"
           /\ a.outcome = Skipped

\* A flow that an end let through, ...
LEMMA AllowedRight ==
  ASSUME NEW q, Flow(q), AloneBoth(q), NEW reporter,
         q.verdict = "allowed" \/ (reporter = "Src" /\ q.verdict = "deniedAtDest"),
         NEW o \in ProcessCalicoFlow(GoldmaneFlow(q, reporter, "Allow", << >>), CacheOf(q))
  PROVE  GoldmaneRight(Made(GoldmaneFlow(q, reporter, "Allow", << >>), o), q)
<1>. DEFINE r == GoldmaneFlow(q, reporter, "Allow", << >>)
<1>1. r.reporter = reporter
  BY ZenonT(30) DEF GoldmaneFlow
<1>2. LearnsRight(o, q) /\ (o.outcome = "enqueue" <=> GoldmaneLearns(r, q))
  BY <1>1, AllowedMade, ZenonT(30) DEF GoldmaneLearns
<1>3. Made(r, o).report = r /\ Made(r, o).outcome = o
  BY DEF Made
<1>4. r = GoldmaneFlow(q, r.reporter, "Allow", << >>)
  BY <1>1
<1>. HIDE DEF r
<1>. QED BY <1>1, <1>2, <1>3, <1>4, ZenonT(30) DEF GoldmaneRight, r

\* ... and one that an end refused.
LEMMA DeniedRight ==
  ASSUME NEW q, Flow(q), AloneBoth(q), NEW reporter \in {"Src", "Dst"}, NEW policies \in Traces,
         q.verdict = IF reporter = "Src" THEN "deniedAtSource" ELSE "deniedAtDest",
         NEW o \in ProcessCalicoFlow(GoldmaneFlow(q, reporter, "Deny", policies), CacheOf(q))
  PROVE  GoldmaneRight(Made(GoldmaneFlow(q, reporter, "Deny", policies), o), q)
<1>. DEFINE r == GoldmaneFlow(q, reporter, "Deny", policies)
            type == TypeAt(reporter)
<1>1. r.reporter = reporter /\ r.policies = policies
  BY ZenonT(30) DEF GoldmaneFlow
<1>2. IF Sound(q) /\ Known(Subject(type, q), q) /\ MayBePeer(Peer(type, q))
      THEN RecordsRight(o, type, GoldmanePolicy(policies, type, q), q)
      ELSE o \in {Skipped, Failed}
  BY DeniedMade, ZenonT(30)
<1>3. Made(r, o).report = r /\ Made(r, o).outcome = o
  BY DEF Made
<1>. HIDE DEF r
<1>. QED BY <1>1, <1>2, <1>3, ZenonT(30) DEF GoldmaneRight, GoldmaneRecords, r

\* So every report becomes what it must.
LEMMA GoldmaneMade ==
  ASSUME NEW q, Flow(q), AloneBoth(q), NEW a \in MadeOfGoldmane(q)
  PROVE  GoldmaneRight(a, q)
<1>1. PICK r \in GoldmaneReports(q) : \E o \in ProcessCalicoFlow(r, CacheOf(q)) : a = Made(r, o)
  BY DEF MadeOfGoldmane
<1>2. PICK o \in ProcessCalicoFlow(r, CacheOf(q)) : a = Made(r, o)
  BY <1>1
<1>3. ASSUME NEW reporter, r = GoldmaneFlow(q, reporter, "Allow", << >>),
             q.verdict = "allowed" \/ (reporter = "Src" /\ q.verdict = "deniedAtDest")
      PROVE  GoldmaneRight(a, q)
  BY <1>2, <1>3, AllowedRight
<1>4. ASSUME NEW reporter \in {"Src", "Dst"}, r \in {GoldmaneFlow(q, reporter, "Deny", ps) : ps \in Traces},
             q.verdict = IF reporter = "Src" THEN "deniedAtSource" ELSE "deniedAtDest"
      PROVE  GoldmaneRight(a, q)
  BY <1>2, <1>4, DeniedRight
<1>5. CASE q.verdict = "allowed"
  <2>1. \E reporter \in {"Src", "Dst"} : r = GoldmaneFlow(q, reporter, "Allow", << >>)
    BY <1>5 DEF GoldmaneReports
  <2>. QED BY <1>3, <1>5, <2>1
<1>6. CASE q.verdict = "deniedAtSource"
  <2>1. r \in {GoldmaneFlow(q, "Src", "Deny", ps) : ps \in Traces}
    BY <1>6 DEF GoldmaneReports
  <2>. QED BY <1>4, <1>6, <2>1
<1>7. CASE q.verdict = "deniedAtDest"
  <2>1. \/ r = GoldmaneFlow(q, "Src", "Allow", << >>)
        \/ r \in {GoldmaneFlow(q, "Dst", "Deny", ps) : ps \in Traces}
    BY <1>7 DEF GoldmaneReports
  <2>. QED BY <1>3, <1>4, <1>7, <2>1
<1>8. CASE q.verdict = "lost"
  <2>1. \E reporter : r = GoldmaneFlow(q, reporter, "ActionUnspecified", << >>)
    BY <1>8 DEF GoldmaneReports
  <2>2. o = Skipped
    BY <2>1, UnspecifiedMade
  <2>3. a.outcome = o
    BY <1>2 DEF Made
  <2>. QED BY <1>8, <2>2, <2>3, ZenonT(30) DEF GoldmaneRight
<1>. QED BY <1>5, <1>6, <1>7, <1>8 DEF Flow, Verdicts

\* The end that decided did report.
LEMMA GoldmaneSays ==
  ASSUME NEW q, Flow(q), AloneBoth(q)
  PROVE  /\ q.verdict = "allowed" =>
               \E a \in MadeOfGoldmane(q) : a.report = GoldmaneFlow(q, "Dst", "Allow", << >>)
         /\ q.verdict = "deniedAtSource" => \E a \in MadeOfGoldmane(q) : a.report.reporter = "Src"
         /\ q.verdict = "deniedAtDest" => \E a \in MadeOfGoldmane(q) : a.report.reporter = "Dst"
<1>1. ASSUME NEW r \in GoldmaneReports(q), ProcessCalicoFlow(r, CacheOf(q)) # {}
      PROVE  \E a \in MadeOfGoldmane(q) : a.report = r
  <2>1. PICK o \in ProcessCalicoFlow(r, CacheOf(q)) : TRUE
    BY <1>1
  <2>2. Made(r, o) \in MadeOfGoldmane(q)
    BY <1>1, <2>1 DEF MadeOfGoldmane
  <2>3. Made(r, o).report = r
    BY DEF Made
  <2>. QED BY <2>2, <2>3
<1>2. ASSUME NEW reporter PROVE ProcessCalicoFlow(GoldmaneFlow(q, reporter, "Allow", << >>), CacheOf(q)) # {}
  BY AllowedMade, ZenonT(30)
<1>3. << >> \in Traces
  BY DEF Traces
<1>4. ASSUME NEW reporter \in {"Src", "Dst"}
      PROVE  ProcessCalicoFlow(GoldmaneFlow(q, reporter, "Deny", << >>), CacheOf(q)) # {}
  BY <1>3, DeniedMade, ZenonT(30)
<1>5. ASSUME q.verdict = "allowed"
      PROVE  \E a \in MadeOfGoldmane(q) : a.report = GoldmaneFlow(q, "Dst", "Allow", << >>)
  <2>1. GoldmaneFlow(q, "Dst", "Allow", << >>) \in GoldmaneReports(q)
    BY <1>5 DEF GoldmaneReports
  <2>. QED BY <1>1, <1>2, <2>1
<1>6. ASSUME q.verdict = "deniedAtSource"
      PROVE  \E a \in MadeOfGoldmane(q) : a.report.reporter = "Src"
  <2>1. GoldmaneFlow(q, "Src", "Deny", << >>) \in GoldmaneReports(q)
    BY <1>3, <1>6 DEF GoldmaneReports
  <2>2. GoldmaneFlow(q, "Src", "Deny", << >>).reporter = "Src"
    BY DEF GoldmaneFlow
  <2>. QED BY <1>1, <1>4, <2>1, <2>2
<1>7. ASSUME q.verdict = "deniedAtDest"
      PROVE  \E a \in MadeOfGoldmane(q) : a.report.reporter = "Dst"
  <2>1. GoldmaneFlow(q, "Dst", "Deny", << >>) \in GoldmaneReports(q)
    BY <1>3, <1>7 DEF GoldmaneReports
  <2>2. GoldmaneFlow(q, "Dst", "Deny", << >>).reporter = "Dst"
    BY DEF GoldmaneFlow
  <2>. QED BY <1>1, <1>4, <2>1, <2>2
<1>. QED BY <1>5, <1>6, <1>7

(* Any flow is asked about, and the scraper answers. *)
FlowSpec == Flow(question) /\ answer = {} /\ [][ParseHubble \/ ParseGoldmane]_asked

Scraped ==
    /\ Flow(question)
    /\ \/ answer = {}
       \/ question.about = "hubble" /\ answer = MadeOfHubble(question)
       \/ question.about = "goldmane" /\ answer = MadeOfGoldmane(question)

\* What is answered is what the scraper makes of the reports.
LEMMA AllScraped == FlowSpec => []Scraped
<1>1. Flow(question) /\ answer = {} => Scraped
  BY DEF Scraped
<1>2. ASSUME Scraped, [ParseHubble \/ ParseGoldmane]_asked PROVE Scraped'
  <2>1. CASE ParseHubble
    BY <1>2, <2>1, ZenonT(30) DEF Scraped, ParseHubble, Decide
  <2>2. CASE ParseGoldmane
    BY <1>2, <2>2, ZenonT(30) DEF Scraped, ParseGoldmane, Decide
  <2>3. CASE UNCHANGED asked
    BY <1>2, <2>3, ZenonT(30) DEF Scraped, asked
  <2>. QED BY <1>2, <2>1, <2>2, <2>3
<1>. QED BY <1>1, <1>2, PTL DEF FlowSpec

(* What is learned or recorded, with the policy that is to be named. *)
NamedRight(o, q, name) ==
    /\ o.outcome = "enqueue" =>
          o = Learned(Selected(q.source), Selected(q.dest), q.message[1], q.message[2])
    /\ o.outcome = "violation" => RecordsRight(o, o.direction, name, q)

\* What comes of a report of Hubble names who talked, ...
LEMMA HubbleNames ==
  ASSUME NEW q, NEW a, HubbleRight(a, q)
  PROVE  LET d == a.outcome.direction
         IN  NamedRight(a.outcome, q, NameOfOnly(PoliciesFor(Subject(d, q), d, q.policies)))
<1>1. Skipped.outcome = "skip" /\ Failed.outcome = "error"
  BY DEF Skipped, Failed, Result
<1>2. CASE LearnsRight(a.outcome, q)
  BY <1>2 DEF LearnsRight, NamedRight
<1>3. CASE \E type : RecordsRight(a.outcome, type, NameOfOnly(PoliciesFor(Subject(type, q), type, q.policies)), q)
  <2>1. a.outcome.outcome = "violation"
    BY <1>3 DEF RecordsRight
  <2>. QED BY <1>3, <2>1, ZenonT(30) DEF RecordsRight, NamedRight
<1>4. CASE a.outcome \in {Skipped, Failed}
  BY <1>1, <1>4 DEF NamedRight
<1>. QED BY <1>2, <1>3, <1>4, ZenonT(30) DEF HubbleRight

\* ... and so does what comes of one of Goldmane.
LEMMA GoldmaneNames ==
  ASSUME NEW q, NEW a, GoldmaneRight(a, q)
  PROVE  NamedRight(a.outcome, q, GoldmanePolicy(a.report.policies, a.outcome.direction, q))
<1>1. Skipped.outcome = "skip" /\ Failed.outcome = "error"
  BY DEF Skipped, Failed, Result
<1>2. CASE LearnsRight(a.outcome, q)
  BY <1>2 DEF LearnsRight, NamedRight
<1>3. CASE \E type : RecordsRight(a.outcome, type, GoldmanePolicy(a.report.policies, type, q), q)
  <2>1. a.outcome.outcome = "violation"
    BY <1>3 DEF RecordsRight
  <2>. QED BY <1>3, <2>1, ZenonT(30) DEF RecordsRight, NamedRight
<1>4. CASE a.outcome \in {Skipped, Failed}
  BY <1>1, <1>4 DEF NamedRight
<1>. QED BY <1>2, <1>3, <1>4, ZenonT(30) DEF GoldmaneRight

\* Whatever is learned or recorded names the workloads that really talked, for
\* any pods, workloads and policies in the cache (resolveParsedFlow).
THEOREM TalkersNamed == FlowSpec => []NamesWhoTalked
<1>1. Scraped => NamesWhoTalked
  <2>. DEFINE q == question
              name(a) == IF q.about = "goldmane" /\ a.report.policies # << >> THEN {Reported}
                         ELSE LET d == a.outcome.direction
                              IN  NameOfOnly(PoliciesFor(Subject(d, q), d, q.policies))
  <2>1. SUFFICES ASSUME Scraped, About("hubble") \/ (About("goldmane") /\ AloneBoth(q))
                 PROVE  /\ \A a \in Learns :
                              a.outcome.source = Selected(q.source) /\ a.outcome.dest = Selected(q.dest)
                        /\ \A a \in Learns \cup Recorded : <<a.outcome.port, a.outcome.proto>> = q.message
                        /\ \A a \in Recorded :
                              LET o == a.outcome
                                  t == Subject(o.direction, q)
                              IN  /\ SubjectRef(o) = Selected(t)
                                  /\ IsSupported(PeerRef(o)) => Same(PeerRef(o), Peer(o.direction, q))
                                  /\ o.policy = name(a)
    BY ZenonT(30) DEF NamesWhoTalked
  <2>2. Flow(q) /\ q.message = <<q.message[1], q.message[2]>>
    <3>1. Flow(q)
      BY <2>1 DEF Scraped
    <3>2. PICK port, proto : q.message = <<port, proto>>
      BY <3>1 DEF Flow
    <3>. QED BY <3>1, <3>2
  <2>3. ASSUME NEW a \in answer PROVE NamedRight(a.outcome, q, name(a))
    <3>1. CASE q.about = "hubble"
      <4>1. HubbleRight(a, q)
        BY <2>1, <2>2, <2>3, <3>1, HubbleMade DEF Scraped
      <4>2. q.about # "goldmane"
        BY <3>1
      <4>. QED BY <4>1, <4>2, HubbleNames, ZenonT(30)
    <3>2. CASE q.about = "goldmane"
      <4>1. AloneBoth(q)
        BY <2>1, <3>2 DEF About
      <4>2. GoldmaneRight(a, q)
        BY <2>1, <2>2, <2>3, <3>2, <4>1, GoldmaneMade DEF Scraped
      <4>. QED BY <3>2, <4>2, GoldmaneNames, ZenonT(30) DEF GoldmanePolicy
    <3>. QED BY <2>1, <3>1, <3>2 DEF About
  <2>. HIDE DEF q, name
  <2>4. ASSUME NEW a \in Learns
        PROVE  /\ a.outcome.source = Selected(q.source) /\ a.outcome.dest = Selected(q.dest)
               /\ a.outcome.port = q.message[1] /\ a.outcome.proto = q.message[2]
    <3>1. a \in answer /\ a.outcome.outcome = "enqueue"
      BY <2>4 DEF Learns
    <3>2. a.outcome = Learned(Selected(q.source), Selected(q.dest), q.message[1], q.message[2])
      BY <2>3, <3>1 DEF NamedRight
    <3>. QED BY <3>2, LearnedFields
  <2>5. ASSUME NEW a \in Recorded PROVE RecordsRight(a.outcome, a.outcome.direction, name(a), q)
    BY <2>3, <2>5 DEF Recorded, NamedRight
  <2>6. \A a \in Learns \cup Recorded : <<a.outcome.port, a.outcome.proto>> = q.message
    <3>1. \A a \in Learns \cup Recorded : a.outcome.port = q.message[1] /\ a.outcome.proto = q.message[2]
      BY <2>4, <2>5 DEF RecordsRight
    <3>. QED BY <2>2, <3>1
  <2>. QED BY <2>4, <2>5, <2>6, ZenonT(30) DEF RecordsRight
<1>. QED BY <1>1, AllScraped, PTL

\* A flow that a policy dropped is recorded if its subject is known, whoever the
\* peer is, and no other is (parseCiliumFlowResponse, ciliumViolationEndpoints).
THEOREM DropsAreRecorded == FlowSpec => []DropsRecorded
<1>1. Scraped => DropsRecorded
  <2>. DEFINE q == question
              subject(r) == IF r.direction = "INGRESS" THEN q.dest ELSE q.source
              due(a) == /\ a.report.verdict = "DROPPED" /\ q.verdict # "lost" /\ Valid(q)
                        /\ Known(subject(a.report), q)
                        /\ Missing \notin {q.source, q.dest}
  <2>1. SUFFICES ASSUME Scraped, About("hubble")
                 PROVE  /\ \A a \in Learns : a.report.verdict = "FORWARDED" /\ a.report.reply = "no"
                        /\ Recorded = {a \in answer : due(a)}
    BY ZenonT(30) DEF DropsRecorded, Valid
  <2>2. ASSUME NEW a \in answer PROVE HubbleRight(a, q)
    <3>1. Flow(q) /\ a \in MadeOfHubble(q)
      BY <2>1, <2>2 DEF Scraped, About
    <3>. QED BY <3>1, HubbleMade
  <2>3. Skipped.outcome = "skip" /\ Failed.outcome = "error"
    BY DEF Skipped, Failed, Result
  <2>4. ASSUME NEW a \in answer, a.outcome.outcome = "enqueue"
        PROVE  a.report.verdict = "FORWARDED" /\ a.report.reply = "no"
    <3>1. HubbleRight(a, q)
      BY <2>2
    <3>. HIDE DEF q
    <3>. QED BY <2>3, <2>4, <3>1, ZenonT(30) DEF HubbleRight, RecordsRight
  <2>5. ASSUME NEW a \in answer PROVE a.outcome.outcome = "violation" <=> due(a)
    <3>1. HubbleRight(a, q)
      BY <2>2
    <3>. HIDE DEF q
    <3>2. CASE a.report.verdict = "FORWARDED"
      BY <3>1, <3>2, ZenonT(30) DEF HubbleRight, LearnsRight
    <3>3. CASE a.report.verdict = "DROPPED"
      <4>1. /\ q.verdict # "lost" => a.report.direction \in {"EGRESS", "INGRESS"}
            /\ a.outcome.outcome = "violation" <=> HubbleRecords(a.report, q)
        BY <2>3, <3>1, <3>3, ZenonT(30) DEF HubbleRight, RecordsRight
      <4>2. q.verdict # "lost" => Subject(PolicyType(a.report.direction), q) = subject(a.report)
        BY <4>1 DEF Subject, PolicyType
      <4>. HIDE DEF subject
      <4>. QED BY <3>3, <4>1, <4>2 DEF HubbleRecords
    <3>. QED BY <3>1, <3>2, <3>3, ZenonT(30) DEF HubbleRight
  <2>. HIDE DEF due
  <2>. QED BY <2>4, <2>5 DEF Learns, Recorded
<1>. QED BY <1>1, AllScraped, PTL

\* Both ends report to Goldmane, yet an allowed connection is learned once and a
\* denied one is recorded by the end that denied it (discardCalicoFlow).
THEOREM CountedOnce == FlowSpec => []FlowCountedOnce
<1>1. Scraped => FlowCountedOnce
  <2>. DEFINE q == question
              learns == q.verdict = "allowed" /\ Sound(q) /\ Known(q.source, q) /\ Known(q.dest, q)
              atSource == q.verdict = "deniedAtSource" /\ Sound(q) /\ Known(q.source, q) /\ MayBePeer(q.dest)
              atDest == q.verdict = "deniedAtDest" /\ Sound(q) /\ Known(q.dest, q) /\ MayBePeer(q.source)
              learned == {a.report : a \in Learns}
              recorders == {a.report.reporter : a \in Recorded}
  <2>1. SUFFICES ASSUME Scraped, About("goldmane"), AloneBoth(q)
                 PROVE  /\ IF learns THEN \E r \in learned : learned = {r} ELSE learned = {}
                        /\ IF atSource THEN recorders = {"Src"}
                           ELSE IF atDest THEN recorders = {"Dst"}
                           ELSE Recorded = {}
    BY ZenonT(30) DEF FlowCountedOnce, Sound, MayBePeer
  <2>2. Flow(q) /\ answer = MadeOfGoldmane(q)
    BY <2>1 DEF Scraped, About
  <2>3. ASSUME NEW a \in answer PROVE GoldmaneRight(a, q)
    BY <2>1, <2>2, <2>3, GoldmaneMade
  <2>4. Skipped.outcome = "skip" /\ Failed.outcome = "error"
    BY DEF Skipped, Failed, Result
  <2>5. /\ q.verdict = "allowed" => \E a \in answer : a.report = GoldmaneFlow(q, "Dst", "Allow", << >>)
        /\ q.verdict = "deniedAtSource" => \E a \in answer : a.report.reporter = "Src"
        /\ q.verdict = "deniedAtDest" => \E a \in answer : a.report.reporter = "Dst"
    BY <2>1, <2>2, GoldmaneSays
  <2>. HIDE DEF q
  <2>6. ASSUME NEW a \in Learns
        PROVE  learns /\ a.report = GoldmaneFlow(q, "Dst", "Allow", << >>)
    <3>1. a \in answer /\ a.outcome.outcome = "enqueue" /\ GoldmaneRight(a, q)
      BY <2>3, <2>6 DEF Learns
    <3>2. /\ a.report = GoldmaneFlow(q, a.report.reporter, "Allow", << >>)
          /\ q.verdict = "allowed" \/ (a.report.reporter = "Src" /\ q.verdict = "deniedAtDest")
          /\ GoldmaneLearns(a.report, q)
      BY <2>4, <3>1, ZenonT(30) DEF GoldmaneRight, RecordsRight
    <3>. QED BY <3>2 DEF GoldmaneLearns
  <2>7. ASSUME learns PROVE learned = {GoldmaneFlow(q, "Dst", "Allow", << >>)}
    <3>. DEFINE r == GoldmaneFlow(q, "Dst", "Allow", << >>)
    <3>1. PICK a \in answer : a.report = r
      BY <2>5, <2>7
    <3>2. r.reporter = "Dst"
      BY DEF GoldmaneFlow
    <3>3. a.outcome.outcome = "enqueue"
      <4>1. GoldmaneRight(a, q)
        BY <2>3
      <4>2. GoldmaneLearns(a.report, q)
        BY <2>7, <3>1, <3>2 DEF GoldmaneLearns
      <4>3. q.verdict = "allowed"
        BY <2>7
      <4>. HIDE DEF r
      <4>. QED BY <3>1, <3>2, <4>1, <4>2, <4>3 DEF GoldmaneRight
    <3>4. a \in Learns
      BY <3>3 DEF Learns
    <3>. HIDE DEF r
    <3>5. \A x \in Learns : x.report = r
      BY <2>6 DEF r
    <3>6. learned = {r}
      BY <3>1, <3>4, <3>5
    <3>. QED BY <3>6 DEF r
  <2>8. IF learns THEN \E r \in learned : learned = {r} ELSE learned = {}
    <3>1. ~learns => learned = {}
      BY <2>6
    <3>. HIDE DEF learns, learned
    <3>. QED BY <2>7, <3>1
  <2>9. ASSUME NEW a \in answer
        PROVE  a.outcome.outcome = "violation" <=>
                  \/ atSource /\ a.report.reporter = "Src"
                  \/ atDest /\ a.report.reporter = "Dst"
    <3>1. GoldmaneRight(a, q)
      BY <2>3
    <3>2. CASE /\ a.report.reporter \in {"Src", "Dst"}
               /\ q.verdict = IF a.report.reporter = "Src" THEN "deniedAtSource" ELSE "deniedAtDest"
               /\ a.outcome.outcome = "violation" <=> GoldmaneRecords(a.report, q)
      <4>1. CASE a.report.reporter = "Src"
        BY <3>2, <4>1 DEF GoldmaneRecords, TypeAt, Subject, Peer
      <4>2. CASE a.report.reporter = "Dst"
        BY <3>2, <4>2 DEF GoldmaneRecords, TypeAt, Subject, Peer
      <4>. QED BY <3>2, <4>1, <4>2, ZenonT(30)
    <3>3. CASE /\ a.outcome.outcome # "violation"
               /\ \/ q.verdict \in {"allowed", "lost"}
                  \/ a.report.reporter = "Src" /\ q.verdict = "deniedAtDest"
      BY <3>3
    <3>. QED BY <2>4, <3>1, <3>2, <3>3, ZenonT(30) DEF GoldmaneRight, RecordsRight, LearnsRight
  <2>. QED BY <2>5, <2>8, <2>9, ZenonT(30) DEF Recorded
<1>. QED BY <1>1, AllScraped, PTL
===============================================================================
