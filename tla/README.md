# Verification of network-enforcer

TLA+ modules that model the controllers of network-enforcer, TLC configurations
that check them on small instances, and TLAPS proofs for the parts that hold for
every instance. `PROJECT.json` lists components, runs, mutants, findings, hazards
and theorems, and maps every definition to the lines it models.

## The system

network-enforcer learns which traffic workloads exchange, proposes policies,
and enforces or monitors the ones a user promotes.

| Part | Source | What it does |
| --- | --- | --- |
| Scrapers, parsers, enrichment | `internal/scraper`, `internal/ztunnel`, `internal/istio` | Turn flows of Cilium, Calico or Istio into learning events and violation observations |
| Agent and tailer | `cmd/agent`, `internal/tailer` | Follow ztunnel logs on a node and store file offsets |
| Learning controller | `internal/controller/learning_*.go` | Learning events become rules of a WorkloadNetworkPolicyProposal; in monitor mode, violations |
| Proposal controller | `workloadnetworkpolicyproposal_controller.go` | Owner references, deletion of orphans and leftovers, promotion to a WorkloadNetworkPolicy |
| Policy controller and webhook | `workloadnetworkpolicy_*.go` | One policy per workload and direction, selector scope, rendering to NetworkPolicy or AuthorizationPolicy, Ready condition |
| Ring buffer | `internal/ringbuf` | Holds observations between two cycles of the synchroniser |
| Status synchroniser | `workloadnetworkpolicystatus_sync.go`, `violation_record.go` | Attributes observations to policies, keeps the violation lists and acknowledgements in the status |
| Certificates, telemetry, start-up | `internal/certsource`, `internal/tlsutil`, `internal/violation`, `cmd/controller` | TLS, OTLP logs, wiring |

They meet in three places: API objects, which each controller reads from a
lagging informer cache and writes with its own kind of call; the learning
queue; and the ring buffer. The models keep exactly those.

## Modules

Processes that interleave:

| Module | Models | State and actions |
| --- | --- | --- |
| `BoundedLog` | what the buffer promises | a newest-first log of bounded length; `Record`, `Drain` |
| `RingBuffer` | `ringbuf.Buffer` | slots and position; `Record`, `Drain`; refines `BoundedLog` |
| `StatusSync` | the sync cycle of one policy, composed with `BoundedLog` | `Observe`, `Sync`, the two patches with their failures, `Emit`, `Crash`, user edits, `Deliver` |
| `Watched` | an API object and its informer | the sequence of states from the cached to the current one |
| `PolicyReconcile` | policy controller and webhook | users, garbage collector, watches and handlers, queue, worker: `Reconcile`, `Render`, `UpdateReadyCondition`, `Restart` |
| `Promotion` | learning and proposal controllers | `Learn`, `LearnFlow`; `Reconcile`, `DeleteLeftover`, `LeaveProposal`, `PromotionFails`, `Promote`, `DeletePromoted`; users, garbage collector, `Resync`, failures |
| `Scraper` | a Cilium or Calico scraper, its server and its certificates | `Begin`, `ReadMaterial`, `Dial`, `Receive`, `Enqueue`, `StreamEnds`, the two delays; rotation, server, shutdown |
| `Tailer` | the node agent and its checkpoint file | `New`, `Reset`, `Start`, `FirstPoll`, `Emit`, `Checkpoint`, `WriteTemporary`, `Rename`, `Stop`; `Crash`, `Damage` |

Code that decides on what it was given and has read. The module on the left has
the code as operators, the one on the right its questions and properties:

| Code | Questions | Models |
| --- | --- | --- |
| `SelectorScope` | `ScopeDecision` | `checkSelectorScope`, pod owners, `checkRetainedPolicyScope` |
| `Attribution` | `AttributionDecision` | the policy an observation is recorded on |
| `RecomputeStatus`, `ViolationStatus` | `StatusDecision` | the next status, with its lists, sorts and cuts, and as a relation on sets of records |
| `FlowParsers`, `WorkloadResolution` | `FlowDecision` | what a Hubble or Goldmane flow becomes, and the workload it belongs to |
| `IstioEvents`, `WorkloadResolution` | `IstioDecision` | both translations of a ztunnel line, and what the controller makes of the record |
| `LearnedRules` | `RuleDecision`, `LearningDecision` | rules an operator edited: learning into them, monitor-mode violations, clearing; and rules learned from nothing by a sequence of events and their retries |
| `ProviderTLS` | `TLSDecision` | from the flags to the certificate source and the credentials of the hop |

`Cluster` has pods with the workloads they really belong to, and what the informers
hold of them; the questions about flows and lines start from it.

`Decision` has what these share: every small question is an initial state, one
step answers it, and an invariant compares the answer with a definition that
does not follow the code. `MCDecisions` puts all topics into one run, with the
ring buffer beside them. The other `MC` modules are the instances of the processes, and `*Proofs` the proofs.

In the models of processes, an action is one stretch of code between two points
at which another process can interfere: each API call that writes is an action
of its own, and reads from the cache belong to the action they precede or follow
directly. Definitions marked `Mutant` are plausible mistakes in the definition
that follows them. No specification uses them; putting one in place of its
original must break the property `PROJECT.json` pairs it with.

### Correspondence and abstractions

*Objects and caches.* `Watched` keeps, per object, all states the watch has
still to deliver. A delivery moves the cache forward by one state or, as after
a relist, by several. A creation and deletion that both fall into a gap of the
watch is excluded: a relist shows no difference and only a resync helps. A
resource version is the state itself, so a write with an old version succeeds
only if the object is again what was read.

*StatusSync.* One policy, never deleted. `base` and `new` are the listed and
the recomputed object; `StatusPatched` is the field-wise JSON merge patch
between them. An annotation is the ID it parses to. `FreshReads` says that the
cache shows the last status write before the next cycle starts. The code does
not enforce it; the cycle's interval makes it likely. The passing run and the
proofs assume it, and `stale_ids` shows what happens without it. `StableIDs` is
not the only property that fails then: so does `ActiveCountExact`, since a merge
patch against an old copy may send the list and not its count. `Bare` says that the
policy has no annotations of its own. `recorded`, `lost`, `issued` and `final`
are history.

*PolicyReconcile.* One namespace, one worker, and policies of one backend,
which is chosen initially (the backend of a policy is immutable). Condition
messages, the transition counters, deletion timestamps and failing lists are
left out; a match expression is a required label; the five informers for workloads and pods are one snapshot; handlers
run with the cache update that calls them. A data-plane object is its
controller, its selector and its dry-run flag. `OwnersSeen` says that no relist
steps over all the time during which an object had a controlling policy. The
code does not enforce it: the owner watch maps an event to the controller before
and after, so such a relist enqueues nobody, and an object that a policy took
over and somebody then deleted stays away until the next resync. Run
`policy_drift` and theorem `RestIsRight` assume it. Without it TLC finds the
behaviour with three changes by others; a proof attempt found it first. Where
nobody else writes data-plane objects it is not needed (`SoleOwnerRests`, runs
`duplicate_targets` and `comes_to_rest`).

*Promotion.* One direction of one workload. The rules of a proposal are the
set of flows they permit. `LearnFlow` is `CreateOrUpdate` followed by
`setOwnerReference`, which changes the object in memory after the write, so
all it does is fail when the workload is missing. `orphan` in `job` records
that this reconciliation found the workload missing. An event that
`enqueueEvent` refuses because the channel is full is an event the model does
not take. `reported` describes the Kubernetes backend; on Istio the data plane
reports. Policies for the workload and direction are a set in one cache; besides
the one that has the proposal's name there may be one of another name, beside
which the webhook admits no other once its cache shows it (`Conflicts`).
`nameLength` is chosen initially, at the limit of a label or one above.

*Attribution.* The snapshot, the owners and the live cache are arbitrary and
independent, which covers every change between the three reads. Failing
lookups and metrics are left out.

*Scraper.* Certificates are versions. The inner loop is that of the retry
library, the outer one that of `runStreamWithReconnect`; a read of a
certificate, of a Secret or of a ConfigMap is a step of its own, so that a
rotation may fall between two. A Secret read that times out is an error that
`isContextCancellation` takes for a shutdown: the scraper then ends without an
error, and the property says so instead of hiding it. How a flow is translated
is in `FlowParsers`; here it is only whether a learning event is offered to the
channel.

*Tailer.* Offsets are numbers of lines. The file consumer is a library and
modelled from how the agent uses it (`external` in the map): it emits lines in
order, stores its offset after a poll and on stop, and starts at the end of the
log when it finds no offset. `skipped` and `forgotten` are history: the lines
passed over by a start that had no checkpoint file, and by one whose checkpoint
file had been damaged (`checkpoint`). The checkpoint is written to a temporary file and
renamed, as two steps with a crash or failure before, between and inside them.
A killed process keeps what it wrote; that a machine may lose a renamed file
that was never synced is not modelled, nor are rotated and truncated logs, which
are the library's, nor an empty `StatePath`, with which there is no checkpoint and
every start is at the end.

*FlowParsers and FlowDecision.* The questions start from a connection between
two endpoints of a small cluster whose names are built the way Kubernetes builds
them. The parser sees only the reports that Hubble or Goldmane make of it; the
reference definition sees the connection. A Goldmane flow gives its pods by name
prefix, so `Alone` restricts what is said of Goldmane to prefixes only one workload
in the namespace has; otherwise the code may take a pod of another workload. A
connection that an ingress policy on another node denies is still reported as
forwarded where it leaves, and is learned there.

*IstioEvents.* A line is a record of its fields, any of which may be missing;
the splitting into fields is left out. Lines are of the supported schema: on a
known field that is not a string `Parse` is an error, where the script makes a
string of it. The pods in the cache need not be the
ones that were there when the line was logged, and two may share an address.
`MeshRecords` says who the source is while the calling pod is cached. An end of a
connection is a pod with the workload it really belongs to, which the code has to
find out; `WellBuilt` says how the control plane builds the one from the other.

*LearnedRules.* Lists stay lists, since both upserts, `containsPeerPort` and
`EqualUnordered` depend on how rules are split. A label set or principal is a
member of a small set; in the proofs, of any. `RuleDecision` says what a rule permits from the
Kubernetes and Istio APIs: empty lists match everything, peers and ports
multiply, rules add up. `LearningDecision` runs each sequence of events twice:
events that failed are in the queue again, and users may have deleted policies in
between, so that the retry meets others.

*ProviderTLS.* A PEM block is whether it parses, a Secret its keys. Reads are one
step here and separate ones in `Scraper`.

## Runs

| Run | Shows |
| --- | --- |
| `status_sync` | IDs stable, counters exact, acknowledgements final and logged once, observations counted once, through failed patches, unanswered patches, edits and crashes; with other annotations present, acknowledgements are not lost and take effect |
| `decisions` | See below |
| `duplicate_targets` | Two policies competing, moving, deleted and recreated end with the right conditions and object |
| `policy_drift` | One policy, on either backend, under changing mode, selector, workloads, foreign writers, failures and restarts ends right; a condition is written only for the current generation; in protect mode on Kubernetes an object under another controller is not overwritten |
| `comes_to_rest` | The policy controller does not keep itself busy |
| `promotion` | Learning, labelling and ownership repair do not lose each other's changes; labels take effect unless the name is too long for a label or while another policy holds the target, leftovers go, learning events are dealt with |
| `scraper` | Failure is reported after exactly the allowed number of fruitless attempts in a row; a stream never mixes generations of certificate and key nor uses what was replaced before its attempt; a shutdown ends the scraper from any step; what it does without a shutdown settles |
| `tailer` | Through crashes inside the write and failed writes no line is lost but those of a first run, a completed checkpoint is found again unless somebody damages it, and a clean stop repeats nothing; after damage too the agent starts again and catches up, having passed over no more than the lines booked as forgotten |

The properties of `decisions`:

| Property | Compares |
| --- | --- |
| `ImplementsBoundedLog` | the array with its wrapping position with the bounded log |
| `ReadyIffExclusive`, `KeptOverlapReported` | the verdict on a selector with what the data plane selects and which pods descend from the target |
| `GoesToItsPolicy` | the policy of a violation with the policies for its subject, however they move during the cycle |
| `DoesWhatItPromises` | the list algorithm with the set relation, with ties, both lists overflowing, late and repeated observations |
| `NamesWhoTalked`, `FlowCountedOnce`, `DropsRecorded` | what is learned and recorded of a flow with the connection it reports |
| `MeshLearns`, `MeshRecords`, `ParsersAgree` | the same for ztunnel's lines; and the two translators with each other |
| `LearnsWhatItSaw` | the proposals with the flows of all events that got through, and the reports with the times each event was run, retries included |
| `LearningAddsOnlyTheFlow`, `ClearsOnlyPermitted` | rules with the traffic they permit; and a rule for the namespace and port of a violation clears it, wherever it stands |
| `TLSAsAsked` | the hop with what the flags ask for |

Runs that show a disagreement between the code and what the repository says:

| Run | Disagreement |
| --- | --- |
| `stale_ids` | Without fresh reads an ID is given to a second flow |
| `bare_annotations` | An acknowledgement added during a cycle is removed when the cycle consumes the last annotation it had listed |
| `orphan_promoted` | After NotFound on the deletion of an orphan the reconciliation goes on and may create a policy for a missing workload |
| `corrupt_checkpoint` | A checkpoint that no longer loads is treated like a first run: the lines written since it are passed over, where RFC 0007 asks for a replay and calls a skip not acceptable |

### Where the properties stop

These behaviours are in the models. The repository promises nothing about them,
so that no run is about them; where one limits a property, the property states
the condition.

- An event of a workload that is gone is retried without end, and may recreate
  the proposal each time it was deleted as an orphan. A rule learned between the
  promotion's read of the proposal and its deletion is in neither object.
- Protect mode reads the cache twice: a NetworkPolicy without a controller that
  appears in between is taken over. Monitor mode deletes by name after looking
  at a cached copy. `OthersObjectsKept` is about protect mode and objects that
  have a controller.
- Learning narrows a rule for exactly one peer to which a user gave no ports.
- `containsPeerPort` passes over rules with several peers: monitoring may report
  a flow they permit. It never keeps silent about one that is not permitted.
- A Kubernetes violation is cleared by a rule for the whole namespace of its
  peer, which learning never writes, in either direction of the template.
- A violation on Istio has port 0, so that a learned rule, which has a port,
  does not clear it.
- An event whose egress side fails because two policies are promoted for its
  source does not reach its ingress side (`Reaching`). When the ingress side fails
  after the egress side reported a violation of a monitored policy, the retry
  reports it again: a report is made once per run of the event, not once per event.
- A labelled proposal whose name is longer than 63 characters is never promoted:
  the label `promoted-from` cannot be set, and the error is retried without end. So
  is the promotion while a policy of another name holds the target, as far as the
  webhook's cache knows; `LabelsTakeEffect` says that it succeeds once that is gone.
- A ztunnel rejection whose calling pod is no longer cached may name the pod that
  has its address now.
- A timed-out read of certificates ends a scraper without an error.

### Bounds

Bounds are constants that appear in guards, or sets of questions.

- `status_sync`: two flows and two or three observations suffice for a known and
  a new flow in one cycle. The lists do not overflow here (they do in
  `decisions`, with `MaxRecords` 2 and three flows), and one edit is an
  acknowledgement or a new template during any step of a cycle. The proofs cover
  every capacity and any number of edits.
- `MaxEdits`, `MaxInputs`, `MaxTouches` and `MaxFaults` bound what the environment does, never
  what a controller does. Two policies give every case of the election,
  including the same second of creation; more candidates repeat the comparison.
- `MaxLag` 2 lets the cache show a state two changes old, so that an object can
  be changed and changed back, or deleted and recreated, behind the reader. It
  postpones writers when the log is full, and a delivery always makes room.
- `scraper`: the code's own limit of five attempts, each source of certificates
  and none, one rotation of each file and of the server, three
  faults, so that failures fall before and after a stream that received
  something; the channel is full with two events.
- `tailer`: four lines and five faults: a stop, a crash inside the write of the
  next checkpoint, a failed write, a damaged file and one to spare.
- `promotion`: four inputs, each an event of one of two flows or something a user
  does: a label, a policy of another name that comes and goes and an event; or two
  events, a label and a policy deleted; or a workload recreated under both.
- `decisions`: a buffer of size 3 with positions up to 8, more than two laps; up to
  four pods of workloads with names that share prefixes; two
  policies and two workloads; up to three learning events without policies and
  two with, each run twice; one or two rules in all ways a user may write them; every combination
  of flags with every state of the places they point to.

The deadlock check is off where the environment's budget ends and the processes
rightly stop, and in `decisions`, which has one step.

### Fairness

Weak fairness on deliveries (watches reconnect), on the garbage collector and
on each step of a reconciliation or cycle that has begun (goroutines run, and
only `MaxFaults` calls fail). Strong fairness on starting the reconciliation
of a queued name or flow, because others are served in between and the work queue
is first in, first out. `Resync` is weakly fair: controller-runtime announces
every object again each SyncPeriod, and the comment in the proposal controller
relies on it. In `StatusSync` the ticker starts a cycle again and again.
`Scraper` is weakly fair in its own steps, and strongly in the end of a stream,
because flows that had arrived may still be received first; nothing is assumed
of the server or of the reader of the channel. `Tailer` is weakly fair in the
steps of the agent and in its restart by the kubelet.
Users, traffic and faults have no fairness. `comes_to_rest` has no foreign
objects: with one, the controller retries for as long as the conflict lasts.

## Proofs

`FlowProofs` begins with the ring buffer. It proves, for every size and record set,
`BufferSpec => [](BufferTypeOK /\ WrittenSlots)` and
`BufferSpec => ImplementsBoundedLog`. The
argument is arithmetic: two positions less than a lap apart use different
slots, so a write leaves the others in place.

It goes on with the flows that fill it: `NamesWhoTalked`, `FlowCountedOnce` and
`DropsRecorded` for any `Flow`. That is a connection between any two ends, in a
cluster with any number of pods, any workloads still to arrive and any policies, on
any port and protocol. The premises are what the control plane guarantees of names
(`IsThing`, `Generated`): a pod is `WellBuilt`, or belongs to a ReplicaSet without a
Deployment; its name begins with its generate name, which ends in a dash; a pod
without a generate name is of no supported workload, and its name does not end in the
star by which Goldmane marks a prefix; pods of a namespace have different names; and
a ReplicaSet without a Deployment is not named after a Deployment that is there, which
would adopt it. The reports are those of `HubbleReports` and
`GoldmaneReports`. What is reported of an end is a workload, a pod, the
beginning of a pod's name or an address. `EndSeen` (Hubble) and `EndReported`
(Goldmane, under `Alone`) show that this resolves to the workload of that end if it is
known, and to no other workload. `HubbleMade` and `GoldmaneMade` follow each report
through the parser, the resolution and the lookup of the policy, and say what it
becomes; the three theorems collect that over all reports of the connection.

`StatusSyncProofs` proves, for every set of flows, capacity and number of
observations, edits, failures and crashes, assuming `FreshReads`, with or without
other annotations on the policy, each invariant of run `status_sync`:
`IDsKeepTheirMeaning` (`StableIDs`, with unique IDs and one record per flow),
`ActiveCountRight`, `AcknowledgedForGood`, `LogFollowsWrite` and
`NothingCountedTwice`. `AcknowledgementsKept` is for a policy with annotations of
its own: no acknowledgement is removed before it was carried out.

The invariants are not inductive by themselves: nothing in them says what the
patch is computed from. `IInv` adds that a cache that has caught up has the
status of the server, and that from the list to the status patch the base
still has it and the new status evolves from it (`Evolves`: records keep their
IDs and flows, new IDs start at the old counter, acknowledged IDs leave). The
first half of the module shows that `RecomputeStatus` makes only such
statuses; the second that every action keeps `IInv`.

`TailerProofs` proves `NoLineLost` and `ResumesWhereItStopped` for logs of any
length and any number of faults, damaged files included, for which the lines in
`forgotten` are excepted and `corrupt_checkpoint` shows that there are some. They
say nothing of a write in progress. `IInv`
adds that what is being written is what the persister holds, that a file about
to be renamed is complete, and that the checkpoint file, once completed, has a
place that is not before the last orderly stop.

The module goes on with what the Istio scraper makes of a line: `ParsersAgree` for
any line of the supported schema, whatever strings its fields hold, and `MeshLearns` and `MeshRecords` for any
`Connection`. That is one between two pods of a cluster of any size, with any
fields of its line gone, any pods cached and any policies; the pods are `WellBuilt`
and, within a namespace, have different names. The argument follows the code: a
pod's owner and hash give the workload it was built for (`NamedAfterRoot`, from
lemmas on prefixes and suffixes of names), so the lookup by name finds that
workload or nothing (`WorkloadFound`), so a complete line becomes exactly one event
(`LearnMade`), and a rejection one record, with the source found by address and
identity (`SourceNamed`), the destination by name (`DestNamed`), and the policy if
there is only one (`PolicyNamed`).

`ScraperProofs` proves `ReturnsForAReason` and `FreshCredentials` for every
limit of attempts and any number of rotations and faults. The code counts the
attempts of one inner loop and has a flag; `CountsAgree` says at which steps
these are the number of fruitless attempts in a row. `ReadsFresh` says that what
an attempt has read is not older than its beginning, and that it connects only
after having read everything.

`PolicyReconcileProofs` proves `TypeOK`, `ConditionsAreCurrent` and
`OthersObjectsKept` for any sets of policies, specifications and clusters and
caches any number of changes behind. The last two rest on optimistic concurrency:
a write succeeds only if the object is what was read, so the generation that was
judged is the current one, and the controller that was looked at is the one that
is overwritten. `IInv` says what is needed for that: every pending, cached and
current state of an object is at most one object, policies have a UID that is a
number already given out (which a foreign controller is not), and a job carries
such a policy. Types alone are not inductive: the worker writes what it holds. The
module begins with lemmas on logs of object states: a write appends, a delivery
drops from the front, and both leave a log.

`ConvergenceProofs` proves `Converged`: `RestIsRight` assuming `OwnersSeen`, and
`SoleOwnerRests` without it where `Foreign` is empty. That nothing is left to do
says nothing about how it came to that, so the invariant is about every moment
before. `Tracked` says of each policy that is not in the queue that it has what it
is due by the caches, or that the worker holds it and is about to write that, or
that a change of it is still to be delivered; and that its object is in place or an
event that names it as the owner is on its way. At rest there is nothing on its
way, the caches are current, and what is due by the caches is what is right. For
`SoleOwnerRests`, `AllOwned` adds that every version of every object has a policy
as its controller, so that every event names one.

`PromotionProofs` proves `TypeOK` and `NoLostUpdate` for any set of flows, modes
and number of events, from the same argument: every writer of a proposal starts
from the state it replaces, and adds to its rules or sets its label. `IInv` adds
that no two policies share a name, that the worker holds at most one proposal and
that only a labelled one is being promoted, which makes the mode of a promoted
policy one.

`DecisionProofs` proves decisions right for questions of any size:

- `ReadyIffExclusive` and `KeptOverlapReported` for any cluster. `WellFormed`
  states what the API server guarantees and they need: objects of one kind have
  different names and references their three fields.
- `GoesToItsPolicy` for any set of policies and any two views of them.
- `LearningAddsOnlyTheFlow` and `ClearsOnlyPermitted` for any lists of rules with
  any peers, ports and principals. An upsert changes one rule or appends one;
  `UpsertAdds` and `MeshUpsertAdds` show rule by rule what that permits.
  `OneTaken` and `OneTakes` unfold the loop of `EqualUnordered` for the one peer and
  port a violation has, in the two directions.
- `TLSAsAsked` for any flags and any contents of the places they point to.

The type invariants of `RingBuffer`, `StatusSync`, `Scraper` and `Tailer` are part
of what is proved, and are not repeated in the runs.

The assumptions on constants are `BufferAssumption`, `StatusAssumption`,
`SyncAssumption`, `LagAssumption`, `ReconcileAssumption`, `PromotionAssumption`,
`ScraperAssumption` and `TailerAssumption`: kinds of numbers and of sets, each
evaluated by TLC in a run. TLC also evaluates `EndsAreBuilt` and `ThingsAreBuilt`, that
the pods of the `decisions` run are built like those the theorems on lines and flows
are about.

Only model-checked:

- liveness (`ComesToRest`, `LeftoversGo`, `LabelsTakeEffect`, `EventsSettle`,
  `AcknowledgementApplied`, `CancelStops`, `Settles`, `CatchesUp`), which needs
  fairness and `ENABLED`;
- `DoesWhatItPromises` and `LearnsWhatItSaw`, which are about what loops over lists
  of any length compute and need induction over sequences.

## Not modelled

- OTLP emission, the flow dumper, flags, metrics and probes: formatting and
  output. That a record is emitted is part of the action that emits it.
- The start and graceful stop of the OTLP server and of the manager, which are
  gRPC's and controller-runtime's.
- Generated code, charts and end-to-end tests.
- The splitting of text into fields (ztunnel lines, endpoints, PEM), the text of
  conditions and the transition counters of the policy controller.
- Policies that are deleted and recreated during a sync cycle: `StatusSync`
  has one policy that stays. Which policy an observation goes to when policies
  move in that time is in `AttributionDecision`.
- Objects with a deletion timestamp, and creations and deletions that fall into
  one gap of a watch.
- A machine that loses unsynced writes (`Tailer` has processes that die), rotated
  and truncated logs, and an agent without a `StatePath`.
- ztunnel lines outside the supported schema, which `Parse` refuses.
- The Istio variant of updating a proposal under concurrency: `Promotion` has one
  direction of one workload on Kubernetes, and `LearnedRules` has the rules of
  both backends in one step. The owner reference that the Istio variant sets in
  memory only is repaired by the proposal controller.
