------------------------------- MODULE Scraper -------------------------------
(***************************************************************************)
(* A Cilium or Calico scraper with what surrounds it: the flow server of   *)
(* the data plane it connects to, the certificates both sides rotate, and  *)
(* the channel of the learning controller.  Violations go to the ring      *)
(* buffer, which never keeps its writer waiting (module RingBuffer).       *)
(*                                                                         *)
(* runStreamWithReconnect is two nested loops.  The inner one, of the      *)
(* retry library, repeats an attempt until one has received a flow, until  *)
(* MaxConsecutiveFailures have not, or until an error looks like the end   *)
(* of the context; the outer one starts it again after a stream that had   *)
(* received something.  An attempt reads the certificates file by file or  *)
(* object by object, connects, and receives flows until an error ends it.  *)
(*                                                                         *)
(* Certificates are versions: a pair loads when certificate and key have   *)
(* the same one, and the server accepts the pair, and is accepted, when    *)
(* certificate and CA have the version of the server.                      *)
(***************************************************************************)
EXTENDS Naturals, Sequences, FiniteSets

CONSTANTS
    Hops,                    \* [provider, source] the scraper may be configured with
    MaxConsecutiveFailures,  \* attempts before the scraper gives up
    ChannelSize,             \* capacity of the learning channel
    MaxVersion,              \* bound on rotations
    MaxFaults                \* bound on failed reads and interruptions

Sources == {"none", "dir", "secret", "configmap"}

ASSUME ScraperAssumption ==
    /\ Hops \subseteq [provider : {"cilium", "calico"}, source : Sources]
    /\ MaxConsecutiveFailures \in Nat \ {0}
    /\ ChannelSize \in Nat /\ MaxVersion \in Nat \ {0} /\ MaxFaults \in Nat

VARIABLES
    hop,         \* provider and certificate source; never changes
    cancelled,   \* has the context of the manager ended?
    step,        \* where the scraper is
    attempts,    \* failed attempts in the inner loop
    successful,  \* successfulConnection
    material,    \* what the attempt has read, Unread where it has not
    result,      \* what Start returned
    events,      \* learning events in the channel
    stored,      \* the certificates as they are stored now
    server,      \* [up, version] of the flow server
    faults,
    lastErr,     \* history: how the last attempt ended
    began,       \* history: what was stored when the attempt began
    fruitless    \* history: attempts that ended without a flow, in a row (counted
                 \* to one more than the code should make)

stream == <<step, attempts, successful, material, result, lastErr, began, fruitless>>
vars == <<hop, cancelled, stream, events, stored, server, faults>>

Files == {"cert", "key", "ca"}
Unread == [f \in Files |-> 0]

(* What one read returns: DirSource reads three files, SecretSource a       *)
(* Secret, or a Secret and then the ConfigMap with the CA.  A hop without   *)
(* a source reads nothing.                                                 *)
Reads(source) ==
    CASE source = "none"      -> << >>
      [] source = "dir"       -> <<{"cert"}, {"key"}, {"ca"}>>
      [] source = "secret"    -> <<Files>>
      [] source = "configmap" -> <<{"cert", "key"}, {"ca"}>>

(* What changes together: the kubelet swaps a mounted directory as a whole. *)
Rotated(source) ==
    IF source = "dir" THEN {Files} ELSE {Reads(source)[i] : i \in DOMAIN Reads(source)}

Init ==
    /\ hop \in Hops
    /\ cancelled = FALSE
    /\ step = "begin"
    /\ attempts = 0
    /\ successful = FALSE
    /\ material = Unread
    /\ result = "running"
    /\ events = 0
    /\ stored = [f \in Files |-> 1]
    /\ server = [up |-> TRUE, version |-> 1]
    /\ faults = 0
    /\ lastErr = "none"
    /\ began = Unread
    /\ fruitless = 0

(***************************************************************************)
(* runStreamWithReconnect.                                                 *)
(***************************************************************************)
(* A timed out call to the API server is a DeadlineExceeded too. *)
IsContextCancellation(err) == err \in {"canceled", "timeout"}

Return(r) == step' = "returned" /\ result' = r

\* Mutant: attempts that received nothing are no reason to return.
LeaveNever(err) ==
    IF IsContextCancellation(err) \/ cancelled THEN Return("nil")
    ELSE step' = "pause" /\ UNCHANGED result

(* After the inner loop. *)
Leave(err) ==
    IF IsContextCancellation(err) \/ cancelled THEN Return("nil")
    ELSE IF ~successful THEN Return("error")
    ELSE step' = "pause" /\ UNCHANGED result

(* RetryIf and Attempts; err = "none" is success to the retry library. *)
GivesUp(err) ==
    \/ err = "none" \/ IsContextCancellation(err) \/ successful
    \/ attempts + 1 = MaxConsecutiveFailures

\* Mutant: the certificates are kept for the next attempt.
Keep == UNCHANGED material

(* Credentials belong to one connection. *)
Forget == material' = Unread

AttemptEnds(err) ==
    /\ fruitless' = IF successful THEN 0
                     ELSE IF fruitless > MaxConsecutiveFailures THEN fruitless ELSE fruitless + 1
    /\ attempts' = attempts + 1
    /\ IF GivesUp(err) THEN Leave(err) ELSE step' = "retry" /\ UNCHANGED result
    /\ Forget
    /\ began' = Unread
    /\ lastErr' = err
    /\ UNCHANGED successful

Outside == UNCHANGED <<hop, cancelled, events, stored, server>>

(* The reads that are still to be made. *)
Unfinished ==
    {i \in DOMAIN Reads(hop.source) : \E f \in Reads(hop.source)[i] : material[f] = 0}

Begin ==
    /\ step = "begin"
    /\ step' = IF Unfinished = {} THEN "dial" ELSE "read"
    /\ successful' = FALSE
    /\ began' = stored
    /\ Outside /\ UNCHANGED <<attempts, material, result, faults, lastErr, fruitless>>

(* The delay between two attempts; a context that ends meanwhile ends the   *)
(* inner loop, and when both are ready either is taken.                    *)
RetryDelay ==
    /\ step = "retry"
    /\ \/ step' = "begin" /\ UNCHANGED result
       \/ cancelled /\ Leave("canceled")
    /\ Outside /\ UNCHANGED <<attempts, successful, material, faults, lastErr, began, fruitless>>

\* Mutant: the failures before the last stream still count.
ReconnectCounting ==
    /\ step = "pause"
    /\ \/ step' = "begin" /\ UNCHANGED <<attempts, result>>
       \/ cancelled /\ Return("nil") /\ UNCHANGED attempts
    /\ Outside /\ UNCHANGED <<successful, material, faults, lastErr, began, fruitless>>

(* The delay after a stream that was interrupted. *)
ReconnectDelay ==
    /\ step = "pause"
    /\ \/ step' = "begin" /\ attempts' = 0 /\ UNCHANGED result
       \/ cancelled /\ Return("nil") /\ UNCHANGED attempts
    /\ Outside /\ UNCHANGED <<successful, material, faults, lastErr, began, fruitless>>

(***************************************************************************)
(* One attempt: the stream methods.                                        *)
(***************************************************************************)
NextRead == Reads(hop.source)[CHOOSE i \in Unfinished : \A j \in Unfinished : i <= j]

(* Source.Get.  DirSource looks at the context before its first read, the   *)
(* API client before each of its calls.                                    *)
ReadMaterial ==
    /\ step = "read"
    /\ IF cancelled /\ (hop.source = "dir" => material = Unread)
       THEN AttemptEnds("canceled") /\ UNCHANGED faults
       ELSE \/ /\ material' = [f \in Files |-> IF f \in NextRead THEN stored[f] ELSE material[f]]
               /\ step' = IF Cardinality(Unfinished) > 1 THEN "read" ELSE "dial"
               /\ UNCHANGED <<attempts, successful, result, faults, lastErr, began, fruitless>>
            \/ /\ faults < MaxFaults
               /\ faults' = faults + 1
               /\ \/ AttemptEnds("error")
                  \/ hop.source # "dir" /\ AttemptEnds("timeout")
    /\ Outside

(* Goldmane is not dialled without certificates, and a certificate that     *)
(* does not belong to its key does not load.                               *)
Credentials ==
    /\ hop.source = "none" => hop.provider = "cilium"
    /\ material.cert = material.key

Accepted ==
    /\ server.up /\ ~cancelled
    /\ hop.source # "none" => material.cert = server.version /\ material.ca = server.version

Dial ==
    /\ step = "dial"
    /\ IF Credentials /\ Accepted
       THEN step' = "recv" /\ UNCHANGED <<attempts, successful, material, result, lastErr, began, fruitless>>
       ELSE AttemptEnds("error")
    /\ Outside /\ UNCHANGED faults

(* Recv returned a flow; what the parser makes of it is a choice here. *)
Receive ==
    /\ step = "recv"
    /\ successful' = TRUE
    /\ fruitless' = 0
    /\ step' \in {"recv", "enqueue"}
    /\ Outside /\ UNCHANGED <<attempts, material, result, faults, lastErr, began>>

Handled ==
    /\ step' = "recv"
    /\ UNCHANGED <<hop, cancelled, attempts, successful, material, result,
                   stored, server, faults, lastErr, began, fruitless>>

\* Mutant: the send waits for room in the channel.
EnqueueBlocks ==
    /\ step = "enqueue"
    /\ events < ChannelSize /\ events' = events + 1
    /\ Handled

(* EnqueueLearningEvent never waits: a full channel refuses the event. *)
Enqueue ==
    /\ step = "enqueue"
    /\ events' = IF events < ChannelSize THEN events + 1 ELSE events
    /\ Handled

(* Recv returned an error: an ended context is none to the caller. *)
StreamEnds ==
    /\ step = "recv"
    /\ cancelled \/ ~server.up
    /\ AttemptEnds(IF cancelled THEN "none" ELSE "error")
    /\ Outside /\ UNCHANGED faults

Interrupted ==
    /\ step = "recv"
    /\ faults < MaxFaults
    /\ faults' = faults + 1
    /\ AttemptEnds(IF cancelled THEN "none" ELSE "error")
    /\ Outside

(***************************************************************************)
(* What goes on around the scraper.                                        *)
(***************************************************************************)
Cancel ==
    /\ ~cancelled
    /\ cancelled' = TRUE
    /\ UNCHANGED <<hop, stream, events, stored, server, faults>>

Rotate ==
    /\ \E group \in Rotated(hop.source) :
          /\ \A f \in group : stored[f] < MaxVersion
          /\ stored' = [f \in Files |-> IF f \in group THEN stored[f] + 1 ELSE stored[f]]
    /\ UNCHANGED <<hop, cancelled, stream, events, server, faults>>

ServerChanges ==
    /\ \/ server.version < MaxVersion /\ server' = [server EXCEPT !.version = @ + 1]
       \/ ~server.up /\ server' = [server EXCEPT !.up = TRUE]
    /\ UNCHANGED <<hop, cancelled, stream, events, stored, faults>>

ServerStops ==
    /\ server.up /\ faults < MaxFaults
    /\ server' = [server EXCEPT !.up = FALSE]
    /\ faults' = faults + 1
    /\ UNCHANGED <<hop, cancelled, stream, events, stored>>

(* The learning controller takes an event. *)
Learn ==
    /\ events > 0
    /\ events' = events - 1
    /\ UNCHANGED <<hop, cancelled, stream, stored, server, faults>>

Progress ==
    Begin \/ RetryDelay \/ ReconnectDelay \/ ReadMaterial \/ Dial \/ Enqueue \/ StreamEnds
Surroundings ==
    Cancel \/ Rotate \/ ServerChanges \/ ServerStops \/ Learn

Next == Progress \/ Receive \/ Interrupted \/ Surroundings

(* The goroutine of the scraper runs: calls and delays end.  On an ended    *)
(* context or without its server, Recv fails once the flows that had        *)
(* already arrived are used up.  Nothing is assumed of the server or of     *)
(* the reader of the channel.                                              *)
Spec ==
    /\ Init /\ [][Next]_vars
    /\ WF_vars(Progress)
    /\ SF_vars(StreamEnds)

(***************************************************************************)
(* Properties.                                                             *)
(***************************************************************************)
Open == step \in {"recv", "enqueue"}

TypeOK ==
    /\ hop \in Hops /\ cancelled \in BOOLEAN /\ successful \in BOOLEAN
    /\ Open \/ step \in {"begin", "read", "dial", "retry", "pause", "returned"}
    /\ attempts \in 0 .. MaxConsecutiveFailures
    /\ fruitless \in 0 .. MaxConsecutiveFailures
    /\ material \in [Files -> 0 .. MaxVersion] /\ began \in [Files -> 0 .. MaxVersion]
    /\ stored \in [Files -> 1 .. MaxVersion]
    /\ result \in {"running", "nil", "error"} /\ (result # "running" <=> step = "returned")
    /\ events \in 0 .. ChannelSize /\ faults \in 0 .. MaxFaults

(* The scraper reports failure only after MaxConsecutiveFailures attempts   *)
(* in a row that received nothing: neither failures from before the last    *)
(* flow nor a shutdown count (successfulConnection and the inner loop of    *)
(* runStreamWithReconnect).                                                *)
GivesUpAfterConsecutiveFailures == result = "error" => fruitless = MaxConsecutiveFailures

(* A stream runs on a certificate and key of one generation, and on nothing *)
(* older than what was stored when its attempt began, though a rotation may *)
(* fall between two reads ("rotation is picked up on the next reconnect").  *)
FreshCredentials ==
    Open => /\ material.cert = material.key
            /\ hop.source # "none" => \A f \in Files : material[f] >= began[f]

(* The scraper returns without an error only when its context has ended,    *)
(* or when a call to the API server for its certificates timed out, which   *)
(* it takes for the end of its context (isContextCancellation).             *)
QuietWhenCancelledOrTimedOut == result = "nil" => cancelled \/ lastErr = "timeout"

(* However Start returns, that is why (runStreamWithReconnect). *)
ReturnsForAReason == GivesUpAfterConsecutiveFailures /\ QuietWhenCancelledOrTimedOut

(* A scraper whose context ends returns, from whatever step it is in and    *)
(* though nobody takes events from the learning channel.                    *)
CancelStops == cancelled ~> (step = "returned")

(* Once certificates, server and calls stop changing, the scraper receives *)
(* flows for good or has returned: it does not reconnect for ever.          *)
Settles == <>[](Open \/ step = "returned")
==============================================================================
