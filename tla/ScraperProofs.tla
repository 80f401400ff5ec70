----------------------------- MODULE ScraperProofs -----------------------------
(***************************************************************************)
(* The safety properties of Scraper for every number of attempts,          *)
(* rotations and faults.                                                   *)
(*                                                                         *)
(* GivesUpAfterConsecutiveFailures is about a count the code does not       *)
(* keep: it has the attempts of one inner loop, and a flag.  The invariant *)
(* says at which steps the two agree with it.  FreshCredentials needs that *)
(* what an attempt has read so far is no older than its beginning, and     *)
(* that it connects only when it has read everything.                      *)
(***************************************************************************)
EXTENDS Scraper, FiniteSetTheorems, TLAPS

(* The attempts of the inner loop are the attempts in a row without a flow, *)
(* until there is a flow; then there are none.                             *)
CountsAgree ==
    /\ step \in {"read", "dial", "retry"} => ~successful
    /\ step \in {"enqueue", "pause"} => successful
    /\ step \in {"begin", "read", "dial", "retry"} => fruitless = attempts
    /\ Open => fruitless = IF successful THEN 0 ELSE attempts
    /\ step = "pause" => fruitless = 0
    /\ step \notin {"pause", "returned"} => attempts < MaxConsecutiveFailures

(* What has been read was stored when the attempt began, or later. *)
ReadsFresh ==
    /\ step \in {"begin", "retry", "pause"} => material = Unread
    /\ \A f \in Files : began[f] <= stored[f]
    /\ \A f \in Files : material[f] # 0 => material[f] >= began[f]
    /\ step = "dial" /\ hop.source # "none" => \A f \in Files : material[f] # 0

IInv ==
    /\ TypeOK /\ CountsAgree /\ ReadsFresh
    /\ GivesUpAfterConsecutiveFailures /\ FreshCredentials /\ QuietWhenCancelledOrTimedOut

-----------------------------------------------------------------------------
\* The invariant holds of a scraper that has just been started.
LEMMA InitIInv == Init => IInv
<1>. SUFFICES ASSUME Init PROVE IInv
  OBVIOUS
<1>1. TypeOK
  <2>1. /\ 0 \in 0 .. MaxConsecutiveFailures /\ 0 \in 0 .. ChannelSize /\ 0 \in 0 .. MaxFaults
        /\ 0 \in 0 .. MaxVersion /\ 1 \in 1 .. MaxVersion
    BY ScraperAssumption
  <2>2. Unread \in [Files -> 0 .. MaxVersion] /\ stored \in [Files -> 1 .. MaxVersion]
    BY <2>1 DEF Init, Unread
  <2>. QED BY <2>1, <2>2, ZenonT(30) DEF Init, TypeOK, Open
<1>2. CountsAgree
  BY ScraperAssumption DEF Init, CountsAgree, Open
<1>3. ReadsFresh
  BY DEF Init, ReadsFresh, Unread
<1>. QED BY <1>1, <1>2, <1>3 DEF IInv, Init, GivesUpAfterConsecutiveFailures, FreshCredentials,
                                 QuietWhenCancelledOrTimedOut, Open

(* What the end of an attempt may lead to. *)
Ended(err) ==
    \/ step' = "returned" /\ result' = "nil" /\ (cancelled \/ IsContextCancellation(err))
    \/ step' = "returned" /\ result' = "error" /\ ~successful /\ attempts + 1 = MaxConsecutiveFailures
    \/ step' = "pause" /\ result' = result /\ successful
    \/ step' = "retry" /\ result' = result /\ ~successful /\ attempts + 1 # MaxConsecutiveFailures

\* Of the ways to leave the inner loop, only the last failure in a row is one
\* to report (GivesUp and Leave taken together).
LEMMA HowAttemptsEnd ==
  ASSUME NEW err, err = "none" => cancelled, AttemptEnds(err)
  PROVE  Ended(err)
  BY DEF AttemptEnds, GivesUp, Leave, Return, Ended

\* The end of an attempt keeps the invariant, from whichever step it comes.
LEMMA AttemptEndsIInv ==
  ASSUME IInv, step \in {"read", "dial", "recv"},
         NEW err \in {"none", "error", "canceled", "timeout"},
         err \in {"none", "canceled"} => cancelled,
         AttemptEnds(err), Outside, faults' \in 0 .. MaxFaults
  PROVE  IInv'
<1>. USE DEF IInv
<1>1. Ended(err)
  BY HowAttemptsEnd
<1>2. /\ attempts' = attempts + 1 /\ successful' = successful /\ lastErr' = err
      /\ material' = Unread /\ began' = Unread
      /\ fruitless' = IF successful THEN 0 ELSE attempts + 1
      /\ attempts \in Nat /\ attempts < MaxConsecutiveFailures
  BY ScraperAssumption DEF AttemptEnds, Forget, CountsAgree, Open, TypeOK
<1>3. UNCHANGED <<hop, cancelled, events, stored, server>>
  BY DEF Outside
<1>4. TypeOK'
  BY <1>1, <1>2, <1>3, ScraperAssumption DEF TypeOK, Ended, Open, Unread
<1>5. CountsAgree'
  BY <1>1, <1>2, <1>3, ScraperAssumption DEF CountsAgree, Ended, Open
<1>6. ReadsFresh'
  BY <1>1, <1>2, <1>3, ScraperAssumption DEF ReadsFresh, Ended, Unread, TypeOK
<1>7. GivesUpAfterConsecutiveFailures'
  BY <1>1, <1>2 DEF Ended, GivesUpAfterConsecutiveFailures, TypeOK
<1>8. FreshCredentials'
  BY <1>1 DEF Ended, FreshCredentials, Open
<1>9. QuietWhenCancelledOrTimedOut'
  BY <1>1, <1>2, <1>3 DEF Ended, QuietWhenCancelledOrTimedOut, IsContextCancellation, TypeOK
<1>. QED BY <1>4, <1>5, <1>6, <1>7, <1>8, <1>9

-----------------------------------------------------------------------------
\* Every file is part of a read, unless the hop has no source.
LEMMA FileIsRead ==
  ASSUME TypeOK, hop.source # "none", NEW f \in Files
  PROVE  \E i \in DOMAIN Reads(hop.source) : f \in Reads(hop.source)[i]
<1>1. hop.source \in {"dir", "secret", "configmap"}
  BY ScraperAssumption DEF TypeOK, Sources
<1>2. CASE hop.source = "dir"
  <2>1. Reads(hop.source) = <<{"cert"}, {"key"}, {"ca"}>>
    BY <1>2 DEF Reads
  <2>. QED BY <2>1 DEF Files
<1>3. CASE hop.source = "secret"
  <2>1. Reads(hop.source) = <<Files>>
    BY <1>3 DEF Reads
  <2>. QED BY <2>1
<1>4. CASE hop.source = "configmap"
  <2>1. Reads(hop.source) = <<{"cert", "key"}, {"ca"}>>
    BY <1>4 DEF Reads
  <2>. QED BY <2>1 DEF Files
<1>. QED BY <1>1, <1>2, <1>3, <1>4

\* There are at most three reads.
LEMMA ReadsDomain ==
  ASSUME TypeOK
  PROVE  DOMAIN Reads(hop.source) \subseteq 1 .. 3
<1>1. hop.source \in Sources
  BY ScraperAssumption DEF TypeOK
<1>. QED BY <1>1 DEF Reads, Sources

\* The last read leaves no file unread.
LEMMA LastRead ==
  ASSUME TypeOK, hop.source # "none", ~(Cardinality(Unfinished) > 1),
         NEW f \in Files, material[f] = 0
  PROVE  f \in NextRead
<1>1. PICK i \in DOMAIN Reads(hop.source) : f \in Reads(hop.source)[i]
  BY FileIsRead
<1>2. i \in Unfinished
  BY <1>1 DEF Unfinished
<1>3. IsFiniteSet(Unfinished)
  <2>1. Unfinished \subseteq 1 .. 3
    BY ReadsDomain DEF Unfinished
  <2>2. IsFiniteSet(1 .. 3)
    <3>1. \A a, b \in Int : IsFiniteSet(a .. b)
      BY FS_Interval
    <3>2. 1 \in Int /\ 3 \in Int
      OBVIOUS
    <3>. QED BY <3>1, <3>2, ZenonT(30)
  <2>. QED BY <2>1, <2>2, FS_Subset, ZenonT(30)
<1>4. Cardinality(Unfinished) \in Nat
  BY <1>3, FS_CardinalityType
<1>5. ASSUME NEW j \in Unfinished, j # i PROVE FALSE
  <2>1. {i, j} \subseteq Unfinished
    BY <1>2, <1>5
  <2>2. Cardinality({i, j}) <= Cardinality(Unfinished)
    BY <2>1, <1>3, FS_Subset
  <2>3. IsFiniteSet({i}) /\ Cardinality({i}) = 1
    BY FS_Singleton, ZenonT(30)
  <2>4. Cardinality({i} \cup {j}) = 2
    <3>1. j \notin {i}
      BY <1>5
    <3>2. Cardinality({i} \cup {j}) = Cardinality({i}) + 1
      BY <2>3, <3>1, FS_AddElement, ZenonT(30)
    <3>. QED BY <2>3, <3>2
  <2>5. {i} \cup {j} = {i, j}
    OBVIOUS
  <2>. QED BY <1>4, <2>2, <2>4, <2>5
<1>6. Unfinished = {i}
  BY <1>2, <1>5
<1>7. i <= i
  BY <1>1, ReadsDomain
<1>8. (CHOOSE k \in Unfinished : \A j \in Unfinished : k <= j) = i
  BY <1>6, <1>7
<1>. QED BY <1>1, <1>8, ZenonT(30) DEF NextRead

-----------------------------------------------------------------------------
(* The steps of the scraper that end no attempt, and those around it, leave *)
(* the result alone, so the two properties of it stay true.                *)
LEMMA ResultKept ==
  ASSUME GivesUpAfterConsecutiveFailures, QuietWhenCancelledOrTimedOut, TypeOK,
         result' = result, lastErr' = lastErr, cancelled => cancelled',
         step = "returned" => fruitless' = fruitless
  PROVE  GivesUpAfterConsecutiveFailures' /\ QuietWhenCancelledOrTimedOut'
  BY DEF GivesUpAfterConsecutiveFailures, QuietWhenCancelledOrTimedOut, TypeOK

\* An attempt that begins starts from what is stored.
LEMMA BeginIInv ==
  ASSUME IInv, Begin
  PROVE  IInv'
<1>. USE DEF IInv, Begin, Outside
<1>1. TypeOK'
  <2>1. began' \in [Files -> 0 .. MaxVersion]
    BY DEF TypeOK
  <2>. QED BY <2>1, ZenonT(30) DEF TypeOK, Open
<1>2. CountsAgree'
  BY DEF CountsAgree, Open
<1>3. ReadsFresh'
  <2>1. step' = "dial" /\ hop.source # "none" => FALSE
    <3>. SUFFICES ASSUME Unfinished = {}, hop.source # "none" PROVE FALSE
      OBVIOUS
    <3>1. "cert" \in Files /\ material["cert"] = 0
      BY DEF ReadsFresh, Unread, Files
    <3>. QED BY <3>1, FileIsRead DEF Unfinished
  <2>. QED BY <2>1, ScraperAssumption DEF ReadsFresh, Unread, TypeOK
<1>4. FreshCredentials'
  BY DEF FreshCredentials, Open
<1>. QED BY <1>1, <1>2, <1>3, <1>4, ResultKept

\* The delay between attempts leads to the next attempt or out.
LEMMA RetryDelayIInv ==
  ASSUME IInv, RetryDelay
  PROVE  IInv'
<1>. USE DEF IInv, RetryDelay, Outside, Leave, Return
<1>1. TypeOK'
  BY DEF TypeOK, Open, IsContextCancellation
<1>2. CountsAgree'
  BY DEF CountsAgree, Open, IsContextCancellation
<1>3. ReadsFresh'
  BY DEF ReadsFresh, IsContextCancellation
<1>4. FreshCredentials'
  BY DEF FreshCredentials, Open, IsContextCancellation
<1>5. GivesUpAfterConsecutiveFailures' /\ QuietWhenCancelledOrTimedOut'
  BY DEF GivesUpAfterConsecutiveFailures, QuietWhenCancelledOrTimedOut, TypeOK, IsContextCancellation
<1>. QED BY <1>1, <1>2, <1>3, <1>4, <1>5

\* The delay before a reconnection resets the count of failures.
LEMMA ReconnectDelayIInv ==
  ASSUME IInv, ReconnectDelay
  PROVE  IInv'
<1>. USE DEF IInv, ReconnectDelay, Outside, Return
<1>1. TypeOK'
  BY ScraperAssumption DEF TypeOK, Open
<1>2. CountsAgree'
  BY ScraperAssumption DEF CountsAgree, Open
<1>3. ReadsFresh'
  BY DEF ReadsFresh
<1>4. FreshCredentials'
  BY DEF FreshCredentials, Open
<1>5. GivesUpAfterConsecutiveFailures' /\ QuietWhenCancelledOrTimedOut'
  BY DEF GivesUpAfterConsecutiveFailures, QuietWhenCancelledOrTimedOut, TypeOK
<1>. QED BY <1>1, <1>2, <1>3, <1>4, <1>5

\* A failed read or interruption stays within the bound on faults.
LEMMA FaultBounded ==
  ASSUME TypeOK, faults < MaxFaults, faults' = faults + 1
  PROVE  faults' \in 0 .. MaxFaults
  BY ScraperAssumption DEF TypeOK

\* Each file is read as it is stored, or the attempt ends.
LEMMA ReadMaterialIInv ==
  ASSUME IInv, ReadMaterial
  PROVE  IInv'
<1>. USE DEF IInv
<1>1. step = "read" /\ Outside
  BY DEF ReadMaterial
<1>2. CASE cancelled /\ AttemptEnds("canceled") /\ UNCHANGED faults
  <2>1. faults' \in 0 .. MaxFaults
    BY <1>2 DEF TypeOK
  <2>. QED BY <1>1, <1>2, <2>1, AttemptEndsIInv
<1>3. CASE /\ faults < MaxFaults /\ faults' = faults + 1
           /\ AttemptEnds("error") \/ AttemptEnds("timeout")
  <2>1. faults' \in 0 .. MaxFaults
    BY <1>3, FaultBounded
  <2>. QED BY <1>1, <1>3, <2>1, AttemptEndsIInv
<1>4. CASE /\ material' = [f \in Files |-> IF f \in NextRead THEN stored[f] ELSE material[f]]
           /\ step' = IF Cardinality(Unfinished) > 1 THEN "read" ELSE "dial"
           /\ UNCHANGED <<attempts, successful, result, faults, lastErr, began, fruitless>>
  <2>. USE DEF Outside
  <2>1. \A f \in Files : stored[f] \in 1 .. MaxVersion /\ material[f] \in 0 .. MaxVersion
                         /\ began[f] \in 0 .. MaxVersion
    BY DEF TypeOK
  <2>2. \A f \in Files : material'[f] = IF f \in NextRead THEN stored[f] ELSE material[f]
    BY <1>4
  <2>3. material' \in [Files -> 0 .. MaxVersion]
    <3>1. \A f \in Files : stored[f] \in 0 .. MaxVersion
      BY <2>1
    <3>. QED BY <1>4, <2>1, <3>1
  <2>4. TypeOK'
    BY <1>1, <1>4, <2>3 DEF TypeOK, Open
  <2>5. CountsAgree'
    BY <1>1, <1>4 DEF CountsAgree, Open
  <2>6. ReadsFresh'
    <3>1. \A f \in Files : material'[f] # 0 => material'[f] >= began'[f]
      BY <1>4, <2>1, <2>2 DEF ReadsFresh
    <3>2. step' = "dial" /\ hop.source # "none" => \A f \in Files : material'[f] # 0
      BY <1>4, <2>1, <2>2, LastRead
    <3>. QED BY <1>1, <1>4, <3>1, <3>2 DEF ReadsFresh
  <2>7. FreshCredentials'
    BY <1>4 DEF FreshCredentials, Open
  <2>. QED BY <1>1, <1>4, <2>4, <2>5, <2>6, <2>7, ResultKept
<1>. QED BY <1>2, <1>3, <1>4 DEF ReadMaterial

\* The handshake uses what was read, or the attempt ends.
LEMMA DialIInv ==
  ASSUME IInv, Dial
  PROVE  IInv'
<1>. USE DEF IInv
<1>1. step = "dial" /\ Outside /\ faults' = faults /\ faults' \in 0 .. MaxFaults
  BY DEF Dial, TypeOK
<1>2. CASE AttemptEnds("error")
  BY <1>1, <1>2, AttemptEndsIInv
<1>3. CASE Credentials /\ step' = "recv"
           /\ UNCHANGED <<attempts, successful, material, result, lastErr, began, fruitless>>
  <2>. USE DEF Outside
  <2>1. TypeOK'
    BY <1>1, <1>3 DEF TypeOK, Open
  <2>2. CountsAgree'
    BY <1>1, <1>3 DEF CountsAgree, Open
  <2>3. ReadsFresh'
    BY <1>1, <1>3 DEF ReadsFresh
  <2>4. FreshCredentials'
    BY <1>1, <1>3 DEF FreshCredentials, ReadsFresh, Credentials
  <2>. QED BY <1>1, <1>3, <2>1, <2>2, <2>3, <2>4, ResultKept
<1>. QED BY <1>2, <1>3 DEF Dial

\* A flow received makes the attempt a successful one.
LEMMA StreamIInv ==
  ASSUME IInv, Receive \/ Enqueue
  PROVE  IInv'
<1>. USE DEF IInv, Receive, Enqueue, Handled, Outside
<1>1. TypeOK'
  <2>1. events' \in 0 .. ChannelSize
    BY ScraperAssumption DEF TypeOK
  <2>2. 0 \in 0 .. MaxConsecutiveFailures
    BY ScraperAssumption
  <2>3. UNCHANGED <<hop, cancelled, attempts, material, result, stored, faults, began>>
    OBVIOUS
  <2>. QED BY <2>1, <2>2, <2>3, ZenonT(30) DEF TypeOK, Open
<1>2. CountsAgree'
  BY DEF CountsAgree, Open
<1>3. ReadsFresh'
  BY DEF ReadsFresh
<1>4. FreshCredentials'
  BY DEF FreshCredentials, Open
<1>. QED BY <1>1, <1>2, <1>3, <1>4, ResultKept

\* The stream ends as an attempt ends.
LEMMA StreamEndsIInv ==
  ASSUME IInv, StreamEnds \/ Interrupted
  PROVE  IInv'
<1>1. /\ step = "recv" /\ Outside /\ AttemptEnds(IF cancelled THEN "none" ELSE "error")
      /\ faults' = faults \/ (faults < MaxFaults /\ faults' = faults + 1)
  BY DEF StreamEnds, Interrupted
<1>2. faults' \in 0 .. MaxFaults
  BY <1>1, FaultBounded DEF IInv, TypeOK
<1>. QED BY <1>1, <1>2, AttemptEndsIInv

\* What happens around the scraper only adds generations and cancels.
LEMMA SurroundingsIInv ==
  ASSUME IInv, Surroundings
  PROVE  IInv'
<1>. USE DEF IInv, Surroundings, Cancel, Rotate, ServerChanges, ServerStops, Learn, stream
<1>1. UNCHANGED <<hop, stream>> /\ (cancelled => cancelled')
  OBVIOUS
<1>2. /\ stored' \in [Files -> 1 .. MaxVersion]
      /\ \A f \in Files : stored[f] <= stored'[f]
  <2>1. CASE UNCHANGED stored
    BY <2>1 DEF TypeOK
  <2>2. CASE Rotate
    BY <2>2, ScraperAssumption DEF TypeOK
  <2>. QED BY <2>1, <2>2
<1>3. TypeOK'
  <2>1. events' \in 0 .. ChannelSize
    BY ScraperAssumption DEF TypeOK
  <2>2. faults' \in 0 .. MaxFaults
    BY FaultBounded DEF TypeOK
  <2>3. cancelled' \in BOOLEAN
    BY ZenonT(30) DEF TypeOK
  <2>. QED BY <1>1, <1>2, <2>1, <2>2, <2>3 DEF TypeOK, Open
<1>4. CountsAgree'
  BY <1>1 DEF CountsAgree, Open
<1>5. ReadsFresh'
  <2>1. \A f \in Files : began'[f] <= stored'[f]
    BY <1>1, <1>2, ScraperAssumption DEF ReadsFresh, TypeOK
  <2>. QED BY <1>1, <2>1 DEF ReadsFresh
<1>6. FreshCredentials'
  BY <1>1 DEF FreshCredentials, Open
<1>. QED BY <1>1, <1>3, <1>4, <1>5, <1>6, ResultKept

-----------------------------------------------------------------------------
\* The inductive invariant holds in every state.
THEOREM ScraperInvariance == Spec => []IInv
<1>1. Init => IInv
  BY InitIInv
<1>2. IInv /\ [Next]_vars => IInv'
  <2>. SUFFICES ASSUME IInv, [Next]_vars PROVE IInv'
    OBVIOUS
  <2>1. CASE UNCHANGED vars
    BY <2>1 DEF IInv, TypeOK, CountsAgree, ReadsFresh, GivesUpAfterConsecutiveFailures,
                FreshCredentials, QuietWhenCancelledOrTimedOut, Open, vars, stream
  <2>. QED
    BY <2>1, BeginIInv, RetryDelayIInv, ReconnectDelayIInv, ReadMaterialIInv, DialIInv, StreamIInv,
       StreamEndsIInv, SurroundingsIInv DEF Next, Progress
<1>. QED BY <1>1, <1>2, PTL DEF Spec

\* Whatever the number of attempts it is given, the scraper reports failure
\* only when that many attempts in a row have received nothing, and returns
\* without an error only when it was cancelled or a read of its certificates
\* timed out (runStreamWithReconnect, isContextCancellation).
THEOREM ReturnExplained == Spec => []ReturnsForAReason
<1>1. IInv => ReturnsForAReason
  BY DEF IInv, ReturnsForAReason
<1>. QED BY <1>1, ScraperInvariance, PTL

\* A stream never runs on a torn or an outdated pair, however many rotations
\* fall between the reads (transportCredentials, dialOptions).
THEOREM CredentialsFresh == Spec => []FreshCredentials
<1>1. IInv => FreshCredentials
  BY DEF IInv
<1>. QED BY <1>1, ScraperInvariance, PTL
================================================================================
