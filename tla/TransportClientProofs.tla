------------------------- MODULE TransportClientProofs -------------------------
(***************************************************************************)
(* Safety of TransportClient for any number of senders, requests and       *)
(* attempts per request.                                                   *)
(*                                                                         *)
(* A request that is still being attempted has been processed at most as   *)
(* often as it was answered 5xx, and that at most once per attempt before  *)
(* this one (CountInv).  A client that reads healthy has a time of contact *)
(* or is about to store one (ContactInv).  As long as no two outcomes are  *)
(* recorded at once, the stores of the one that is are in place one after  *)
(* the other (HealthInv).                                                  *)
(***************************************************************************)
EXTENDS TransportClient, TLAPS

CountInv ==
    \A s \in Senders :
        /\ processed[s] <= errors5xx[s] + 1 /\ processed[s] <= attempt[s] + 1
        /\ pc[s] \in {"sending", "backoff"} =>
              processed[s] <= errors5xx[s] /\ errors5xx[s] <= attempt[s]

ContactInv ==
    /\ healthy => lastHealthyTime \/ \E s \in Senders : pc[s] = "ok2"
    /\ lastHealthyTime => contacted
    /\ \A s \in Senders : pc[s] \in RecordingOK => contacted

OneRecords == \A s, t \in Senders : Recording(s) /\ Recording(t) => s = t

\* How far the stores of an outcome have come.
Stored(s) ==
    /\ pc[s] \in {"ok2", "ok3", "ok4"} => healthy
    /\ pc[s] = "ok4" => consecutiveErrors = 0
    /\ pc[s] \in {"bad2", "bad3"} => ~healthy
    /\ pc[s] = "bad3" => consecutiveErrors # 0

FailureInv == \A s \in Senders : pc[s] \in RecordingBad => failure[s] # "none"

HealthInv ==
    /\ FailureInv
    /\ ~overlapped =>
         OneRecords /\ (\A s \in Senders : Stored(s)) /\ HealthWithoutOverlap

IInv == TypeOK /\ CountInv /\ ContactInv /\ HealthInv
-----------------------------------------------------------------------------
(* Types *)

LEMMA TypeInductive == TypeOK /\ [Next]_vars => TypeOK'
  <1> SUFFICES ASSUME TypeOK, [Next]_vars PROVE TypeOK'
    OBVIOUS
  <1> USE ClientAssumption DEF TypeOK, Goto, Step, StartRecording, RecordingOK, RecordingBad,
          Failure, healthVars, historyVars
  <1>1. ASSUME NEW s \in Senders, Send(s) PROVE TypeOK'
    BY <1>1 DEF Send
  <1>2. ASSUME NEW s \in Senders, NEW answer \in Answer, AttemptEnds(s, answer) PROVE TypeOK'
    <2>1. processed' \in [Senders -> Nat] /\ errors5xx' \in [Senders -> Nat]
      BY <1>2 DEF AttemptEnds
    <2>2. contacted' \in BOOLEAN /\ UNCHANGED <<ctxDone, sends, healthVars, lastOutcome>>
      BY <1>2 DEF AttemptEnds
    <2>3. CASE answer = "ok" /\ StartRecording(s, "ok1") /\ UNCHANGED <<attempt, failure>>
      BY <2>1, <2>2, <2>3
    <2>4. CASE /\ AttemptsLeft(s) /\ Goto(s, "backoff")
               /\ attempt' = [attempt EXCEPT ![s] = @ + 1]
               /\ UNCHANGED <<failure, overlapped>>
      <3>1. attempt' \in [Senders -> 0..MaxRetries - 1]
        BY <2>4 DEF AttemptsLeft
      <3>2. QED
        BY <2>1, <2>2, <2>4, <3>1
    <2>5. CASE /\ answer # "ok" /\ StartRecording(s, "bad1")
               /\ failure' = [failure EXCEPT ![s] = answer]
               /\ UNCHANGED attempt
      <3>1. failure' \in [Senders -> Failure \cup {"none"}]
        BY <2>5 DEF Answer
      <3>2. QED
        BY <2>1, <2>2, <2>5, <3>1
    <2>6. QED
      BY <1>2, <2>3, <2>4, <2>5 DEF AttemptEnds
  <1>3. ASSUME NEW s \in Senders, BackoffElapsed(s) PROVE TypeOK'
    BY <1>3 DEF BackoffElapsed
  <1>4. ASSUME NEW s \in Senders, BackoffCancelled(s) PROVE TypeOK'
    BY <1>4 DEF BackoffCancelled
  <1>5. ASSUME NEW s \in Senders, Record(s) PROVE TypeOK'
    <2>1. UNCHANGED <<attempt, ctxDone, sends, processed, errors5xx, contacted, overlapped>>
      BY <1>5 DEF Record
    <2>2. CASE MarkHealthy(s)
      BY <2>1, <2>2 DEF MarkHealthy
    <2>3. CASE MarkContact(s)
      BY <2>1, <2>3 DEF MarkContact
    <2>4. CASE ResetErrors(s)
      BY <2>1, <2>4 DEF ResetErrors
    <2>5. CASE ClearLastError(s)
      BY <2>1, <2>5 DEF ClearLastError
    <2>6. CASE MarkUnhealthy(s)
      BY <2>1, <2>6 DEF MarkUnhealthy
    <2>7. CASE CountError(s)
      BY <2>1, <2>7 DEF CountError
    <2>8. CASE StoreLastError(s)
      BY <2>1, <2>8 DEF StoreLastError
    <2>9. QED
      BY <1>5, <2>2, <2>3, <2>4, <2>5, <2>6, <2>7, <2>8 DEF Record
  <1>6. ASSUME NEW s \in Senders, ContextEnds(s) PROVE TypeOK'
    BY <1>6 DEF ContextEnds
  <1>7. CASE UNCHANGED vars
    BY <1>7 DEF vars, requestVars
  <1>8. QED
    BY <1>1, <1>2, <1>3, <1>4, <1>5, <1>6, <1>7 DEF Next

-----------------------------------------------------------------------------
(* How often a request is processed *)

LEMMA CountInductive == TypeOK /\ CountInv /\ [Next]_vars => CountInv'
  <1> SUFFICES ASSUME TypeOK, CountInv, [Next]_vars PROVE CountInv'
    OBVIOUS
  <1> USE DEF TypeOK, CountInv, Goto, Step, StartRecording, RecordingOK, RecordingBad
  <1>1. ASSUME NEW s \in Senders, Send(s) PROVE CountInv'
    BY <1>1 DEF Send
  <1>2. ASSUME NEW s \in Senders, NEW answer \in Answer, AttemptEnds(s, answer) PROVE CountInv'
    <2>1. pc[s] = "sending" /\ processed[s] <= errors5xx[s] /\ errors5xx[s] <= attempt[s]
      BY <1>2 DEF AttemptEnds
    <2>2. CASE answer = "server"
      <3>1. /\ errors5xx' = [errors5xx EXCEPT ![s] = @ + 1]
            /\ \E n \in {0, 1} : processed' = [processed EXCEPT ![s] = @ + n]
        BY <1>2, <2>2 DEF AttemptEnds
      <3>2. processed'[s] <= errors5xx'[s] /\ errors5xx'[s] <= attempt[s] + 1
        BY <2>1, <3>1
      <3>3. CASE /\ pc' = [pc EXCEPT ![s] = "backoff"]
                 /\ attempt' = [attempt EXCEPT ![s] = @ + 1]
        BY <2>1, <3>1, <3>2, <3>3
      <3>4. CASE pc' = [pc EXCEPT ![s] = "bad1"] /\ attempt' = attempt
        BY <2>1, <3>1, <3>2, <3>4
      <3>5. QED
        BY <1>2, <2>2, <3>3, <3>4 DEF AttemptEnds, Retryable
    <2>3. CASE answer # "server"
      <3>1. /\ UNCHANGED errors5xx
            /\ \E n \in {0, 1} : processed' = [processed EXCEPT ![s] = @ + n]
        BY <1>2, <2>3 DEF AttemptEnds
      <3>2. /\ pc' = [pc EXCEPT ![s] = "ok1"] \/ pc' = [pc EXCEPT ![s] = "bad1"]
            /\ attempt' = attempt
        BY <1>2, <2>3 DEF AttemptEnds, Retryable
      <3>3. QED
        BY <2>1, <3>1, <3>2
    <2>4. QED
      BY <2>2, <2>3
  <1>3. ASSUME NEW s \in Senders, BackoffElapsed(s) PROVE CountInv'
    BY <1>3 DEF BackoffElapsed
  <1>4. ASSUME NEW s \in Senders, BackoffCancelled(s) PROVE CountInv'
    BY <1>4 DEF BackoffCancelled
  <1>5. ASSUME NEW s \in Senders, Record(s) PROVE CountInv'
    BY <1>5 DEF Record, MarkHealthy, MarkContact, ResetErrors, ClearLastError,
                MarkUnhealthy, CountError, StoreLastError
  <1>6. ASSUME NEW s \in Senders, ContextEnds(s) PROVE CountInv'
    BY <1>6 DEF ContextEnds
  <1>7. CASE UNCHANGED vars
    BY <1>7 DEF vars, requestVars
  <1>8. QED
    BY <1>1, <1>2, <1>3, <1>4, <1>5, <1>6, <1>7 DEF Next

-----------------------------------------------------------------------------
(* Health *)

LEMMA ContactInductive == TypeOK /\ ContactInv /\ [Next]_vars => ContactInv'
  <1> SUFFICES ASSUME TypeOK, ContactInv, [Next]_vars PROVE ContactInv'
    OBVIOUS
  <1> USE DEF TypeOK, ContactInv, Goto, Step, StartRecording, RecordingOK, RecordingBad,
              healthVars, historyVars
  <1>1. ASSUME NEW s \in Senders, Send(s) PROVE ContactInv'
    BY <1>1 DEF Send
  <1>2. ASSUME NEW s \in Senders, NEW answer \in Answer, AttemptEnds(s, answer) PROVE ContactInv'
    <2>1. /\ pc[s] = "sending" /\ UNCHANGED <<healthy, lastHealthyTime>>
          /\ contacted' = (contacted \/ answer = "ok")
      BY <1>2 DEF AttemptEnds
    <2>2. \/ pc' = [pc EXCEPT ![s] = "ok1"] /\ answer = "ok"
          \/ pc' = [pc EXCEPT ![s] = "backoff"]
          \/ pc' = [pc EXCEPT ![s] = "bad1"]
      BY <1>2 DEF AttemptEnds
    <2>3. QED
      BY <2>1, <2>2
  <1>3. ASSUME NEW s \in Senders, BackoffElapsed(s) PROVE ContactInv'
    BY <1>3 DEF BackoffElapsed
  <1>4. ASSUME NEW s \in Senders, BackoffCancelled(s) PROVE ContactInv'
    BY <1>4 DEF BackoffCancelled
  <1>5. ASSUME NEW s \in Senders, Record(s) PROVE ContactInv'
    <2> USE DEF Record
    <2>1. CASE MarkHealthy(s)
      BY <1>5, <2>1 DEF MarkHealthy
    <2>2. CASE MarkContact(s)
      BY <1>5, <2>2 DEF MarkContact
    <2>3. CASE ResetErrors(s) \/ ClearLastError(s)
      BY <1>5, <2>3 DEF ResetErrors, ClearLastError
    <2>4. CASE MarkUnhealthy(s) \/ CountError(s) \/ StoreLastError(s)
      BY <1>5, <2>4 DEF MarkUnhealthy, CountError, StoreLastError
    <2>5. QED
      BY <1>5, <2>1, <2>2, <2>3, <2>4
  <1>6. ASSUME NEW s \in Senders, ContextEnds(s) PROVE ContactInv'
    BY <1>6 DEF ContextEnds
  <1>7. CASE UNCHANGED vars
    BY <1>7 DEF vars, requestVars
  <1>8. QED
    BY <1>1, <1>2, <1>3, <1>4, <1>5, <1>6, <1>7 DEF Next

-----------------------------------------------------------------------------
(* Outcomes recorded one at a time *)

LEMMA FailureInductive == TypeOK /\ FailureInv /\ [Next]_vars => FailureInv'
  <1> SUFFICES ASSUME TypeOK, FailureInv, [Next]_vars PROVE FailureInv'
    OBVIOUS
  <1> USE DEF TypeOK, FailureInv, Goto, Step, StartRecording, RecordingBad, historyVars
  <1>1. ASSUME NEW s \in Senders, Send(s) PROVE FailureInv'
    BY <1>1 DEF Send
  <1>2. ASSUME NEW s \in Senders, NEW answer \in Answer, AttemptEnds(s, answer) PROVE FailureInv'
    <2>1. answer # "none"
      BY DEF Answer, Failure
    <2>2. \/ pc' = [pc EXCEPT ![s] = "ok1"] /\ failure' = failure
          \/ pc' = [pc EXCEPT ![s] = "backoff"] /\ failure' = failure
          \/ pc' = [pc EXCEPT ![s] = "bad1"] /\ failure' = [failure EXCEPT ![s] = answer]
      BY <1>2 DEF AttemptEnds
    <2>3. QED
      BY <2>1, <2>2
  <1>3. ASSUME NEW s \in Senders, BackoffElapsed(s) \/ BackoffCancelled(s) PROVE FailureInv'
    BY <1>3 DEF BackoffElapsed, BackoffCancelled
  <1>4. ASSUME NEW s \in Senders, Record(s) PROVE FailureInv'
    BY <1>4 DEF Record, MarkHealthy, MarkContact, ResetErrors, ClearLastError,
                MarkUnhealthy, CountError, StoreLastError
  <1>5. ASSUME NEW s \in Senders, ContextEnds(s) PROVE FailureInv'
    BY <1>5 DEF ContextEnds
  <1>6. CASE UNCHANGED vars
    BY <1>6 DEF vars, requestVars
  <1>7. QED
    BY <1>1, <1>2, <1>3, <1>4, <1>5, <1>6 DEF Next

\* A step that begins no recording, or begins the only one, and stores nothing.
LEMMA NothingStored ==
    ASSUME TypeOK, HealthInv, FailureInv', UNCHANGED <<healthVars, lastOutcome>>,
           NEW s \in Senders, ~Recording(s),
           NEW place \in {"idle", "sending", "backoff", "ok1", "bad1"},
           pc' = [pc EXCEPT ![s] = place],
           \/ place \in {"idle", "sending", "backoff"} /\ UNCHANGED overlapped
           \/ overlapped' = (overlapped \/ \E t \in Senders \ {s} : Recording(t))
    PROVE  HealthInv'
  <1> USE DEF RecordingOK, RecordingBad
  <1>1. UNCHANGED <<healthy, consecutiveErrors, lastError, lastOutcome>>
    BY DEF healthVars
  <1>2. pc'[s] = place /\ \A t \in Senders \ {s} : pc'[t] = pc[t]
    BY DEF TypeOK
  <1>3. ~Recording(s)' \/ place \in {"ok1", "bad1"}
    BY <1>2 DEF Recording
  <1>4. SUFFICES ASSUME ~overlapped'
                 PROVE  OneRecords' /\ (\A t \in Senders : Stored(t)') /\ HealthWithoutOverlap'
    BY DEF HealthInv, Stored
  <1>5. ~overlapped /\ OneRecords /\ (\A t \in Senders : Stored(t)) /\ HealthWithoutOverlap
    BY <1>4 DEF HealthInv, TypeOK
  <1>6. Recording(s)' => \A t \in Senders \ {s} : ~Recording(t)
    BY <1>3, <1>4
  <1>7. \A t \in Senders \ {s} : Recording(t)' <=> Recording(t)
    BY <1>2 DEF Recording
  <1>8. OneRecords'
    <2>1. ASSUME NEW t \in Senders, NEW u \in Senders, Recording(t)', Recording(u)'
          PROVE  t = u
      BY <2>1, <1>5, <1>6, <1>7 DEF OneRecords
    <2>2. QED
      BY <2>1 DEF OneRecords, Recording
  <1>9. ASSUME NEW t \in Senders PROVE Stored(t)'
    <2>1. CASE t = s
      BY <2>1, <1>2 DEF Stored
    <2>2. CASE t # s
      BY <2>2, <1>1, <1>2, <1>5 DEF Stored
    <2>3. QED
      BY <2>1, <2>2
  <1>10. HealthWithoutOverlap'
    <2>1. AtRest' => AtRest
      BY <1>7 DEF AtRest
    <2>2. QED
      BY <2>1, <1>1, <1>5 DEF HealthWithoutOverlap
  <1>11. QED
    BY <1>8, <1>9, <1>10

\* A store, by the only request that records.
LEMMA StoreKeeps ==
    ASSUME TypeOK, HealthInv, FailureInv', NEW s \in Senders, Record(s)
    PROVE  HealthInv'
  <1> USE DEF RecordingOK, RecordingBad, Step, Goto
  <1>1. overlapped' = overlapped
    BY DEF Record
  <1>2. SUFFICES ASSUME ~overlapped
                 PROVE  OneRecords' /\ (\A t \in Senders : Stored(t)') /\ HealthWithoutOverlap'
    BY <1>1 DEF HealthInv, Stored
  <1>3. OneRecords /\ Stored(s) /\ FailureInv
    BY <1>2 DEF HealthInv
  <1>4. PICK place \in RecordingOK \cup RecordingBad \cup {"idle"} :
            pc' = [pc EXCEPT ![s] = place] /\ Recording(s)
    BY DEF Record, MarkHealthy, MarkContact, ResetErrors, ClearLastError,
           MarkUnhealthy, CountError, StoreLastError, Recording
  <1>5. pc'[s] = place /\ \A t \in Senders \ {s} : pc'[t] = pc[t]
    BY <1>4 DEF TypeOK
  <1>6. \A t \in Senders \ {s} : pc[t] \notin RecordingOK \cup RecordingBad
    BY <1>3, <1>4 DEF OneRecords, Recording
  <1>7. \A t \in Senders \ {s} : ~Recording(t)' /\ Stored(t)'
    BY <1>5, <1>6 DEF Recording, Stored
  <1>8. OneRecords'
    BY <1>7 DEF OneRecords
  <1>9. Stored(s)' /\ (place = "idle" => HealthWithoutOverlap')
    <2>1. consecutiveErrors \in Nat
      BY DEF TypeOK
    <2>2. CASE MarkHealthy(s) \/ MarkContact(s) \/ ResetErrors(s)
      BY <2>2, <1>3, <1>4, <1>5 DEF MarkHealthy, MarkContact, ResetErrors, Stored
    <2>3. CASE MarkUnhealthy(s) \/ CountError(s)
      BY <2>1, <2>3, <1>3, <1>4, <1>5 DEF MarkUnhealthy, CountError, Stored
    <2>4. CASE ClearLastError(s)
      <3>1. pc[s] = "ok4" /\ place = "idle" /\ lastError' = "none" /\ lastOutcome' = "ok"
            /\ UNCHANGED <<healthy, consecutiveErrors>>
        BY <2>4, <1>5 DEF ClearLastError, TypeOK
      <3>2. healthy /\ consecutiveErrors = 0
        BY <3>1, <1>3 DEF Stored
      <3>3. QED
        BY <3>1, <3>2, <1>5 DEF Stored, HealthWithoutOverlap
    <2>5. CASE StoreLastError(s)
      <3>1. pc[s] = "bad3" /\ place = "idle" /\ lastError' = failure[s] /\ lastOutcome' = "bad"
            /\ UNCHANGED <<healthy, consecutiveErrors>>
        BY <2>5, <1>5 DEF StoreLastError, TypeOK
      <3>2. ~healthy /\ consecutiveErrors # 0 /\ failure[s] # "none"
        BY <3>1, <1>3 DEF Stored, FailureInv
      <3>3. QED
        BY <3>1, <3>2, <1>5 DEF Stored, HealthWithoutOverlap
    <2>6. QED
      BY <2>2, <2>3, <2>4, <2>5 DEF Record
  <1>10. place # "idle" => HealthWithoutOverlap'
    <2>1. place # "idle" => Recording(s)'
      BY <1>4, <1>5 DEF Recording
    <2>2. QED
      BY <2>1 DEF HealthWithoutOverlap, AtRest
  <1>11. QED
    BY <1>7, <1>8, <1>9, <1>10

LEMMA HealthInductive == TypeOK /\ HealthInv /\ [Next]_vars => HealthInv'
  <1> SUFFICES ASSUME TypeOK, HealthInv, [Next]_vars PROVE HealthInv'
    OBVIOUS
  <1>1. FailureInv'
    BY FailureInductive DEF HealthInv
  <1> USE DEF Goto, Recording, RecordingOK, RecordingBad, historyVars
  <1>2. ASSUME NEW s \in Senders, Send(s) PROVE HealthInv'
    <2>1. pc[s] = "idle" /\ pc' = [pc EXCEPT ![s] = "sending"]
          /\ UNCHANGED <<healthVars, lastOutcome, overlapped>>
      BY <1>2 DEF Send
    <2>2. QED
      BY <1>1, <2>1, NothingStored
  <1>3. ASSUME NEW s \in Senders, NEW answer \in Answer, AttemptEnds(s, answer) PROVE HealthInv'
    <2>1. pc[s] = "sending" /\ UNCHANGED <<healthVars, lastOutcome>>
      BY <1>3 DEF AttemptEnds
    <2>2. \/ pc' = [pc EXCEPT ![s] = "backoff"] /\ UNCHANGED overlapped
          \/ \E place \in {"ok1", "bad1"} :
                /\ pc' = [pc EXCEPT ![s] = place]
                /\ overlapped' = (overlapped \/ \E t \in Senders \ {s} : Recording(t))
      BY <1>3 DEF AttemptEnds, StartRecording
    <2>3. QED
      BY <1>1, <2>1, <2>2, NothingStored
  <1>4. ASSUME NEW s \in Senders, BackoffElapsed(s) PROVE HealthInv'
    <2>1. pc[s] = "backoff" /\ pc' = [pc EXCEPT ![s] = "sending"]
          /\ UNCHANGED <<healthVars, lastOutcome, overlapped>>
      BY <1>4 DEF BackoffElapsed
    <2>2. QED
      BY <1>1, <2>1, NothingStored
  <1>5. ASSUME NEW s \in Senders, BackoffCancelled(s) PROVE HealthInv'
    <2>1. pc[s] = "backoff" /\ pc' = [pc EXCEPT ![s] = "bad1"]
          /\ UNCHANGED <<healthVars, lastOutcome>>
          /\ overlapped' = (overlapped \/ \E t \in Senders \ {s} : Recording(t))
      BY <1>5 DEF BackoffCancelled, StartRecording
    <2>2. QED
      BY <1>1, <2>1, NothingStored
  <1>6. ASSUME NEW s \in Senders, Record(s) PROVE HealthInv'
    BY <1>1, <1>6, StoreKeeps
  <1>7. CASE (\E s \in Senders : ContextEnds(s)) \/ UNCHANGED vars
    <2>1. UNCHANGED <<pc, failure, healthy, consecutiveErrors, lastError, lastOutcome, overlapped>>
      BY <1>7 DEF ContextEnds, vars, requestVars, healthVars
    <2>2. QED
      BY <2>1 DEF HealthInv, FailureInv, OneRecords, Stored, HealthWithoutOverlap, AtRest
  <1>8. QED
    BY <1>2, <1>3, <1>4, <1>5, <1>6, <1>7 DEF Next

-----------------------------------------------------------------------------
(* Theorems *)

LEMMA InvInit == Init => IInv
  <1> SUFFICES ASSUME Init PROVE IInv
    OBVIOUS
  <1> USE ClientAssumption DEF Init
  <1>1. TypeOK
    <2>1. attempt \in [Senders -> 0..MaxRetries - 1]
      <3>1. 0 \in 0..MaxRetries - 1
        OBVIOUS
      <3>2. QED
        BY <3>1
    <2>2. sends \in 0..MaxSends /\ ctxDone \subseteq Senders
      OBVIOUS
    <2>3. QED
      BY <2>1, <2>2 DEF TypeOK, Failure
  <1>2. CountInv /\ ContactInv
    BY DEF CountInv, ContactInv, RecordingOK
  <1>3. HealthInv
    BY DEF HealthInv, FailureInv, OneRecords, Stored, HealthWithoutOverlap, Recording,
           RecordingOK, RecordingBad
  <1>4. QED
    BY <1>1, <1>2, <1>3 DEF IInv

\* The invariant behind the theorems below.
THEOREM Invariance == Spec => []IInv
  <1>1. IInv /\ [Next]_vars => IInv'
    BY TypeInductive, CountInductive, ContactInductive, HealthInductive DEF IInv
  <1>2. QED
    BY <1>1, InvInit, PTL DEF Spec

\* Every reachable state is well typed; the attempt counter stays below maxRetries.
THEOREM TypeCorrect == Spec => []TypeOK
  <1>1. IInv => TypeOK
    BY DEF IInv
  <1>2. QED
    BY <1>1, Invariance, PTL

\* The retry loop of sendWithRetry duplicates a request only after a 5xx answer, and
\* gives it to the platform at most maxRetries times.
THEOREM DuplicatesExplained == Spec => []DuplicatesNeedServerError
  <1>1. IInv => DuplicatesNeedServerError
    <2>1. ASSUME IInv, NEW s \in Senders PROVE processed[s] <= MaxRetries
      <3>1. attempt[s] \in 0..MaxRetries - 1 /\ processed[s] \in Nat /\ processed[s] <= attempt[s] + 1
        BY <2>1 DEF IInv, TypeOK, CountInv
      <3>2. QED
        BY <3>1, ClientAssumption
    <2>2. QED
      BY <2>1 DEF IInv, CountInv, DuplicatesNeedServerError
  <1>2. QED
    BY <1>1, Invariance, PTL

\* A client at rest that IsHealthy calls healthy, or that CheckReady takes for ready,
\* has been in contact with the platform, however the recordings overlapped.
THEOREM HealthIsContact == Spec => []HealthNeedsContact
  <1>1. IInv => HealthNeedsContact
    BY DEF IInv, ContactInv, HealthNeedsContact, AtRest, Recording, RecordingOK
  <1>2. QED
    BY <1>1, Invariance, PTL

\* recordHealthy and recordUnhealthy store four values without a lock: where no two
\* requests record at once, the stores agree with each other and with the last outcome.
THEOREM HealthIsLastOutcome == Spec => []HealthWithoutOverlap
  <1>1. IInv => HealthWithoutOverlap
    BY DEF IInv, HealthInv, HealthWithoutOverlap
  <1>2. QED
    BY <1>1, Invariance, PTL
==============================================================================
