---------------------------- MODULE TransportClient ----------------------------
(***************************************************************************)
(* internal/transport/client.go: one Client of one agent, used at the same *)
(* time by the event processor and by Reconcile, with its retry loop and   *)
(* the health it keeps in three atomics and a locked field that are        *)
(* written one after the other and read by the health probes.              *)
(*                                                                         *)
(* A request is a call of SendSnapshot, SendEvent or SendHeartbeat; what   *)
(* the platform answers is the environment's choice.                       *)
(***************************************************************************)
EXTENDS Naturals, FiniteSets

CONSTANTS
    Senders,     \* goroutines that send
    MaxRetries,  \* maxRetries: attempts per request
    MaxSends     \* bound: requests

ASSUME ClientAssumption == MaxRetries \in Nat \ {0} /\ MaxSends \in Nat

\* What an attempt ends with: nil, ServerError (5xx), AuthError (401), ClientError
\* (other 4xx), or any other error (no token, no connection, timeout, odd status).
Answer == {"ok", "server", "auth", "client", "other"}

\* The error returned by sendWithRetry; exhausted retries wrap the last 5xx.
Failure == {"server", "auth", "client", "other", "cancelled"}

VARIABLES
    pc,                 \* per sender: the place in sendWithRetry, recordHealthy, recordUnhealthy
    attempt,            \* per sender: the loop variable of sendWithRetry
    failure,            \* per sender: the error being recorded, "none" if none
    ctxDone,            \* senders whose context is cancelled or has expired
    healthy,            \* Client.healthy
    lastHealthyTime,    \* Client.lastHealthyTime: whether it was ever set
    consecutiveErrors,  \* Client.consecutiveErrors
    lastError,          \* Client.lastError, "none" for nil
    sends,              \* number of requests
    processed,          \* history, per sender: times the platform processed the request
    errors5xx,          \* history, per sender: 5xx answers to the request
    contacted,          \* history: some request has succeeded
    overlapped,         \* history: two requests recorded their outcome at the same time
    lastOutcome         \* history: outcome recorded last, "none" before the first

requestVars == <<pc, attempt, failure, ctxDone, sends, processed, errors5xx>>
healthVars == <<healthy, lastHealthyTime, consecutiveErrors, lastError>>
historyVars == <<contacted, overlapped, lastOutcome>>
vars == <<requestVars, healthVars, historyVars>>

RecordingOK == {"ok1", "ok2", "ok3", "ok4"}
RecordingBad == {"bad1", "bad2", "bad3"}
Recording(s) == pc[s] \in RecordingOK \cup RecordingBad

TypeOK ==
    /\ pc \in [Senders -> {"idle", "sending", "backoff"} \cup RecordingOK \cup RecordingBad]
    /\ attempt \in [Senders -> 0..MaxRetries - 1]
    /\ failure \in [Senders -> Failure \cup {"none"}]
    /\ ctxDone \subseteq Senders
    /\ healthy \in BOOLEAN
    /\ lastHealthyTime \in BOOLEAN
    /\ consecutiveErrors \in Nat
    /\ lastError \in Failure \cup {"none"}
    /\ sends \in 0..MaxSends
    /\ processed \in [Senders -> Nat]
    /\ errors5xx \in [Senders -> Nat]
    /\ contacted \in BOOLEAN
    /\ overlapped \in BOOLEAN
    /\ lastOutcome \in {"none", "ok", "bad"}

Init ==
    /\ pc = [s \in Senders |-> "idle"]
    /\ attempt = [s \in Senders |-> 0]
    /\ failure = [s \in Senders |-> "none"]
    /\ ctxDone = {}
    /\ healthy = FALSE
    /\ lastHealthyTime = FALSE
    /\ consecutiveErrors = 0
    /\ lastError = "none"
    /\ sends = 0
    /\ processed = [s \in Senders |-> 0]
    /\ errors5xx = [s \in Senders |-> 0]
    /\ contacted = FALSE
    /\ overlapped = FALSE
    /\ lastOutcome = "none"

Goto(s, place) == pc' = [pc EXCEPT ![s] = place]

-----------------------------------------------------------------------------
(* sendWithRetry and send *)

Send(s) ==
    /\ pc[s] = "idle" /\ sends < MaxSends
    /\ Goto(s, "sending")
    /\ attempt' = [attempt EXCEPT ![s] = 0]
    /\ sends' = sends + 1
    /\ ctxDone' = ctxDone \ {s}
    /\ processed' = [processed EXCEPT ![s] = 0]
    /\ errors5xx' = [errors5xx EXCEPT ![s] = 0]
    /\ UNCHANGED <<failure, healthVars, historyVars>>

\* Operators whose name ends in _bug are wrong on purpose: each is a mistake the
\* code could contain, kept to show which property notices it.  No specification
\* refers to them.

\* The loop condition of sendWithRetry, before the next attempt.
AttemptsLeft_bug(s) == attempt[s] < MaxRetries
AttemptsLeft(s) == attempt[s] + 1 < MaxRetries

\* isRetryableError
Retryable_bug(answer) == answer \in {"server", "other"}
Retryable(answer) == answer = "server"

StartRecording(s, place) ==
    /\ Goto(s, place)
    /\ overlapped' = (overlapped \/ \E t \in Senders \ {s} : Recording(t))

\* An attempt ends.  The platform has processed a request it accepts; of one that
\* ends with a 5xx or without an answer, it may have.
AttemptEnds(s, answer) ==
    /\ pc[s] = "sending"
    /\ \E n \in CASE answer = "ok" -> {1}
                  [] answer \in {"server", "other"} -> {0, 1}
                  [] OTHER -> {0} :
          processed' = [processed EXCEPT ![s] = @ + n]
    /\ errors5xx' = [errors5xx EXCEPT ![s] = IF answer = "server" THEN @ + 1 ELSE @]
    /\ contacted' = (contacted \/ answer = "ok")
    /\ \/ /\ answer = "ok"
          /\ StartRecording(s, "ok1")
          /\ UNCHANGED <<attempt, failure>>
       \/ /\ Retryable(answer) /\ AttemptsLeft(s)
          /\ Goto(s, "backoff")
          /\ attempt' = [attempt EXCEPT ![s] = @ + 1]
          /\ UNCHANGED <<failure, overlapped>>
       \/ /\ answer # "ok"
          /\ Retryable(answer) => ~AttemptsLeft(s)
          /\ StartRecording(s, "bad1")
          /\ failure' = [failure EXCEPT ![s] = answer]
          /\ UNCHANGED attempt
    /\ UNCHANGED <<ctxDone, sends, healthVars, lastOutcome>>

BackoffElapsed_bug(s) ==
    /\ pc[s] = "backoff" /\ AttemptsLeft(s)
    /\ Goto(s, "sending")
    /\ UNCHANGED <<attempt, failure, ctxDone, sends, processed, errors5xx,
                   healthVars, historyVars>>

BackoffElapsed(s) ==
    /\ pc[s] = "backoff"
    /\ Goto(s, "sending")
    /\ UNCHANGED <<attempt, failure, ctxDone, sends, processed, errors5xx,
                   healthVars, historyVars>>

BackoffCancelled(s) ==
    /\ pc[s] = "backoff" /\ s \in ctxDone
    /\ StartRecording(s, "bad1")
    /\ failure' = [failure EXCEPT ![s] = "cancelled"]
    /\ UNCHANGED <<attempt, ctxDone, sends, processed, errors5xx,
                   healthVars, contacted, lastOutcome>>

-----------------------------------------------------------------------------
(* recordHealthy and recordUnhealthy, one store at a time; the last step is the *)
(* return of the request.                                                       *)

Step(s, from, to) == pc[s] = from /\ Goto(s, to)

MarkHealthy(s) ==
    /\ Step(s, "ok1", "ok2")
    /\ healthy' = TRUE
    /\ UNCHANGED <<lastHealthyTime, consecutiveErrors, lastError, lastOutcome, failure>>

MarkContact_bug(s) ==
    /\ Step(s, "ok2", "ok3")
    /\ UNCHANGED <<healthVars, lastOutcome, failure>>
MarkContact(s) ==
    /\ Step(s, "ok2", "ok3")
    /\ lastHealthyTime' = TRUE
    /\ UNCHANGED <<healthy, consecutiveErrors, lastError, lastOutcome, failure>>

ResetErrors(s) ==
    /\ Step(s, "ok3", "ok4")
    /\ consecutiveErrors' = 0
    /\ UNCHANGED <<healthy, lastHealthyTime, lastError, lastOutcome, failure>>

ClearLastError(s) ==
    /\ Step(s, "ok4", "idle")
    /\ lastError' = "none"
    /\ lastOutcome' = "ok"
    /\ UNCHANGED <<healthy, lastHealthyTime, consecutiveErrors, failure>>

MarkUnhealthy_bug(s) ==
    /\ Step(s, "bad1", "bad2")
    /\ UNCHANGED <<healthVars, lastOutcome, failure>>
MarkUnhealthy(s) ==
    /\ Step(s, "bad1", "bad2")
    /\ healthy' = FALSE
    /\ UNCHANGED <<lastHealthyTime, consecutiveErrors, lastError, lastOutcome, failure>>

CountError(s) ==
    /\ Step(s, "bad2", "bad3")
    /\ consecutiveErrors' = consecutiveErrors + 1
    /\ UNCHANGED <<healthy, lastHealthyTime, lastError, lastOutcome, failure>>

StoreLastError(s) ==
    /\ Step(s, "bad3", "idle")
    /\ lastError' = failure[s]
    /\ lastOutcome' = "bad"
    /\ failure' = [failure EXCEPT ![s] = "none"]
    /\ UNCHANGED <<healthy, lastHealthyTime, consecutiveErrors>>

Record(s) ==
    /\ \/ MarkHealthy(s) \/ MarkContact(s) \/ ResetErrors(s) \/ ClearLastError(s)
       \/ MarkUnhealthy(s) \/ CountError(s) \/ StoreLastError(s)
    /\ UNCHANGED <<attempt, ctxDone, sends, processed, errors5xx, contacted, overlapped>>

\* The request's context ends: shutdown, Stop, or the event's 30 s.
ContextEnds(s) ==
    /\ pc[s] \in {"sending", "backoff"} /\ s \notin ctxDone
    /\ ctxDone' = ctxDone \cup {s}
    /\ UNCHANGED <<pc, attempt, failure, sends, processed, errors5xx, healthVars, historyVars>>

Next ==
    \E s \in Senders :
        \/ Send(s)
        \/ \E answer \in Answer : AttemptEnds(s, answer)
        \/ BackoffElapsed(s) \/ BackoffCancelled(s) \/ Record(s) \/ ContextEnds(s)

Spec == Init /\ [][Next]_vars

\* An attempt ends at the latest with the HTTP client's timeout, timers fire, and
\* goroutines run.
Fairness ==
    \A s \in Senders :
        /\ WF_vars(\E answer \in Answer : AttemptEnds(s, answer))
        /\ WF_vars(BackoffElapsed(s) \/ BackoffCancelled(s))
        /\ WF_vars(Record(s))

LiveSpec == Spec /\ Fairness

-----------------------------------------------------------------------------
(* Safety *)

AtRest == \A s \in Senders : ~Recording(s)

\* The platform sees a request twice only if it answered 5xx to it: an answer that
\* is lost (timeout, broken connection) is not retried, so it never duplicates.  Nor
\* does it see one more than maxRetries times, whatever it answers.
DuplicatesNeedServerError ==
    \A s \in Senders : processed[s] <= errors5xx[s] + 1 /\ processed[s] <= MaxRetries

\* As long as outcomes were recorded one at a time, IsHealthy says whether the last
\* request succeeded and agrees with the error count and the stored error.
HealthWithoutOverlap ==
    (AtRest /\ ~overlapped /\ lastOutcome # "none") =>
        /\ healthy <=> lastOutcome = "ok"
        /\ healthy <=> consecutiveErrors = 0
        /\ healthy <=> lastError = "none"

\* Even when they overlap: a client that is healthy at rest has a time of last
\* contact, and has one only if a request has succeeded, so CheckReady never
\* reports ready before the platform accepted something.
HealthNeedsContact ==
    /\ AtRest /\ healthy => lastHealthyTime
    /\ lastHealthyTime => contacted

-----------------------------------------------------------------------------
(* Liveness, under LiveSpec *)

\* Every request returns, whatever the platform answers and however often.
SendsReturn == \A s \in Senders : (pc[s] # "idle") ~> (pc[s] = "idle")
==============================================================================
