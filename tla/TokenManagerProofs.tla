-------------------------- MODULE TokenManagerProofs --------------------------
(***************************************************************************)
(* Safety of TokenManager for any number of callers, calls and             *)
(* credentials, and any lifetimes, provided that the refresh buffer is at  *)
(* least one HTTP timeout.                                                 *)
(*                                                                         *)
(* SingleFlight is inductive together with the types.  The bound on the    *)
(* cached token's acceptance follows the token from the request (which     *)
(* began at most HttpTimeout ago) to the answer and into the cache.        *)
(* That token is of the credentials the refresh began with (AnswerInv):    *)
(* with it, every step is one of SharedToken.                              *)
(***************************************************************************)
EXTENDS TokenManager, TLAPS

TypeInv ==
    /\ TypeOK
    /\ \A c \in Callers : pc[c] = "exchanging" => creds[c] \in Credentials

\* While a refresh runs there is no fresh token in the cache.
NothingFreshToLose == refreshing => ~TokenFresh

WaitInv == \A c \in Callers : pc[c] = "waiting" =>
               waitCh[c] # 0 /\ (waitCh[c] \in closedCh \/ waitCh[c] = refreshCh)

\* How far an expiry computed here may lie after the platform's own.
Covered(token, expires) == token # NoToken => expires <= token.until + HttpTimeout

ExpiryInv ==
    /\ Covered(accessToken, expiresAt)
    /\ \A c \in Callers :
          /\ pc[c] = "exchanging" => /\ began[c] <= now /\ now <= began[c] + HttpTimeout
                                     /\ resp[c] # NoToken => began[c] + life[c] <= resp[c].until
          /\ pc[c] = "received" => Covered(resp[c], expiry[c])
          /\ pc[c] \notin {"exchanging", "received"} => resp[c] = NoToken

\* What a refresh has received is of the credentials it began with.
AnswerInv ==
    \A c \in Callers :
        /\ resp[c] # NoToken => Leader(c) /\ resp[c].cred = creds[c]
        /\ pc[c] = "received" => resp[c] # NoToken
        /\ pc[c] # "received" => expiry[c] = 0

IInv == TypeInv /\ SingleFlight /\ WaitInv /\ NothingFreshToLose /\ ExpiryInv /\ AnswerInv
-----------------------------------------------------------------------------
(* Types *)

LEMMA TypeInvInductive == TypeInv /\ [Next]_vars => TypeInv'
  <1> SUFFICES ASSUME TypeInv, [Next]_vars PROVE TypeInv'
    OBVIOUS
  <1> USE TokenAssumption DEF TypeInv, TypeOK, Token, NoToken, Goto
  <1>1. ASSUME NEW c \in Callers, Call(c) PROVE TypeInv'
    BY <1>1 DEF Call, managerVars, callerVars
  <1>2. ASSUME NEW c \in Callers, FastPath(c) PROVE TypeInv'
    BY <1>2 DEF FastPath, managerVars, callerVars
  <1>3. ASSUME NEW c \in Callers, SlowHit(c) PROVE TypeInv'
    BY <1>3 DEF SlowHit, managerVars, callerVars
  <1>4. ASSUME NEW c \in Callers, SlowWait(c) PROVE TypeInv'
    BY <1>4 DEF SlowWait, managerVars, callerVars
  <1>5. ASSUME NEW c \in Callers, SlowLead(c) PROVE TypeInv'
    BY <1>5 DEF SlowLead, MayLead, managerVars, callerVars
  <1>6. ASSUME NEW c \in Callers, Wake(c) PROVE TypeInv'
    BY <1>6 DEF Wake, managerVars, callerVars
  <1>7. ASSUME NEW c \in Callers, NEW n \in Lifetimes, PlatformIssues(c, n) PROVE TypeInv'
    BY <1>7 DEF PlatformIssues, managerVars, callerVars
  <1>8. ASSUME NEW c \in Callers, ExchangeOK(c) PROVE TypeInv'
    BY <1>8 DEF ExchangeOK, managerVars, callerVars
  <1>9. ASSUME NEW c \in Callers, ExchangeFails(c) PROVE TypeInv'
    BY <1>9 DEF ExchangeFails, managerVars, callerVars
  <1>10. ASSUME NEW c \in Callers, FinishRefresh(c) PROVE TypeInv'
    <2>1. accessToken' \in Token \cup {NoToken} /\ expiresAt' \in Nat
      BY <1>10 DEF FinishRefresh, ChannelClosed
    <2>2. refreshCh' \in 0..chans' /\ closedCh' \subseteq 1..chans' /\ chans' \in Nat
      BY <1>10 DEF FinishRefresh, ChannelClosed
    <2>3. QED
      BY <1>10, <2>1, <2>2 DEF FinishRefresh, ChannelClosed
  <1>11. ASSUME NEW v \in Credentials, UpdateCredentials(v) PROVE TypeInv'
    BY <1>11 DEF UpdateCredentials, managerVars, callerVars
  <1>12. CASE Tick
    BY <1>12 DEF Tick, managerVars, callerVars
  <1>13. CASE UNCHANGED vars
    BY <1>13 DEF vars, managerVars, callerVars
  <1>14. QED
    BY <1>1, <1>2, <1>3, <1>4, <1>5, <1>6, <1>7, <1>8, <1>9, <1>10, <1>11, <1>12, <1>13
    DEF Next, GetAccessToken, Refresh

-----------------------------------------------------------------------------
(* Single flight and the waiters *)

LEMMA SingleFlightInductive == TypeInv /\ SingleFlight /\ [Next]_vars => SingleFlight'
  <1> SUFFICES ASSUME TypeInv, SingleFlight, [Next]_vars PROVE SingleFlight'
    OBVIOUS
  <1> USE DEF TypeInv, TypeOK, SingleFlight, Leader, Goto
  <1>1. ASSUME NEW c \in Callers, Call(c) PROVE SingleFlight'
    BY <1>1 DEF Call, managerVars, callerVars
  <1>2. ASSUME NEW c \in Callers, FastPath(c) PROVE SingleFlight'
    BY <1>2 DEF FastPath, managerVars, callerVars
  <1>3. ASSUME NEW c \in Callers, SlowHit(c) PROVE SingleFlight'
    BY <1>3 DEF SlowHit, managerVars, callerVars
  <1>4. ASSUME NEW c \in Callers, SlowWait(c) PROVE SingleFlight'
    BY <1>4 DEF SlowWait, managerVars, callerVars
  <1>5. ASSUME NEW c \in Callers, SlowLead(c) PROVE SingleFlight'
    BY <1>5 DEF SlowLead, MayLead, managerVars, callerVars
  <1>6. ASSUME NEW c \in Callers, Wake(c) PROVE SingleFlight'
    BY <1>6 DEF Wake, managerVars, callerVars
  <1>7. ASSUME NEW c \in Callers, NEW n \in Lifetimes, PlatformIssues(c, n) PROVE SingleFlight'
    BY <1>7 DEF PlatformIssues, managerVars, callerVars
  <1>8. ASSUME NEW c \in Callers, ExchangeOK(c) PROVE SingleFlight'
    BY <1>8 DEF ExchangeOK, managerVars, callerVars
  <1>9. ASSUME NEW c \in Callers, ExchangeFails(c) PROVE SingleFlight'
    BY <1>9 DEF ExchangeFails, managerVars, callerVars
  <1>10. ASSUME NEW c \in Callers, FinishRefresh(c) PROVE SingleFlight'
    BY <1>10 DEF FinishRefresh, ChannelClosed, managerVars, callerVars
  <1>11. ASSUME NEW v \in Credentials, UpdateCredentials(v) PROVE SingleFlight'
    BY <1>11 DEF UpdateCredentials, managerVars, callerVars
  <1>12. CASE Tick
    BY <1>12 DEF Tick, managerVars, callerVars
  <1>13. CASE UNCHANGED vars
    BY <1>13 DEF vars, managerVars, callerVars
  <1>14. QED
    BY <1>1, <1>2, <1>3, <1>4, <1>5, <1>6, <1>7, <1>8, <1>9, <1>10, <1>11, <1>12, <1>13
    DEF Next, GetAccessToken, Refresh

LEMMA WaitInductive == TypeInv /\ SingleFlight /\ WaitInv /\ [Next]_vars => WaitInv'
  <1> SUFFICES ASSUME TypeInv, SingleFlight, WaitInv, [Next]_vars PROVE WaitInv'
    OBVIOUS
  <1> USE DEF TypeInv, TypeOK, SingleFlight, WaitInv, Goto
  <1>1. ASSUME NEW c \in Callers, Call(c) PROVE WaitInv'
    BY <1>1 DEF Call, managerVars, callerVars
  <1>2. ASSUME NEW c \in Callers, FastPath(c) PROVE WaitInv'
    BY <1>2 DEF FastPath, managerVars, callerVars
  <1>3. ASSUME NEW c \in Callers, SlowHit(c) PROVE WaitInv'
    BY <1>3 DEF SlowHit, managerVars, callerVars
  <1>4. ASSUME NEW c \in Callers, SlowWait(c) PROVE WaitInv'
    BY <1>4 DEF SlowWait, managerVars, callerVars
  <1>5. ASSUME NEW c \in Callers, SlowLead(c) PROVE WaitInv'
    BY <1>5 DEF SlowLead, MayLead, managerVars, callerVars
  <1>6. ASSUME NEW c \in Callers, Wake(c) PROVE WaitInv'
    BY <1>6 DEF Wake, managerVars, callerVars
  <1>7. ASSUME NEW c \in Callers, NEW n \in Lifetimes, PlatformIssues(c, n) PROVE WaitInv'
    BY <1>7 DEF PlatformIssues, managerVars, callerVars
  <1>8. ASSUME NEW c \in Callers, ExchangeOK(c) PROVE WaitInv'
    BY <1>8 DEF ExchangeOK, managerVars, callerVars
  <1>9. ASSUME NEW c \in Callers, ExchangeFails(c) PROVE WaitInv'
    BY <1>9 DEF ExchangeFails, managerVars, callerVars
  <1>10. ASSUME NEW c \in Callers, FinishRefresh(c) PROVE WaitInv'
    BY <1>10 DEF FinishRefresh, ChannelClosed, managerVars, callerVars
  <1>11. ASSUME NEW v \in Credentials, UpdateCredentials(v) PROVE WaitInv'
    BY <1>11 DEF UpdateCredentials, managerVars, callerVars
  <1>12. CASE Tick
    BY <1>12 DEF Tick, managerVars, callerVars
  <1>13. CASE UNCHANGED vars
    BY <1>13 DEF vars, managerVars, callerVars
  <1>14. QED
    BY <1>1, <1>2, <1>3, <1>4, <1>5, <1>6, <1>7, <1>8, <1>9, <1>10, <1>11, <1>12, <1>13
    DEF Next, GetAccessToken, Refresh

-----------------------------------------------------------------------------
(* Freshness and expiry *)

LEMMA NothingFreshInductive == TypeInv /\ SingleFlight /\ NothingFreshToLose /\ [Next]_vars => NothingFreshToLose'
  <1> SUFFICES ASSUME TypeInv, SingleFlight, NothingFreshToLose, [Next]_vars PROVE NothingFreshToLose'
    OBVIOUS
  <1> USE TokenAssumption DEF TypeInv, TypeOK, SingleFlight, Leader, NothingFreshToLose, TokenFresh, Goto
  <1>1. ASSUME NEW c \in Callers, Call(c) PROVE NothingFreshToLose'
    BY <1>1 DEF Call, managerVars, callerVars
  <1>2. ASSUME NEW c \in Callers, FastPath(c) PROVE NothingFreshToLose'
    BY <1>2 DEF FastPath, managerVars, callerVars
  <1>3. ASSUME NEW c \in Callers, SlowHit(c) PROVE NothingFreshToLose'
    BY <1>3 DEF SlowHit, managerVars, callerVars
  <1>4. ASSUME NEW c \in Callers, SlowWait(c) PROVE NothingFreshToLose'
    BY <1>4 DEF SlowWait, managerVars, callerVars
  <1>5. ASSUME NEW c \in Callers, SlowLead(c) PROVE NothingFreshToLose'
    BY <1>5 DEF SlowLead, MayLead, managerVars, callerVars
  <1>6. ASSUME NEW c \in Callers, Wake(c) PROVE NothingFreshToLose'
    BY <1>6 DEF Wake, managerVars, callerVars
  <1>7. ASSUME NEW c \in Callers, NEW n \in Lifetimes, PlatformIssues(c, n) PROVE NothingFreshToLose'
    BY <1>7 DEF PlatformIssues, managerVars, callerVars
  <1>8. ASSUME NEW c \in Callers, ExchangeOK(c) PROVE NothingFreshToLose'
    BY <1>8 DEF ExchangeOK, managerVars, callerVars
  <1>9. ASSUME NEW c \in Callers, ExchangeFails(c) PROVE NothingFreshToLose'
    BY <1>9 DEF ExchangeFails, managerVars, callerVars
  <1>10. ASSUME NEW c \in Callers, FinishRefresh(c) PROVE NothingFreshToLose'
    BY <1>10 DEF FinishRefresh, ChannelClosed, managerVars, callerVars
  <1>11. ASSUME NEW v \in Credentials, UpdateCredentials(v) PROVE NothingFreshToLose'
    BY <1>11 DEF UpdateCredentials, managerVars, callerVars
  <1>12. CASE Tick
    BY <1>12 DEF Tick, managerVars, callerVars
  <1>13. CASE UNCHANGED vars
    BY <1>13 DEF vars, managerVars, callerVars
  <1>14. QED
    BY <1>1, <1>2, <1>3, <1>4, <1>5, <1>6, <1>7, <1>8, <1>9, <1>10, <1>11, <1>12, <1>13
    DEF Next, GetAccessToken, Refresh

LEMMA ExpiryInductive == TypeInv /\ ExpiryInv /\ [Next]_vars => ExpiryInv'
  <1> SUFFICES ASSUME TypeInv, ExpiryInv, [Next]_vars PROVE ExpiryInv'
    OBVIOUS
  <1> USE TokenAssumption DEF TypeInv, TypeOK, ExpiryInv, Covered, Token, NoToken, Goto
  <1>1. ASSUME NEW c \in Callers, Call(c) PROVE ExpiryInv'
    BY <1>1 DEF Call, managerVars, callerVars
  <1>2. ASSUME NEW c \in Callers, FastPath(c) PROVE ExpiryInv'
    BY <1>2 DEF FastPath, managerVars, callerVars
  <1>3. ASSUME NEW c \in Callers, SlowHit(c) PROVE ExpiryInv'
    BY <1>3 DEF SlowHit, managerVars, callerVars
  <1>4. ASSUME NEW c \in Callers, SlowWait(c) PROVE ExpiryInv'
    BY <1>4 DEF SlowWait, managerVars, callerVars
  <1>5. ASSUME NEW c \in Callers, SlowLead(c) PROVE ExpiryInv'
    BY <1>5 DEF SlowLead, MayLead, managerVars, callerVars
  <1>6. ASSUME NEW c \in Callers, Wake(c) PROVE ExpiryInv'
    BY <1>6 DEF Wake, managerVars, callerVars
  <1>7. ASSUME NEW c \in Callers, NEW n \in Lifetimes, PlatformIssues(c, n) PROVE ExpiryInv'
    BY <1>7 DEF PlatformIssues, managerVars, callerVars
  <1>8. ASSUME NEW c \in Callers, ExchangeOK(c) PROVE ExpiryInv'
    BY <1>8 DEF ExchangeOK, managerVars, callerVars
  <1>9. ASSUME NEW c \in Callers, ExchangeFails(c) PROVE ExpiryInv'
    BY <1>9 DEF ExchangeFails, managerVars, callerVars
  <1>10. ASSUME NEW c \in Callers, FinishRefresh(c) PROVE ExpiryInv'
    BY <1>10 DEF FinishRefresh, ChannelClosed, managerVars, callerVars
  <1>11. ASSUME NEW v \in Credentials, UpdateCredentials(v) PROVE ExpiryInv'
    BY <1>11 DEF UpdateCredentials, managerVars, callerVars
  <1>12. CASE Tick
    BY <1>12 DEF Tick, managerVars, callerVars
  <1>13. CASE UNCHANGED vars
    BY <1>13 DEF vars, managerVars, callerVars
  <1>14. QED
    BY <1>1, <1>2, <1>3, <1>4, <1>5, <1>6, <1>7, <1>8, <1>9, <1>10, <1>11, <1>12, <1>13
    DEF Next, GetAccessToken, Refresh

LEMMA AnswerInductive == TypeInv /\ AnswerInv /\ [Next]_vars => AnswerInv'
  <1> SUFFICES ASSUME TypeInv, AnswerInv, [Next]_vars PROVE AnswerInv'
    OBVIOUS
  <1> USE TokenAssumption DEF TypeInv, TypeOK, AnswerInv, Leader, NoToken, Goto
  <1>1. ASSUME NEW c \in Callers, Call(c) PROVE AnswerInv'
    BY <1>1 DEF Call, managerVars, callerVars
  <1>2. ASSUME NEW c \in Callers, FastPath(c) PROVE AnswerInv'
    BY <1>2 DEF FastPath, managerVars, callerVars
  <1>3. ASSUME NEW c \in Callers, SlowHit(c) PROVE AnswerInv'
    BY <1>3 DEF SlowHit, managerVars, callerVars
  <1>4. ASSUME NEW c \in Callers, SlowWait(c) PROVE AnswerInv'
    BY <1>4 DEF SlowWait, managerVars, callerVars
  <1>5. ASSUME NEW c \in Callers, SlowLead(c) PROVE AnswerInv'
    BY <1>5 DEF SlowLead, MayLead, managerVars, callerVars
  <1>6. ASSUME NEW c \in Callers, Wake(c) PROVE AnswerInv'
    BY <1>6 DEF Wake, managerVars, callerVars
  <1>7. ASSUME NEW c \in Callers, NEW n \in Lifetimes, PlatformIssues(c, n) PROVE AnswerInv'
    BY <1>7 DEF PlatformIssues, managerVars, callerVars
  <1>8. ASSUME NEW c \in Callers, ExchangeOK(c) PROVE AnswerInv'
    BY <1>8 DEF ExchangeOK, managerVars, callerVars
  <1>9. ASSUME NEW c \in Callers, ExchangeFails(c) PROVE AnswerInv'
    BY <1>9 DEF ExchangeFails, managerVars, callerVars
  <1>10. ASSUME NEW c \in Callers, FinishRefresh(c) PROVE AnswerInv'
    BY <1>10 DEF FinishRefresh, managerVars, callerVars
  <1>11. ASSUME NEW v \in Credentials, UpdateCredentials(v) PROVE AnswerInv'
    BY <1>11 DEF UpdateCredentials, managerVars, callerVars
  <1>12. CASE Tick
    BY <1>12 DEF Tick, managerVars, callerVars
  <1>13. CASE UNCHANGED vars
    BY <1>13 DEF vars, managerVars, callerVars
  <1>14. QED
    BY <1>1, <1>2, <1>3, <1>4, <1>5, <1>6, <1>7, <1>8, <1>9, <1>10, <1>11, <1>12, <1>13
    DEF Next, GetAccessToken, Refresh

-----------------------------------------------------------------------------
(* The inductive invariant and what follows from it *)

THEOREM Invariance == Spec => []IInv
  <1>1. Init => IInv
    <2> SUFFICES ASSUME Init PROVE IInv
      OBVIOUS
    <2>1. TypeInv
      <3>1. now \in 0..MaxTime /\ calls \in 0..MaxCalls
        BY TokenAssumption DEF Init
      <3>2. chans \in Nat /\ refreshCh \in 0..chans /\ closedCh \subseteq 1..chans
        BY DEF Init
      <3>3. \A c \in Callers : pc[c] = "idle"
        BY DEF Init
      <3>4. pc \in [Callers -> {"idle", "fast", "slow", "waiting", "exchanging", "received", "failed"}]
        BY DEF Init
      <3>5. QED
        BY TokenAssumption, <3>1, <3>2, <3>3, <3>4 DEF Init, TypeInv, TypeOK
    <2>2. SingleFlight /\ WaitInv /\ NothingFreshToLose
      BY DEF Init, SingleFlight, Leader, WaitInv, NothingFreshToLose
    <2>3. ExpiryInv
      BY DEF Init, ExpiryInv, Covered
    <2>4. AnswerInv
      BY DEF Init, AnswerInv
    <2>5. QED
      BY <2>1, <2>2, <2>3, <2>4 DEF IInv
  <1>2. IInv /\ [Next]_vars => IInv'
    BY TypeInvInductive, SingleFlightInductive, WaitInductive, NothingFreshInductive,
       ExpiryInductive, AnswerInductive DEF IInv
  <1>3. QED
    BY <1>1, <1>2, PTL DEF Spec

\* Every variable keeps its type.
THEOREM TypeCorrect == Spec => []TypeOK
  <1>1. IInv => TypeOK
    BY DEF IInv, TypeInv
  <1>2. QED
    BY <1>1, Invariance, PTL

\* At most one caller refreshes, and no channel is closed twice.
THEOREM OneRefresh == Spec => []SingleFlight
  <1>1. IInv => SingleFlight
    BY DEF IInv
  <1>2. QED
    BY <1>1, Invariance, PTL

\* Every waiter's channel has been closed or belongs to the running refresh.
THEOREM WaitersAreWoken == Spec => []NoLostWakeup
  <1>1. IInv => NoLostWakeup
    BY DEF IInv, WaitInv, NoLostWakeup
  <1>2. QED
    BY <1>1, Invariance, PTL

\* A failing refresh never discards a token that could still be served.
THEOREM FailureLosesNothing == Spec => []NothingFreshToLose
  <1>1. IInv => NothingFreshToLose
    BY DEF IInv
  <1>2. QED
    BY <1>1, Invariance, PTL

\* A cached token that is served is accepted by the platform for longer than
\* the refresh buffer less one HTTP timeout.
THEOREM ServedTokenAccepted == Spec => []CachedTokenAccepted
  <1>1. IInv => CachedTokenAccepted
    <2> SUFFICES ASSUME IInv, TokenFresh
                 PROVE  now + (RefreshBuffer - HttpTimeout) < accessToken.until
      BY DEF CachedTokenAccepted
    <2>1. now + RefreshBuffer < expiresAt /\ expiresAt <= accessToken.until + HttpTimeout
      BY DEF IInv, ExpiryInv, Covered, TokenFresh
    <2>2. accessToken.until \in Nat /\ now \in Nat /\ expiresAt \in Nat
      BY DEF IInv, TypeInv, TypeOK, Token, NoToken
    <2>3. QED
      BY <2>1, <2>2, TokenAssumption
  <1>2. QED
    BY <1>1, Invariance, PTL

\* The single flight of refreshToken and finishRefresh, with its flag, its channel and the
\* time it takes, implements the shared token.
THEOREM TokenRefinement == Spec => ImplementsSharedToken
  <1>1. Init => Shared!SharedInit
    BY DEF Init, Shared!SharedInit, InFlight, Leader
  <1>2. IInv /\ [Next]_vars => [Shared!SharedNext]_Shared!sharedVars
    <2> SUFFICES ASSUME IInv, [Next]_vars PROVE Shared!SharedNext \/ UNCHANGED Shared!sharedVars
      OBVIOUS
    <2> USE DEF Goto, Shared!sharedVars, Shared!Fresh, TokenFresh
    <2>1. ASSUME UNCHANGED <<now, credentials, accessToken, expiresAt, creds>>,
                 \A c \in Callers : Leader(c)' <=> Leader(c)
          PROVE  UNCHANGED Shared!sharedVars
      BY <2>1 DEF InFlight
    <2>2. ASSUME NEW c \in Callers, SlowLead(c) PROVE Shared!Begin
      <3>1. /\ ~refreshing /\ ~TokenFresh /\ creds' = [creds EXCEPT ![c] = credentials]
            /\ pc' = [pc EXCEPT ![c] = "exchanging"]
            /\ UNCHANGED <<now, credentials, accessToken, expiresAt>>
        BY <2>2 DEF SlowLead, MayLead
      <3>2. InFlight = {} /\ \A d \in Callers : ~Leader(d)
        BY <3>1 DEF IInv, SingleFlight, InFlight
      <3>3. \A d \in Callers : Leader(d)' <=> d = c
        BY <3>1, <3>2 DEF Leader, IInv, TypeInv, TypeOK
      <3>4. creds'[c] = credentials
        BY <3>1 DEF IInv, TypeInv, TypeOK
      <3>5. InFlight' = {credentials}
        BY <3>3, <3>4 DEF InFlight
      <3>6. QED
        BY <3>1, <3>2, <3>5 DEF Shared!Begin
    <2>3. ASSUME NEW c \in Callers, FinishRefresh(c) PROVE Shared!Replace \/ Shared!Fail
      <3>1. /\ pc[c] \in {"received", "failed"} /\ pc' = [pc EXCEPT ![c] = "idle"]
            /\ accessToken' = resp[c] /\ expiresAt' = expiry[c]
            /\ UNCHANGED <<now, credentials>>
        BY <2>3 DEF FinishRefresh
      <3>2. Leader(c) /\ \A d \in Callers : Leader(d) => d = c
        BY <3>1 DEF Leader, IInv, SingleFlight
      <3>3. creds[c] \in InFlight /\ InFlight # {} /\ ~TokenFresh
        BY <3>2 DEF InFlight, IInv, SingleFlight, NothingFreshToLose
      <3>4. \A d \in Callers : ~Leader(d)'
        BY <3>1, <3>2 DEF Leader, IInv, TypeInv, TypeOK
      <3>5. Shared!End
        BY <3>1, <3>3, <3>4 DEF Shared!End, InFlight
      <3>6. CASE pc[c] = "received"
        <4>1. resp[c] # NoToken /\ resp[c].cred = creds[c] /\ expiry[c] <= resp[c].until + HttpTimeout
          BY <3>6 DEF IInv, AnswerInv, ExpiryInv, Covered
        <4>2. QED
          BY <3>1, <3>3, <3>5, <4>1 DEF Shared!Replace
      <3>7. CASE pc[c] = "failed"
        <4>1. resp[c] = NoToken /\ expiry[c] = 0
          BY <3>7 DEF IInv, AnswerInv, ExpiryInv
        <4>2. QED
          BY <3>1, <3>5, <4>1 DEF Shared!Fail
      <3>8. QED
        BY <3>1, <3>6, <3>7
    <2>4. ASSUME NEW v \in Credentials, UpdateCredentials(v) PROVE Shared!Rotate
      BY <2>4 DEF UpdateCredentials, callerVars, Shared!Rotate, InFlight, Leader
    <2>5. ASSUME Tick PROVE Shared!Pass
      BY <2>5 DEF Tick, managerVars, callerVars, Shared!Pass, InFlight, Leader
    <2>6. ASSUME NEW c \in Callers, Call(c) \/ FastPath(c) \/ SlowHit(c) \/ SlowWait(c) \/ Wake(c)
          PROVE  UNCHANGED Shared!sharedVars
      BY <2>1, <2>6 DEF Call, FastPath, SlowHit, SlowWait, Wake, managerVars, callerVars, Leader,
                        IInv, TypeInv, TypeOK
    <2>7. ASSUME NEW c \in Callers,
                 (\E n \in Lifetimes : PlatformIssues(c, n)) \/ ExchangeOK(c) \/ ExchangeFails(c)
          PROVE  UNCHANGED Shared!sharedVars
      BY <2>1, <2>7 DEF PlatformIssues, ExchangeOK, ExchangeFails, managerVars, callerVars, Leader,
                        IInv, TypeInv, TypeOK
    <2>8. CASE UNCHANGED vars
      BY <2>1, <2>8 DEF vars, managerVars, callerVars, Leader
    <2>9. QED
      BY <2>2, <2>3, <2>4, <2>5, <2>6, <2>7, <2>8
         DEF Next, GetAccessToken, Refresh, Shared!SharedNext
  <1>3. QED
    BY <1>1, <1>2, Invariance, PTL DEF Spec, ImplementsSharedToken, Shared!SharedSpec
==============================================================================
