----------------------------- MODULE TokenManager -----------------------------
(***************************************************************************)
(* internal/auth/token.go: the OAuth2 access token shared by everything    *)
(* that sends to the platform, with single-flight refresh, and the         *)
(* rotation of the credentials it is obtained with.                        *)
(*                                                                         *)
(* A token is the credentials it was issued for and the time until which   *)
(* the platform accepts it.  Channels are numbered in order of creation.   *)
(* Time advances in units of which RefreshBuffer (5 min) and HttpTimeout   *)
(* (30 s) are multiples; only the platform and the network take time.      *)
(***************************************************************************)
EXTENDS Naturals, FiniteSets

CONSTANTS
    Callers,        \* goroutines that call GetAccessToken
    Credentials,    \* the contents the credentials Secret takes
    InitCreds,      \* the credentials the manager is created with
    NoCreds,        \* not credentials
    Lifetimes,      \* values of expires_in
    RefreshBuffer,  \* tokenRefreshBuffer
    HttpTimeout,    \* timeout of the HTTP client
    MaxTime,        \* bound: the clock
    MaxCalls        \* bound: calls of GetAccessToken

ASSUME TokenAssumption ==
    /\ InitCreds \in Credentials /\ NoCreds \notin Credentials
    /\ Lifetimes \subseteq Nat
    /\ RefreshBuffer \in Nat /\ HttpTimeout \in Nat /\ HttpTimeout <= RefreshBuffer
    /\ MaxTime \in Nat /\ MaxCalls \in Nat

VARIABLES
    now,          \* the clock
    credentials,  \* TokenManager.credentials
    accessToken,  \* TokenManager.accessToken, NoToken when empty
    expiresAt,    \* TokenManager.expiresAt
    refreshing,   \* TokenManager.refreshing
    refreshCh,    \* TokenManager.refreshCh, 0 when nil
    chans,        \* number of channels made
    closedCh,     \* the channels that were closed
    pc,           \* per caller: place in GetAccessToken or refreshToken
    waitCh,       \* per caller: the channel it receives from
    creds,        \* per caller: the credentials captured by the refresh
    began,        \* per caller: when the refresh began
    resp,         \* per caller: the token the platform issued to the refresh
    life,         \* per caller: expires_in of that token
    expiry,       \* per caller: the expiry it computed for that token
    calls         \* number of calls of GetAccessToken

managerVars == <<credentials, accessToken, expiresAt, refreshing, refreshCh, chans, closedCh>>
callerVars == <<pc, waitCh, creds, began, resp, life, expiry, calls>>
vars == <<now, managerVars, callerVars>>

Token == [cred : Credentials, until : Nat]
NoToken == [cred |-> NoCreds, until |-> 0]

TypeOK ==
    /\ now \in 0..MaxTime
    /\ credentials \in Credentials
    /\ accessToken \in Token \cup {NoToken}
    /\ expiresAt \in Nat
    /\ refreshing \in BOOLEAN
    /\ chans \in Nat /\ refreshCh \in 0..chans /\ closedCh \subseteq 1..chans
    /\ pc \in [Callers -> {"idle", "fast", "slow", "waiting", "exchanging", "received", "failed"}]
    /\ waitCh \in [Callers -> Nat]
    /\ creds \in [Callers -> Credentials \cup {NoCreds}]
    /\ began \in [Callers -> Nat]
    /\ resp \in [Callers -> Token \cup {NoToken}]
    /\ life \in [Callers -> Nat]
    /\ expiry \in [Callers -> Nat]
    /\ calls \in 0..MaxCalls

Init ==
    /\ now = 0
    /\ credentials = InitCreds
    /\ accessToken = NoToken /\ expiresAt = 0
    /\ refreshing = FALSE /\ refreshCh = 0 /\ chans = 0 /\ closedCh = {}
    /\ pc = [c \in Callers |-> "idle"]
    /\ waitCh = [c \in Callers |-> 0]
    /\ creds = [c \in Callers |-> NoCreds]
    /\ began = [c \in Callers |-> 0]
    /\ resp = [c \in Callers |-> NoToken]
    /\ life = [c \in Callers |-> 0]
    /\ expiry = [c \in Callers |-> 0]
    /\ calls = 0

\* Operators whose name ends in _bug are wrong on purpose: each is a mistake the
\* code could contain, kept to show which property notices it.  No specification
\* refers to them.

\* The test made under both locks.
TokenFresh_bug == accessToken # NoToken /\ now < expiresAt
TokenFresh == accessToken # NoToken /\ now + RefreshBuffer < expiresAt

\* The goroutines between setting refreshing and finishRefresh.
Leader(c) == pc[c] \in {"exchanging", "received", "failed"}

Goto(c, place) == pc' = [pc EXCEPT ![c] = place]

-----------------------------------------------------------------------------
(* GetAccessToken *)

Call(c) ==
    /\ pc[c] = "idle" /\ calls < MaxCalls
    /\ Goto(c, "fast")
    /\ calls' = calls + 1
    /\ UNCHANGED <<now, managerVars, waitCh, creds, began, resp, life, expiry>>

\* Fast path, under the read lock: the cached token is returned or not.
FastPath(c) ==
    /\ pc[c] = "fast"
    /\ Goto(c, IF TokenFresh THEN "idle" ELSE "slow")
    /\ UNCHANGED <<now, managerVars, waitCh, creds, began, resp, life, expiry, calls>>

\* refreshToken finds that another caller has refreshed in between.
SlowHit(c) ==
    /\ pc[c] = "slow" /\ TokenFresh
    /\ Goto(c, "idle")
    /\ UNCHANGED <<now, managerVars, waitCh, creds, began, resp, life, expiry, calls>>

\* A refresh is under way: the caller waits on its channel.
SlowWait(c) ==
    /\ pc[c] = "slow" /\ ~TokenFresh /\ refreshing
    /\ Goto(c, "waiting")
    /\ waitCh' = [waitCh EXCEPT ![c] = refreshCh]
    /\ UNCHANGED <<now, managerVars, creds, began, resp, life, expiry, calls>>

\* The caller becomes the one that refreshes, with the credentials of this moment.
MayLead_bug1 == ~refreshing
MayLead_bug2 == ~TokenFresh
MayLead == ~TokenFresh /\ ~refreshing

SlowLead_bug(c) ==
    /\ pc[c] = "slow" /\ MayLead
    /\ refreshing' = TRUE
    /\ refreshCh' = chans + 1
    /\ chans' = chans + 1
    /\ began' = [began EXCEPT ![c] = now]
    /\ Goto(c, "exchanging")
    /\ UNCHANGED <<now, credentials, accessToken, expiresAt, closedCh,
                   waitCh, creds, resp, life, expiry, calls>>

SlowLead(c) ==
    /\ pc[c] = "slow" /\ MayLead
    /\ refreshing' = TRUE
    /\ refreshCh' = chans + 1
    /\ chans' = chans + 1
    /\ creds' = [creds EXCEPT ![c] = credentials]
    /\ began' = [began EXCEPT ![c] = now]
    /\ Goto(c, "exchanging")
    /\ UNCHANGED <<now, credentials, accessToken, expiresAt, closedCh,
                   waitCh, resp, life, expiry, calls>>

\* The channel is closed: the caller starts over.
Wake(c) ==
    /\ pc[c] = "waiting" /\ waitCh[c] \in closedCh
    /\ Goto(c, "fast")
    /\ waitCh' = [waitCh EXCEPT ![c] = 0]
    /\ UNCHANGED <<now, managerVars, creds, began, resp, life, expiry, calls>>

-----------------------------------------------------------------------------
(* The refresh: assertion, exchange, finishRefresh *)

\* The platform answers the assertion with a token.
PlatformIssues(c, n) ==
    /\ pc[c] = "exchanging" /\ resp[c] = NoToken
    /\ resp' = [resp EXCEPT ![c] = [cred |-> creds[c], until |-> now + n]]
    /\ life' = [life EXCEPT ![c] = n]
    /\ UNCHANGED <<now, managerVars, pc, waitCh, creds, began, expiry, calls>>

\* The answer arrives; the expiry counts from this moment.
ExchangeOK(c) ==
    /\ pc[c] = "exchanging" /\ resp[c] # NoToken
    /\ expiry' = [expiry EXCEPT ![c] = now + life[c]]
    /\ Goto(c, "received")
    /\ UNCHANGED <<now, managerVars, waitCh, creds, began, resp, life, calls>>

\* Signing fails, the request fails or is cancelled, the status is not 200, or
\* the answer is unusable.
ExchangeFails(c) ==
    /\ pc[c] = "exchanging"
    /\ Goto(c, "failed")
    /\ resp' = [resp EXCEPT ![c] = NoToken]
    /\ life' = [life EXCEPT ![c] = 0]
    /\ UNCHANGED <<now, managerVars, waitCh, creds, began, expiry, calls>>

\* finishRefresh stores the token, or none, wakes every waiter, and the caller
\* returns what it got.
ChannelClosed_bug(c) == IF pc[c] = "failed" THEN {} ELSE {refreshCh} \ {0}
ChannelClosed(c) == {refreshCh} \ {0}

FinishRefresh(c) ==
    /\ pc[c] \in {"received", "failed"}
    /\ accessToken' = resp[c]
    /\ expiresAt' = expiry[c]
    /\ refreshing' = FALSE
    /\ closedCh' = closedCh \cup ChannelClosed(c)
    /\ refreshCh' = 0
    /\ Goto(c, "idle")
    /\ creds' = [creds EXCEPT ![c] = NoCreds]
    /\ began' = [began EXCEPT ![c] = 0]
    /\ resp' = [resp EXCEPT ![c] = NoToken]
    /\ life' = [life EXCEPT ![c] = 0]
    /\ expiry' = [expiry EXCEPT ![c] = 0]
    /\ UNCHANGED <<now, credentials, chans, waitCh, calls>>

-----------------------------------------------------------------------------

\* Every Reconcile passes the Secret's contents; unchanged contents are ignored.
UpdateCredentials(v) ==
    /\ v # credentials
    /\ credentials' = v
    /\ accessToken' = NoToken
    /\ expiresAt' = 0
    /\ UNCHANGED <<now, refreshing, refreshCh, chans, closedCh, callerVars>>

\* Time passes, but never beyond the timeout of an HTTP request in flight.
Tick ==
    /\ now < MaxTime
    /\ \A c \in Callers : pc[c] = "exchanging" => now < began[c] + HttpTimeout
    /\ now' = now + 1
    /\ UNCHANGED <<managerVars, callerVars>>

GetAccessToken(c) ==
    \/ Call(c) \/ FastPath(c) \/ SlowHit(c) \/ SlowWait(c) \/ SlowLead(c) \/ Wake(c)

Refresh(c) ==
    \/ \E n \in Lifetimes : PlatformIssues(c, n)
    \/ ExchangeOK(c) \/ ExchangeFails(c) \/ FinishRefresh(c)

Next ==
    \/ \E c \in Callers : GetAccessToken(c) \/ Refresh(c)
    \/ \E v \in Credentials : UpdateCredentials(v)
    \/ Tick

Spec == Init /\ [][Next]_vars

\* Goroutines run and an HTTP request ends, with an answer or at its timeout.
\* Nobody has to call, to rotate credentials or to answer.
Fairness ==
    \A c \in Callers :
        /\ WF_vars(FastPath(c))
        /\ WF_vars(SlowHit(c) \/ SlowWait(c) \/ SlowLead(c))
        /\ WF_vars(Wake(c))
        /\ WF_vars(ExchangeOK(c) \/ ExchangeFails(c))
        /\ WF_vars(FinishRefresh(c))

LiveSpec == Spec /\ Fairness

-----------------------------------------------------------------------------
(* Safety *)

\* One refresh at a time, the flag agrees with it, and its channel is open, so
\* that finishRefresh never closes a channel twice.
SingleFlight ==
    /\ \A c, d \in Callers : Leader(c) /\ Leader(d) => c = d
    /\ refreshing <=> \E c \in Callers : Leader(c)
    /\ refreshing <=> refreshCh # 0
    /\ refreshCh \notin closedCh

\* Nobody waits for a channel that no refresh is going to close.
NoLostWakeup ==
    \A c \in Callers : pc[c] = "waiting" => waitCh[c] \in closedCh \/ waitCh[c] = refreshCh

\* A token served from the cache is accepted by the platform for at least the
\* refresh buffer less one HTTP timeout, although expiresAt is computed only when
\* the answer arrives and so is later than the platform's own expiry.
CachedTokenAccepted ==
    TokenFresh => now + (RefreshBuffer - HttpTimeout) < accessToken.until

\* Whoever leads or waits, and whatever rotates, times out or fails in between, the
\* cached token is that of SharedToken: a refresh begins and ends only where no fresh
\* token is lost, stores a token of the credentials it began with, and its failure
\* leaves none.
InFlight == {creds[c] : c \in {d \in Callers : Leader(d)}}
Shared == INSTANCE SharedToken WITH token <- accessToken, replacing <- InFlight

ImplementsSharedToken == Shared!SharedSpec

\* UpdateCredentials says it invalidates the token "to force refresh with new
\* credentials": the cache only holds a token of the credentials in force.
TokenMatchesCredentials == accessToken # NoToken => accessToken.cred = credentials

-----------------------------------------------------------------------------
(* Liveness, under LiveSpec *)

\* Every call of GetAccessToken returns, whether it leads a refresh or waits for
\* one, and whatever fails; the number of calls being bounded, so is the number
\* of times a waiter can lose the race for the next refresh.
CallsReturn == \A c \in Callers : (pc[c] # "idle") ~> (pc[c] = "idle")
==============================================================================
