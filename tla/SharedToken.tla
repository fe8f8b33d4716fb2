------------------------------ MODULE SharedToken ------------------------------
(***************************************************************************)
(* What the callers of GetAccessToken share, without locks, flags,         *)
(* channels and requests: one token that is replaced only when it is no    *)
(* longer fresh, by one replacement at a time, which keeps to the          *)
(* credentials in force when it began, and whose expiry is believed for at *)
(* most one HTTP timeout too long.  TokenManager implements it.            *)
(***************************************************************************)
EXTENDS Naturals

CONSTANTS
    NoToken,        \* there is no token
    RefreshBuffer,  \* a token is fresh until this long before it expires
    HttpTimeout     \* what an answer may take to arrive

VARIABLES
    now,          \* the clock
    credentials,  \* the credentials in force
    token,        \* the token served to callers
    expiresAt,    \* when it is believed to expire
    replacing     \* the credentials of the replacement under way, if there is one

sharedVars == <<now, credentials, token, expiresAt, replacing>>

SharedInit == token = NoToken /\ expiresAt = 0 /\ replacing = {}

Fresh == token # NoToken /\ now + RefreshBuffer < expiresAt

Begin ==
    /\ replacing = {} /\ ~Fresh
    /\ replacing' = {credentials}
    /\ UNCHANGED <<now, credentials, token, expiresAt>>

\* Success and failure end a replacement; neither costs anybody a fresh token.
End ==
    /\ replacing # {} /\ ~Fresh
    /\ replacing' = {}
    /\ UNCHANGED <<now, credentials>>

Replace ==
    /\ End
    /\ token' # NoToken /\ token'.cred \in replacing
    /\ expiresAt' <= token'.until + HttpTimeout

Fail == End /\ token' = NoToken /\ expiresAt' = 0

\* New credentials: the token goes, the replacement under way keeps the old ones.
Rotate ==
    /\ credentials' # credentials
    /\ token' = NoToken /\ expiresAt' = 0
    /\ UNCHANGED <<now, replacing>>

Pass ==
    /\ now' = now + 1
    /\ UNCHANGED <<credentials, token, expiresAt, replacing>>

SharedNext == Begin \/ Replace \/ Fail \/ Rotate \/ Pass

SharedSpec == SharedInit /\ [][SharedNext]_sharedVars
==============================================================================
