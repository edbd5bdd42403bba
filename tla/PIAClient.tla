----------------------------- MODULE PIAClient -----------------------------
(***************************************************************************)
(* The PIAClient of pia.go, shared by the Run goroutines of all tunnels:   *)
(* the mutex held across the two HTTP fetches, the cached region list and  *)
(* auth token, and the path of a caller through Regions, Token, addKey and *)
(* InvalidateToken.  PIA is external: it accepts a set of tokens, forgets  *)
(* them when it likes, and any request may fail.                           *)
(***************************************************************************)
EXTENDS Integers, FiniteSets

CONSTANTS
  Callers,       \* goroutines calling the client, one per tunnel
  NoCaller,      \* the mutex is free
  Tokens,        \* auth tokens; one nobody refers to any more may be reissued
  NoToken,       \* ""
  MaxRejections  \* bound: PIA answers 401 at most so often

ASSUME ClientAssumption ==
  /\ NoCaller \notin Callers
  /\ NoToken \notin Tokens
  /\ IsFiniteSet(Callers)
  /\ MaxRejections \in Nat

VARIABLES
  mu,          \* holder of c.mu across a fetch, NoCaller if free
  token,       \* c.token
  regions,     \* c.regions # nil
  at,          \* caller -> where its call is
  sent,        \* caller -> the token it got from Token and sends to addKey
  result,      \* caller -> error of its addKey: "none", "auth" or "other"
  accepted,    \* tokens PIA accepts
  refused,     \* history: caller -> the last token PIA answered 401 to it for
  logins,      \* history: tokens fetched from /token
  rejections   \* history: 401 answers of addKey

clientVars  == <<mu, token, regions>>
callVars    == <<at, sent, result>>
historyVars == <<refused, logins, rejections>>
vars == <<clientVars, callVars, accepted, historyVars>>

\* The points of a call; c.mu is held at the two fetches, wanted at the locks.
Fetches == {"fetchRegions", "fetchToken"}
Points  == {"idle", "lockRegions", "lockToken", "addKey", "lockInvalidate"}
             \cup Fetches

TypeOK ==
  /\ mu \in Callers \cup {NoCaller}
  /\ token \in Tokens \cup {NoToken}
  /\ regions \in BOOLEAN
  /\ at \in [Callers -> Points]
  /\ sent \in [Callers -> Tokens \cup {NoToken}]
  /\ result \in [Callers -> {"none", "auth", "other"}]
  /\ accepted \in SUBSET Tokens
  /\ refused \in [Callers -> Tokens \cup {NoToken}]
  /\ logins \in Nat
  /\ rejections \in 0 .. MaxRejections

\* NewPIAClient, then SetToken by an embedder that kept a token: PIA may or
\* may not have forgotten that one since.
Init ==
  /\ mu = NoCaller
  /\ token \in Tokens \cup {NoToken}
  /\ regions = FALSE
  /\ at = [c \in Callers |-> "idle"]
  /\ sent = [c \in Callers |-> NoToken]
  /\ result = [c \in Callers |-> "none"]
  /\ accepted \in SUBSET {token}
  /\ accepted \subseteq Tokens
  /\ refused = [c \in Callers |-> NoToken]
  /\ logins = 0
  /\ rejections = 0

Move(c, point) == at' = [at EXCEPT ![c] = point]

\* A tunnel calls FindRegion, or NewSession / NewSessionWithServer.
Call(c) ==
  /\ at[c] = "idle"
  /\ Move(c, "lockRegions") \/ Move(c, "lockToken")
  /\ UNCHANGED <<clientVars, sent, result, accepted, historyVars>>

\* Regions: a cached list is returned at once, else the fetch keeps the lock.
LockRegions(c) ==
  /\ at[c] = "lockRegions"
  /\ mu = NoCaller
  /\ IF regions THEN Move(c, "idle") /\ UNCHANGED mu
                ELSE Move(c, "fetchRegions") /\ mu' = c
  /\ UNCHANGED <<token, regions, sent, result, accepted, historyVars>>

\* The fetch returns without the deferred unlock.
FetchServerList_KeepsLock(c) ==
  /\ at[c] = "fetchRegions"
  /\ regions' \in BOOLEAN
  /\ Move(c, "idle")
  /\ UNCHANGED <<mu, token, sent, result, accepted, historyVars>>

FetchServerList(c) ==
  /\ at[c] = "fetchRegions"
  /\ regions' \in BOOLEAN
  /\ mu' = NoCaller
  /\ Move(c, "idle")
  /\ UNCHANGED <<token, sent, result, accepted, historyVars>>

\* Whether Token may return what is cached.
Cached == token # NoToken

\* Token without holding c.mu across the fetch.
LockToken_Unlocked(c) ==
  /\ at[c] = "lockToken"
  /\ mu = NoCaller
  /\ IF Cached
       THEN Move(c, "addKey") /\ sent' = [sent EXCEPT ![c] = token]
       ELSE Move(c, "fetchToken") /\ UNCHANGED sent
  /\ UNCHANGED <<mu, token, regions, result, accepted, historyVars>>

\* Token: the cached token, else the fetch keeps the lock.
LockToken(c) ==
  /\ at[c] = "lockToken"
  /\ mu = NoCaller
  /\ IF Cached
       THEN Move(c, "addKey") /\ sent' = [sent EXCEPT ![c] = token]
                              /\ UNCHANGED mu
       ELSE Move(c, "fetchToken") /\ mu' = c /\ UNCHANGED sent
  /\ UNCHANGED <<token, regions, result, accepted, historyVars>>

\* A token PIA has not given to anybody who still refers to it.
Unknown(t) == /\ t # token /\ t \notin accepted
              /\ \A c \in Callers : sent[c] # t /\ refused[c] # t

\* fetchAuthToken and the two assignments after it; every error, a rejected
\* login and a 429 included, returns from NewSessionWithServer.
FetchAuthToken(c) ==
  /\ at[c] = "fetchToken"
  /\ mu' = NoCaller
  /\ \/ \E t \in Tokens :
          /\ Unknown(t)
          /\ token' = t
          /\ accepted' = accepted \cup {t}
          /\ sent' = [sent EXCEPT ![c] = t]
          /\ logins' = logins + 1
          /\ Move(c, "addKey")
     \/ Move(c, "idle") /\ UNCHANGED <<token, accepted, sent, logins>>
  /\ UNCHANGED <<regions, result, refused, rejections>>

\* The only error after which the token is dropped.
IsAuthError_Any(err) == err # "none"
IsAuthError(err) == err = "auth"

\* registerWireGuardKey: success, a 401/403 for a token PIA does not accept,
\* or any other error (timeout, 5xx, 429, bad certificate, bad answer).
AddKey(c) ==
  /\ at[c] = "addKey"
  /\ \E err \in {"none", "auth", "other"} :
       /\ err = "auth" => sent[c] \notin accepted /\ rejections < MaxRejections
       /\ err = "none" => sent[c] \in accepted
       /\ result' = [result EXCEPT ![c] = err]
       /\ Move(c, IF IsAuthError(err) THEN "lockInvalidate" ELSE "idle")
       /\ IF err = "auth"
            THEN /\ refused' = [refused EXCEPT ![c] = sent[c]]
                 /\ rejections' = rejections + 1
            ELSE UNCHANGED <<refused, rejections>>
  /\ sent' = [sent EXCEPT ![c] = NoToken]
  /\ UNCHANGED <<clientVars, accepted, logins>>

\* What InvalidateToken leaves in the cache.
AfterInvalidate_Kept == token
AfterInvalidate == NoToken

InvalidateToken(c) ==
  /\ at[c] = "lockInvalidate"
  /\ mu = NoCaller
  /\ token' = AfterInvalidate
  /\ Move(c, "idle")
  /\ UNCHANGED <<mu, regions, sent, result, accepted, historyVars>>

\* PIA forgets a token.
Expire(t) ==
  /\ t \in accepted
  /\ accepted' = accepted \ {t}
  /\ UNCHANGED <<clientVars, callVars, historyVars>>

Step(c) ==
  \/ LockRegions(c) \/ FetchServerList(c)
  \/ LockToken(c) \/ FetchAuthToken(c)
  \/ AddKey(c) \/ InvalidateToken(c)

Next ==
  \/ \E c \in Callers : Call(c) \/ Step(c)
  \/ \E t \in Tokens : Expire(t)

Spec == Init /\ [][Next]_vars

\* Requests end by their 30 s timeouts, and sync.Mutex hands the lock to the
\* longest waiter once it has waited a millisecond: a waiter is not overtaken
\* for ever.  Nobody has to call.
CallIsFair(c) == SF_vars(Step(c))

FairSpec == Spec /\ \A c \in Callers : CallIsFair(c)

\* When a caller's step is enabled, written out: what the liveness proof takes
\* from the meaning of ENABLED.
StepsAreEnabled ==
  \A c \in Callers :
    at[c] # "idle" /\ (mu = NoCaller \/ mu = c) => ENABLED <<Step(c)>>_vars

(***************************************************************************)
(* Properties.                                                             *)
(***************************************************************************)

\* However many tunnels need a token at once, one login is under way at a
\* time, and only while none is cached: the heavily rate-limited /token is
\* not hit by each of them (pia.go:200).
OneLoginAtATime ==
  \A c \in Callers : at[c] = "fetchToken" => mu = c /\ token = NoToken

\* Every login after the first is paid for by a 401: nothing else makes the
\* client log in again (pia.go:54).
LoginsArePaidFor == logins <= rejections + 1

\* A caller whose token was rejected never sends that token again: its next
\* call goes out with another one (pia.go:290).
RejectedIsNotResent ==
  \A c \in Callers :
    at[c] = "addKey" => sent[c] # NoToken /\ sent[c] # refused[c]

\* The cached token is dropped only by a caller that got a 401 (pia.go:287).
DroppedOnAuthErrorOnly ==
  [][token # NoToken /\ token' = NoToken
       => \E c \in Callers : result[c] = "auth" /\ at[c] # at'[c]]_vars

\* What a login brings is what the cache holds next and what the caller sends:
\* no InvalidateToken and no other login comes between the request and the two
\* assignments after it (pia.go:206), however many callers are about to drop a
\* token.
LoginFillsCache ==
  [][\A c \in Callers : at[c] = "fetchToken" =>
       \/ at'[c] = "fetchToken" /\ token' = NoToken
       \/ at'[c] = "addKey" /\ token' = sent'[c] /\ token' # NoToken
       \/ at'[c] = "idle" /\ token' = NoToken]_vars

\* The steps a call still has before it: four at most, the login and the
\* invalidation included; there is no loop in it.
StepsLeft(c) ==
  CASE at[c] = "idle" -> 0
    [] at[c] \in {"fetchRegions", "lockInvalidate"} -> 1
    [] at[c] \in {"lockRegions", "addKey"} -> 2
    [] at[c] = "fetchToken" -> 3
    [] OTHER -> 4

\* A step of a caller brings its call nearer to the end and sends nobody else's
\* back; what keeps a call waiting is the lock alone, and the lock is held only
\* by a caller whose request is under way.
CallsDrawNear ==
  [][/\ \A c \in Callers : Step(c) => StepsLeft(c)' < StepsLeft(c)
     /\ \A c \in Callers : StepsLeft(c)' > StepsLeft(c) => at[c] = "idle"
     /\ mu # NoCaller => at[mu] \in Fetches]_vars

\* Every call returns, whatever the other callers do with the lock.
CallsReturn == \A c \in Callers : at[c] # "idle" ~> at[c] = "idle"

\* pia.go:54, 134: tokens are to be reused, and dropped only when rejected; so
\* a token PIA accepts stays in the cache.
GoodTokenIsKept ==
  [][token # NoToken /\ token \in accepted => token' = token]_vars

(***************************************************************************)
(* The inductive invariant: who holds the lock, what the cache cannot      *)
(* contain, and the balance of logins and rejections.                      *)
(***************************************************************************)
Pending == {c \in Callers : at[c] = "lockInvalidate"}

Locking == \A c \in Callers : at[c] \in Fetches <=> mu = c

Refusals ==
  \A c \in Callers :
    /\ at[c] = "addKey" => sent[c] # NoToken
    /\ at[c] = "lockInvalidate" => result[c] = "auth"
    /\ refused[c] # NoToken =>
         /\ at[c] = "addKey" => sent[c] # refused[c]
         /\ at[c] # "lockInvalidate" => token # refused[c]

Balance ==
  logins + Cardinality(Pending)
    <= rejections + IF token = NoToken THEN 0 ELSE 1

IInv ==
  /\ TypeOK
  /\ Locking
  /\ OneLoginAtATime
  /\ Refusals
  /\ Balance
=============================================================================
