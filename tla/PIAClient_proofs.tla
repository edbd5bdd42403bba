-------------------------- MODULE PIAClient_proofs --------------------------
(***************************************************************************)
(* Theorems about PIAClient, for every number of callers and tokens.       *)
(***************************************************************************)
EXTENDS PIAClient, FiniteSetTheorems, TLAPS

USE ClientAssumption DEF clientVars, callVars, historyVars, Points, Fetches

(***************************************************************************)
(* The callers about to invalidate.                                        *)
(***************************************************************************)

\* Their number is a natural number.
LEMMA PendingFinite ==
  IsFiniteSet(Pending) /\ Cardinality(Pending) \in Nat
BY FS_Subset, FS_CardinalityType DEF Pending

\* A caller that moves to InvalidateToken adds one.
LEMMA PendingGrows ==
  ASSUME NEW c \in Callers, at \in [Callers -> Points],
         at[c] # "lockInvalidate", Move(c, "lockInvalidate")
  PROVE  Cardinality(Pending') = Cardinality(Pending) + 1
<1>1. Pending' = Pending \cup {c} /\ c \notin Pending
  BY DEF Pending, Move
<1> QED
  BY <1>1, PendingFinite, FS_AddElement

\* A caller that leaves it takes one away.
LEMMA PendingShrinks ==
  ASSUME NEW c \in Callers, at \in [Callers -> Points],
         at[c] = "lockInvalidate", Move(c, "idle")
  PROVE  Cardinality(Pending') = Cardinality(Pending) - 1
<1>1. Pending' = Pending \ {c} /\ c \in Pending
  BY DEF Pending, Move
<1> QED
  BY <1>1, PendingFinite, FS_RemoveElement

\* Any other move leaves it alone.
LEMMA PendingSame ==
  ASSUME NEW c \in Callers, at \in [Callers -> Points], NEW p \in Points,
         at[c] # "lockInvalidate", p # "lockInvalidate", Move(c, p)
  PROVE  Pending' = Pending
BY DEF Pending, Move

(***************************************************************************)
(* The invariant.                                                          *)
(***************************************************************************)

\* It holds initially, with or without a seeded token.
LEMMA InitInv == Init => IInv
<1> SUFFICES ASSUME Init PROVE IInv
  OBVIOUS
<1>1. TypeOK
  <2>1. regions \in BOOLEAN /\ accepted \in SUBSET Tokens
    BY DEF Init
  <2>2. /\ at \in [Callers -> Points]
        /\ sent \in [Callers -> Tokens \cup {NoToken}]
        /\ result \in [Callers -> {"none", "auth", "other"}]
        /\ refused \in [Callers -> Tokens \cup {NoToken}]
    BY DEF Init
  <2>3. logins \in Nat /\ rejections \in 0 .. MaxRejections
    BY DEF Init
  <2> QED
    BY <2>1, <2>2, <2>3 DEF Init, TypeOK
<1>2. Locking /\ OneLoginAtATime /\ Refusals
  BY DEF Init, Locking, OneLoginAtATime, Refusals
<1>3. Pending = {}
  BY DEF Init, Pending
<1>4. Balance
  BY <1>3, FS_EmptySet DEF Init, Balance
<1> QED
  BY <1>1, <1>2, <1>4 DEF IInv

\* Types are preserved.
LEMMA TypeStep == TypeOK /\ [Next]_vars => TypeOK'
<1> SUFFICES ASSUME TypeOK, [Next]_vars PROVE TypeOK'
  OBVIOUS
<1> USE DEF TypeOK, Move
<1>1. ASSUME NEW c \in Callers, Call(c) PROVE TypeOK'
  BY <1>1 DEF Call
<1>2. ASSUME NEW c \in Callers, LockRegions(c) PROVE TypeOK'
  BY <1>2 DEF LockRegions
<1>3. ASSUME NEW c \in Callers, FetchServerList(c) PROVE TypeOK'
  BY <1>3 DEF FetchServerList
<1>4. ASSUME NEW c \in Callers, LockToken(c) PROVE TypeOK'
  BY <1>4 DEF LockToken
<1>5. ASSUME NEW c \in Callers, FetchAuthToken(c) PROVE TypeOK'
  BY <1>5 DEF FetchAuthToken
<1>6. ASSUME NEW c \in Callers, AddKey(c) PROVE TypeOK'
  BY <1>6 DEF AddKey
<1>7. ASSUME NEW c \in Callers, InvalidateToken(c) PROVE TypeOK'
  BY <1>7 DEF InvalidateToken, AfterInvalidate
<1>8. ASSUME NEW t \in Tokens, Expire(t) PROVE TypeOK'
  BY <1>8 DEF Expire
<1>9. CASE UNCHANGED vars
  BY <1>9 DEF vars
<1> QED
  BY <1>1, <1>2, <1>3, <1>4, <1>5, <1>6, <1>7, <1>8, <1>9 DEF Next, Step

\* The whole invariant is preserved.
LEMMA InvStep == IInv /\ [Next]_vars => IInv'
<1> SUFFICES ASSUME IInv, [Next]_vars PROVE IInv'
  OBVIOUS
<1> USE DEF IInv
<1>0. TypeOK'
  BY TypeStep
<1>1. ASSUME NEW c \in Callers, Call(c) PROVE IInv'
  <2>1. (Locking /\ OneLoginAtATime /\ Refusals)'
    BY <1>1 DEF TypeOK, Call, Move, Locking, OneLoginAtATime, Refusals
  <2>2. Balance'
    BY <1>1, PendingSame DEF TypeOK, Call, Balance
  <2> QED
    BY <1>0, <2>1, <2>2
<1>2. ASSUME NEW c \in Callers, LockRegions(c) PROVE IInv'
  <2>1. (Locking /\ OneLoginAtATime /\ Refusals)'
    BY <1>2 DEF TypeOK, LockRegions, Move, Locking, OneLoginAtATime, Refusals
  <2>2. Balance'
    BY <1>2, PendingSame DEF TypeOK, LockRegions, Balance
  <2> QED
    BY <1>0, <2>1, <2>2
<1>3. ASSUME NEW c \in Callers, FetchServerList(c) PROVE IInv'
  <2>1. (Locking /\ OneLoginAtATime /\ Refusals)'
    BY <1>3 DEF TypeOK, FetchServerList, Move, Locking, OneLoginAtATime,
       Refusals
  <2>2. Balance'
    BY <1>3, PendingSame DEF TypeOK, FetchServerList, Balance
  <2> QED
    BY <1>0, <2>1, <2>2
<1>4. ASSUME NEW c \in Callers, LockToken(c) PROVE IInv'
  <2>1. (Locking /\ OneLoginAtATime)'
    BY <1>4 DEF TypeOK, LockToken, Cached, Move, Locking, OneLoginAtATime
  <2>2. Refusals'
    BY <1>4 DEF TypeOK, LockToken, Cached, Move, Refusals
  <2>3. Balance'
    BY <1>4, PendingSame DEF TypeOK, LockToken, Balance
  <2> QED
    BY <1>0, <2>1, <2>2, <2>3
<1>5. ASSUME NEW c \in Callers, FetchAuthToken(c) PROVE IInv'
  <2>1. mu = c /\ token = NoToken
    BY <1>5 DEF FetchAuthToken, OneLoginAtATime
  <2>2. (Locking /\ OneLoginAtATime)'
    BY <1>5, <2>1 DEF TypeOK, FetchAuthToken, Move, Locking, OneLoginAtATime
  <2>3. Refusals'
    BY <1>5 DEF TypeOK, FetchAuthToken, Unknown, Move, Refusals
  <2>4. Balance'
    BY <1>5, <2>1, PendingSame, PendingFinite DEF TypeOK, FetchAuthToken,
       Balance
  <2> QED
    BY <1>0, <2>2, <2>3, <2>4
<1>6. ASSUME NEW c \in Callers, AddKey(c) PROVE IInv'
  <2>1. (Locking /\ OneLoginAtATime)'
    BY <1>6 DEF TypeOK, AddKey, Move, Locking, OneLoginAtATime
  <2>2. Refusals'
    BY <1>6 DEF TypeOK, AddKey, IsAuthError, Move, Refusals
  <2>3. Balance'
    BY <1>6, PendingSame, PendingGrows, PendingFinite
       DEF TypeOK, AddKey, IsAuthError, Balance
  <2> QED
    BY <1>0, <2>1, <2>2, <2>3
<1>7. ASSUME NEW c \in Callers, InvalidateToken(c) PROVE IInv'
  <2>1. (Locking /\ OneLoginAtATime /\ Refusals)'
    BY <1>7 DEF TypeOK, InvalidateToken, AfterInvalidate, Move, Locking,
                OneLoginAtATime, Refusals
  <2>2. Balance'
    BY <1>7, PendingShrinks, PendingFinite
       DEF TypeOK, InvalidateToken, AfterInvalidate, Balance
  <2> QED
    BY <1>0, <2>1, <2>2
<1>8. ASSUME NEW t \in Tokens, Expire(t) PROVE IInv'
  BY <1>0, <1>8 DEF Expire, Locking, OneLoginAtATime, Refusals, Balance, Pending
<1>9. CASE UNCHANGED vars
  BY <1>0, <1>9 DEF vars, Locking, OneLoginAtATime, Refusals, Balance, Pending
<1> QED
  BY <1>1, <1>2, <1>3, <1>4, <1>5, <1>6, <1>7, <1>8, <1>9 DEF Next, Step

(***************************************************************************)
(* The theorems.                                                           *)
(***************************************************************************)

\* The invariant holds in every reachable state.
THEOREM Invariance == Spec => []IInv
<1>1. Init => IInv
  BY InitInv
<1>2. IInv /\ [Next]_vars => IInv'
  BY InvStep
<1> QED
  BY <1>1, <1>2, PTL DEF Spec

\* At most one login is under way, and only while no token is cached
\* (pia.go:200).
THEOREM SingleLogin == Spec => []OneLoginAtATime
<1>1. IInv => OneLoginAtATime
  BY DEF IInv
<1> QED
  BY <1>1, Invariance, PTL

\* The number of logins never exceeds the number of 401 answers by more than
\* the first one: neither retries nor the number of tunnels cost logins
\* (pia.go:54, 134).
THEOREM LoginsAreBounded == Spec => []LoginsArePaidFor
<1>1. IInv => LoginsArePaidFor
  BY PendingFinite DEF IInv, TypeOK, Balance, LoginsArePaidFor
<1> QED
  BY <1>1, Invariance, PTL

\* A token is never sent again by a caller that saw it rejected (pia.go:290).
THEOREM NextCallReauths == Spec => []RejectedIsNotResent
<1>1. IInv => RejectedIsNotResent
  BY DEF IInv, Refusals, RejectedIsNotResent
<1> QED
  BY <1>1, Invariance, PTL

\* Only a caller holding a 401 drops the cached token (pia.go:287).
THEOREM OnlyAuthErrorsDrop == Spec => DroppedOnAuthErrorOnly
<1>1. ASSUME IInv, [Next]_vars, token # NoToken, token' = NoToken
      PROVE  \E c \in Callers : result[c] = "auth" /\ at[c] # at'[c]
  <2>1. PICK c \in Callers : InvalidateToken(c)
    BY <1>1 DEF IInv, TypeOK, Next, Step, Call, LockRegions, FetchServerList,
                LockToken, FetchAuthToken, AddKey, Expire, vars
  <2>2. result[c] = "auth" /\ at[c] # at'[c]
    BY <1>1, <2>1 DEF IInv, TypeOK, Refusals, InvalidateToken, Move
  <2> QED
    BY <2>2
<1>2. IInv /\ [Next]_vars
        => [token # NoToken /\ token' = NoToken
              => \E c \in Callers : result[c] = "auth" /\ at[c] # at'[c]]_vars
  BY <1>1
<1> QED
  BY <1>2, Invariance, PTL DEF Spec, DroppedOnAuthErrorOnly

\* What a login brings reaches the cache and its caller, and nothing else gets
\* into the cache meanwhile (pia.go:206).
THEOREM LoginReachesCache == Spec => LoginFillsCache
<1>1. ASSUME IInv, [Next]_vars, NEW c \in Callers, at[c] = "fetchToken"
      PROVE  \/ at'[c] = "fetchToken" /\ token' = NoToken
             \/ at'[c] = "addKey" /\ token' = sent'[c] /\ token' # NoToken
             \/ at'[c] = "idle" /\ token' = NoToken
  <2>1. mu = c /\ token = NoToken
    BY <1>1 DEF IInv, OneLoginAtATime
  <2>2. CASE FetchAuthToken(c)
    BY <1>1, <2>1, <2>2 DEF IInv, TypeOK, FetchAuthToken, Move
  <2>3. ASSUME NEW d \in Callers, FetchAuthToken(d) PROVE d = c
    BY <1>1, <2>1, <2>3 DEF IInv, OneLoginAtATime, FetchAuthToken
  <2>4. ASSUME NEW d \in Callers,
               \/ Call(d) \/ LockRegions(d) \/ FetchServerList(d)
               \/ LockToken(d) \/ AddKey(d) \/ InvalidateToken(d)
        PROVE  at'[c] = "fetchToken" /\ token' = NoToken
    <3>1. d # c
      BY <1>1, <2>1, <2>4 DEF Call, LockRegions, FetchServerList, LockToken, AddKey,
         InvalidateToken
    <3>2. token' = NoToken
      BY <2>1, <2>4 DEF Call, LockRegions, FetchServerList, LockToken, AddKey,
         InvalidateToken
    <3>3. at'[c] = at[c]
      BY <1>1, <2>4, <3>1 DEF IInv, TypeOK, Move, Call, LockRegions,
         FetchServerList, LockToken, AddKey, InvalidateToken
    <3> QED BY <1>1, <3>2, <3>3
  <2>5. ASSUME NEW t \in Tokens, Expire(t)
        PROVE  at'[c] = "fetchToken" /\ token' = NoToken
    BY <1>1, <2>1, <2>5 DEF Expire
  <2>6. CASE UNCHANGED vars
    BY <1>1, <2>1, <2>6 DEF vars
  <2> QED
    BY <1>1, <2>2, <2>3, <2>4, <2>5, <2>6 DEF Next, Step
<1>2. IInv /\ [Next]_vars =>
        [\A c \in Callers : at[c] = "fetchToken" =>
           \/ at'[c] = "fetchToken" /\ token' = NoToken
           \/ at'[c] = "addKey" /\ token' = sent'[c] /\ token' # NoToken
           \/ at'[c] = "idle" /\ token' = NoToken]_vars
  BY <1>1
<1> QED
  BY <1>2, Invariance, PTL DEF Spec, LoginFillsCache

\* Where a step of a caller can lead.
LEMMA StepLeads ==
  ASSUME IInv, NEW c \in Callers, Step(c)
  PROVE  /\ at' = [at EXCEPT ![c] = at'[c]]
         /\ \/ at[c] = "lockRegions" /\ at'[c] \in {"idle", "fetchRegions"}
            \/ at[c] = "fetchRegions" /\ at'[c] = "idle"
            \/ at[c] = "lockToken" /\ at'[c] \in {"addKey", "fetchToken"}
            \/ at[c] = "fetchToken" /\ at'[c] \in {"addKey", "idle"}
            \/ at[c] = "addKey" /\ at'[c] \in {"lockInvalidate", "idle"}
            \/ at[c] = "lockInvalidate" /\ at'[c] = "idle"
<1> USE DEF IInv, TypeOK, Move
<1>1. CASE LockRegions(c)
  BY <1>1 DEF LockRegions
<1>2. CASE FetchServerList(c)
  BY <1>2 DEF FetchServerList
<1>3. CASE LockToken(c)
  BY <1>3 DEF LockToken
<1>4. CASE FetchAuthToken(c)
  BY <1>4 DEF FetchAuthToken
<1>5. CASE AddKey(c)
  BY <1>5 DEF AddKey
<1>6. CASE InvalidateToken(c)
  BY <1>6 DEF InvalidateToken
<1> QED
  BY <1>1, <1>2, <1>3, <1>4, <1>5, <1>6 DEF Step

\* A call has an end: four steps at most, of which none is undone by the steps
\* of others, and the lock it may wait for is always that of a request.
THEOREM CallsAreBounded == Spec => CallsDrawNear
<1>1. ASSUME IInv, NEW c \in Callers, Step(c)
      PROVE  StepsLeft(c)' < StepsLeft(c)
  BY <1>1, StepLeads DEF StepsLeft
<1>2. ASSUME IInv, [Next]_vars, NEW c \in Callers, StepsLeft(c)' > StepsLeft(c)
      PROVE  at[c] = "idle"
  <2>1. ASSUME NEW d \in Callers, Step(d) PROVE StepsLeft(c)' <= StepsLeft(c)
    <3>1. CASE d = c
      <4>1. StepsLeft(c)' < StepsLeft(c)
        BY <1>1, <1>2, <2>1, <3>1
      <4>2. StepsLeft(c)' \in Nat /\ StepsLeft(c) \in Nat
        BY DEF StepsLeft
      <4> QED BY <4>1, <4>2
    <3>2. CASE d # c
      <4>1. at'[c] = at[c]
        BY <1>2, <2>1, <3>2, StepLeads DEF IInv, TypeOK
      <4> QED BY <4>1 DEF StepsLeft
    <3> QED BY <3>1, <3>2
  <2>2. ASSUME NEW d \in Callers, Call(d) PROVE at'[c] = at[c] \/ at[c] = "idle"
    BY <1>2, <2>2 DEF IInv, TypeOK, Call, Move
  <2>3. ASSUME NEW t \in Tokens, Expire(t) PROVE at'[c] = at[c]
    BY <2>3 DEF Expire
  <2>4. CASE UNCHANGED vars
    BY <1>2, <2>4 DEF vars, StepsLeft
  <2>5. at'[c] = at[c] => StepsLeft(c)' = StepsLeft(c)
    BY DEF StepsLeft
  <2>6. StepsLeft(c)' \in Nat /\ StepsLeft(c) \in Nat
    BY DEF StepsLeft
  <2> QED
    BY <1>2, <2>1, <2>2, <2>3, <2>4, <2>5, <2>6 DEF Next
<1>3. IInv => (mu # NoCaller => at[mu] \in Fetches)
  BY DEF IInv, TypeOK, Locking
<1>4. IInv /\ [Next]_vars =>
        [/\ \A c \in Callers : Step(c) => StepsLeft(c)' < StepsLeft(c)
         /\ \A c \in Callers : StepsLeft(c)' > StepsLeft(c) => at[c] = "idle"
         /\ mu # NoCaller => at[mu] \in Fetches]_vars
  BY <1>1, <1>2, <1>3
<1> QED
  BY <1>4, Invariance, PTL DEF Spec, CallsDrawNear

(***************************************************************************)
(* Liveness.  What ENABLED says of a caller's step is StepsAreEnabled; TLC *)
(* agrees with it.                                                         *)
(***************************************************************************)

\* Only a caller's own steps move it once its call has begun, and only the
\* holder's step takes the lock from it.
LEMMA OthersWait ==
  ASSUME IInv, [Next]_vars, NEW c \in Callers, ~Step(c)
  PROVE  /\ at[c] # "idle" => at'[c] = at[c]
         /\ mu = c => mu' = c
<1>1. ASSUME NEW d \in Callers, Step(d)
      PROVE  at'[c] = at[c] /\ (mu = c => mu' = c)
  <2>1. d # c
    BY <1>1
  <2>2. at'[c] = at[c]
    BY <1>1, <2>1, StepLeads DEF IInv, TypeOK
  <2>3. mu = c => mu' = c
    BY <1>1, <2>1 DEF Step, LockRegions, FetchServerList, LockToken, FetchAuthToken,
       AddKey, InvalidateToken, IInv, Locking
  <2> QED BY <2>2, <2>3
<1>2. ASSUME NEW d \in Callers, Call(d)
      PROVE  (at[c] # "idle" => at'[c] = at[c]) /\ mu' = mu
  BY <1>2 DEF IInv, TypeOK, Call, Move
<1>3. ASSUME NEW t \in Tokens, Expire(t) PROVE at' = at /\ mu' = mu
  BY <1>3 DEF Expire
<1>4. CASE UNCHANGED vars
  BY <1>4 DEF vars
<1> QED
  BY <1>1, <1>2, <1>3, <1>4 DEF Next

\* What StepsAreEnabled says of one caller.
LEMMA CallerMay ==
  ASSUME NEW c \in Callers, StepsAreEnabled,
         at[c] # "idle", mu = NoCaller \/ mu = c
  PROVE  ENABLED <<Step(c)>>_vars
BY DEF StepsAreEnabled

\* A request ends, and the lock with it.
LEMMA HolderLetsGo ==
  ASSUME NEW c \in Callers
  PROVE  FairSpec /\ []StepsAreEnabled => [](mu = c => <>(mu = NoCaller))
<1> DEFINE Holds == mu = c
           Free  == mu = NoCaller
<1>1. FairSpec => Spec /\ CallIsFair(c)
  BY DEF FairSpec
<1>2. IInv /\ Holds /\ Step(c) => Free'
  BY DEF IInv, Locking, Step, LockRegions, FetchServerList, LockToken, FetchAuthToken,
     AddKey, InvalidateToken
<1>3. IInv /\ [Next]_vars /\ Holds => Holds' \/ Free'
  BY <1>2, OthersWait
<1>4. IInv /\ Holds /\ <<Step(c)>>_vars => Free'
  BY <1>2
<1>5. IInv /\ StepsAreEnabled => (Holds => ENABLED <<Step(c)>>_vars)
  <2>1. IInv /\ Holds => at[c] # "idle" /\ (mu = NoCaller \/ mu = c)
    BY DEF IInv, Locking
  <2> QED BY <2>1, CallerMay
<1> HIDE DEF Holds, Free
<1>6. FairSpec /\ []StepsAreEnabled => [](Holds => <>Free)
  BY <1>1, <1>3, <1>4, <1>5, Invariance, PTL DEF Spec, CallIsFair
<1> QED BY <1>6 DEF Holds, Free

\* So that the lock is free again and again.
LEMMA LockComesFree == FairSpec /\ []StepsAreEnabled => []<>(mu = NoCaller)
<1>1. FairSpec /\ []StepsAreEnabled =>
        \A c \in Callers : [](mu = c => <>(mu = NoCaller))
  BY HolderLetsGo
<1>2. (\A c \in Callers : [](mu = c => <>(mu = NoCaller)))
        => [](\A c \in Callers : mu = c => <>(mu = NoCaller))
  OBVIOUS
<1>3. (\A c \in Callers : mu = c => <>(mu = NoCaller))
        => ((\E c \in Callers : mu = c) => <>(mu = NoCaller))
  OBVIOUS
<1>4. IInv => mu = NoCaller \/ \E c \in Callers : mu = c
  BY DEF IInv, TypeOK
<1>5. FairSpec => Spec
  BY DEF FairSpec
<1> QED
  BY <1>1, <1>2, <1>3, <1>4, <1>5, Invariance, PTL

\* A call under way, before its lock or in its request, makes its next step.
LEMMA CallGoesOn ==
  ASSUME NEW c \in Callers, NEW p \in Points \ {"idle"}
  PROVE  FairSpec /\ []StepsAreEnabled => [](at[c] = p => <>~(at[c] = p))
<1> DEFINE Here == at[c] = p
           Free == mu = NoCaller
<1>1. FairSpec => Spec /\ CallIsFair(c)
  BY DEF FairSpec
<1>2. IInv /\ Here /\ <<Step(c)>>_vars => ~Here'
  BY StepLeads
<1>3. IInv /\ StepsAreEnabled => (Here /\ Free => ENABLED <<Step(c)>>_vars)
  BY CallerMay
<1>4. FairSpec /\ []StepsAreEnabled => []<>Free
  BY LockComesFree
<1> HIDE DEF Here, Free
<1>5. FairSpec /\ []StepsAreEnabled => [](Here => <>~Here)
  BY <1>1, <1>2, <1>3, <1>4, Invariance, PTL DEF Spec, CallIsFair
<1> QED BY <1>5 DEF Here

\* Every call returns: it waits for at most one lock at a time, and the lock
\* comes free (pia.go:159-243, 287).
THEOREM EveryCallReturns == FairSpec /\ []StepsAreEnabled => CallsReturn
<1> SUFFICES ASSUME NEW c \in Callers
             PROVE  FairSpec /\ []StepsAreEnabled => (at[c] # "idle" ~> at[c] = "idle")
  BY DEF CallsReturn
<1> DEFINE At(p) == at[c] = p
           GoesOn(p) == FairSpec /\ []StepsAreEnabled => [](At(p) => <>~At(p))
<1>1. IInv => \/ At("idle") \/ At("lockRegions") \/ At("lockToken") \/ At("addKey")
              \/ At("lockInvalidate") \/ At("fetchRegions") \/ At("fetchToken")
  BY DEF IInv, TypeOK
<1>2. IInv /\ [Next]_vars =>
        /\ At("lockRegions")    => \/ At("lockRegions")' \/ At("idle")'
                                   \/ At("fetchRegions")'
        /\ At("fetchRegions")   => At("fetchRegions")' \/ At("idle")'
        /\ At("lockToken")      => \/ At("lockToken")' \/ At("addKey")'
                                   \/ At("fetchToken")'
        /\ At("fetchToken")     => At("fetchToken")' \/ At("addKey")' \/ At("idle")'
        /\ At("addKey")         => At("addKey")' \/ At("lockInvalidate")' \/ At("idle")'
        /\ At("lockInvalidate") => At("lockInvalidate")' \/ At("idle")'
  BY StepLeads, OthersWait
<1>3. /\ GoesOn("lockRegions") /\ GoesOn("fetchRegions") /\ GoesOn("lockToken")
      /\ GoesOn("fetchToken") /\ GoesOn("addKey") /\ GoesOn("lockInvalidate")
  <2>1. \A p \in Points \ {"idle"} : GoesOn(p)
    BY CallGoesOn
  <2> HIDE DEF GoesOn
  <2> QED BY <2>1
<1>4. FairSpec => Spec
  BY DEF FairSpec
<1>5. at[c] # "idle" <=> ~At("idle")
  OBVIOUS
<1> HIDE DEF At
<1>6. FairSpec /\ []StepsAreEnabled => [](~At("idle") => <>At("idle"))
  BY <1>1, <1>2, <1>3, <1>4, Invariance, PTL DEF Spec
<1> QED BY <1>5, <1>6, PTL DEF At

(***************************************************************************)
(* The client in StatusLocks.                                              *)
(***************************************************************************)

\* Of a call StatusLocks keeps where it stands to the lock; the other locks are
\* idle here.
AtLock(point) ==
  IF point \in Fetches THEN "fetch"
  ELSE IF point \in {"lockRegions", "lockToken", "lockInvalidate"} THEN "want"
  ELSE "busy"

Locks == INSTANCE StatusLocks WITH
  Tunnels <- Callers,
  Nobody  <- NoCaller,
  pia     <- mu,
  run     <- [c \in Callers |-> AtLock(at[c])],
  writer  <- [c \in Callers |-> "away"],
  dialer  <- [c \in Callers |-> "away"],
  status  <- "away",
  shown   <- {},
  current <- NoCaller

\* A move of one caller, at the lock.
LEMMA MoveAtLock ==
  ASSUME NEW c \in Callers, at \in [Callers -> Points], NEW p \in Points, Move(c, p)
  PROVE  [d \in Callers |-> AtLock(at'[d])] =
           [[d \in Callers |-> AtLock(at[d])] EXCEPT ![c] = AtLock(p)]
<1>1. ASSUME NEW d \in Callers
      PROVE  AtLock(at'[d]) = IF d = c THEN AtLock(p) ELSE AtLock(at[d])
  BY DEF Move
<1> QED BY <1>1

\* The lock that StatusLocks has in the middle of its waits is the one of the
\* client: PIAClient takes and releases it as StatusLocks lets any tunnel do, so
\* that a call is at any time before the lock, in a request under it, or away
\* (pia.go:170-243).
THEOREM LockIsTheClients == Spec => Locks!Spec
<1> USE DEF Locks!vars
<1>1. Init => Locks!Init
  BY DEF Init, Locks!Init, AtLock
<1>2. IInv /\ [Next]_vars => [Locks!Next]_(Locks!vars)
  <2> SUFFICES ASSUME IInv, [Next]_vars
               PROVE  Locks!Next \/ UNCHANGED Locks!vars
    OBVIOUS
  <2> DEFINE runs == [c \in Callers |-> AtLock(at[c])]
  <2>0. at \in [Callers -> Points]
    BY DEF IInv, TypeOK
  <2>1. ASSUME NEW c \in Callers, at[c] = "idle" \/ at[c] = "addKey", mu' = mu,
               Move(c, "lockRegions") \/ Move(c, "lockToken") \/ Move(c, "lockInvalidate")
        PROVE  Locks!Next
    <3>1. runs' = [runs EXCEPT ![c] = "want"]
      BY <2>0, <2>1, MoveAtLock DEF AtLock
    <3>2. runs[c] = "busy"
      BY <2>1 DEF AtLock
    <3>3. Locks!CallClient(c)
      BY <2>1, <3>1, <3>2 DEF Locks!CallClient
    <3> QED BY <3>3 DEF Locks!Next
  <2>2. ASSUME NEW c \in Callers, mu = NoCaller, mu' = mu,
               at[c] \in {"lockRegions", "lockToken", "lockInvalidate"},
               Move(c, "idle") \/ Move(c, "addKey")
        PROVE  Locks!Next
    <3>1. runs' = [runs EXCEPT ![c] = "busy"]
      BY <2>0, <2>2, MoveAtLock DEF AtLock
    <3>2. runs[c] = "want"
      BY <2>2 DEF AtLock
    <3>3. Locks!LockClient(c)
      BY <2>2, <3>1, <3>2 DEF Locks!LockClient
    <3> QED BY <3>3 DEF Locks!Next, Locks!Client
  <2>3. ASSUME NEW c \in Callers, mu = NoCaller, mu' = c,
               at[c] \in {"lockRegions", "lockToken"},
               Move(c, "fetchRegions") \/ Move(c, "fetchToken")
        PROVE  Locks!Next
    <3>1. runs' = [runs EXCEPT ![c] = "fetch"]
      BY <2>0, <2>3, MoveAtLock DEF AtLock
    <3>2. runs[c] = "want"
      BY <2>3 DEF AtLock
    <3>3. Locks!LockClient(c)
      BY <2>3, <3>1, <3>2 DEF Locks!LockClient
    <3> QED BY <3>3 DEF Locks!Next, Locks!Client
  <2>4. ASSUME NEW c \in Callers, mu' = NoCaller, at[c] \in Fetches,
               Move(c, "idle") \/ Move(c, "addKey")
        PROVE  Locks!Next
    <3>1. runs' = [runs EXCEPT ![c] = "busy"]
      BY <2>0, <2>4, MoveAtLock DEF AtLock
    <3>2. runs[c] = "fetch"
      BY <2>4 DEF AtLock
    <3>3. Locks!FetchDone(c)
      BY <2>4, <3>1, <3>2 DEF Locks!FetchDone, Locks!Unlocked
    <3> QED BY <3>3 DEF Locks!Next, Locks!Client
  <2>5. ASSUME NEW c \in Callers, at[c] = "addKey", mu' = mu, Move(c, "idle")
        PROVE  UNCHANGED Locks!vars
    <3>0. AtLock("idle") = "busy" /\ "idle" \in Points
      BY DEF AtLock, Points
    <3>1. runs' = [runs EXCEPT ![c] = "busy"]
      BY ONLY <2>0, <2>5, <3>0, c \in Callers, MoveAtLock
    <3>2. runs' = runs
      BY <2>5, <3>1 DEF AtLock
    <3> QED BY <2>5, <3>2
  <2>6. ASSUME at' = at, mu' = mu PROVE UNCHANGED Locks!vars
    BY <2>6
  <2> HIDE DEF runs, Locks!vars
  <2>7. ASSUME NEW c \in Callers, Call(c) PROVE Locks!Next
    BY <2>1, <2>7 DEF Call
  <2>8. ASSUME NEW c \in Callers, LockRegions(c) \/ LockToken(c) PROVE Locks!Next
    BY <2>2, <2>3, <2>8 DEF LockRegions, LockToken
  <2>9. ASSUME NEW c \in Callers, FetchServerList(c) \/ FetchAuthToken(c)
        PROVE  Locks!Next
    BY <2>4, <2>9 DEF FetchServerList, FetchAuthToken
  <2>10. ASSUME NEW c \in Callers, AddKey(c)
         PROVE  Locks!Next \/ UNCHANGED Locks!vars
    BY <2>1, <2>5, <2>10 DEF AddKey
  <2>11. ASSUME NEW c \in Callers, InvalidateToken(c) PROVE Locks!Next
    BY <2>2, <2>11 DEF InvalidateToken
  <2>12. ASSUME NEW t \in Tokens, Expire(t) PROVE UNCHANGED Locks!vars
    BY <2>6, <2>12 DEF Expire
  <2>13. CASE UNCHANGED vars
    BY <2>6, <2>13 DEF vars
  <2> QED BY <2>7, <2>8, <2>9, <2>10, <2>11, <2>12, <2>13 DEF Next, Step
<1> QED BY <1>1, <1>2, Invariance, PTL DEF Spec, Locks!Spec
=============================================================================
