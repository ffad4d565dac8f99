--------------------------- MODULE ThrottleProofs ----------------------------
(***************************************************************************)
(* Proofs about the throttle, for every number of requests and sites and   *)
(* every limit: permits are kept, every attempt is paid, and no request    *)
(* gives up early or tries too often.                                      *)
(***************************************************************************)
EXTENDS Throttle, FiniteSetTheorems, SequenceTheorems, TLAPS

-----------------------------------------------------------------------------
\* Requests are in line for a semaphore of a site, or hold its token, only if they have
\* a site; and a request that is not done has an attempt left.
SiteSteps == \A r \in Request : pc[r] \in {"site", "site_token"} => SiteOf[r] \in Site
AttemptLeft == \A r \in Request : pc[r] # "done" => attempts[r] <= Count

IInv ==
    /\ TypeOK /\ SiteSteps /\ AttemptLeft
    /\ PermitsBalance /\ EveryAttemptPaid /\ GivesUpOnlyExhausted

LEMMA Limits == AnySite \in Limit /\ \A r \in Request : SiteOf[r] \in Limit
BY SiteAssumption DEF Limit

LEMMA HoldersFinite ==
    \A l \in Limit : IsFiniteSet(Holders(l)) /\ Cardinality(Holders(l)) \in Nat
PROOF
  <1> SUFFICES ASSUME NEW l \in Limit
               PROVE  IsFiniteSet(Holders(l)) /\ Cardinality(Holders(l)) \in Nat
    OBVIOUS
  <1>1. Holders(l) \subseteq Request
    BY DEF Holders
  <1>2. IsFiniteSet(Holders(l))
    BY <1>1, RequestAssumption, FS_Subset
  <1> QED
    BY <1>2, FS_CardinalityType

LEMMA BackoffIsCapped == ASSUME NEW m \in Nat PROVE Shorter(m * Factor, Cap) \in Interval
PROOF
  <1>1. m * Factor \in Nat
    BY RetryAssumption, SMT
  <1> QED
    BY <1>1, RetryAssumption DEF Shorter, Interval

-----------------------------------------------------------------------------
LEMMA InitIInv == Init => IInv
PROOF
  <1> SUFFICES ASSUME Init PROVE IInv
    OBVIOUS
  <1>1. \A r \in Request : /\ pc[r] = "idle" /\ attempts[r] = 0 /\ outcome[r] = "none"
                           /\ \A l \in Limit : spent[r][l] = 0
    BY DEF Init
  <1>2. permits = Concurrency /\ tokens = Supply
    BY DEF Init
  <1>3. TypeOK
    <2>1. pc \in [Request -> PC] /\ outcome \in [Request -> Outcome]
      BY DEF Init, PC, Outcome
    <2>2. /\ permits \in [Limit -> Nat] /\ \A l \in Limit : permits[l] <= Concurrency[l]
          /\ tokens \in [Limit -> Nat] /\ \A l \in Limit : tokens[l] <= Supply[l]
      BY <1>2, LimitAssumption
    <2>3. queue \in [Limit -> Seq(Request)]
      BY DEF Init
    <2>4. /\ attempts \in [Request -> 0..(Count + 1)]
          /\ backoff \in [Request -> Interval] /\ interval \in [Request -> Interval \cup {0}]
      BY RetryAssumption DEF Init, Interval
    <2>5. spent \in [Request -> [Limit -> Nat]]
      BY DEF Init
    <2> QED
      BY <2>1, <2>2, <2>3, <2>4, <2>5 DEF TypeOK
  <1>4. SiteSteps /\ AttemptLeft /\ GivesUpOnlyExhausted
    BY <1>1, RetryAssumption DEF SiteSteps, AttemptLeft, GivesUpOnlyExhausted
  <1>5. PermitsBalance
    <2>1. \A l \in Limit : Holders(l) = {}
      BY <1>1 DEF Holders
    <2>2. \A l \in Limit : permits[l] \in Nat /\ Cardinality(Holders(l)) = 0
      BY <1>3, <2>1, FS_EmptySet DEF TypeOK
    <2> QED
      BY <1>2, <2>2 DEF PermitsBalance
  <1>6. EveryAttemptPaid
    BY <1>1, Limits DEF EveryAttemptPaid
  <1> QED
    BY <1>3, <1>4, <1>5, <1>6 DEF IInv

-----------------------------------------------------------------------------
\* What the steps of one request change of it, and leave of the others.
LEMMA Moved ==
    ASSUME TypeOK, NEW r \in Request, NEW label \in PC, Goto(r, label)
    PROVE  /\ pc' \in [Request -> PC] /\ pc'[r] = label
           /\ \A q \in Request \ {r} : pc'[q] = pc[q]
BY DEF TypeOK, Goto

LEMMA LinedUp ==
    ASSUME TypeOK, NEW r \in Request, NEW l \in Limit, LineUp(r, l)
    PROVE  queue' \in [Limit -> Seq(Request)]
BY AppendProperties DEF TypeOK, LineUp

LEMMA Spends ==
    ASSUME TypeOK, NEW r \in Request, NEW l \in Limit, Take(r, l)
    PROVE  /\ spent' \in [Request -> [Limit -> Nat]]
           /\ spent'[r][l] = spent[r][l] + 1
           /\ \A m \in Limit \ {l} : spent'[r][m] = spent[r][m]
           /\ \A q \in Request \ {r} : spent'[q] = spent[q]
           /\ tokens' \in [Limit -> Nat] /\ \A m \in Limit : tokens'[m] <= Supply[m]
PROOF
  <1>1. spent' = [spent EXCEPT ![r][l] = @ + 1] /\ spent \in [Request -> [Limit -> Nat]]
    BY DEF Take, TypeOK
  <1>2. /\ spent'[r] = [spent[r] EXCEPT ![l] = @ + 1] /\ spent[r] \in [Limit -> Nat]
        /\ \A q \in Request \ {r} : spent'[q] = spent[q]
    BY <1>1
  <1>3. spent'[r] \in [Limit -> Nat]
    BY <1>2
  <1>4. spent' \in [Request -> [Limit -> Nat]]
    BY <1>1, <1>2, <1>3
  <1>5. tokens' = [tokens EXCEPT ![l] = @ - 1] /\ tokens[l] > 0 /\ tokens \in [Limit -> Nat]
    BY DEF Take, TypeOK
  <1>6. tokens' \in [Limit -> Nat]
    BY <1>5
  <1>7. \A m \in Limit : tokens'[m] <= Supply[m]
    <2>1. \A m \in Limit : tokens[m] <= Supply[m] /\ tokens[m] \in Nat /\ Supply[m] \in Nat
      BY <1>5, LimitAssumption DEF TypeOK
    <2>2. tokens'[l] = tokens[l] - 1 /\ \A m \in Limit \ {l} : tokens'[m] = tokens[m]
      BY <1>5
    <2> QED
      BY <2>1, <2>2
  <1> QED
    BY <1>2, <1>4, <1>6, <1>7

\* The permits are balanced again when the holders of a semaphore change as they do.
LEMMA HoldersStay ==
    ASSUME PermitsBalance, permits' = permits, \A l \in Limit : Holders(l)' = Holders(l)
    PROVE  PermitsBalance'
BY DEF PermitsBalance

LEMMA PermitTaken ==
    ASSUME TypeOK, PermitsBalance, NEW r \in Request, NEW l \in Limit, Acquire(r, l),
           r \notin Holders(l), Holders(l)' = Holders(l) \cup {r},
           \A m \in Limit \ {l} : Holders(m)' = Holders(m)
    PROVE  /\ permits' \in [Limit -> Nat] /\ \A m \in Limit : permits'[m] <= Concurrency[m]
           /\ PermitsBalance'
PROOF
  <1>1. /\ permits \in [Limit -> Nat] /\ permits[l] > 0
        /\ permits' = [permits EXCEPT ![l] = @ - 1]
    BY DEF TypeOK, Acquire
  <1>2. permits' \in [Limit -> Nat] /\ permits'[l] = permits[l] - 1
    BY <1>1
  <1>3. \A m \in Limit \ {l} : permits'[m] = permits[m]
    BY <1>1
  <1>4. \A m \in Limit : permits'[m] <= Concurrency[m]
    BY <1>1, <1>2, <1>3, LimitAssumption DEF TypeOK
  <1>5. Cardinality(Holders(l)') = Cardinality(Holders(l)) + 1
    BY HoldersFinite, FS_AddElement
  <1>6. permits'[l] + Cardinality(Holders(l)') = Concurrency[l]
    BY <1>1, <1>2, <1>5, HoldersFinite DEF PermitsBalance
  <1>7. \A m \in Limit : permits'[m] + Cardinality(Holders(m)') = Concurrency[m]
    BY <1>3, <1>6 DEF PermitsBalance
  <1> QED
    BY <1>2, <1>4, <1>7 DEF PermitsBalance

LEMMA PermitsDropped ==
    ASSUME TypeOK, PermitsBalance, NEW r \in Request, Release(r),
           NEW L \in SUBSET Limit, L = {AnySite, SiteOf[r]},
           \A l \in L : r \in Holders(l) /\ Holders(l)' = Holders(l) \ {r},
           \A l \in Limit \ L : Holders(l)' = Holders(l)
    PROVE  /\ permits' \in [Limit -> Nat] /\ \A m \in Limit : permits'[m] <= Concurrency[m]
           /\ PermitsBalance'
PROOF
  <1>1. permits \in [Limit -> Nat] /\ Concurrency \in [Limit -> Nat]
    BY LimitAssumption DEF TypeOK
  <1>2. permits' = [l \in Limit |-> permits[l] + (IF l \in L THEN 1 ELSE 0)]
    BY DEF Release
  <1>3. permits' \in [Limit -> Nat]
    BY <1>1, <1>2
  <1>4. ASSUME NEW l \in Limit
        PROVE  permits'[l] + Cardinality(Holders(l)') = Concurrency[l] /\ permits'[l] <= Concurrency[l]
    <2>1. /\ permits[l] + Cardinality(Holders(l)) = Concurrency[l]
          /\ permits[l] \in Nat /\ Cardinality(Holders(l)) \in Nat /\ Concurrency[l] \in Nat
      BY <1>1, HoldersFinite DEF PermitsBalance
    <2>2. CASE l \in L
      <3>1. Cardinality(Holders(l)') = Cardinality(Holders(l)) - 1
        <4>1. r \in Holders(l) /\ Holders(l)' = Holders(l) \ {r}
          BY <2>2
        <4>2. Cardinality(Holders(l) \ {r}) =
                IF r \in Holders(l) THEN Cardinality(Holders(l)) - 1 ELSE Cardinality(Holders(l))
          BY HoldersFinite, FS_RemoveElement
        <4> QED
          BY <4>1, <4>2
      <3>2. permits'[l] = permits[l] + 1
        BY <1>2, <2>2
      <3>3. Cardinality(Holders(l)') \in Nat
        <4>1. IsFiniteSet(Holders(l) \ {r})
          BY HoldersFinite, FS_RemoveElement
        <4> QED
          BY <2>2, <4>1, FS_CardinalityType
      <3> QED
        BY <2>1, <3>1, <3>2, <3>3
    <2>3. CASE l \notin L
      BY <1>2, <2>1, <2>3
    <2> QED
      BY <2>2, <2>3
  <1> QED
    BY <1>3, <1>4 DEF PermitsBalance
-----------------------------------------------------------------------------
\* Nothing but the request of a step changes how it stands.
LEMMA StartKeeps ==
    ASSUME IInv, NEW r \in Request, Start(r) \/ Retry(r)
    PROVE  IInv'
PROOF
  <1>1. /\ pc[r] \in {"idle", "sleep"} /\ LineUp(r, AnySite) /\ Goto(r, "global")
        /\ UNCHANGED <<permits, tokens, attempts, interval, outcome, spent>>
    BY DEF Start, Retry
  <1>2. /\ pc' \in [Request -> PC] /\ pc'[r] = "global"
        /\ \A q \in Request \ {r} : pc'[q] = pc[q]
    BY <1>1, Moved DEF IInv, PC
  <1>3. queue' \in [Limit -> Seq(Request)]
    BY <1>1, LinedUp, Limits DEF IInv
  <1>4. backoff' \in [Request -> Interval]
    <2>1. backoff \in [Request -> Interval] /\ Shorter(backoff[r] * Factor, Cap) \in Interval
      <3>1. backoff \in [Request -> Interval] /\ backoff[r] \in Nat
        BY RetryAssumption DEF IInv, TypeOK, Interval
      <3> QED
        BY <3>1, BackoffIsCapped
    <2> HIDE DEF Shorter
    <2>2. CASE backoff' = backoff
      BY <2>1, <2>2
    <2>3. CASE backoff' = [backoff EXCEPT ![r] = Shorter(@ * Factor, Cap)]
      BY <2>1, <2>3
    <2> QED
      BY <2>2, <2>3 DEF Start, Retry
  <1>5. TypeOK'
    BY <1>1, <1>2, <1>3, <1>4 DEF IInv, TypeOK
  <1>6. SiteSteps' /\ AttemptLeft' /\ EveryAttemptPaid' /\ GivesUpOnlyExhausted'
    BY <1>1, <1>2 DEF IInv, SiteSteps, AttemptLeft, EveryAttemptPaid, GivesUpOnlyExhausted
  <1>7. \A l \in Limit : Holders(l)' = Holders(l)
    BY <1>1, <1>2 DEF Holders
  <1>8. PermitsBalance'
    BY <1>1, <1>7, HoldersStay DEF IInv
  <1> QED
    BY <1>5, <1>6, <1>8 DEF IInv

LEMMA AcquireGlobalKeeps ==
    ASSUME IInv, NEW r \in Request, AcquireGlobal(r)
    PROVE  IInv'
PROOF
  <1> DEFINE label == IF SiteOf[r] \in Site THEN "site" ELSE "global_token"
  <1>1. /\ pc[r] = "global" /\ Acquire(r, AnySite) /\ Goto(r, label)
        /\ UNCHANGED <<tokens, attempts, backoff, interval, outcome, spent>>
    BY SiteAssumption DEF AcquireGlobal
  <1>2. /\ pc' \in [Request -> PC] /\ pc'[r] = label
        /\ \A q \in Request \ {r} : pc'[q] = pc[q]
    BY <1>1, Moved DEF IInv, PC
  <1>3. queue' \in [Limit -> Seq(Request)]
    <2>1. /\ queue \in [Limit -> Seq(Request)] /\ queue[AnySite] # <<>>
      BY <1>1 DEF IInv, TypeOK, Acquire
    <2>2. Tail(queue[AnySite]) \in Seq(Request)
      BY <2>1, Limits, HeadTailProperties
    <2>3. Append(queue[SiteOf[r]], r) \in Seq(Request)
      BY <2>1, Limits, AppendProperties
    <2>4. CASE queue' = [queue EXCEPT ![AnySite] = Tail(@), ![SiteOf[r]] = Append(@, r)]
                  /\ SiteOf[r] \in Site
      <3>1. SiteOf[r] # AnySite
        BY <2>4, SiteAssumption
      <3> QED
        BY <2>1, <2>2, <2>3, <2>4, <3>1, Limits
    <2>5. CASE queue' = [queue EXCEPT ![AnySite] = Tail(@)]
      BY <2>1, <2>2, <2>5
    <2> QED
      BY <2>4, <2>5 DEF AcquireGlobal
  <1>4. /\ r \notin Holders(AnySite) /\ Holders(AnySite)' = Holders(AnySite) \cup {r}
        /\ \A m \in Limit \ {AnySite} : Holders(m)' = Holders(m)
    <2>1. r \notin Holders(AnySite) /\ Holders(AnySite)' = Holders(AnySite) \cup {r}
      BY <1>1, <1>2 DEF Holders
    <2>2. ASSUME NEW m \in Limit \ {AnySite} PROVE Holders(m)' = Holders(m)
      <3>1. m \in Site
        BY DEF Limit
      <3> QED
        BY <1>1, <1>2, <3>1 DEF Holders
    <2> QED
      BY <2>1, <2>2
  <1>5. /\ permits' \in [Limit -> Nat] /\ \A m \in Limit : permits'[m] <= Concurrency[m]
        /\ PermitsBalance'
    BY <1>1, <1>4, Limits, PermitTaken DEF IInv
  <1>6. TypeOK'
    BY <1>1, <1>2, <1>3, <1>5 DEF IInv, TypeOK
  <1>7. SiteSteps' /\ AttemptLeft' /\ GivesUpOnlyExhausted'
    BY <1>1, <1>2 DEF IInv, SiteSteps, AttemptLeft, GivesUpOnlyExhausted
  <1>8. EveryAttemptPaid'
    BY <1>1, <1>2 DEF IInv, EveryAttemptPaid
  <1> QED
    BY <1>5, <1>6, <1>7, <1>8 DEF IInv

LEMMA AcquireSiteKeeps ==
    ASSUME IInv, NEW r \in Request, AcquireSite(r)
    PROVE  IInv'
PROOF
  <1> DEFINE s == SiteOf[r]
  <1>1. /\ pc[r] = "site" /\ Acquire(r, s) /\ Goto(r, "site_token")
        /\ queue' = [queue EXCEPT ![s] = Tail(@)]
        /\ UNCHANGED <<tokens, attempts, backoff, interval, outcome, spent>>
    BY DEF AcquireSite
  <1>2. /\ pc' \in [Request -> PC] /\ pc'[r] = "site_token"
        /\ \A q \in Request \ {r} : pc'[q] = pc[q]
    BY <1>1, Moved DEF IInv, PC
  <1>3. s \in Site /\ s \in Limit /\ s # AnySite
    BY <1>1, SiteAssumption DEF IInv, SiteSteps, Limit
  <1>4. queue' \in [Limit -> Seq(Request)]
    <2>1. /\ queue \in [Limit -> Seq(Request)] /\ queue[s] # <<>>
      BY <1>1 DEF IInv, TypeOK, Acquire
    <2>2. Tail(queue[s]) \in Seq(Request)
      BY <1>3, <2>1, HeadTailProperties
    <2> QED
      BY <1>1, <2>1, <2>2
  <1>5. /\ r \notin Holders(s) /\ Holders(s)' = Holders(s) \cup {r}
        /\ \A m \in Limit \ {s} : Holders(m)' = Holders(m)
    BY <1>1, <1>2, <1>3 DEF Holders
  <1>6. /\ permits' \in [Limit -> Nat] /\ \A m \in Limit : permits'[m] <= Concurrency[m]
        /\ PermitsBalance'
    BY <1>1, <1>3, <1>5, PermitTaken DEF IInv
  <1>7. TypeOK'
    BY <1>1, <1>2, <1>4, <1>6 DEF IInv, TypeOK
  <1>8. SiteSteps' /\ AttemptLeft' /\ GivesUpOnlyExhausted'
    BY <1>1, <1>2, <1>3 DEF IInv, SiteSteps, AttemptLeft, GivesUpOnlyExhausted
  <1>9. EveryAttemptPaid'
    BY <1>1, <1>2 DEF IInv, EveryAttemptPaid
  <1> QED
    BY <1>6, <1>7, <1>8, <1>9 DEF IInv

LEMMA TakeSiteKeeps ==
    ASSUME IInv, NEW r \in Request, TakeSite(r)
    PROVE  IInv'
PROOF
  <1> DEFINE s == SiteOf[r]
  <1>1. /\ pc[r] = "site_token" /\ Take(r, s) /\ Goto(r, "global_token")
        /\ UNCHANGED <<permits, queue, attempts, backoff, interval, outcome>>
    BY DEF TakeSite
  <1>2. /\ pc' \in [Request -> PC] /\ pc'[r] = "global_token"
        /\ \A q \in Request \ {r} : pc'[q] = pc[q]
    BY <1>1, Moved DEF IInv, PC
  <1>3. s \in Site /\ s \in Limit /\ s # AnySite /\ AnySite \in Limit
    BY <1>1, SiteAssumption DEF IInv, SiteSteps, Limit
  <1>4. /\ spent' \in [Request -> [Limit -> Nat]]
        /\ spent'[r][s] = spent[r][s] + 1 /\ spent'[r][AnySite] = spent[r][AnySite]
        /\ \A q \in Request \ {r} : spent'[q] = spent[q]
        /\ tokens' \in [Limit -> Nat] /\ \A m \in Limit : tokens'[m] <= Supply[m]
    BY <1>1, <1>3, Spends DEF IInv
  <1>5. TypeOK'
    BY <1>1, <1>2, <1>4 DEF IInv, TypeOK
  <1>6. SiteSteps' /\ AttemptLeft' /\ GivesUpOnlyExhausted'
    BY <1>1, <1>2 DEF IInv, SiteSteps, AttemptLeft, GivesUpOnlyExhausted
  <1>7. EveryAttemptPaid'
    <2>1. /\ attempts[r] \in Nat
          /\ spent[r][AnySite] = attempts[r] + 0 /\ spent[r][s] = attempts[r] + 0
      <3>1. attempts[r] \in Nat
        BY RetryAssumption DEF IInv, TypeOK
      <3>2. spent[r][AnySite] = attempts[r] + 0 /\ spent[r][s] = attempts[r] + 0
        BY <1>1, <1>3 DEF IInv, EveryAttemptPaid
      <3> QED
        BY <3>1, <3>2
    <2>2. spent'[r][AnySite] = attempts'[r] + 0 /\ spent'[r][s] = attempts'[r] + 1
      BY <1>1, <1>4, <2>1
    <2> QED
      BY <1>1, <1>2, <1>4, <2>2 DEF IInv, EveryAttemptPaid
  <1>8. \A l \in Limit : Holders(l)' = Holders(l)
    BY <1>1, <1>2 DEF Holders
  <1>9. PermitsBalance'
    BY <1>1, <1>8, HoldersStay DEF IInv
  <1> QED
    BY <1>5, <1>6, <1>7, <1>9 DEF IInv

LEMMA TakeGlobalKeeps ==
    ASSUME IInv, NEW r \in Request, TakeGlobal(r)
    PROVE  IInv'
PROOF
  <1>1. /\ pc[r] = "global_token" /\ Take(r, AnySite) /\ Goto(r, "send")
        /\ UNCHANGED <<permits, queue, attempts, backoff, interval, outcome>>
    BY DEF TakeGlobal
  <1>2. /\ pc' \in [Request -> PC] /\ pc'[r] = "send"
        /\ \A q \in Request \ {r} : pc'[q] = pc[q]
    BY <1>1, Moved DEF IInv, PC
  <1>3. /\ spent' \in [Request -> [Limit -> Nat]]
        /\ spent'[r][AnySite] = spent[r][AnySite] + 1
        /\ \A m \in Limit \ {AnySite} : spent'[r][m] = spent[r][m]
        /\ \A q \in Request \ {r} : spent'[q] = spent[q]
        /\ tokens' \in [Limit -> Nat] /\ \A m \in Limit : tokens'[m] <= Supply[m]
    BY <1>1, Limits, Spends DEF IInv
  <1>4. TypeOK'
    BY <1>1, <1>2, <1>3 DEF IInv, TypeOK
  <1>5. SiteSteps' /\ AttemptLeft' /\ GivesUpOnlyExhausted'
    BY <1>1, <1>2 DEF IInv, SiteSteps, AttemptLeft, GivesUpOnlyExhausted
  <1>6. EveryAttemptPaid'
    <2>1. SiteOf[r] \in Site => SiteOf[r] \in Limit \ {AnySite}
      BY SiteAssumption DEF Limit
    <2>2. /\ attempts[r] \in Nat /\ spent[r][AnySite] = attempts[r] + 0
          /\ SiteOf[r] \in Site => spent[r][SiteOf[r]] = attempts[r] + 1
      BY <1>1, RetryAssumption DEF IInv, TypeOK, EveryAttemptPaid
    <2>3. /\ spent'[r][AnySite] = attempts'[r] + 1
          /\ SiteOf[r] \in Site => spent'[r][SiteOf[r]] = attempts'[r] + 1
      BY <1>1, <1>3, <2>1, <2>2
    <2> QED
      BY <1>1, <1>2, <1>3, <2>3 DEF IInv, EveryAttemptPaid
  <1>7. \A l \in Limit : Holders(l)' = Holders(l)
    BY <1>1, <1>2 DEF Holders
  <1>8. PermitsBalance'
    BY <1>1, <1>7, HoldersStay DEF IInv
  <1> QED
    BY <1>4, <1>5, <1>6, <1>8 DEF IInv

LEMMA SendKeeps ==
    ASSUME IInv, NEW r \in Request, Send(r)
    PROVE  IInv'
PROOF
  <1>1. /\ pc[r] = "send" /\ Release(r) /\ attempts' = [attempts EXCEPT ![r] = @ + 1]
        /\ UNCHANGED <<queue, tokens, backoff, spent>>
    BY DEF Send
  <1>2. attempts[r] \in 0..Count /\ Count \in Nat
    BY <1>1, RetryAssumption DEF IInv, TypeOK, AttemptLeft
  <1>3. PICK result \in {"ok", "retry", "error"} :
            /\ outcome' = [outcome EXCEPT ![r] = result]
            /\ \/ /\ result = "ok" \/ attempts[r] = Count
                  /\ Goto(r, "done")
                  /\ UNCHANGED interval
               \/ /\ result # "ok" /\ attempts[r] < Count
                  /\ Goto(r, "sleep")
                  /\ interval' = [interval EXCEPT ![r] = backoff[r]]
    BY DEF Send
  <1>4. /\ pc' \in [Request -> PC] /\ pc'[r] \in {"done", "sleep"}
        /\ \A q \in Request \ {r} : pc'[q] = pc[q]
        /\ pc'[r] = "done" => result = "ok" \/ attempts[r] = Count
        /\ pc'[r] = "sleep" => result # "ok" /\ attempts[r] < Count
    <2>1. CASE Goto(r, "done") /\ (result = "ok" \/ attempts[r] = Count)
      BY <2>1, Moved DEF IInv, PC
    <2>2. CASE Goto(r, "sleep") /\ result # "ok" /\ attempts[r] < Count
      BY <2>2, Moved DEF IInv, PC
    <2> QED
      BY <1>3, <2>1, <2>2
  <1>5. /\ attempts' \in [Request -> 0..(Count + 1)] /\ attempts'[r] = attempts[r] + 1
        /\ \A q \in Request \ {r} : attempts'[q] = attempts[q]
    BY <1>1, <1>2 DEF IInv, TypeOK
  <1>6. /\ outcome' \in [Request -> Outcome] /\ outcome'[r] = result
        /\ \A q \in Request \ {r} : outcome'[q] = outcome[q]
    BY <1>3 DEF IInv, TypeOK, Outcome
  <1>7. interval' \in [Request -> Interval \cup {0}]
    BY <1>3 DEF IInv, TypeOK
  <1>8. /\ permits' \in [Limit -> Nat] /\ \A m \in Limit : permits'[m] <= Concurrency[m]
        /\ PermitsBalance'
    <2> DEFINE L == {AnySite, SiteOf[r]}
    <2>1. L \in SUBSET Limit
      BY Limits
    <2>2. \A l \in L : r \in Holders(l) /\ Holders(l)' = Holders(l) \ {r}
      BY <1>1, <1>4 DEF Holders
    <2>3. \A l \in Limit \ L : Holders(l)' = Holders(l)
      BY <1>1, <1>4 DEF Holders
    <2> QED
      BY <1>1, <2>1, <2>2, <2>3, PermitsDropped DEF IInv
  <1>9. TypeOK'
    BY <1>1, <1>4, <1>5, <1>6, <1>7, <1>8 DEF IInv, TypeOK
  <1>10. SiteSteps'
    BY <1>4 DEF IInv, SiteSteps
  <1>11. AttemptLeft' /\ GivesUpOnlyExhausted'
    <2>1. AttemptLeft'
      BY <1>2, <1>4, <1>5 DEF IInv, AttemptLeft
    <2>2. GivesUpOnlyExhausted'
      BY <1>2, <1>4, <1>5, <1>6 DEF IInv, GivesUpOnlyExhausted
    <2> QED
      BY <2>1, <2>2
  <1>12. EveryAttemptPaid'
    BY <1>1, <1>4, <1>5 DEF IInv, EveryAttemptPaid
  <1> QED
    BY <1>8, <1>9, <1>10, <1>11, <1>12 DEF IInv

LEMMA OtherKeeps ==
    ASSUME IInv, (\E l \in Limit : Refill(l)) \/ UNCHANGED vars
    PROVE  IInv'
PROOF
  <1>1. UNCHANGED <<pc, permits, queue, attempts, backoff, interval, outcome, spent>>
    BY DEF Refill, vars
  <1>2. tokens' \in [Limit -> Nat] /\ \A l \in Limit : tokens'[l] <= Supply[l]
    <2>1. /\ tokens \in [Limit -> Nat] /\ \A l \in Limit : tokens[l] <= Supply[l]
          /\ Supply \in [Limit -> Nat]
      BY LimitAssumption DEF IInv, TypeOK
    <2>2. CASE tokens' = tokens
      BY <2>1, <2>2
    <2>3. CASE \E l \in Limit : tokens' = [tokens EXCEPT ![l] = Supply[l]]
      BY <2>1, <2>3
    <2> QED
      BY <2>2, <2>3 DEF Refill, vars
  <1>3. TypeOK'
    BY <1>1, <1>2 DEF IInv, TypeOK
  <1>4. SiteSteps' /\ AttemptLeft' /\ EveryAttemptPaid' /\ GivesUpOnlyExhausted'
    BY <1>1 DEF IInv, SiteSteps, AttemptLeft, EveryAttemptPaid, GivesUpOnlyExhausted
  <1>5. PermitsBalance'
    BY <1>1, HoldersStay DEF IInv, Holders
  <1> QED
    BY <1>3, <1>4, <1>5 DEF IInv

LEMMA Invariance == Spec => []IInv
PROOF
  <1>1. IInv /\ [Next]_vars => IInv'
    BY StartKeeps, AcquireGlobalKeeps, AcquireSiteKeeps, TakeSiteKeeps, TakeGlobalKeeps,
       SendKeeps, OtherKeeps DEF Next, Step
  <1> QED
    BY <1>1, InitIInv, PTL DEF Spec

-----------------------------------------------------------------------------
\* The variables of the throttle have their types; no semaphore has more permits, and no
\* limiter more tokens, than it was given.
THEOREM TypeCorrect == Spec => []TypeOK
PROOF
  <1>1. IInv => TypeOK
    BY DEF IInv
  <1> QED
    BY <1>1, Invariance, PTL

\* Over retries, errors and timeouts no permit leaks and none is forged, and a request
\* that sleeps between attempts holds none.
THEOREM PermitsAreKept == Spec => []PermitsBalance
PROOF
  <1>1. IInv => PermitsBalance
    BY DEF IInv
  <1> QED
    BY <1>1, Invariance, PTL

\* Each attempt takes one token of each limiter that applies, retries included.
THEOREM AttemptsArePaid == Spec => []EveryAttemptPaid
PROOF
  <1>1. IInv => EveryAttemptPaid
    BY DEF IInv
  <1> QED
    BY <1>1, Invariance, PTL

\* A request is over with a good response or with all its retries spent, and not before.
THEOREM RetriesAreExhausted == Spec => []GivesUpOnlyExhausted
PROOF
  <1>1. IInv => GivesUpOnlyExhausted
    BY DEF IInv
  <1> QED
    BY <1>1, Invariance, PTL

-----------------------------------------------------------------------------
(***************************************************************************)
(* Progress.  Liveness under fairness is beyond the prover; what is proved *)
(* is what it rests on: a throttle with requests left can always go on,    *)
(* and a step takes a request further and none back.                       *)
(***************************************************************************)

\* The requests that wait for a permit of a semaphore are in its line, each once, and
\* nobody else is.
Waiters(l) ==
    {r \in Request : IF l = AnySite THEN pc[r] = "global" ELSE SiteOf[r] = l /\ pc[r] = "site"}
LinesUp(line, waiting) ==
    /\ \A i \in 1 .. Len(line) : line[i] \in waiting
    /\ \A r \in waiting : \E i \in 1 .. Len(line) : line[i] = r
    /\ \A i, j \in 1 .. Len(line) : line[i] = line[j] => i = j
Lines == \A l \in Limit : LinesUp(queue[l], Waiters(l))

LEMMA LineGrows ==
    ASSUME NEW line \in Seq(Request), NEW waiting \in SUBSET Request,
           NEW r \in Request, r \notin waiting, LinesUp(line, waiting)
    PROVE  LinesUp(Append(line, r), waiting \cup {r})
PROOF
  <1> DEFINE longer == Append(line, r)
  <1>1. /\ longer \in Seq(Request) /\ Len(longer) = Len(line) + 1 /\ Len(line) \in Nat
        /\ longer[Len(line) + 1] = r /\ \A i \in 1 .. Len(line) : longer[i] = line[i]
    BY AppendProperties, LenProperties
  <1>2. \A i \in 1 .. Len(longer) : i \in 1 .. Len(line) \/ i = Len(line) + 1
    BY <1>1
  <1>3. \A i \in 1 .. Len(line) : i \in 1 .. Len(longer)
    BY <1>1
  <1>4. Len(line) + 1 \in 1 .. Len(longer)
    BY <1>1
  <1> HIDE DEF longer
  <1>5. \A i \in 1 .. Len(longer) : longer[i] \in waiting \cup {r}
    BY <1>1, <1>2 DEF LinesUp
  <1>6. \A q \in waiting \cup {r} : \E i \in 1 .. Len(longer) : longer[i] = q
    BY <1>1, <1>3, <1>4 DEF LinesUp
  <1>7. \A i, j \in 1 .. Len(longer) : longer[i] = longer[j] => i = j
    BY <1>1, <1>2 DEF LinesUp
  <1> QED
    BY <1>5, <1>6, <1>7 DEF LinesUp, longer

LEMMA LineShrinks ==
    ASSUME NEW line \in Seq(Request), NEW waiting \in SUBSET Request,
           line # <<>>, LinesUp(line, waiting)
    PROVE  LinesUp(Tail(line), waiting \ {Head(line)}) /\ Head(line) \in waiting
PROOF
  <1> DEFINE rest == Tail(line)
  <1>1. /\ rest \in Seq(Request) /\ Len(rest) = Len(line) - 1 /\ Len(line) \in Nat /\ Len(line) >= 1
        /\ Head(line) = line[1] /\ \A i \in 1 .. Len(rest) : rest[i] = line[i + 1]
    BY HeadTailProperties, LenProperties, EmptySeq
  <1> HIDE DEF rest
  <1>2. \A i \in 1 .. Len(rest) : i + 1 \in 1 .. Len(line) /\ i + 1 # 1 /\ i \in Nat
    BY <1>1
  <1>3. 1 \in 1 .. Len(line)
    BY <1>1
  <1>4. \A i \in 1 .. Len(line) : i # 1 => i - 1 \in 1 .. Len(rest) /\ (i - 1) + 1 = i
    BY <1>1
  <1>5. \A i \in 1 .. Len(rest) : rest[i] \in waiting \ {Head(line)}
    BY <1>1, <1>2, <1>3 DEF LinesUp
  <1>6. ASSUME NEW q \in waiting \ {Head(line)} PROVE \E i \in 1 .. Len(rest) : rest[i] = q
    <2>1. PICK i \in 1 .. Len(line) : line[i] = q
      BY DEF LinesUp
    <2>2. i - 1 \in 1 .. Len(rest) /\ (i - 1) + 1 = i
      BY <1>1, <1>4, <2>1
    <2>3. rest[i - 1] = line[(i - 1) + 1]
      BY <1>1, <2>2
    <2> QED
      BY <2>1, <2>2, <2>3
  <1>7. \A i, j \in 1 .. Len(rest) : rest[i] = rest[j] => i = j
    <2> SUFFICES ASSUME NEW i \in 1 .. Len(rest), NEW j \in 1 .. Len(rest), rest[i] = rest[j]
                 PROVE  i = j
      OBVIOUS
    <2>1. i + 1 = j + 1
      BY <1>1, <1>2 DEF LinesUp
    <2> QED
      BY <1>2, <2>1
  <1> QED
    BY <1>1, <1>3, <1>5, <1>6, <1>7 DEF LinesUp, rest

LEMMA InitLines == Init => Lines
PROOF
  <1> SUFFICES ASSUME Init, NEW l \in Limit PROVE LinesUp(queue[l], Waiters(l))
    BY DEF Lines
  <1>1. queue[l] = <<>> /\ Len(<<>>) = 0 /\ \A r \in Request : pc[r] = "idle"
    BY DEF Init
  <1>2. Waiters(l) = {}
    BY <1>1 DEF Waiters
  <1> QED
    BY <1>1, <1>2 DEF LinesUp

LEMMA LinesStay ==
    ASSUME Lines, UNCHANGED queue, \A l \in Limit : Waiters(l)' = Waiters(l)
    PROVE  Lines'
BY DEF Lines

LEMMA StartKeepsLines ==
    ASSUME IInv, Lines, NEW r \in Request, Start(r) \/ Retry(r)
    PROVE  Lines'
PROOF
  <1>1. pc[r] \in {"idle", "sleep"} /\ LineUp(r, AnySite) /\ Goto(r, "global")
    BY DEF Start, Retry
  <1>2. pc'[r] = "global" /\ \A q \in Request \ {r} : pc'[q] = pc[q]
    BY <1>1, Moved DEF IInv, PC
  <1>3. /\ queue'[AnySite] = Append(queue[AnySite], r) /\ queue[AnySite] \in Seq(Request)
        /\ \A l \in Limit \ {AnySite} : queue'[l] = queue[l]
    BY <1>1, Limits DEF IInv, TypeOK, LineUp
  <1>4. Waiters(AnySite)' = Waiters(AnySite) \cup {r} /\ r \notin Waiters(AnySite)
    BY <1>1, <1>2 DEF Waiters
  <1>5. \A l \in Limit \ {AnySite} : Waiters(l)' = Waiters(l)
    BY <1>1, <1>2 DEF Waiters
  <1>6. LinesUp(queue[AnySite], Waiters(AnySite)) /\ Waiters(AnySite) \in SUBSET Request
    BY Limits DEF Lines, Waiters
  <1>7. LinesUp(Append(queue[AnySite], r), Waiters(AnySite) \cup {r})
    BY <1>3, <1>4, <1>6, LineGrows
  <1>8. LinesUp(queue'[AnySite], Waiters(AnySite)')
    BY <1>3, <1>4, <1>7
  <1>9. \A l \in Limit \ {AnySite} : LinesUp(queue'[l], Waiters(l)')
    BY <1>3, <1>5 DEF Lines
  <1> QED
    BY <1>8, <1>9 DEF Lines

\* The first in the line of a semaphore of a site, or of the client, leaves it.
LEMMA AcquireSiteKeepsLines ==
    ASSUME IInv, Lines, NEW r \in Request, AcquireSite(r)
    PROVE  Lines'
PROOF
  <1> DEFINE s == SiteOf[r]
  <1>1. /\ pc[r] = "site" /\ Acquire(r, s) /\ Goto(r, "site_token")
        /\ queue' = [queue EXCEPT ![s] = Tail(@)]
    BY DEF AcquireSite
  <1>2. pc'[r] = "site_token" /\ \A q \in Request \ {r} : pc'[q] = pc[q]
    BY <1>1, Moved DEF IInv, PC
  <1>3. s \in Limit /\ s # AnySite
    BY <1>1, SiteAssumption DEF IInv, SiteSteps, Limit
  <1>4. /\ queue'[s] = Tail(queue[s]) /\ queue[s] \in Seq(Request)
        /\ queue[s] # <<>> /\ Head(queue[s]) = r
        /\ \A l \in Limit \ {s} : queue'[l] = queue[l]
    BY <1>1, <1>3 DEF IInv, TypeOK, Acquire
  <1>5. Waiters(s)' = Waiters(s) \ {r}
    BY <1>1, <1>2, <1>3 DEF Waiters
  <1>6. \A l \in Limit \ {s} : Waiters(l)' = Waiters(l)
    BY <1>1, <1>2, <1>3 DEF Waiters
  <1>7. LinesUp(queue[s], Waiters(s)) /\ Waiters(s) \in SUBSET Request
    BY <1>3 DEF Lines, Waiters
  <1>8. LinesUp(Tail(queue[s]), Waiters(s) \ {r})
    BY <1>4, <1>7, LineShrinks
  <1>9. LinesUp(queue'[s], Waiters(s)')
    BY <1>4, <1>5, <1>8
  <1>10. \A l \in Limit \ {s} : LinesUp(queue'[l], Waiters(l)')
    BY <1>4, <1>6 DEF Lines
  <1> QED
    BY <1>9, <1>10 DEF Lines

LEMMA AcquireGlobalKeepsLines ==
    ASSUME IInv, Lines, NEW r \in Request, AcquireGlobal(r)
    PROVE  Lines'
PROOF
  <1> DEFINE s == SiteOf[r]
  <1>1. /\ pc[r] = "global" /\ Acquire(r, AnySite)
    BY DEF AcquireGlobal
  <1>2. /\ queue \in [Limit -> Seq(Request)] /\ queue[AnySite] # <<>> /\ Head(queue[AnySite]) = r
        /\ queue[AnySite] \in Seq(Request)
    BY <1>1, Limits DEF IInv, TypeOK, Acquire
  <1>3. LinesUp(queue[AnySite], Waiters(AnySite)) /\ Waiters(AnySite) \in SUBSET Request
    BY Limits DEF Lines, Waiters
  <1>4. LinesUp(Tail(queue[AnySite]), Waiters(AnySite) \ {r})
    BY <1>2, <1>3, LineShrinks
  <1>5. CASE /\ s \in Site /\ Goto(r, "site")
             /\ queue' = [queue EXCEPT ![AnySite] = Tail(@), ![s] = Append(@, r)]
    <2>1. s \in Limit /\ s # AnySite
      BY <1>5, SiteAssumption DEF Limit
    <2>2. pc'[r] = "site" /\ \A q \in Request \ {r} : pc'[q] = pc[q]
      BY <1>5, Moved DEF IInv, PC
    <2>3. /\ queue'[AnySite] = Tail(queue[AnySite]) /\ queue'[s] = Append(queue[s], r)
          /\ \A l \in Limit \ {AnySite, s} : queue'[l] = queue[l]
      BY <1>2, <1>5, <2>1, Limits
    <2>4. /\ Waiters(AnySite)' = Waiters(AnySite) \ {r}
          /\ Waiters(s)' = Waiters(s) \cup {r} /\ r \notin Waiters(s)
      BY <1>1, <2>1, <2>2 DEF Waiters
    <2>5. \A l \in Limit \ {AnySite, s} : Waiters(l)' = Waiters(l)
      BY <1>1, <2>2 DEF Waiters
    <2>6. /\ LinesUp(queue[s], Waiters(s)) /\ Waiters(s) \in SUBSET Request
          /\ queue[s] \in Seq(Request)
      BY <1>2, <2>1 DEF Lines, Waiters
    <2>7. LinesUp(Append(queue[s], r), Waiters(s) \cup {r})
      BY <2>4, <2>6, LineGrows
    <2>8. LinesUp(queue'[AnySite], Waiters(AnySite)') /\ LinesUp(queue'[s], Waiters(s)')
      BY <1>4, <2>3, <2>4, <2>7
    <2>9. \A l \in Limit \ {AnySite, s} : LinesUp(queue'[l], Waiters(l)')
      BY <2>3, <2>5 DEF Lines
    <2> QED
      BY <2>8, <2>9 DEF Lines
  <1>6. CASE /\ s = AnySite /\ Goto(r, "global_token")
             /\ queue' = [queue EXCEPT ![AnySite] = Tail(@)]
    <2>1. pc'[r] = "global_token" /\ \A q \in Request \ {r} : pc'[q] = pc[q]
      BY <1>6, Moved DEF IInv, PC
    <2>2. /\ queue'[AnySite] = Tail(queue[AnySite])
          /\ \A l \in Limit \ {AnySite} : queue'[l] = queue[l]
      BY <1>2, <1>6, Limits
    <2>3. Waiters(AnySite)' = Waiters(AnySite) \ {r}
      BY <1>1, <2>1 DEF Waiters
    <2>4. \A l \in Limit \ {AnySite} : Waiters(l)' = Waiters(l)
      BY <1>1, <1>6, <2>1 DEF Waiters
    <2>5. LinesUp(queue'[AnySite], Waiters(AnySite)')
      BY <1>4, <2>2, <2>3
    <2>6. \A l \in Limit \ {AnySite} : LinesUp(queue'[l], Waiters(l)')
      BY <2>2, <2>4 DEF Lines
    <2> QED
      BY <2>5, <2>6 DEF Lines
  <1> QED
    BY <1>5, <1>6 DEF AcquireGlobal

LEMMA OtherKeepsLines ==
    ASSUME IInv, Lines,
           \/ \E r \in Request : TakeSite(r) \/ TakeGlobal(r) \/ Send(r)
           \/ (\E l \in Limit : Refill(l)) \/ UNCHANGED vars
    PROVE  Lines'
PROOF
  <1>1. ASSUME NEW r \in Request, TakeSite(r) \/ TakeGlobal(r) \/ Send(r) PROVE Lines'
    <2>1. /\ UNCHANGED queue /\ pc[r] \in {"site_token", "global_token", "send"}
          /\ \E label \in {"global_token", "send", "done", "sleep"} : Goto(r, label)
      BY <1>1 DEF TakeSite, TakeGlobal, Send
    <2>2. PICK label \in {"global_token", "send", "done", "sleep"} : Goto(r, label)
      BY <2>1
    <2>3. pc'[r] = label /\ \A q \in Request \ {r} : pc'[q] = pc[q]
      BY <2>2, Moved DEF IInv, PC
    <2>4. \A l \in Limit : Waiters(l)' = Waiters(l)
      BY <2>1, <2>3 DEF Waiters
    <2> QED
      BY <2>1, <2>4, LinesStay
  <1>2. ASSUME (\E l \in Limit : Refill(l)) \/ UNCHANGED vars PROVE Lines'
    <2>1. UNCHANGED <<pc, queue>>
      BY <1>2 DEF Refill, vars
    <2>2. \A l \in Limit : Waiters(l)' = Waiters(l)
      BY <2>1 DEF Waiters
    <2> QED
      BY <2>1, <2>2, LinesStay
  <1> QED
    BY <1>1, <1>2

LEMMA LinesInvariance == Spec => []Lines
PROOF
  <1>1. IInv /\ Lines /\ [Next]_vars => Lines'
    BY StartKeepsLines, AcquireGlobalKeepsLines, AcquireSiteKeepsLines, OtherKeepsLines
       DEF Next, Step
  <1> QED
    BY <1>1, InitLines, Invariance, PTL DEF Spec

-----------------------------------------------------------------------------
\* What a request waits for is there: its turn and a permit, a token, or only the end of
\* its attempt or its sleep.
Served(r, l) == queue[l] # <<>> /\ Head(queue[l]) = r /\ permits[l] > 0
Ready(r) ==
    \/ pc[r] \in {"idle", "send", "sleep"}
    \/ pc[r] = "global" /\ Served(r, AnySite)
    \/ pc[r] = "site" /\ Served(r, SiteOf[r])
    \/ pc[r] = "site_token" /\ tokens[SiteOf[r]] > 0
    \/ pc[r] = "global_token" /\ tokens[AnySite] > 0

NeverStuck == Done \/ (\E r \in Request : Ready(r)) \/ \E l \in Limit : tokens[l] < Supply[l]

\* The head of a line of waiting requests is served when nobody holds a permit.
LEMMA HeadIsServed ==
    ASSUME IInv, Lines, NEW l \in Limit, Waiters(l) # {}, Holders(l) = {}
    PROVE  \E r \in Waiters(l) : Served(r, l)
PROOF
  <1>1. LinesUp(queue[l], Waiters(l)) /\ queue[l] \in Seq(Request) /\ Waiters(l) \in SUBSET Request
    BY DEF Lines, IInv, TypeOK, Waiters
  <1>2. queue[l] # <<>>
    <2>1. PICK i \in 1 .. Len(queue[l]) : TRUE
      BY <1>1 DEF LinesUp
    <2>2. Len(<<>>) = 0
      OBVIOUS
    <2> QED
      BY <2>1, <2>2
  <1>3. Head(queue[l]) \in Waiters(l)
    BY <1>1, <1>2, LineShrinks
  <1>4. permits[l] > 0
    <2>1. permits[l] + 0 = Concurrency[l]
      BY FS_EmptySet DEF IInv, PermitsBalance
    <2>2. Concurrency[l] \in Nat \ {0} /\ permits[l] \in Nat
      BY LimitAssumption DEF IInv, TypeOK
    <2> QED
      BY <2>1, <2>2
  <1> QED
    BY <1>2, <1>3, <1>4 DEF Served

\* Permits of a site are taken by those that hold one of the client, so a circle of requests
\* that wait for each other cannot form: as long as one is not done, one of them can go on
\* or a window with tokens is to come.
THEOREM GoesOn == Spec => []NeverStuck
PROOF
  <1>1. IInv /\ Lines => NeverStuck
    <2> SUFFICES ASSUME IInv, Lines, ~ Done, \A r \in Request : ~ Ready(r),
                        \A l \in Limit : ~ (tokens[l] < Supply[l])
                 PROVE  FALSE
      BY DEF NeverStuck
    <2>1. \A l \in Limit : tokens[l] > 0
      BY LimitAssumption DEF IInv, TypeOK
    <2>2. ASSUME NEW r \in Request PROVE pc[r] \in {"global", "site", "done"}
      <3>1. pc[r] \in PC /\ (pc[r] = "site_token" => SiteOf[r] \in Limit) /\ AnySite \in Limit
        BY Limits DEF IInv, TypeOK
      <3> QED
        BY <2>1, <3>1 DEF Ready, PC
    <2>3. ASSUME NEW r \in Request PROVE pc[r] # "site"
      <3> SUFFICES ASSUME pc[r] = "site" PROVE FALSE
        OBVIOUS
      <3> DEFINE s == SiteOf[r]
      <3>1. s \in Limit /\ s # AnySite
        BY SiteAssumption DEF IInv, SiteSteps, Limit
      <3>2. r \in Waiters(s) /\ Holders(s) = {}
        BY <2>2, <3>1 DEF Waiters, Holders
      <3>3. PICK q \in Waiters(s) : Served(q, s)
        BY <3>1, <3>2, HeadIsServed
      <3>4. q \in Request /\ pc[q] = "site" /\ SiteOf[q] = s
        BY <3>1, <3>3 DEF Waiters
      <3> QED
        BY <3>3, <3>4 DEF Ready
    <2>4. PICK r \in Request : pc[r] = "global"
      BY <2>2, <2>3 DEF Done
    <2>5. r \in Waiters(AnySite) /\ Holders(AnySite) = {}
      BY <2>2, <2>3, <2>4 DEF Waiters, Holders
    <2>6. PICK q \in Waiters(AnySite) : Served(q, AnySite)
      BY <2>5, Limits, HeadIsServed
    <2>7. q \in Request /\ pc[q] = "global"
      BY <2>6 DEF Waiters
    <2> QED
      BY <2>6, <2>7 DEF Ready
  <1> QED
    BY <1>1, Invariance, LinesInvariance, PTL

-----------------------------------------------------------------------------
\* How far a request is: the attempts behind it and the stages of the one under way.
StageOf ==
    [label \in PC |->
        CASE label = "global" -> 1
          [] label = "site" -> 2
          [] label = "site_token" -> 3
          [] label = "global_token" -> 4
          [] label = "send" -> 5
          [] OTHER -> 0]
Progress(r) == 6 * attempts[r] + StageOf[pc[r]]

\* A step takes one request further, or fills a limiter up; no request falls back, and none
\* gets past its last attempt.
Advances ==
    \/ \E r \in Request :
        /\ Progress(r)' > Progress(r)
        /\ \A q \in Request \ {r} : Progress(q)' = Progress(q)
    \/ /\ \A r \in Request : Progress(r)' = Progress(r)
       /\ \E l \in Limit : tokens[l] < Supply[l] /\ tokens' = [tokens EXCEPT ![l] = Supply[l]]
ProgressBounded == \A r \in Request : Progress(r) \in 0 .. 6 * (Count + 1)

LEMMA Stages ==
    /\ StageOf["idle"] = 0 /\ StageOf["sleep"] = 0 /\ StageOf["done"] = 0
    /\ StageOf["global"] = 1 /\ StageOf["site"] = 2 /\ StageOf["site_token"] = 3
    /\ StageOf["global_token"] = 4 /\ StageOf["send"] = 5
    /\ \A label \in PC : StageOf[label] \in 0 .. 5
BY DEF StageOf, PC

LEMMA RequestAdvances ==
    ASSUME IInv, NEW r \in Request, Step(r)
    PROVE  /\ Progress(r)' > Progress(r)
           /\ \A q \in Request \ {r} : Progress(q)' = Progress(q)
PROOF
  <1>1. /\ attempts \in [Request -> 0 .. (Count + 1)] /\ Count \in Nat
        /\ attempts[r] \in Nat
    BY RetryAssumption DEF IInv, TypeOK
  <1>2. ASSUME NEW label \in PC, Goto(r, label), StageOf[label] > StageOf[pc[r]], attempts' = attempts
        PROVE  /\ Progress(r)' > Progress(r)
               /\ \A q \in Request \ {r} : Progress(q)' = Progress(q)
    <2>1. pc'[r] = label /\ \A q \in Request \ {r} : pc'[q] = pc[q]
      BY <1>2, Moved DEF IInv
    <2>2. pc[r] \in PC /\ StageOf' = StageOf
      BY DEF IInv, TypeOK, StageOf
    <2>3. StageOf[label] \in 0 .. 5 /\ StageOf[pc[r]] \in 0 .. 5
      BY <2>2, Stages
    <2>4. Progress(r)' = 6 * attempts[r] + StageOf[label] /\ Progress(r) = 6 * attempts[r] + StageOf[pc[r]]
      BY <1>2, <2>1, <2>2 DEF Progress
    <2>5. \A q \in Request \ {r} : Progress(q)' = Progress(q)
      BY <1>2, <2>1, <2>2 DEF Progress
    <2>6. Progress(r)' > Progress(r)
      BY <1>1, <1>2, <2>3, <2>4
    <2> QED
      BY <2>5, <2>6
  <1>3. CASE Start(r) \/ Retry(r)
    <2>1. pc[r] \in {"idle", "sleep"} /\ Goto(r, "global") /\ attempts' = attempts
      BY <1>3 DEF Start, Retry
    <2> QED
      BY <1>2, <2>1, Stages DEF PC
  <1>4. CASE AcquireGlobal(r)
    <2>1. /\ pc[r] = "global" /\ attempts' = attempts
          /\ Goto(r, "site") \/ Goto(r, "global_token")
      BY <1>4 DEF AcquireGlobal
    <2> QED
      BY <1>2, <2>1, Stages DEF PC
  <1>5. CASE AcquireSite(r)
    <2>1. pc[r] = "site" /\ Goto(r, "site_token") /\ attempts' = attempts
      BY <1>5 DEF AcquireSite
    <2> QED
      BY <1>2, <2>1, Stages DEF PC
  <1>6. CASE TakeSite(r)
    <2>1. pc[r] = "site_token" /\ Goto(r, "global_token") /\ attempts' = attempts
      BY <1>6 DEF TakeSite
    <2> QED
      BY <1>2, <2>1, Stages DEF PC
  <1>7. CASE TakeGlobal(r)
    <2>1. pc[r] = "global_token" /\ Goto(r, "send") /\ attempts' = attempts
      BY <1>7 DEF TakeGlobal
    <2> QED
      BY <1>2, <2>1, Stages DEF PC
  <1>8. CASE Send(r)
    <2>1. /\ pc[r] = "send" /\ attempts' = [attempts EXCEPT ![r] = @ + 1]
          /\ \E label \in {"done", "sleep"} : Goto(r, label)
      BY <1>8 DEF Send
    <2>2. PICK label \in {"done", "sleep"} : Goto(r, label)
      BY <2>1
    <2>3. pc'[r] = label /\ \A q \in Request \ {r} : pc'[q] = pc[q]
      BY <2>2, Moved DEF IInv, PC
    <2>4. /\ attempts'[r] = attempts[r] + 1
          /\ \A q \in Request \ {r} : attempts'[q] = attempts[q]
      BY <1>1, <2>1
    <2>5. StageOf' = StageOf /\ StageOf[label] = 0 /\ StageOf[pc[r]] = 5
      <3>1. StageOf' = StageOf
        BY DEF StageOf
      <3> QED
        BY <2>1, <2>2, <3>1, Stages
    <2>6. Progress(r)' = 6 * (attempts[r] + 1) + 0 /\ Progress(r) = 6 * attempts[r] + 5
      BY <2>3, <2>4, <2>5 DEF Progress
    <2>7. \A q \in Request \ {r} : Progress(q)' = Progress(q)
      BY <2>3, <2>4, <2>5 DEF Progress
    <2>8. Progress(r)' > Progress(r)
      BY <1>1, <2>6
    <2> QED
      BY <2>7, <2>8
  <1> QED
    BY <1>3, <1>4, <1>5, <1>6, <1>7, <1>8 DEF Step

\* Every step is progress of one request or a window that begins, for any number of
\* requests, so requests cannot keep each other busy.
THEOREM EveryStepAdvances == Spec => [][Advances]_vars
PROOF
  <1>1. IInv /\ [Next]_vars => [Advances]_vars
    <2> SUFFICES ASSUME IInv, Next, ~ UNCHANGED vars PROVE Advances
      OBVIOUS
    <2>1. CASE \E r \in Request : Step(r)
      BY <2>1, RequestAdvances DEF Advances
    <2>2. CASE \E l \in Limit : Refill(l)
      <3>1. PICK l \in Limit : Refill(l)
        BY <2>2
      <3>2. /\ pc' = pc /\ attempts' = attempts
            /\ tokens[l] < Supply[l] /\ tokens' = [tokens EXCEPT ![l] = Supply[l]]
        BY <3>1 DEF Refill
      <3>3. \A r \in Request : Progress(r)' = Progress(r)
        BY <3>2 DEF Progress, StageOf
      <3> QED
        BY <3>2, <3>3 DEF Advances
    <2> QED
      BY <2>1, <2>2 DEF Next
  <1> QED
    BY <1>1, Invariance, PTL DEF Spec

\* A request gets no further than its last attempt: with EveryStepAdvances, that only the
\* windows of its limiters go on forever.
THEOREM ProgressIsBounded == Spec => []ProgressBounded
PROOF
  <1>1. IInv => ProgressBounded
    <2> SUFFICES ASSUME IInv, NEW r \in Request PROVE Progress(r) \in 0 .. 6 * (Count + 1)
      BY DEF ProgressBounded
    <2>1. /\ pc[r] \in PC /\ attempts[r] \in 0 .. (Count + 1) /\ Count \in Nat
          /\ (pc[r] # "done" => attempts[r] <= Count)
      BY RetryAssumption DEF IInv, TypeOK, AttemptLeft
    <2>2. StageOf[pc[r]] \in 0 .. 5 /\ (pc[r] = "done" => StageOf[pc[r]] = 0)
      BY <2>1, Stages
    <2>3. Progress(r) = 6 * attempts[r] + StageOf[pc[r]]
      BY DEF Progress
    <2> QED
      BY <2>1, <2>2, <2>3
  <1> QED
    BY <1>1, Invariance, PTL

==============================================================================
