----------------------- MODULE ResponseCacheProofs ---------------------------
(***************************************************************************)
(* Proofs about ResponseCache, for every pair of periods.  What a run      *)
(* returns is settled at its end from what it found at its beginning, so   *)
(* the invariant says at each stage what became of the entry found: the    *)
(* store still holds it until the run stores a result, and from then to    *)
(* the restore it is the latest response that was ever stored.             *)
(***************************************************************************)
EXTENDS ResponseCache, TLAPS

\* The entry that a run goes by is the one stored, until its result is.
FoundIsStored ==
    /\ pc = "judge" => found.kind = "ok"
    /\ pc \in {"judge", "fetch", "save"} /\ found.kind = "ok"
            => store = found /\ newest = found

\* A restore has cause, and puts the latest response back.
RestoreIsDue ==
    pc = "restore" => /\ found.kind = "ok"
                      /\ ~expired
                      /\ newest = found
                      /\ store \in {Error, found}

\* What was judged to be within its stale period was when it was judged.
JudgedRightly ==
    pc \in {"fetch", "save", "restore"} /\ found.kind = "ok" /\ ~expired
        => began <= found.time + MaxAge + Stale

\* A result that is an error, and a restore, are of a run that met an error.
FailuresNoted ==
    /\ pc = "save" /\ result = Error => failed
    /\ pc = "restore" => failed

\* Nothing is received in the future, nor a result before what it replaces.
TimesInOrder ==
    /\ IsResponse(store) => store.time <= now
    /\ IsResponse(found) => found.time <= now
    /\ pc = "save" => \/ result = Error
                      \/ /\ IsResponse(result)
                         /\ result.time <= now
                         /\ found.kind = "ok" => found.time <= result.time

\* What the properties say of a run that ended, and of the store at all times.
Promises == NeverTooStale /\ BadAnswersAreFresh /\ NewestIsKept /\ AnswerStaysStored

RunInv == TypeOK /\ FoundIsStored /\ RestoreIsDue /\ JudgedRightly /\ TimesInOrder
            /\ FailuresNoted /\ Promises

-----------------------------------------------------------------------------
\* The fields of entries, by kind.
LEMMA EntryFields ==
    /\ Error \in Entry /\ Error.kind = "error"
    /\ Nothing \in Entry /\ Nothing.kind = "nothing"
    /\ Garbled \in Entry /\ Garbled.kind = "garbled"
    /\ \A time \in 0..MaxTime : \A kind \in {"ok", "retry"} :
          /\ Response(kind, time) \in Entry
          /\ Response(kind, time).kind = kind
          /\ Response(kind, time).time = time
PROOF
  <1>1. Error.kind = "error" /\ Nothing.kind = "nothing" /\ Garbled.kind = "garbled"
    BY DEF Error, Nothing, Garbled
  <1>2. Error \in Entry /\ Nothing \in Entry /\ Garbled \in Entry
    BY DEF Entry
  <1>3. ASSUME NEW time \in 0..MaxTime, NEW kind \in {"ok", "retry"}
        PROVE  /\ Response(kind, time) \in Entry
               /\ Response(kind, time).kind = kind
               /\ Response(kind, time).time = time
    <2>1. Response(kind, time) \in Entry
      BY DEF Entry
    <2>2. Response(kind, time).kind = kind /\ Response(kind, time).time = time
      BY DEF Response
    <2> QED
      BY <2>1, <2>2
  <1> QED
    BY <1>1, <1>2, <1>3

LEMMA EntryKinds ==
    ASSUME NEW e \in Entry
    PROVE  /\ e.kind \in {"ok", "retry", "error", "nothing", "garbled"}
           /\ e.kind = "error" <=> e = Error
           /\ e.kind = "nothing" <=> e = Nothing
           /\ e.kind = "garbled" <=> e = Garbled
           /\ e.kind \in {"ok", "retry"} => e.time \in 0..MaxTime
PROOF
  <1>1. CASE e \in {Error, Nothing, Garbled}
    BY <1>1, EntryFields
  <1>2. CASE e \in {Response(kind, time) : kind \in {"ok", "retry"}, time \in 0..MaxTime}
    <2>1. PICK kind \in {"ok", "retry"}, time \in 0..MaxTime : e = Response(kind, time)
      BY <1>2
    <2>2. e.kind = kind /\ e.time = time
      BY <2>1, EntryFields
    <2> QED
      BY <2>2, EntryFields
  <1> QED
    BY <1>1, <1>2 DEF Entry

-----------------------------------------------------------------------------
LEMMA InitInv == Init => RunInv
PROOF
  <1> SUFFICES ASSUME Init PROVE RunInv
    OBVIOUS
  <1>1. /\ store \in Entry /\ ~IsResponse(store)
        /\ Nothing \in Entry \ {Garbled} /\ Nothing.kind = "nothing"
        /\ ~IsResponse(Nothing)
    BY EntryFields DEF Init, IsResponse
  <1>2. TypeOK
    <2>1. now \in 0..MaxTime /\ began \in 0..MaxTime
      BY MaxTimeAssumption DEF Init
    <2>2. pc \in PC /\ ~(pc \in {"fetch", "save", "restore"})
      BY DEF Init, PC
    <2>3. expired \in BOOLEAN
      BY DEF Init
    <2> QED
      BY <1>1, <2>1, <2>2, <2>3 DEF Init, TypeOK
  <1>3. FoundIsStored /\ RestoreIsDue /\ JudgedRightly /\ TimesInOrder /\ FailuresNoted
    BY <1>1 DEF Init, FoundIsStored, RestoreIsDue, JudgedRightly, TimesInOrder, FailuresNoted
  <1>4. Promises
    BY <1>1 DEF Init, Promises, NeverTooStale, BadAnswersAreFresh, NewestIsKept, AnswerStaysStored
  <1> QED
    BY <1>2, <1>3, <1>4 DEF RunInv

LEMMA StartKeepsInv == RunInv /\ Start => RunInv'
PROOF
  <1> SUFFICES ASSUME RunInv, Start PROVE RunInv'
    OBVIOUS
  <1>1. Nothing \in Entry \ {Garbled} /\ Nothing.kind = "nothing" /\ ~IsResponse(Nothing)
    BY EntryFields DEF IsResponse
  <1>2. TypeOK'
    BY <1>1 DEF RunInv, Start, TypeOK, PC
  <1>3. FoundIsStored' /\ RestoreIsDue' /\ JudgedRightly' /\ TimesInOrder' /\ FailuresNoted'
    BY <1>1
    DEF RunInv, Start, FoundIsStored, RestoreIsDue, JudgedRightly, TimesInOrder, FailuresNoted, IsResponse
  <1>4. Promises'
    BY DEF RunInv, Start, Promises, NeverTooStale, BadAnswersAreFresh, NewestIsKept,
        AnswerStaysStored, IsResponse
  <1> QED
    BY <1>2, <1>3, <1>4 DEF RunInv

LEMMA LoadKeepsInv == RunInv /\ Load => RunInv'
PROOF
  <1> SUFFICES ASSUME RunInv, Load PROVE RunInv'
    OBVIOUS
  <1> USE DEF RunInv
  <1>1. CASE Fail /\ found' = found
    BY <1>1, EntryFields
    DEF Load, Fail, TypeOK, PC, FoundIsStored, RestoreIsDue, JudgedRightly, TimesInOrder, FailuresNoted,
        Promises, NeverTooStale, BadAnswersAreFresh, NewestIsKept, AnswerStaysStored, IsResponse
  <1>2. CASE /\ store # Garbled
             /\ found' = store
             /\ pc' = CASE store.kind \in {"retry", "error"} -> "remove"
                        [] store.kind = "ok" -> "judge"
                        [] store.kind = "nothing" -> "fetch"
             /\ UNCHANGED <<answer, failed>>
    <2>1. store.kind \in {"ok", "retry", "error", "nothing"}
      BY <1>2, EntryKinds DEF TypeOK
    <2>2. /\ pc' \in {"remove", "judge", "fetch"}
          /\ pc' = "judge" => store.kind = "ok"
          /\ pc' = "fetch" => store.kind = "nothing"
      BY <1>2, <2>1
    <2>3. UNCHANGED <<now, store, expired, result, answer, began, newest, failed>>
      BY <1>2 DEF Load
    <2>4. TypeOK'
      BY <1>2, <2>2, <2>3 DEF TypeOK, PC
    <2>5. FoundIsStored' /\ RestoreIsDue' /\ JudgedRightly' /\ TimesInOrder' /\ FailuresNoted'
      BY <1>2, <2>2, <2>3
      DEF FoundIsStored, RestoreIsDue, JudgedRightly, TimesInOrder, FailuresNoted, Promises, NewestIsKept,
          IsResponse
    <2>6. Promises'
      BY <2>2, <2>3
      DEF Promises, NeverTooStale, BadAnswersAreFresh, NewestIsKept, AnswerStaysStored, IsResponse
    <2> QED
      BY <2>4, <2>5, <2>6
  <1> QED
    BY <1>1, <1>2 DEF Load

LEMMA RemoveKeepsInv == RunInv /\ Remove => RunInv'
PROOF
  <1> SUFFICES ASSUME RunInv, Remove PROVE RunInv'
    OBVIOUS
  <1>1. /\ Nothing \in Entry \ {Garbled} /\ Nothing.kind = "nothing" /\ ~IsResponse(Nothing)
        /\ Error \in Entry \ {Garbled} /\ Error.kind = "error" /\ ~IsResponse(Error)
    BY EntryFields DEF IsResponse
  <1>2. TypeOK'
    BY <1>1 DEF RunInv, Remove, Fail, TypeOK, PC
  <1>3. FoundIsStored' /\ RestoreIsDue' /\ JudgedRightly' /\ TimesInOrder' /\ FailuresNoted'
    BY <1>1
    DEF RunInv, Remove, Fail, FoundIsStored, RestoreIsDue, JudgedRightly, TimesInOrder, FailuresNoted, IsResponse
  <1>4. Promises'
    BY <1>1
    DEF RunInv, Remove, Fail, Promises, NeverTooStale, BadAnswersAreFresh, NewestIsKept,
        AnswerStaysStored, IsResponse
  <1> QED
    BY <1>2, <1>3, <1>4 DEF RunInv

\* A response returned unrevalidated is within its fresh period, hence within both.
LEMMA JudgeKeepsInv == RunInv /\ Judge => RunInv'
PROOF
  <1> SUFFICES ASSUME RunInv, Judge PROVE RunInv'
    OBVIOUS
  <1>1. /\ found.kind = "ok" /\ found \in Entry \ {Garbled}
        /\ store = found /\ newest = found
        /\ found.time \in 0..MaxTime
        /\ now \in 0..MaxTime /\ MaxAge \in Nat /\ Stale \in Nat /\ MaxTime \in Nat
    BY EntryKinds, AgeAssumption, MaxTimeAssumption DEF RunInv, TypeOK, FoundIsStored, Judge
  <1> DEFINE old == now > found.time + (MaxAge + Stale)
  <1>a. expired' = old
    BY DEF Judge, IsExpired
  <1>b. expired' \in BOOLEAN /\ (expired' \/ ~old)
    <2>1. old \in BOOLEAN
      OBVIOUS
    <2> HIDE DEF old
    <2> QED
      BY <2>1, <1>a, Zenon
  <1>c. UNCHANGED <<now, store, found, result, newest, failed>> /\ began' = now /\ pc' \in {"done", "fetch"}
        /\ answer' \in {answer, found}
    BY DEF Judge
  <1>2. TypeOK'
    BY <1>1, <1>b, <1>c DEF RunInv, TypeOK, PC
  <1>3. FoundIsStored' /\ RestoreIsDue' /\ TimesInOrder' /\ FailuresNoted'
    BY <1>1 DEF RunInv, Judge, FoundIsStored, RestoreIsDue, TimesInOrder, FailuresNoted
  <1>4. JudgedRightly'
    BY <1>1, <1>b, <1>c DEF JudgedRightly
  <1>5. Promises'
    BY <1>1, EntryFields
    DEF RunInv, Judge, IsExpired, Promises, NeverTooStale, BadAnswersAreFresh, NewestIsKept,
        AnswerStaysStored, IsResponse
  <1> QED
    BY <1>2, <1>3, <1>4, <1>5 DEF RunInv

LEMMA FetchKeepsInv == RunInv /\ Fetch => RunInv'
PROOF
  <1> SUFFICES ASSUME RunInv, Fetch PROVE RunInv'
    OBVIOUS
  <1>1. /\ result' \in Entry \ {Garbled}
        /\ \/ result' = Error
           \/ result'.kind \in {"ok", "retry"} /\ result'.time = now
    BY EntryFields DEF RunInv, TypeOK, Fetch
  <1>2. now \in 0..MaxTime /\ MaxTime \in Nat
    BY MaxTimeAssumption DEF RunInv, TypeOK
  <1>3. TypeOK'
    BY <1>1 DEF RunInv, Fetch, TypeOK, PC
  <1>4. FoundIsStored' /\ RestoreIsDue' /\ JudgedRightly' /\ FailuresNoted'
    BY DEF RunInv, Fetch, FoundIsStored, RestoreIsDue, JudgedRightly, FailuresNoted
  <1>5. TimesInOrder'
    BY <1>1, <1>2 DEF RunInv, Fetch, TimesInOrder, IsResponse
  <1>6. Promises'
    BY DEF RunInv, Fetch, Promises, NeverTooStale, BadAnswersAreFresh, NewestIsKept,
        AnswerStaysStored
  <1> QED
    BY <1>3, <1>4, <1>5, <1>6 DEF RunInv

\* Whether the result was stored or not, the run ends with a promise kept or goes
\* on to restore what it found.
LEMMA SaveKeepsInv == RunInv /\ Save => RunInv'
PROOF
  <1> SUFFICES ASSUME RunInv, Save PROVE RunInv'
    OBVIOUS
  <1>1. /\ pc = "save" /\ pc' \in {"restore", "done"}
        /\ UNCHANGED <<now, found, expired, began>>
    BY DEF Save, Settle
  <1>2. /\ found \in Entry \ {Garbled} /\ found.kind \in {"ok", "nothing"}
        /\ found.kind = "ok" => found.time \in 0..MaxTime
        /\ result \in Entry \ {Garbled}
        /\ result.kind \in {"ok", "retry"} => result.time \in 0..MaxTime
        /\ now \in 0..MaxTime /\ MaxTime \in Nat /\ MaxAge \in Nat /\ Stale \in Nat
    BY <1>1, EntryKinds, AgeAssumption, MaxTimeAssumption DEF RunInv, TypeOK
  <1>3. \/ store' = result /\ result' = result /\ failed' = failed
           /\ newest' = (IF IsResponse(result) THEN result ELSE newest)
           /\ Settle(result)
        \/ store' = store /\ result' = Error /\ newest' = newest /\ failed' = TRUE
           /\ Settle(Error)
    BY DEF Save
  <1>4. \/ /\ pc' = "restore" /\ answer' = answer
           /\ found.kind = "ok" /\ ~expired
           /\ store' \in {Error, found} /\ newest' = found /\ result' = Error /\ failed'
        \/ /\ pc' = "done" /\ answer' = found
           /\ found.kind = "ok" /\ ~expired
           /\ store' = result /\ newest' = result /\ IsResponse(result) /\ result' = result
        \/ /\ pc' = "done" /\ answer' = result'
           /\ \/ result' = Error /\ store' \in {Error, store} /\ newest' = newest /\ failed'
              \/ IsResponse(result) /\ store' = result /\ result' = result /\ newest' = result
    BY <1>1, <1>2, <1>3, EntryFields
    DEF Settle, Answer, RunInv, FoundIsStored, TimesInOrder, FailuresNoted, IsResponse
  <1>5. TypeOK'
    <2>1. failed' \in BOOLEAN
      BY <1>3, Zenon DEF RunInv, TypeOK
    <2> QED
      BY <1>1, <1>2, <1>4, <2>1, EntryFields DEF RunInv, TypeOK, PC
  <1>6. FoundIsStored' /\ RestoreIsDue' /\ FailuresNoted'
    BY <1>1, <1>4 DEF RunInv, FoundIsStored, RestoreIsDue, FailuresNoted
  <1>7. JudgedRightly'
    BY <1>1 DEF RunInv, JudgedRightly
  <1>8. TimesInOrder'
    BY <1>1, <1>2, <1>4, EntryFields DEF RunInv, TimesInOrder, IsResponse
  <1>9. Promises'
    <2>1. NeverTooStale'
      BY <1>1, <1>2, <1>4 DEF RunInv, NeverTooStale, JudgedRightly
    <2>2. BadAnswersAreFresh'
      BY <1>1, <1>2, <1>4, EntryFields DEF BadAnswersAreFresh, IsResponse
    <2>3. NewestIsKept'
      BY <1>1, <1>4, EntryFields DEF RunInv, Promises, NewestIsKept, IsResponse
    <2>4. AnswerStaysStored'
      BY <1>1, <1>2, <1>4, EntryFields
      DEF RunInv, AnswerStaysStored, TimesInOrder, IsResponse
    <2> QED
      BY <2>1, <2>2, <2>3, <2>4 DEF Promises
  <1> QED
    BY <1>5, <1>6, <1>7, <1>8, <1>9 DEF RunInv

LEMMA RestoreKeepsInv == RunInv /\ Restore => RunInv'
PROOF
  <1> SUFFICES ASSUME RunInv, Restore PROVE RunInv'
    OBVIOUS
  <1>1. /\ pc = "restore" /\ pc' = "done" /\ UNCHANGED <<now, found, expired, result, began, newest>>
        /\ \/ store' = found /\ answer' = found /\ failed' = failed
           \/ store' = store /\ answer' = Error /\ failed'
    BY DEF Restore, Fail
  <1>2. /\ found.kind = "ok" /\ ~expired /\ newest = found
        /\ found \in Entry \ {Garbled}
        /\ found.time \in 0..MaxTime
        /\ MaxTime \in Nat
    BY <1>1, EntryKinds, MaxTimeAssumption DEF RunInv, TypeOK, RestoreIsDue
  <1>3. TypeOK'
    BY <1>1, <1>2, EntryFields DEF RunInv, TypeOK, PC
  <1>4. FoundIsStored' /\ RestoreIsDue' /\ JudgedRightly' /\ TimesInOrder' /\ FailuresNoted'
    BY <1>1 DEF RunInv, FoundIsStored, RestoreIsDue, JudgedRightly, TimesInOrder, FailuresNoted
  <1>5. Promises'
    BY <1>1, <1>2, EntryFields
    DEF RunInv, JudgedRightly, Promises, NeverTooStale, BadAnswersAreFresh, NewestIsKept,
        AnswerStaysStored, IsResponse
  <1> QED
    BY <1>3, <1>4, <1>5 DEF RunInv

LEMMA CrashKeepsInv == RunInv /\ Crash => RunInv'
BY DEF RunInv, Crash, TypeOK, PC, FoundIsStored, RestoreIsDue, JudgedRightly, TimesInOrder, FailuresNoted,
    Promises, NeverTooStale, BadAnswersAreFresh, NewestIsKept, AnswerStaysStored

LEMMA CleanKeepsInv == RunInv /\ Clean => RunInv'
BY EntryFields
DEF RunInv, Clean, TypeOK, PC, FoundIsStored, RestoreIsDue, JudgedRightly, TimesInOrder, FailuresNoted,
    Promises, NeverTooStale, BadAnswersAreFresh, NewestIsKept, AnswerStaysStored, IsResponse

LEMMA TickKeepsInv == RunInv /\ Tick => RunInv'
PROOF
  <1> SUFFICES ASSUME RunInv, Tick PROVE RunInv'
    OBVIOUS
  <1>1. /\ now \in 0..MaxTime /\ MaxTime \in Nat /\ now' = now + 1 /\ now' \in 0..MaxTime
        /\ IsResponse(store) => store.time \in 0..MaxTime
        /\ IsResponse(found) => found.time \in 0..MaxTime
        /\ IsResponse(result) => result.time \in 0..MaxTime
    BY EntryKinds, MaxTimeAssumption DEF RunInv, TypeOK, Tick, IsResponse
  <1>2. UNCHANGED <<store, pc, found, expired, result, answer, began, newest, failed>>
    BY DEF Tick
  <1>3. TypeOK'
    BY <1>1, <1>2 DEF RunInv, TypeOK
  <1>4. TimesInOrder'
    BY <1>1, <1>2 DEF RunInv, TimesInOrder, IsResponse
  <1>5. FoundIsStored' /\ RestoreIsDue' /\ JudgedRightly' /\ FailuresNoted' /\ Promises'
    BY <1>2
    DEF RunInv, FoundIsStored, RestoreIsDue, JudgedRightly, FailuresNoted, Promises, NeverTooStale,
        BadAnswersAreFresh, NewestIsKept, AnswerStaysStored, IsResponse
  <1> QED
    BY <1>3, <1>4, <1>5 DEF RunInv

LEMMA StepKeepsInv == RunInv /\ [Next]_vars => RunInv'
PROOF
  <1>1. RunInv /\ UNCHANGED vars => RunInv'
    BY DEF vars, RunInv, TypeOK, FoundIsStored, RestoreIsDue, JudgedRightly, TimesInOrder, FailuresNoted,
        Promises, NeverTooStale, BadAnswersAreFresh, NewestIsKept, AnswerStaysStored, IsResponse
  <1> QED
    BY <1>1, StartKeepsInv, LoadKeepsInv, RemoveKeepsInv, JudgeKeepsInv, FetchKeepsInv,
       SaveKeepsInv, RestoreKeepsInv, CrashKeepsInv, CleanKeepsInv, TickKeepsInv
    DEF Next, Run

LEMMA Invariance == Spec => []RunInv
BY InitInv, StepKeepsInv, PTL DEF Spec

-----------------------------------------------------------------------------
\* The variables have their types at all times; in particular a run that fetches
\* goes by a good response or by nothing.
THEOREM TypeCorrect == Spec => []TypeOK
PROOF
  <1>1. RunInv => TypeOK
    BY DEF RunInv
  <1> QED
    BY <1>1, Invariance, PTL

\* No run of get_cached_globally returns a response out of the cache that was
\* older than max_age and stale_while_revalidate together when it was judged.
THEOREM NothingTooStale == Spec => []NeverTooStale
PROOF
  <1>1. RunInv => NeverTooStale
    BY DEF RunInv, Promises
  <1> QED
    BY <1>1, Invariance, PTL

\* Neither a response whose status is to be retried nor an error is returned out
\* of the cache, whatever earlier runs stored there.
THEOREM NoBadAnswers == Spec => []BadAnswersAreFresh
PROOF
  <1>1. RunInv => BadAnswersAreFresh
    BY DEF RunInv, Promises
  <1> QED
    BY <1>1, Invariance, PTL

\* Restores, failures of the cache and kills never bring back an older response
\* than the latest one stored.
THEOREM NewestKept == Spec => []NewestIsKept
PROOF
  <1>1. RunInv => NewestIsKept
    BY DEF RunInv, Promises
  <1> QED
    BY <1>1, Invariance, PTL

\* A run that returns a response leaves that one or a later one stored.
THEOREM AnswersStored == Spec => []AnswerStaysStored
PROOF
  <1>1. RunInv => AnswerStaysStored
    BY DEF RunInv, Promises
  <1> QED
    BY <1>1, Invariance, PTL

=============================================================================
