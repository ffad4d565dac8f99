--------------------------- MODULE ResponseCache -----------------------------
(***************************************************************************)
(* The life of one URL's entry in the global cache over several runs of    *)
(* the program: `get_cached_globally` of muffy/src/http_client.rs with     *)
(* http_client/cached_response.rs.  Entries of different URLs do not       *)
(* touch, and within a run the local cache lets one computation of a URL's *)
(* entry happen (HttpClient), so runs follow each other.                   *)
(*                                                                         *)
(* Every access to the cache is an await and may fail; a run can be killed *)
(* between any two of them; the clock moves all the while.                 *)
(***************************************************************************)
EXTENDS Naturals

CONSTANTS
    MaxAge,     \* Request::max_age, in ticks.
    Stale,      \* Request::stale_while_revalidate, in ticks.
    MaxTime     \* Bound on the clock.

ASSUME AgeAssumption == MaxAge \in Nat /\ Stale \in Nat
ASSUME MaxTimeAssumption == MaxTime \in Nat

\* Entries and results: a response with the time it was received at, whose status
\* is one to retry ("retry") or not ("ok"), an error, nothing, or an entry that
\* the cache fails to decode.
Response(kind, time) == [kind |-> kind, time |-> time]
Error == [kind |-> "error"]
Nothing == [kind |-> "nothing"]
Garbled == [kind |-> "garbled"]

IsResponse(entry) == entry.kind \in {"ok", "retry"}
Entry == {Response(kind, time) : kind \in {"ok", "retry"}, time \in 0..MaxTime}
            \cup {Error, Nothing, Garbled}

VARIABLES
    now,        \* SystemTime::now().
    store,      \* The entry in global_cache.
    pc,         \* What the run does next.
    found,      \* The entry the run goes by.
    expired,    \* Whether it was past the stale period too.
    result,     \* What `get`, the closure, returns.
    answer,     \* What the run returns.
    began,      \* History: when the run judged the entry's age ...
    newest,     \* ... the latest response ever stored, ...
    failed      \* ... and whether the run met an error of its own.

vars == <<now, store, pc, found, expired, result, answer, began, newest, failed>>

PC == {"idle", "load", "judge", "remove", "fetch", "save", "restore", "done"}

Init ==
    /\ now = 0
    /\ store \in {Nothing, Garbled}
    /\ pc = "idle"
    /\ found = Nothing
    /\ expired = FALSE
    /\ result = Nothing
    /\ answer = Nothing
    /\ began = 0
    /\ newest = Nothing
    /\ failed = FALSE

-----------------------------------------------------------------------------
Start ==
    /\ pc \in {"idle", "done"}
    /\ pc' = "load"
    /\ found' = Nothing
    /\ expired' = FALSE
    /\ result' = Nothing
    /\ answer' = Nothing
    /\ failed' = FALSE
    /\ UNCHANGED <<now, store, began, newest>>

\* An access of the cache failed and `?` returns the error.
Fail ==
    /\ pc' = "done"
    /\ answer' = Error
    /\ failed' = TRUE

\* Faulty: what is stored is good enough, and a stored error is the answer.
LoadBad ==
    /\ pc = "load"
    /\ store # Garbled
    /\ found' = store
    /\ pc' = CASE store.kind = "error" -> "done"
               [] store.kind \in {"ok", "retry"} -> "judge"
               [] store.kind = "nothing" -> "fetch"
    /\ answer' = IF store = Error THEN store ELSE answer
    /\ UNCHANGED <<now, store, expired, result, began, newest, failed>>

Load ==
    /\ pc = "load"
    /\ \/ /\ store # Garbled
          /\ found' = store
          /\ pc' = CASE store.kind \in {"retry", "error"} -> "remove"
                     [] store.kind = "ok" -> "judge"
                     [] store.kind = "nothing" -> "fetch"
          /\ UNCHANGED <<answer, failed>>
       \/ /\ Fail
          /\ UNCHANGED found
    /\ UNCHANGED <<now, store, expired, result, began, newest>>

\* An error or a response to retry is removed and counts as a miss.
Remove ==
    /\ pc = "remove"
    /\ \/ /\ store' = Nothing
          /\ found' = Nothing
          /\ pc' = "fetch"
          /\ UNCHANGED <<answer, failed>>
       \/ /\ Fail
          /\ UNCHANGED <<store, found>>
    /\ UNCHANGED <<now, expired, result, began, newest>>

\* CachedResponse::is_expired
IsExpired(entry, duration) == now > entry.time + duration

\* A fresh response is returned; a stale one is revalidated first, and whether it
\* may be returned then is settled before the revalidation.
Judge ==
    /\ pc = "judge"
    /\ began' = now
    /\ expired' = IsExpired(found, MaxAge + Stale)
    /\ \/ /\ ~IsExpired(found, MaxAge)
          /\ pc' = "done"
          /\ answer' = found
       \/ /\ IsExpired(found, MaxAge)
          /\ pc' = "fetch"
          /\ UNCHANGED answer
    /\ UNCHANGED <<now, store, found, result, newest, failed>>

\* get_filtered: the server answers, or fails, or robots.txt denies the URL.
Fetch ==
    /\ pc = "fetch"
    /\ result' \in {Response("ok", now), Response("retry", now), Error}
    /\ failed' = (result' = Error)
    /\ pc' = "save"
    /\ UNCHANGED <<now, store, found, expired, answer, began, newest>>

\* Faulty: any failed revalidation falls back to the response found.
AnswerAnyAge(r) == IF found.kind = "ok" /\ (r = Error \/ ~expired) THEN found ELSE r

\* What a run returns once the closure returned r and a restore, if one was due,
\* succeeded.
Answer(r) == IF found.kind = "ok" /\ ~expired THEN found ELSE r

\* Faulty: a response within its stale period is restored whatever r is.
SettleBack(r) ==
    IF found.kind = "ok" /\ ~expired
    THEN pc' = "restore" /\ UNCHANGED answer
    ELSE pc' = "done" /\ answer' = Answer(r)

\* Faulty: the error stays stored.
SettleOnly(r) == pc' = "done" /\ answer' = Answer(r)

\* The closure returned r: a response within its stale period is restored if r is
\* an error.
Settle(r) ==
    IF found.kind = "ok" /\ ~expired /\ r = Error
    THEN pc' = "restore" /\ UNCHANGED answer
    ELSE pc' = "done" /\ answer' = Answer(r)

\* The closure stores its result, errors too; a failed `set` replaces the result.
Save ==
    /\ pc = "save"
    /\ \/ /\ store' = result
          /\ newest' = IF IsResponse(result) THEN result ELSE newest
          /\ Settle(result)
          /\ UNCHANGED <<result, failed>>
       \/ /\ result' = Error
          /\ failed' = TRUE
          /\ Settle(Error)
          /\ UNCHANGED <<store, newest>>
    /\ UNCHANGED <<now, found, expired, began>>

Restore ==
    /\ pc = "restore"
    /\ \/ /\ store' = found
          /\ pc' = "done"
          /\ answer' = found
          /\ UNCHANGED failed
       \/ /\ Fail
          /\ UNCHANGED store
    /\ UNCHANGED <<now, found, expired, result, began, newest>>

\* The program is killed; what is stored stays.
Crash ==
    /\ pc \notin {"idle", "done"}
    /\ pc' = "idle"
    /\ UNCHANGED <<now, store, found, expired, result, answer, began, newest, failed>>

\* `muffy cache clean`, between runs: the directory of the cache is removed.
Clean ==
    /\ pc \in {"idle", "done"}
    /\ store' = Nothing
    /\ pc' = "idle"
    /\ UNCHANGED <<now, found, expired, result, answer, began, newest, failed>>

Tick ==
    /\ now < MaxTime
    /\ now' = now + 1
    /\ UNCHANGED <<store, pc, found, expired, result, answer, began, newest, failed>>

Run == Start \/ Load \/ Remove \/ Judge \/ Fetch \/ Save \/ Restore

Next == Run \/ Crash \/ Clean \/ Tick

Spec == Init /\ [][Next]_vars

-----------------------------------------------------------------------------
TypeOK ==
    /\ now \in 0..MaxTime
    /\ store \in Entry
    /\ pc \in PC
    /\ found \in Entry \ {Garbled}
    /\ pc \in {"fetch", "save", "restore"} => found.kind \in {"ok", "nothing"}
    /\ expired \in BOOLEAN
    /\ result \in Entry \ {Garbled}
    /\ answer \in Entry \ {Garbled}
    /\ began \in 0..MaxTime
    /\ newest \in Entry
    /\ failed \in BOOLEAN

\* A run returns a response out of the cache only if it was no older than the
\* fresh and the stale period together when the run looked at it, however long
\* the revalidation took and whatever it brought.
NeverTooStale ==
    pc = "done" /\ IsResponse(answer) /\ answer # result
        => began <= answer.time + MaxAge + Stale

\* Neither an error nor a response to retry is returned out of the cache, where
\* an earlier run may have left it (the `remove` in get_cached_globally): a run
\* that returns a response to retry got it from the server, and one that returns
\* an error met an error, of the server or of an access to the cache.
BadAnswersAreFresh ==
    pc = "done" => /\ answer.kind = "retry" => answer = result
                   /\ answer = Error => failed

\* The store never goes back to a response older than one it held: a restore
\* puts the latest one back.
NewestIsKept == IsResponse(store) => store = newest

\* A run that returns a response leaves one stored, that very response or a
\* later one, so that a failed revalidation within the stale period does not
\* cost the entry (tests keep_stale_cache_on_failed_revalidation and
\* serve_stale_when_revalidation_outlasts_period).  The later one may be one to
\* retry, which is no error to the code that restores.
AnswerStaysStored ==
    pc = "done" /\ IsResponse(answer) => IsResponse(store) /\ store.time >= answer.time

==============================================================================
