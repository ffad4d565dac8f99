-------------------------- MODULE HttpClientProofs ---------------------------
(***************************************************************************)
(* Proofs about HttpClient, for every web and every number of tasks: the   *)
(* slots are computed by exactly the calls that claimed them, each server  *)
(* is asked once, no deadlock arises while robots.txt URLs redirect to     *)
(* robots.txt URLs only, links to one URL get one verdict, and no response *)
(* is seen against the robots.txt of its host.  The last two are about the *)
(* end of a chain of redirects of any length, so before them `Chain` is    *)
(* shown to be what its recursive definition says.  The induction is by a  *)
(* least counterexample, as theorems with an operator for a parameter      *)
(* cannot be used here.                                                    *)
(***************************************************************************)
EXTENDS HttpClient, CountingLemmas, SequenceTheorems, FiniteSetTheorems, TLAPS

-----------------------------------------------------------------------------
\* What kinds tell about entries.
LEMMA Kinds ==
    /\ \A r \in Result : HasResult(r) /\ r # Empty
    /\ \A r \in Response : HasResponse(r) /\ (r.kind = "redirect" => r.to \in Url)
    /\ \A r \in Result : HasResponse(r) => r \in Response
    /\ \A r \in Result : Final(r) \in Result
    /\ ~HasResult(Empty) /\ ~HasResponse(Empty) /\ Empty.kind = "empty"
    /\ \A c : /\ ~HasResult(Claimed(c)) /\ Claimed(c) # Empty
              /\ Claimed(c).kind = "claimed" /\ Claimed(c).by = c
BY DEF Result, Response, Error, HasResult, HasResponse, IsError, Final, Empty, Claimed,
    Page, Missing, Binary, Redirect, Broken, Denied, TooMany, Failed

LEMMA Entries ==
    ASSUME NEW e \in Result \cup {Empty} \cup {Claimed(c) : c \in Call}
    PROVE  /\ HasResult(e) <=> e \in Result
           /\ e.kind = "claimed" => ~HasResult(e) /\ e.by \in Call /\ e = Claimed(e.by)
           /\ ~HasResult(e) => e = Empty \/ e.kind = "claimed"
PROOF
  <1>1. CASE e \in Result
    BY <1>1, Kinds DEF HasResult
  <1>2. CASE e = Empty
    BY <1>2, Kinds
  <1>3. CASE \E c \in Call : e = Claimed(c)
    BY <1>3, Kinds
  <1> QED
    BY <1>1, <1>2, <1>3

LEMMA ServesResults == \A u \in Url : \A answer \in Serves[u] : answer \in Result
BY ServesAssumption DEF Result, Error

LEMMA RefusalsAreErrors ==
    \A r \in Result, u \in Url : Refusal(Final(r), u) \subseteq Error
BY DEF Result, Response, Error, Final, Refusal, IsError,
    Page, Missing, Binary, Redirect, Broken, Denied, TooMany, Failed

LEMMA Calls ==
    /\ \A t \in Task : Main(t) \in Call /\ Robot(t) \in Call /\ Main(t) # Robot(t)
    /\ \A t \in Task : Main(t)[1] = t /\ Main(t)[2] = "main"
    /\ \A t \in Task : Robot(t)[1] = t /\ Robot(t)[2] = "robot"
    /\ \A c \in Call : c[1] \in Task /\ (c = Main(c[1]) \/ c = Robot(c[1]))
    /\ \A s, t \in Task : Main(s) # Robot(t)
    /\ \A s, t \in Task : s # t => Main(s) # Main(t) /\ Robot(s) # Robot(t)
BY DEF Call, Main, Robot

-----------------------------------------------------------------------------
\* A task's robot call is under way exactly while its main call waits for it,
\* and a task without links left is idle.
Nesting ==
    \A t \in Task :
        /\ at[Robot(t)] # "idle" <=> at[Main(t)] = "robot"
        /\ at[Robot(t)] # "robot"
        /\ at[Main(t)] # "idle" => todo[t] # <<>>

Typed == TypeOK /\ Nesting

LEMMA EnterTyped ==
    ASSUME TypeOK, NEW c \in Call, NEW u \in Url, Enter(c, u)
    PROVE  url' \in [Call -> Url] /\ hops' \in [Call -> 0..(MaxRedirects + 1)]
BY MaxRedirectsAssumption DEF TypeOK, Enter

LEMMA LookupTyped ==
    ASSUME Typed, NEW c \in Call, Lookup(c)
    PROVE  Typed'
PROOF
  <1>1. TypeOK'
    <2>1. robots' \in [Task -> BOOLEAN]
      BY Calls DEF Typed, TypeOK, Lookup
    <2>2. at' \in [Call -> Label]
      BY DEF Typed, TypeOK, Lookup, Label
    <2>3. slot' \in [Url -> Result \cup {Empty} \cup {Claimed(d) : d \in Call}]
      <3>1. Claimed(c) \in Result \cup {Empty} \cup {Claimed(d) : d \in Call}
        OBVIOUS
      <3>2. slot' = slot \/ slot' = [slot EXCEPT ![url[c]] = Claimed(c)]
        BY DEF Lookup
      <3> QED
        BY <3>1, <3>2 DEF Typed, TypeOK
    <2> QED
      BY <2>1, <2>2, <2>3 DEF Typed, TypeOK, Lookup
  <1>2. Nesting'
    <2>1. at[c] = "lookup" /\ todo' = todo
      BY DEF Lookup
    <2>2. PICK label \in {"load", "wait"} : at' = [at EXCEPT ![c] = label]
      BY DEF Lookup
    <2>3. ASSUME NEW t \in Task
          PROVE  /\ at'[Robot(t)] # "idle" <=> at[Robot(t)] # "idle"
                 /\ at'[Main(t)] = "robot" <=> at[Main(t)] = "robot"
                 /\ at'[Robot(t)] # "robot" <=> at[Robot(t)] # "robot"
                 /\ at'[Main(t)] # "idle" <=> at[Main(t)] # "idle"
      BY <2>1, <2>2, Calls DEF Typed, TypeOK
    <2> QED
      BY <2>1, <2>3 DEF Typed, Nesting
  <1> QED
    BY <1>1, <1>2 DEF Typed

LEMMA HitTyped ==
    ASSUME Typed, NEW c \in Call, Hit(c)
    PROVE  Typed'
PROOF
  <1>1. global[url[c]] \in Result
    BY Kinds DEF Typed, TypeOK, Hit
  <1>2. TypeOK'
    BY <1>1 DEF Typed, TypeOK, Hit, Fill, Label
  <1>3. Nesting'
    BY Calls DEF Typed, TypeOK, Nesting, Hit
  <1> QED
    BY <1>2, <1>3 DEF Typed

LEMMA MissTyped ==
    ASSUME Typed, NEW c \in Call, Miss(c)
    PROVE  Typed'
PROOF
  <1>1. url[c] \in Url /\ RobotsOf[url[c]] \in Url
    BY RobotsOfAssumption, UrlAssumption DEF Typed, TypeOK
  <1>2. url' \in [Call -> Url] /\ hops' \in [Call -> 0..(MaxRedirects + 1)]
    BY <1>1, Calls, EnterTyped DEF Typed, TypeOK, Miss
  <1>3. at' \in [Call -> Label]
    BY Calls, ZenonT(30) DEF Typed, TypeOK, Miss, Label
  <1>4. TypeOK'
    BY <1>1, <1>2, <1>3 DEF Typed, TypeOK, Miss, Persist
  <1>5. Nesting'
    <2>1. PICK t \in Task : c[1] = t /\ (c = Main(t) \/ c = Robot(t))
      BY Calls
    <2>2. CASE c = Main(t) /\ at' = [at EXCEPT ![c] = "robot", ![Robot(t)] = "lookup"]
      BY <2>2, Calls DEF Typed, TypeOK, Nesting, Miss
    <2>3. CASE at' = [at EXCEPT ![c] = "fetch"]
      BY <2>3, Calls, ZenonT(30) DEF Typed, TypeOK, Nesting, Miss
    <2>4. \/ c = Main(t) /\ at' = [at EXCEPT ![c] = "robot", ![Robot(t)] = "lookup"]
          \/ at' = [at EXCEPT ![c] = "fetch"]
      BY <2>1, Calls DEF Miss
    <2> QED
      BY <2>2, <2>3, <2>4
  <1> QED
    BY <1>4, <1>5 DEF Typed

LEMMA FetchTyped ==
    ASSUME Typed, NEW c \in Call, Fetch(c)
    PROVE  Typed'
PROOF
  <1>1. PICK answer \in Serves[url[c]] : Fill(c, answer) /\ Persist(c, answer)
    BY DEF Fetch
  <1>2. url[c] \in Url /\ answer \in Result
    BY <1>1, ServesResults DEF Typed, TypeOK
  <1>3. fetched' \in [Url -> Seq(BOOLEAN)]
    <2>1. (c[2] = "main" /\ robots[c[1]]) \in BOOLEAN
      OBVIOUS
    <2>2. Append(fetched[url[c]], c[2] = "main" /\ robots[c[1]]) \in Seq(BOOLEAN)
      BY <1>2, <2>1, AppendProperties DEF Typed, TypeOK
    <2> QED
      BY <2>2 DEF Typed, TypeOK, Fetch
  <1>4. at' \in [Call -> Label]
    BY DEF Typed, TypeOK, Fetch, Label
  <1>5. slot' \in [Url -> Result \cup {Empty} \cup {Claimed(d) : d \in Call}]
        /\ global' \in [Url -> Result \cup {Empty}]
    BY <1>1, <1>2 DEF Typed, TypeOK, Fill, Persist
  <1>6. TypeOK'
    BY <1>3, <1>4, <1>5 DEF Typed, TypeOK, Fetch
  <1>7. Nesting'
    BY Calls DEF Typed, TypeOK, Nesting, Fetch
  <1> QED
    BY <1>6, <1>7 DEF Typed

\* The entry of a slot with a result is a result.
LEMMA ReadyResult ==
    ASSUME Typed, NEW c \in Call, Ready(c)
    PROVE  url[c] \in Url /\ slot[url[c]] \in Result
BY Entries DEF Typed, TypeOK, Ready

LEMMA FollowTyped ==
    ASSUME Typed, NEW c \in Call, Follow(c)
    PROVE  Typed'
PROOF
  <1>1. slot[url[c]].to \in Url
    BY ReadyResult, Kinds DEF Follow, Redirected, HasResponse, IsError
  <1>2. hops[c] - 1 \in 0..(MaxRedirects + 1)
    BY MaxRedirectsAssumption DEF Typed, TypeOK, Follow, Redirected
  <1>3. TypeOK'
    BY <1>1, <1>2 DEF Typed, TypeOK, Follow, Label
  <1>4. Nesting'
    BY Calls DEF Typed, TypeOK, Nesting, Follow, Redirected, Ready
  <1> QED
    BY <1>3, <1>4 DEF Typed

LEMMA GetTyped ==
    ASSUME Typed, NEW t \in Task, Get(t)
    PROVE  Typed'
PROOF
  <1>1. Head(todo[t]) \in Url
    BY HeadTailProperties DEF Typed, TypeOK, Get
  <1>2. url' \in [Call -> Url] /\ hops' \in [Call -> 0..(MaxRedirects + 1)]
    BY <1>1, Calls, EnterTyped DEF Typed, TypeOK, Get
  <1>3. TypeOK'
    BY <1>2 DEF Typed, TypeOK, Get, Label
  <1>4. Nesting'
    BY Calls DEF Typed, TypeOK, Nesting, Get
  <1> QED
    BY <1>3, <1>4 DEF Typed

LEMMA OutcomeTyped ==
    ASSUME Typed, NEW c \in Call, Finished(c)
    PROVE  Outcome(c) \in Result
BY ReadyResult, Kinds DEF Finished, Outcome

LEMMA AllowTyped ==
    ASSUME Typed, NEW t \in Task, Allow(t)
    PROVE  Typed'
PROOF
  <1>1. at' = [at EXCEPT ![Robot(t)] = "idle", ![Main(t)] = "fetch"]
    BY DEF Allow
  <1>2. TypeOK'
    BY <1>1 DEF Typed, TypeOK, Allow, Label
  <1>3. at[Main(t)] = "robot"
    BY DEF Typed, Nesting, Allow, Finished, Ready
  <1>4. Nesting'
    BY <1>1, <1>3, Calls DEF Typed, TypeOK, Nesting, Allow
  <1> QED
    BY <1>2, <1>4 DEF Typed

LEMMA RefuseTyped ==
    ASSUME Typed, NEW t \in Task, Refuse(t)
    PROVE  Typed'
PROOF
  <1>1. PICK error \in Refusal(Outcome(Robot(t)), url[Main(t)]) :
            Fill(Main(t), error) /\ Persist(Main(t), error)
    BY DEF Refuse
  <1>2. url[Main(t)] \in Url /\ slot[url[Robot(t)]] \in Result
    BY Calls, ReadyResult DEF Typed, TypeOK, Refuse, Finished
  <1>3. error \in Result
    BY <1>1, <1>2, RefusalsAreErrors DEF Outcome, Result
  <1>4. at' = [at EXCEPT ![Robot(t)] = "idle", ![Main(t)] = "wait"]
    BY DEF Refuse
  <1>5. /\ slot' \in [Url -> Result \cup {Empty} \cup {Claimed(d) : d \in Call}]
        /\ global' \in [Url -> Result \cup {Empty}]
    BY <1>1, <1>2, <1>3 DEF Typed, TypeOK, Fill, Persist
  <1>6. at' \in [Call -> Label]
    BY <1>4 DEF Typed, TypeOK, Label
  <1>7. TypeOK'
    BY <1>5, <1>6 DEF Typed, TypeOK, Refuse
  <1>8. at[Main(t)] = "robot"
    BY DEF Typed, Nesting, Refuse, Finished, Ready
  <1>9. Nesting'
    BY <1>4, <1>8, Calls DEF Typed, TypeOK, Nesting, Refuse
  <1> QED
    BY <1>7, <1>9 DEF Typed

LEMMA ReturnTyped ==
    ASSUME Typed, NEW t \in Task, Return(t)
    PROVE  Typed'
PROOF
  <1>1. at[Main(t)] = "wait" /\ at' = [at EXCEPT ![Main(t)] = "idle"]
    BY DEF Return, Finished, Ready
  <1>2. todo[t] \in Seq(Url) /\ todo[t] # <<>>
    BY <1>1 DEF Typed, TypeOK, Nesting
  <1>3. Head(todo[t]) \in Url /\ Tail(todo[t]) \in Seq(Url)
    BY <1>2, HeadTailProperties
  <1>4. Outcome(Main(t)) \in Result
    BY Calls, OutcomeTyped DEF Return
  <1>5. todo' \in [Task -> Seq(Url)] /\ verdict' \in [Url -> SUBSET Result]
    BY <1>3, <1>4 DEF Typed, TypeOK, Return
  <1>6. TypeOK'
    BY <1>1, <1>5 DEF Typed, TypeOK, Return, Label
  <1>7. Nesting'
    <2>1. ASSUME NEW s \in Task, s # t
          PROVE  todo'[s] = todo[s] /\ at'[Main(s)] = at[Main(s)] /\ at'[Robot(s)] = at[Robot(s)]
      BY <1>1, <2>1, Calls DEF Typed, TypeOK, Return
    <2>2. at'[Main(t)] = "idle" /\ at'[Robot(t)] = at[Robot(t)]
      BY <1>1, Calls DEF Typed, TypeOK
    <2> QED
      BY <1>1, <2>1, <2>2 DEF Typed, Nesting
  <1> QED
    BY <1>6, <1>7 DEF Typed

LEMMA InitTyped == Init => Typed
PROOF
  <1> SUFFICES ASSUME Init PROVE Typed
    OBVIOUS
  <1>1. todo \in [Task -> Seq(Url)]
    BY ProgramAssumption DEF Init
  <1>2. Nesting
    BY Calls DEF Init, Nesting
  <1>3. ASSUME NEW u \in Url PROVE global[u] \in Result \cup {Empty}
    BY ServesResults, UrlAssumption DEF Init
  <1>4. global \in [Url -> Result \cup {Empty}]
    BY <1>3 DEF Init
  <1>5. (CHOOSE u \in Url : TRUE) \in Url
    BY UrlAssumption
  <1>6. url \in [Call -> Url]
    BY <1>5 DEF Init
  <1>7. fetched \in [Url -> Seq(BOOLEAN)]
    BY EmptySeq DEF Init
  <1>8. TypeOK
    BY <1>1, <1>4, <1>6, <1>7, MaxRedirectsAssumption DEF Init, TypeOK, Label
  <1> QED
    BY <1>2, <1>8 DEF Typed

LEMMA NextTyped ==
    ASSUME Typed, [Next]_vars
    PROVE  Typed'
PROOF
  <1>1. ASSUME NEW t \in Task, Step(t) PROVE Typed'
    <2>1. ASSUME NEW c \in Call, Advance(c) PROVE Typed'
      BY <2>1, LookupTyped, HitTyped, MissTyped, FetchTyped, FollowTyped DEF Advance
    <2> QED
      BY <1>1, <2>1, Calls, GetTyped, AllowTyped, RefuseTyped, ReturnTyped DEF Step
  <1>2. ASSUME UNCHANGED vars PROVE Typed'
    BY <1>2 DEF Typed, TypeOK, Nesting, vars
  <1> QED
    BY <1>1, <1>2 DEF Next

\* Type correctness for every web, program and number of tasks.
THEOREM TypeCorrect == Spec => []TypeOK
PROOF
  <1>1. Typed => TypeOK
    BY DEF Typed
  <1> QED
    BY InitTyped, NextTyped, <1>1, PTL DEF Spec

-----------------------------------------------------------------------------
\* A server is not asked for a URL before the slot of the URL is filled, and
\* filling it takes one answer.
Asked ==
    \A u \in Url :
        /\ Len(fetched[u]) <= 1
        /\ ~HasResult(slot[u]) => fetched[u] = <<>>

SlotInv == Typed /\ ClaimsMatch /\ Asked

\* The slots, the computing calls and the fetches stay as they are.
LEMMA Keeps ==
    ASSUME SlotInv, Typed', slot' = slot, fetched' = fetched,
           \A c \in Call : /\ at'[c] \in Computing <=> at[c] \in Computing
                           /\ at[c] \in Computing => url'[c] = url[c]
    PROVE  SlotInv'
PROOF
  <1>1. \A u \in Url : slot[u].kind = "claimed" => slot[u].by \in Call
    BY Entries DEF SlotInv, Typed, TypeOK
  <1>2. ClaimsMatch'
    BY <1>1 DEF SlotInv, ClaimsMatch, Computes
  <1>3. Asked'
    BY DEF SlotInv, Asked
  <1> QED
    BY <1>2, <1>3 DEF SlotInv

\* A call claims an empty slot.
LEMMA Claims ==
    ASSUME SlotInv, Typed', NEW c \in Call, Lookup(c), slot[url[c]] = Empty
    PROVE  SlotInv'
PROOF
  <1>1. /\ slot' = [slot EXCEPT ![url[c]] = Claimed(c)] /\ at' = [at EXCEPT ![c] = "load"]
        /\ url' = url /\ fetched' = fetched /\ ~Computes(c)
    BY DEF Lookup, Computes, Computing
  <1>3. url[c] \in Url /\ slot'[url[c]] = Claimed(c)
        /\ \A u \in Url : u # url[c] => slot'[u] = slot[u]
    BY <1>1 DEF SlotInv, Typed, TypeOK
  <1>4. \A d \in Call : d # c => at'[d] = at[d]
    BY <1>1 DEF SlotInv, Typed, TypeOK
  <1>5. at'[c] = "load"
    BY <1>1 DEF SlotInv, Typed, TypeOK
  <1>6. ASSUME NEW u \in Url, slot'[u].kind = "claimed"
        PROVE  at'[slot'[u].by] \in Computing /\ url'[slot'[u].by] = u
    <2>1. CASE u = url[c]
      BY <2>1, <1>1, <1>3, <1>5, Kinds DEF Computes, Computing
    <2>2. CASE u # url[c]
      <3>1. slot'[u] = slot[u] /\ slot[u].kind = "claimed"
        BY <1>3, <1>6, <2>2
      <3>2. slot[u].by \in Call /\ Computes(slot[u].by) /\ url[slot[u].by] = u
        BY <3>1, Entries DEF SlotInv, Typed, TypeOK, ClaimsMatch
      <3>3. slot[u].by # c
        BY <1>1, <3>2
      <3> QED
        BY <1>1, <1>4, <3>1, <3>2, <3>3 DEF Computes, Computing
    <2> QED
      BY <2>1, <2>2
  <1>7. ASSUME NEW d \in Call, at'[d] \in Computing
        PROVE  slot'[url'[d]] = Claimed(d)
    <2>1. CASE d = c
      BY <2>1, <1>1, <1>3
    <2>2. CASE d # c
      <3>1. slot[url[d]] = Claimed(d) /\ url[d] \in Url
        BY <1>4, <1>7, <2>2 DEF SlotInv, Typed, TypeOK, ClaimsMatch, Computes, Computing
      <3>2. url[d] # url[c]
        BY <3>1, Kinds
      <3> QED
        BY <1>1, <1>3, <3>1, <3>2
    <2> QED
      BY <2>1, <2>2
  <1>8. ClaimsMatch'
    BY <1>6, <1>7 DEF ClaimsMatch, Computes, Computing
  <1>9. Asked'
    BY <1>1, <1>3, Kinds DEF SlotInv, Asked
  <1> QED
    BY <1>8, <1>9 DEF SlotInv

\* A computing call fills its slot, with a fetch or without.
LEMMA Fills ==
    ASSUME SlotInv, Typed', NEW c \in Call, NEW result \in Result, Computes(c),
           Fill(c, result), url' = url, at'[c] = "wait",
           \A d \in Call : d # c => (at'[d] \in Computing <=> at[d] \in Computing),
           NEW flag \in BOOLEAN,
           \/ fetched' = fetched
           \/ fetched' = [fetched EXCEPT ![url[c]] = Append(@, flag)]
    PROVE  SlotInv'
PROOF
  <1>1. /\ url[c] \in Url /\ slot'[url[c]] = result /\ slot[url[c]] = Claimed(c)
        /\ \A u \in Url : u # url[c] => slot'[u] = slot[u]
    BY DEF SlotInv, Typed, TypeOK, ClaimsMatch, Fill
  <1>2. ASSUME NEW u \in Url, slot'[u].kind = "claimed"
        PROVE  at'[slot'[u].by] \in Computing /\ url'[slot'[u].by] = u
    <2>1. u # url[c]
      BY <1>1, <1>2, Kinds DEF HasResult
    <2>2. slot'[u] = slot[u] /\ slot[u].kind = "claimed"
      BY <1>1, <1>2, <2>1
    <2>3. slot[u].by \in Call /\ Computes(slot[u].by) /\ url[slot[u].by] = u
      BY <2>2, Entries DEF SlotInv, Typed, TypeOK, ClaimsMatch
    <2> QED
      BY <2>1, <2>2, <2>3 DEF Computes
  <1>3. ASSUME NEW d \in Call, at'[d] \in Computing
        PROVE  slot'[url'[d]] = Claimed(d)
    <2>1. d # c
      BY <1>3 DEF Computing
    <2>2. slot[url[d]] = Claimed(d) /\ url[d] \in Url
      BY <1>3, <2>1 DEF SlotInv, Typed, TypeOK, ClaimsMatch, Computes
    <2>3. url[d] # url[c]
      BY <1>1, <2>1, <2>2, Kinds
    <2> QED
      BY <1>1, <2>2, <2>3
  <1>4. ClaimsMatch'
    BY <1>2, <1>3 DEF ClaimsMatch, Computes, Computing
  <1>5. HasResult(slot'[url[c]]) /\ fetched[url[c]] = <<>>
    BY <1>1, Kinds DEF SlotInv, Asked
  <1>6. Len(fetched'[url[c]]) <= 1
    <2>1. Len(Append(fetched[url[c]], flag)) = 1
      BY <1>5
    <2>2. fetched'[url[c]] = fetched[url[c]] \/ fetched'[url[c]] = Append(fetched[url[c]], flag)
      BY <1>1 DEF SlotInv, Typed, TypeOK
    <2> QED
      <3>1. Len(fetched[url[c]]) = 0
        BY <1>5
      <3> QED
        BY <2>1, <2>2, <3>1
  <1>7. \A u \in Url : u # url[c] => fetched'[u] = fetched[u]
    BY DEF SlotInv, Typed, TypeOK
  <1>8. Asked'
    BY <1>1, <1>5, <1>6, <1>7 DEF SlotInv, Asked
  <1> QED
    BY <1>4, <1>8 DEF SlotInv

LEMMA StepSlotInv ==
    ASSUME SlotInv, Typed', NEW t \in Task, Step(t)
    PROVE  SlotInv'
PROOF
  <1> USE DEF Computing
  <1>2. CASE Get(t)
    <2>1. \A d \in Call : d # Main(t) => at'[d] = at[d] /\ url'[d] = url[d]
      BY <1>2 DEF SlotInv, Typed, TypeOK, Get, Enter
    <2>2. at[Main(t)] = "idle" /\ at'[Main(t)] = "lookup"
      BY <1>2, Calls DEF SlotInv, Typed, TypeOK, Get
    <2> QED
      BY <1>2, <2>1, <2>2, Keeps DEF Get
  <1>3. ASSUME NEW c \in Call, Advance(c) PROVE SlotInv'
    <2>1. CASE Lookup(c)
      <3>1. CASE slot[url[c]] = Empty
        BY <2>1, <3>1, Claims
      <3>2. CASE slot[url[c]] # Empty
        <4>1. at' = [at EXCEPT ![c] = "wait"] /\ at[c] = "lookup"
          BY <2>1, <3>2 DEF Lookup
        <4>2. \A d \in Call : at'[d] \in Computing <=> at[d] \in Computing
          BY <4>1 DEF SlotInv, Typed, TypeOK
        <4> QED
          BY <2>1, <3>2, <4>2, Keeps DEF Lookup
      <3> QED
        BY <3>1, <3>2
    <2>2. CASE Hit(c)
      <3>1. global[url[c]] \in Result
        BY <2>2, Kinds DEF SlotInv, Typed, TypeOK, Hit
      <3>2. at'[c] = "wait" /\ \A d \in Call : d # c => at'[d] = at[d]
        BY <2>2 DEF SlotInv, Typed, TypeOK, Hit
      <3>3. Computes(c) /\ Fill(c, global[url[c]]) /\ url' = url /\ fetched' = fetched
        BY <2>2 DEF Hit, Computes
      <3> QED
        BY <3>1, <3>2, <3>3, Fills
    <2>3. CASE Miss(c)
      <3>1. PICK s \in Task : c[1] = s /\ (c = Main(s) \/ c = Robot(s))
        BY Calls
      <3>2. at[c] = "load" /\ slot' = slot /\ fetched' = fetched
        BY <2>3 DEF Miss
      <3>3. CASE c = Main(s) /\ Enter(Robot(s), RobotsOf[url[c]])
                 /\ at' = [at EXCEPT ![c] = "robot", ![Robot(s)] = "lookup"]
        <4>1. at[Robot(s)] = "idle"
          BY <3>2, <3>3 DEF SlotInv, Typed, Nesting
        <4>2. \A d \in Call : d # Robot(s) => url'[d] = url[d]
          BY <3>3 DEF SlotInv, Typed, TypeOK, Enter
        <4>3. /\ at'[c] = "robot" /\ at'[Robot(s)] = "lookup"
              /\ \A d \in Call : d # c /\ d # Robot(s) => at'[d] = at[d]
          BY <3>3, Calls DEF SlotInv, Typed, TypeOK
        <4> QED
          BY <3>2, <3>3, <4>1, <4>2, <4>3, Keeps
      <3>4. CASE at' = [at EXCEPT ![c] = "fetch"] /\ url' = url
        <4>1. at'[c] = "fetch" /\ \A d \in Call : d # c => at'[d] = at[d]
          BY <3>4 DEF SlotInv, Typed, TypeOK
        <4> QED
          BY <3>2, <3>4, <4>1, Keeps
      <3> QED
        BY <2>3, <3>1, <3>3, <3>4, Calls DEF Miss
    <2>4. CASE Fetch(c)
      <3>1. PICK answer \in Serves[url[c]] : Fill(c, answer)
        BY <2>4 DEF Fetch
      <3>2. answer \in Result
        BY <3>1, ServesResults DEF SlotInv, Typed, TypeOK
      <3>3. at'[c] = "wait" /\ \A d \in Call : d # c => at'[d] = at[d]
        BY <2>4 DEF SlotInv, Typed, TypeOK, Fetch
      <3>4. PICK flag \in BOOLEAN : flag = (c[2] = "main" /\ robots[c[1]])
        OBVIOUS
      <3>5. /\ Computes(c) /\ url' = url
            /\ fetched' = [fetched EXCEPT ![url[c]] = Append(@, flag)]
        BY <2>4, <3>4 DEF Fetch, Computes
      <3> QED
        BY <3>1, <3>2, <3>3, <3>5, Fills
    <2>5. CASE Follow(c)
      <3>1. at[c] = "wait" /\ at'[c] = "lookup" /\ \A d \in Call : d # c => at'[d] = at[d]
        BY <2>5 DEF SlotInv, Typed, TypeOK, Follow, Redirected, Ready
      <3>2. \A d \in Call : d # c => url'[d] = url[d]
        BY <2>5 DEF SlotInv, Typed, TypeOK, Follow
      <3> QED
        BY <2>5, <3>1, <3>2, Keeps DEF Follow
    <2> QED
      BY <1>3, <2>1, <2>2, <2>3, <2>4, <2>5 DEF Advance
  <1>4. CASE Allow(t)
    <2>1. at[Robot(t)] = "wait" /\ at[Main(t)] = "robot"
      BY <1>4 DEF SlotInv, Typed, Nesting, Allow, Finished, Ready
    <2>2. /\ at'[Robot(t)] = "idle" /\ at'[Main(t)] = "fetch"
          /\ \A d \in Call : d # Main(t) /\ d # Robot(t) => at'[d] = at[d]
      BY <1>4, Calls DEF SlotInv, Typed, TypeOK, Allow
    <2> QED
      BY <1>4, <2>1, <2>2, Keeps DEF Allow
  <1>5. CASE Refuse(t)
    <2>1. at[Robot(t)] = "wait" /\ at[Main(t)] = "robot"
      BY <1>5 DEF SlotInv, Typed, Nesting, Refuse, Finished, Ready
    <2>2. /\ at'[Robot(t)] = "idle" /\ at'[Main(t)] = "wait"
          /\ \A d \in Call : d # Main(t) /\ d # Robot(t) => at'[d] = at[d]
      BY <1>5, Calls DEF SlotInv, Typed, TypeOK, Refuse
    <2>3. PICK error \in Refusal(Outcome(Robot(t)), url[Main(t)]) : Fill(Main(t), error)
      BY <1>5 DEF Refuse
    <2>4. url[Main(t)] \in Url /\ slot[url[Robot(t)]] \in Result
      BY <1>5, Calls, ReadyResult DEF SlotInv, Typed, TypeOK, Refuse, Finished
    <2>5. error \in Result
      BY <2>3, <2>4, RefusalsAreErrors DEF Outcome, Result
    <2>6. Computes(Main(t)) /\ url' = url /\ fetched' = fetched
      BY <1>5, <2>1 DEF Refuse, Computes
    <2>7. \A d \in Call : d # Main(t) => (at'[d] \in Computing <=> at[d] \in Computing)
      BY <2>1, <2>2
    <2> QED
      BY <2>2, <2>3, <2>5, <2>6, <2>7, Calls, Fills
  <1>6. CASE Return(t)
    <2>1. /\ at[Main(t)] = "wait" /\ at'[Main(t)] = "idle"
          /\ \A d \in Call : d # Main(t) => at'[d] = at[d]
      BY <1>6, Calls DEF SlotInv, Typed, TypeOK, Return, Finished, Ready
    <2> QED
      BY <1>6, <2>1, Keeps DEF Return
  <1> QED
    BY <1>2, <1>3, <1>4, <1>5, <1>6, Calls DEF Step

LEMMA NextSlotInv ==
    ASSUME SlotInv, [Next]_vars
    PROVE  SlotInv'
PROOF
  <1>1. Typed'
    BY NextTyped DEF SlotInv
  <1>2. CASE UNCHANGED vars
    BY <1>1, <1>2, Keeps DEF vars
  <1> QED
    BY <1>1, <1>2, StepSlotInv DEF Next

LEMMA InitSlotInv == Init => SlotInv
PROOF
  <1> SUFFICES ASSUME Init PROVE SlotInv
    OBVIOUS
  <1>1. Typed
    BY InitTyped
  <1>2. ClaimsMatch
    BY Kinds DEF Init, ClaimsMatch, Computes, Computing, Empty
  <1>3. \A u \in Url : fetched[u] = <<>>
    BY DEF Init
  <1>4. Len(<<>>) = 0
    OBVIOUS
  <1>5. Asked
    BY <1>3, <1>4 DEF Asked
  <1> QED
    BY <1>1, <1>2, <1>5 DEF SlotInv

LEMMA SlotInvariant == Spec => []SlotInv
BY InitSlotInv, NextSlotInv, PTL DEF Spec

\* Exactly the call that claimed a slot computes it.
THEOREM ClaimsAlwaysMatch == Spec => []ClaimsMatch
PROOF
  <1>1. SlotInv => ClaimsMatch
    BY DEF SlotInv
  <1> QED
    BY SlotInvariant, <1>1, PTL

\* Within a run the server of a URL is asked once, whatever links to it.
THEOREM EachServerAskedOnce == Spec => []FetchedOnce
PROOF
  <1>1. SlotInv => FetchedOnce
    BY DEF SlotInv, Asked, FetchedOnce
  <1> QED
    BY SlotInvariant, <1>1, PTL

\* A step fills slots and never changes a filled one.
LEMMA SlotsGrow ==
    ASSUME SlotInv, [Next]_vars, NEW u \in Url, HasResult(slot[u])
    PROVE  slot'[u] = slot[u]
PROOF
  <1>1. slot[u] \in Result /\ slot[u] # Empty /\ \A d : slot[u] # Claimed(d)
    BY Entries, Kinds DEF SlotInv, Typed, TypeOK
  <1>2. ASSUME NEW c \in Call, Computes(c), NEW result, Fill(c, result)
        PROVE  slot'[u] = slot[u]
    BY <1>1, <1>2 DEF SlotInv, Typed, TypeOK, ClaimsMatch, Fill
  <1>3. ASSUME NEW c \in Call, Advance(c) PROVE slot'[u] = slot[u]
    <2>1. CASE Lookup(c)
      BY <1>1, <2>1 DEF SlotInv, Typed, TypeOK, Lookup
    <2>2. CASE Hit(c)
      BY <1>2, <2>2 DEF Hit, Computes, Computing
    <2>3. CASE Fetch(c)
      BY <1>2, <2>3 DEF Fetch, Computes, Computing
    <2>4. CASE Miss(c) \/ Follow(c)
      BY <2>4 DEF Miss, Follow
    <2> QED
      BY <1>3, <2>1, <2>2, <2>3, <2>4 DEF Advance
  <1>4. ASSUME NEW t \in Task, Refuse(t) PROVE slot'[u] = slot[u]
    <2>1. Computes(Main(t))
      BY <1>4 DEF SlotInv, Typed, Nesting, Refuse, Finished, Ready, Computes, Computing
    <2> QED
      BY <1>2, <1>4, <2>1, Calls DEF Refuse
  <1>5. ASSUME NEW t \in Task, Get(t) \/ Allow(t) \/ Return(t) PROVE slot'[u] = slot[u]
    BY <1>5 DEF Get, Allow, Return
  <1> QED
    BY <1>3, <1>4, <1>5, Calls DEF Next, Step, vars

\* Once filled, a slot keeps its result for the rest of the run.
THEOREM FilledSlotsStay == Spec => SlotsAreFinal
PROOF
  <1>1. SlotInv /\ [Next]_vars
            => [\A u \in Url : HasResult(slot[u]) => slot'[u] = slot[u]]_vars
    BY SlotsGrow
  <1> QED
    BY SlotInvariant, <1>1, PTL DEF Spec, SlotsAreFinal

-----------------------------------------------------------------------------
\* The robots.txt URLs redirect to robots.txt URLs only.
RobotsStayRobots ==
    \A u \in RobotsUrl : \A answer \in Serves[u] :
        answer.kind = "redirect" => answer.to \in RobotsUrl

\* Then so do their entries; robot calls stay at robots.txt URLs; and a main call
\* that computes the entry of a robots.txt URL has its check off.
RobotsEntry(entry) == entry.kind = "redirect" => entry.to \in RobotsUrl
RobotsInv ==
    /\ \A u \in RobotsUrl : RobotsEntry(slot[u]) /\ RobotsEntry(global[u])
    /\ \A t \in Task :
        /\ at[Robot(t)] # "idle" => url[Robot(t)] \in RobotsUrl
        /\ at[Main(t)] \in Computing /\ url[Main(t)] \in RobotsUrl
            => ~robots[t] /\ at[Main(t)] # "robot"

LEMMA PlainEntries ==
    /\ RobotsEntry(Empty) /\ \A c : RobotsEntry(Claimed(c))
    /\ \A error \in Error : RobotsEntry(error)
BY DEF RobotsEntry, Empty, Claimed, Error, Denied, TooMany, Failed

\* The part of RobotsInv about task t.
RobotsCalls(t) ==
    /\ at[Robot(t)] # "idle" => url[Robot(t)] \in RobotsUrl
    /\ at[Main(t)] \in Computing /\ url[Main(t)] \in RobotsUrl
        => ~robots[t] /\ at[Main(t)] # "robot"

LEMMA StepRobotsEntries ==
    ASSUME RobotsStayRobots, SlotInv, RobotsInv, NEW t \in Task, Step(t),
           NEW u \in RobotsUrl
    PROVE  RobotsEntry(slot'[u]) /\ RobotsEntry(global'[u])
PROOF
  <1>1. u \in Url /\ RobotsEntry(slot[u]) /\ RobotsEntry(global[u])
    BY UrlAssumption DEF RobotsInv
  <1>2. ASSUME NEW c \in Call, NEW entry, url[c] = u => RobotsEntry(entry), Fill(c, entry)
        PROVE  RobotsEntry(slot'[u])
    BY <1>1, <1>2 DEF SlotInv, Typed, TypeOK, Fill
  <1>3. ASSUME NEW c \in Call, NEW entry, url[c] = u => RobotsEntry(entry), Persist(c, entry)
        PROVE  RobotsEntry(global'[u])
    BY <1>1, <1>3 DEF SlotInv, Typed, TypeOK, Persist
  <1>4. ASSUME NEW c \in Call, Advance(c)
        PROVE  RobotsEntry(slot'[u]) /\ RobotsEntry(global'[u])
    <2>1. CASE Lookup(c)
      <3>1. global' = global /\ (slot' = slot \/ Fill(c, Claimed(c)))
        BY <2>1 DEF Lookup, Fill
      <3> QED
        BY <1>1, <1>2, <3>1, PlainEntries
    <2>2. CASE Hit(c)
      BY <1>1, <1>2, <2>2 DEF Hit
    <2>3. CASE Miss(c)
      BY <1>1, <1>3, <2>3, PlainEntries DEF Miss
    <2>4. CASE Fetch(c)
      <3>1. PICK answer \in Serves[url[c]] : Fill(c, answer) /\ Persist(c, answer)
        BY <2>4 DEF Fetch
      <3>2. url[c] = u => RobotsEntry(answer)
        BY <3>1 DEF RobotsStayRobots, RobotsEntry
      <3> QED
        BY <1>2, <1>3, <3>1, <3>2
    <2>5. CASE Follow(c)
      BY <1>1, <2>5 DEF Follow
    <2> QED
      BY <1>4, <2>1, <2>2, <2>3, <2>4, <2>5 DEF Advance
  <1>5. CASE Refuse(t)
    <2>1. PICK error \in Refusal(Outcome(Robot(t)), url[Main(t)]) :
              Fill(Main(t), error) /\ Persist(Main(t), error)
      BY <1>5 DEF Refuse
    <2>2. url[Main(t)] \in Url /\ slot[url[Robot(t)]] \in Result
      BY <1>5, Calls, ReadyResult DEF SlotInv, Typed, TypeOK, Refuse, Finished
    <2>3. RobotsEntry(error)
      BY <2>1, <2>2, RefusalsAreErrors, PlainEntries DEF Outcome
    <2> QED
      BY <1>2, <1>3, <2>1, <2>3, Calls
  <1>6. CASE Get(t) \/ Allow(t) \/ Return(t)
    BY <1>1, <1>6 DEF Get, Allow, Return
  <1> QED
    BY <1>4, <1>5, <1>6, Calls DEF Step

LEMMA StepRobotsCalls ==
    ASSUME SlotInv, RobotsInv, NEW t \in Task, Step(t), NEW s \in Task
    PROVE  RobotsCalls(s)'
PROOF
  <1> USE DEF Computing
  <1>1. RobotsCalls(s)
    BY DEF RobotsInv, RobotsCalls
  <1>2. at \in [Call -> Label] /\ url \in [Call -> Url] /\ robots \in [Task -> BOOLEAN]
    BY DEF SlotInv, Typed, TypeOK
  <1>3. CASE Get(t)
    BY <1>1, <1>2, <1>3, Calls DEF RobotsCalls, Get, Enter
  <1>4. ASSUME NEW c \in Call, Advance(c) PROVE RobotsCalls(s)'
    <2>1. CASE Lookup(c)
      <3>1. at[c] = "lookup" /\ url' = url
        BY <2>1 DEF Lookup
      <3>2. PICK label \in {"load", "wait"} : at' = [at EXCEPT ![c] = label]
        BY <2>1 DEF Lookup
      <3>3. at'[Robot(s)] # "idle" => url'[Robot(s)] \in RobotsUrl
        BY <1>1, <1>2, <3>1, <3>2, Calls DEF RobotsCalls
      <3>4. at'[Main(s)] \in Computing /\ url'[Main(s)] \in RobotsUrl
                => ~robots'[s] /\ at'[Main(s)] # "robot"
        <4>1. CASE c = Main(s)
          BY <1>2, <2>1, <3>1, <3>2, <4>1, Calls DEF Lookup
        <4>2. CASE c # Main(s)
          <5>1. robots'[s] = robots[s] \/ ~robots'[s]
            BY <1>2, <2>1 DEF Lookup
          <5>2. at'[Main(s)] = at[Main(s)]
            BY <1>2, <3>2, <4>2
          <5> QED
            BY <1>1, <3>1, <5>1, <5>2 DEF RobotsCalls
        <4> QED
          BY <4>1, <4>2
      <3> QED
        BY <3>3, <3>4 DEF RobotsCalls
    <2>2. CASE Hit(c)
      BY <1>1, <1>2, <2>2, Calls DEF RobotsCalls, Hit
    <2>3. CASE Miss(c)
      <3>1. PICK m \in Task : c[1] = m /\ (c = Main(m) \/ c = Robot(m))
        BY Calls
      <3>2. CASE c = Main(m) /\ robots[m] /\ Enter(Robot(m), RobotsOf[url[c]])
                 /\ at' = [at EXCEPT ![c] = "robot", ![Robot(m)] = "lookup"]
        <4>1. RobotsOf[url[c]] \in RobotsUrl
          BY <1>2, RobotsOfAssumption
        <4>2. url[Main(m)] \notin RobotsUrl
          BY <2>3, <3>2 DEF RobotsInv, Miss
        <4>3. robots' = robots
          BY <2>3 DEF Miss
        <4>4. CASE s = m
          BY <1>2, <3>2, <4>1, <4>2, <4>3, <4>4, Calls DEF RobotsCalls, Enter
        <4>5. CASE s # m
          BY <1>1, <1>2, <3>2, <4>3, <4>5, Calls DEF RobotsCalls, Enter
        <4> QED
          BY <4>4, <4>5
      <3>3. CASE at' = [at EXCEPT ![c] = "fetch"] /\ url' = url
        BY <1>1, <1>2, <2>3, <3>3, Calls DEF RobotsCalls, Miss
      <3> QED
        BY <2>3, <3>1, <3>2, <3>3, Calls DEF Miss
    <2>4. CASE Fetch(c)
      BY <1>1, <1>2, <2>4, Calls DEF RobotsCalls, Fetch
    <2>5. CASE Follow(c)
      <3>1. at[c] = "wait" /\ slot[url[c]].kind = "redirect"
        BY <2>5 DEF Follow, Redirected, Ready
      <3>2. /\ at' = [at EXCEPT ![c] = "lookup"] /\ robots' = robots
            /\ url' = [url EXCEPT ![c] = slot[url[c]].to]
        BY <2>5 DEF Follow
      <3>3. c = Robot(s) => slot[url[c]].to \in RobotsUrl
        BY <1>1, <3>1 DEF RobotsCalls, RobotsInv, RobotsEntry
      <3> QED
        BY <1>1, <1>2, <3>1, <3>2, <3>3, Calls DEF RobotsCalls
    <2> QED
      BY <1>4, <2>1, <2>2, <2>3, <2>4, <2>5 DEF Advance
  <1>5. CASE Allow(t) \/ Refuse(t)
    <2>1. url' = url /\ robots' = robots
      BY <1>5 DEF Allow, Refuse
    <2>2. PICK label \in {"fetch", "wait"} :
              at' = [at EXCEPT ![Robot(t)] = "idle", ![Main(t)] = label]
      BY <1>5 DEF Allow, Refuse
    <2>3. at[Main(t)] = "robot"
      BY <1>5 DEF SlotInv, Typed, Nesting, Allow, Refuse, Finished, Ready
    <2>4. CASE s = t
      BY <1>1, <1>2, <2>1, <2>2, <2>3, <2>4, Calls DEF RobotsCalls
    <2>5. CASE s # t
      BY <1>1, <1>2, <2>1, <2>2, <2>5, Calls DEF RobotsCalls
    <2> QED
      BY <2>4, <2>5
  <1>6. CASE Return(t)
    BY <1>1, <1>2, <1>6, Calls DEF RobotsCalls, Return
  <1> QED
    BY <1>3, <1>4, <1>5, <1>6, Calls DEF Step

LEMMA InitRobotsInv ==
    ASSUME RobotsStayRobots, Init
    PROVE  RobotsInv
PROOF
  <1>1. ASSUME NEW u \in RobotsUrl PROVE RobotsEntry(global[u])
    BY UrlAssumption, PlainEntries DEF Init, RobotsStayRobots, RobotsEntry
  <1>2. ASSUME NEW u \in RobotsUrl PROVE RobotsEntry(slot[u])
    BY UrlAssumption, PlainEntries DEF Init
  <1>3. ASSUME NEW t \in Task PROVE at[Main(t)] = "idle" /\ at[Robot(t)] = "idle"
    BY Calls DEF Init
  <1> QED
    BY <1>1, <1>2, <1>3 DEF RobotsInv, Computing

\* A claimed slot of a robots.txt URL is computed by a task that waits for
\* nothing, and that of any other URL by one that waits, if at all, for the slot
\* of a robots.txt URL.
LEMMA NoCycle ==
    ASSUME SlotInv, RobotsInv
    PROVE  NoDeadlock
PROOF
  <1> SUFFICES ASSUME NEW tasks \in (SUBSET Task) \ {{}},
                      \A t \in tasks : WaitsFor(t, tasks)
               PROVE  FALSE
    BY DEF NoDeadlock
  \* The computing call of an awaited slot is a main call that awaits robots.txt.
  <1>1. ASSUME NEW t \in tasks, NEW c \in Call, at[c] = "wait",
               slot[url[c]].kind = "claimed", slot[url[c]].by[1] \in tasks
        PROVE  \E s \in tasks :
                  /\ at[Main(s)] = "robot" /\ url[Main(s)] = url[c]
                  /\ at[Robot(s)] = "wait" /\ slot[url[Robot(s)]].kind = "claimed"
                  /\ slot[url[Robot(s)]].by[1] \in tasks
    <2>1. PICK d \in Call : d = slot[url[c]].by
      BY <1>1, Entries DEF SlotInv, Typed, TypeOK
    <2>2. at[d] \in Computing /\ url[d] = url[c] /\ d[1] \in tasks
      BY <1>1, <2>1 DEF SlotInv, Typed, TypeOK, ClaimsMatch, Computes
    <2>3. PICK s \in tasks : s = d[1] /\ (d = Main(s) \/ d = Robot(s))
      BY <2>2, Calls
    <2>4. PICK e \in {Main(s), Robot(s)} :
              /\ at[e] = "wait" /\ slot[url[e]].kind = "claimed"
              /\ slot[url[e]].by[1] \in tasks
      BY DEF WaitsFor
    <2>5. e = Robot(s) /\ d = Main(s) /\ at[d] = "robot"
      BY <2>2, <2>3, <2>4 DEF SlotInv, Typed, Nesting, Computing
    <2> QED
      BY <2>2, <2>4, <2>5
  <1>2. PICK t \in tasks : TRUE
    OBVIOUS
  <1>3. PICK c \in Call : at[c] = "wait" /\ slot[url[c]].kind = "claimed"
                              /\ slot[url[c]].by[1] \in tasks
    BY Calls DEF WaitsFor
  <1>4. PICK s \in tasks :
            /\ at[Robot(s)] = "wait" /\ slot[url[Robot(s)]].kind = "claimed"
            /\ slot[url[Robot(s)]].by[1] \in tasks
    BY <1>1, <1>2, <1>3
  <1>5. url[Robot(s)] \in RobotsUrl
    BY <1>4 DEF RobotsInv
  <1>6. PICK r \in tasks : at[Main(r)] = "robot" /\ url[Main(r)] = url[Robot(s)]
    BY <1>1, <1>4, Calls
  <1> QED
    BY <1>5, <1>6 DEF RobotsInv, Computing

\* No set of tasks waits for itself while the robots.txt URLs redirect to
\* robots.txt URLs only: the condition that the run on a short link breaks.
THEOREM DeadlockFree ==
    ASSUME RobotsStayRobots
    PROVE  Spec => []NoDeadlock
PROOF
  <1>1. Init => RobotsInv
    BY InitRobotsInv
  <1>2. SlotInv /\ RobotsInv /\ [Next]_vars => RobotsInv'
    <2>1. ASSUME SlotInv, RobotsInv, NEW t \in Task, Step(t)
          PROVE  RobotsInv'
      <3>1. \A s \in Task : RobotsCalls(s)'
        BY <2>1, StepRobotsCalls
      <3>2. \A u \in RobotsUrl : RobotsEntry(slot'[u]) /\ RobotsEntry(global'[u])
        BY <2>1, StepRobotsEntries
      <3> QED
        BY <3>1, <3>2 DEF RobotsInv, RobotsCalls, RobotsEntry
    <2>2. ASSUME RobotsInv, UNCHANGED vars PROVE RobotsInv'
      BY <2>2 DEF RobotsInv, RobotsEntry, vars
    <2> QED
      BY <2>1, <2>2 DEF Next
  <1>3. SlotInv /\ RobotsInv => NoDeadlock
    BY NoCycle
  <1> QED
    BY <1>1, <1>2, <1>3, SlotInvariant, PTL DEF Spec

-----------------------------------------------------------------------------
(***************************************************************************)
(* Progress.  That every get returns rests on fairness, which is beyond    *)
(* the prover; what is proved is that a client with links left to get can  *)
(* always go on, and that no task can go on forever.                       *)
(***************************************************************************)

\* A slot that a call waits for is claimed or filled: it is never given up.
Awaited == \A c \in Call : at[c] = "wait" => slot[url[c]] # Empty

LEMMA SlotsStayTaken ==
    ASSUME SlotInv, [Next]_vars, NEW u \in Url, slot[u] # Empty
    PROVE  slot'[u] # Empty
PROOF
  <1>1. ASSUME NEW c \in Call, NEW result \in Result, Fill(c, result) PROVE slot'[u] # Empty
    BY <1>1, Kinds DEF SlotInv, Typed, TypeOK, Fill
  <1>2. ASSUME NEW c \in Call, Advance(c) PROVE slot'[u] # Empty
    <2>1. CASE Lookup(c)
      BY <2>1, Kinds DEF SlotInv, Typed, TypeOK, Lookup
    <2>2. CASE Hit(c)
      <3>1. global[url[c]] \in Result
        BY <2>2, Kinds DEF SlotInv, Typed, TypeOK, Hit
      <3> QED
        BY <1>1, <2>2, <3>1 DEF Hit
    <2>3. CASE Fetch(c)
      <3>1. PICK answer \in Serves[url[c]] : Fill(c, answer)
        BY <2>3 DEF Fetch
      <3>2. answer \in Result
        BY <3>1, ServesResults DEF SlotInv, Typed, TypeOK
      <3> QED
        BY <1>1, <3>1, <3>2
    <2>4. CASE Miss(c) \/ Follow(c)
      BY <2>4 DEF Miss, Follow
    <2> QED
      BY <1>2, <2>1, <2>2, <2>3, <2>4 DEF Advance
  <1>3. ASSUME NEW t \in Task, Refuse(t) PROVE slot'[u] # Empty
    <2>1. PICK error \in Refusal(Outcome(Robot(t)), url[Main(t)]) : Fill(Main(t), error)
      BY <1>3 DEF Refuse
    <2>2. slot[url[Robot(t)]] \in Result /\ url[Main(t)] \in Url
      BY <1>3, Entries, Calls DEF SlotInv, Typed, TypeOK, Refuse, Finished, Ready
    <2>3. error \in Result
      BY <2>1, <2>2, RefusalsAreErrors DEF Outcome, Result
    <2> QED
      BY <1>1, <2>1, <2>3, Calls
  <1>4. ASSUME NEW t \in Task, Get(t) \/ Allow(t) \/ Return(t) PROVE slot'[u] # Empty
    BY <1>4 DEF Get, Allow, Return
  <1> QED
    BY <1>2, <1>3, <1>4, Calls DEF Next, Step, vars

LEMMA StepAwaited ==
    ASSUME SlotInv, SlotInv', Awaited, NEW t \in Task, Step(t)
    PROVE  Awaited'
PROOF
  <1> SUFFICES ASSUME NEW d \in Call, at'[d] = "wait" PROVE slot'[url'[d]] # Empty
    BY DEF Awaited
  <1>1. url[d] \in Url /\ [Next]_vars
    BY DEF SlotInv, Typed, TypeOK, Next
  <1>2. CASE at[d] = "wait" /\ url'[d] = url[d]
    BY <1>1, <1>2, SlotsStayTaken DEF Awaited
  <1>3. ASSUME NEW c \in Call, Advance(c) PROVE slot'[url'[d]] # Empty
    <2>1. CASE Lookup(c)
      <3>1. url' = url /\ (d # c => at'[d] = at[d])
        BY <2>1 DEF SlotInv, Typed, TypeOK, Lookup
      <3>2. CASE d = c
        BY <2>1, <3>1, <3>2, Kinds DEF SlotInv, Typed, TypeOK, Lookup
      <3> QED
        BY <1>2, <3>1, <3>2
    <2>2. CASE Hit(c)
      <3>1. url' = url /\ (d # c => at'[d] = at[d])
        BY <2>2 DEF SlotInv, Typed, TypeOK, Hit
      <3>2. CASE d = c
        <4>1. slot'[url[c]] = global[url[c]] /\ global[url[c]] \in Result
          BY <2>2, Kinds DEF SlotInv, Typed, TypeOK, Hit, Fill
        <4> QED
          BY <3>1, <3>2, <4>1, Kinds
      <3> QED
        BY <1>2, <3>1, <3>2
    <2>3. CASE Fetch(c)
      <3>1. url' = url /\ (d # c => at'[d] = at[d])
        BY <2>3 DEF SlotInv, Typed, TypeOK, Fetch
      <3>2. CASE d = c
        <4>1. PICK answer \in Serves[url[c]] : Fill(c, answer)
          BY <2>3 DEF Fetch
        <4>2. answer \in Result /\ url[c] \in Url
          BY <4>1, ServesResults DEF SlotInv, Typed, TypeOK
        <4>3. slot'[url[c]] = answer
          BY <4>1, <4>2 DEF SlotInv, Typed, TypeOK, Fill
        <4> QED
          BY <3>1, <3>2, <4>2, <4>3, Kinds
      <3> QED
        BY <1>2, <3>1, <3>2
    <2>4. CASE Miss(c)
      <3>1. at'[d] \in {at[d], "robot", "lookup", "fetch"}
        <4>1. \/ at' = [at EXCEPT ![c] = "robot", ![Robot(c[1])] = "lookup"]
              \/ at' = [at EXCEPT ![c] = "fetch"]
          BY <2>4 DEF Miss
        <4> QED
          BY <4>1 DEF SlotInv, Typed, TypeOK
      <3>2. at[d] = "wait"
        BY <1>3, <3>1
      <3>3. at[c] = "load" /\ d # c
        BY <2>4, <3>2 DEF Miss
      <3>4. url'[d] = url[d]
        <4>1. CASE at' = [at EXCEPT ![c] = "robot", ![Robot(c[1])] = "lookup"]
                   /\ Enter(Robot(c[1]), RobotsOf[url[c]])
          <5>1. d # Robot(c[1])
            BY <4>1, Calls DEF SlotInv, Typed, TypeOK
          <5> QED
            BY <4>1, <5>1 DEF SlotInv, Typed, TypeOK, Enter
        <4>2. CASE url' = url
          BY <4>2
        <4> QED
          BY <2>4, <4>1, <4>2 DEF Miss
      <3> QED
        BY <1>2, <3>2, <3>4
    <2>5. CASE Follow(c)
      <3>1. d # c /\ at'[d] = at[d] /\ url'[d] = url[d]
        BY <2>5 DEF SlotInv, Typed, TypeOK, Follow
      <3> QED
        BY <1>2, <3>1
    <2> QED
      BY <1>3, <2>1, <2>2, <2>3, <2>4, <2>5 DEF Advance
  <1>4. CASE Refuse(t)
    <2>1. url' = url /\ (d # Main(t) => at[d] = "wait")
      BY <1>4, Calls DEF SlotInv, Typed, TypeOK, Refuse
    <2>2. CASE d = Main(t)
      <3>1. PICK error \in Refusal(Outcome(Robot(t)), url[Main(t)]) : Fill(Main(t), error)
        BY <1>4 DEF Refuse
      <3>2. slot[url[Robot(t)]] \in Result /\ url[Main(t)] \in Url
        BY <1>4, Entries, Calls DEF SlotInv, Typed, TypeOK, Refuse, Finished, Ready
      <3>3. error \in Result
        BY <3>1, <3>2, RefusalsAreErrors DEF Outcome, Result
      <3>4. slot'[url[Main(t)]] = error
        BY <3>1, <3>2 DEF SlotInv, Typed, TypeOK, Fill
      <3> QED
        BY <2>1, <2>2, <3>3, <3>4, Kinds
    <2> QED
      BY <1>2, <2>1, <2>2
  <1>5. CASE Allow(t) \/ Return(t)
    BY <1>2, <1>5, Calls, ZenonT(30) DEF SlotInv, Typed, TypeOK, Allow, Return
  <1>6. CASE Get(t)
    <2>1. d # Main(t) /\ at'[d] = at[d] /\ url'[d] = url[d]
      BY <1>6, Calls DEF SlotInv, Typed, TypeOK, Get, Enter
    <2> QED
      BY <1>2, <2>1
  <1> QED
    BY <1>3, <1>4, <1>5, <1>6, Calls DEF Step

LEMMA AwaitedInvariant == Spec => []Awaited
PROOF
  <1>1. Init => Awaited
    BY DEF Init, Awaited
  <1>2. SlotInv /\ SlotInv' /\ Awaited /\ [Next]_vars => Awaited'
    <2>1. ASSUME Awaited, UNCHANGED vars PROVE Awaited'
      BY <2>1 DEF Awaited, vars
    <2> QED
      BY <2>1, StepAwaited DEF Next
  <1> QED
    BY <1>1, <1>2, SlotInvariant, PTL DEF Spec

\* What a task does next is there to be done: only a wait for a claimed slot holds it up.
Runs(c) == at[c] \in {"lookup", "load", "fetch"} \/ Ready(c)
Runnable(t) == (at[Main(t)] = "idle" /\ todo[t] # <<>>) \/ Runs(Main(t)) \/ Runs(Robot(t))
NeverStuck == Done \/ \E t \in Task : Runnable(t)

\* If no task can go on, the tasks that are not done wait for each other.
LEMMA StuckIsDeadlock ==
    ASSUME SlotInv, Awaited, NoDeadlock
    PROVE  NeverStuck
PROOF
  <1> SUFFICES ASSUME ~ Done, \A t \in Task : ~ Runnable(t) PROVE FALSE
    BY DEF NeverStuck
  <1> DEFINE tasks == {t \in Task : at[Main(t)] # "idle"}
  <1>1. tasks \in (SUBSET Task) \ {{}}
    BY DEF Done, Runnable
  \* A call that does not run waits for a task that is under way.
  <1>2. ASSUME NEW c \in Call, at[c] = "wait", ~ Ready(c)
        PROVE  slot[url[c]].kind = "claimed" /\ slot[url[c]].by[1] \in tasks
    <2>1. url[c] \in Url /\ slot[url[c]].kind = "claimed" /\ slot[url[c]].by \in Call
      BY <1>2, Entries DEF SlotInv, Typed, TypeOK, Awaited, Ready
    <2>2. PICK d \in Call : d = slot[url[c]].by
      BY <2>1
    <2>3. at[d] \in Computing
      BY <2>1, <2>2 DEF SlotInv, ClaimsMatch, Computes
    <2>4. d[1] \in Task /\ (d = Main(d[1]) \/ d = Robot(d[1]))
      BY Calls
    <2>5. at[Main(d[1])] # "idle"
      BY <2>3, <2>4 DEF SlotInv, Typed, Nesting, Computing
    <2> QED
      BY <2>1, <2>2, <2>4, <2>5
  <1>3. ASSUME NEW t \in tasks PROVE WaitsFor(t, tasks)
    <2>1. at[Main(t)] \in Label /\ at[Robot(t)] \in Label /\ Main(t) \in Call /\ Robot(t) \in Call
      BY Calls DEF SlotInv, Typed, TypeOK
    <2>2. at[Main(t)] \in {"wait", "robot"}
      BY <2>1 DEF Runnable, Runs, Label
    <2>3. at[Main(t)] = "robot" => at[Robot(t)] = "wait"
      BY <2>1 DEF Runnable, Runs, Label, SlotInv, Typed, Nesting
    <2>4. ~ Ready(Main(t)) /\ ~ Ready(Robot(t))
      BY DEF Runnable, Runs
    <2>5. CASE at[Main(t)] = "wait"
      BY <1>2, <2>1, <2>4, <2>5 DEF WaitsFor
    <2>6. CASE at[Robot(t)] = "wait"
      BY <1>2, <2>1, <2>4, <2>6 DEF WaitsFor
    <2> QED
      BY <2>2, <2>3, <2>5, <2>6
  <1> HIDE DEF tasks
  <1> QED
    BY <1>1, <1>3 DEF NoDeadlock

\* A claim is never left behind, so a circle of waits is all that could ever stop the tasks;
\* and there is none while robots.txt URLs redirect to robots.txt URLs only.
THEOREM GoesOn ==
    /\ Spec => [](NoDeadlock => NeverStuck)
    /\ RobotsStayRobots => (Spec => []NeverStuck)
PROOF
  <1>1. SlotInv /\ Awaited => (NoDeadlock => NeverStuck)
    BY StuckIsDeadlock
  <1>2. Spec => [](NoDeadlock => NeverStuck)
    BY <1>1, SlotInvariant, AwaitedInvariant, PTL
  <1>3. ASSUME RobotsStayRobots PROVE Spec => []NeverStuck
    <2>1. Spec => []NoDeadlock
      BY <1>3, DeadlockFree
    <2> QED
      BY <1>2, <2>1, PTL
  <1> QED
    BY <1>2, <1>3

-----------------------------------------------------------------------------
\* How many steps a task has left at most: of the get of a robots.txt that is at `label` and
\* may read h slots, of the get of a link around it, and of n links.
Iterations == MaxRedirects + 1
RobotSteps(h, label) ==
    4 * h + (IF label = "lookup" THEN 3 ELSE IF label = "load" THEN 2
             ELSE IF label = "fetch" THEN 1 ELSE 0)
Span == 4 * Iterations + 8
MainSteps(h, label, steps) ==
    Span * h + (IF label = "lookup" THEN Span - 1 ELSE IF label = "load" THEN Span - 2
                ELSE IF label = "robot" THEN 2 + steps ELSE IF label = "fetch" THEN 1 ELSE 0)
Stretch == Span * (Iterations + 1) + 1
TaskSteps(n, label, steps) ==
    IF label = "idle" THEN Stretch * n ELSE Stretch * (n - 1) + 1 + steps

RobotLeft(t) == RobotSteps(hops[Robot(t)], at[Robot(t)])
MainLeft(t) == MainSteps(hops[Main(t)], at[Main(t)], RobotLeft(t))
TaskLeft(t) == TaskSteps(Len(todo[t]), at[Main(t)], MainLeft(t))

\* A step leaves one task fewer steps, and the others as many as they had.
Advances ==
    \E t \in Task :
        /\ TaskLeft(t)' < TaskLeft(t)
        /\ \A s \in Task \ {t} : TaskLeft(s)' = TaskLeft(s)
LeftIsFinite == \A t \in Task : TaskLeft(t) \in Nat

LEMMA Numbers ==
    /\ Iterations \in Nat /\ Iterations >= 1 /\ Span \in Nat /\ Span = 4 * Iterations + 8
    /\ Stretch \in Nat /\ Stretch = Span * (Iterations + 1) + 1 /\ Span * (Iterations + 1) \in Nat
    /\ \A h \in 0 .. Iterations : /\ Span * h \in Nat
                                  /\ Span * h + Span <= Span * (Iterations + 1)
                                  /\ Span * (h - 1) = Span * h - Span
    /\ \A n \in Nat : Stretch * n \in Nat /\ Stretch * (n - 1) = Stretch * n - Stretch
PROOF
  <1>1. Iterations \in Nat /\ Iterations >= 1 /\ Span \in Nat /\ Span = 4 * Iterations + 8
    BY MaxRedirectsAssumption DEF Iterations, Span
  <1> HIDE DEF Iterations, Span
  <1>2. Span * (Iterations + 1) \in Nat
    BY <1>1
  <1>3. Stretch \in Nat /\ Stretch = Span * (Iterations + 1) + 1
    BY <1>2 DEF Stretch
  <1>4. ASSUME NEW h \in 0 .. Iterations
        PROVE  /\ Span * h \in Nat /\ Span * h + Span <= Span * (Iterations + 1)
               /\ Span * (h - 1) = Span * h - Span
    <2>1. PICK k \in Nat : h + k = Iterations
      <3>1. Iterations - h \in Nat /\ h + (Iterations - h) = Iterations
        BY <1>1
      <3> QED
        BY <3>1
    <2>2. Span * (Iterations + 1) = Span * h + Span * k + Span /\ Span * k \in Nat /\ Span * h \in Nat
      BY <1>1, <2>1
    <2>3. Span * (h - 1) = Span * h - Span
      BY <1>1
    <2> QED
      BY <1>1, <2>2, <2>3
  <1>5. ASSUME NEW n \in Nat
        PROVE  Stretch * n \in Nat /\ Stretch * (n - 1) = Stretch * n - Stretch
    <2> HIDE DEF Stretch
    <2> QED
      BY <1>3
  <1> QED
    BY <1>1, <1>2, <1>3, <1>4, <1>5

LEMMA RobotBound ==
    ASSUME NEW h \in 0 .. Iterations, NEW label
    PROVE  RobotSteps(h, label) \in Nat /\ RobotSteps(h, label) + 5 <= Span
BY Numbers DEF RobotSteps

LEMMA RobotFurther ==
    ASSUME NEW h \in 0 .. Iterations
    PROVE  /\ RobotSteps(h, "load") < RobotSteps(h, "lookup")
           /\ RobotSteps(h, "wait") < RobotSteps(h, "lookup")
           /\ RobotSteps(h, "fetch") < RobotSteps(h, "load")
           /\ RobotSteps(h, "wait") < RobotSteps(h, "load")
           /\ RobotSteps(h, "wait") < RobotSteps(h, "fetch")
           /\ RobotSteps(h - 1, "lookup") < RobotSteps(h, "wait")
BY Numbers DEF RobotSteps

\* What is left of the get of a robots.txt.
Rest == {n \in Nat : n + 5 <= Span}

LEMMA MainBound ==
    ASSUME NEW h \in 0 .. Iterations, NEW label, NEW n \in Rest
    PROVE  MainSteps(h, label, n) \in Nat /\ MainSteps(h, label, n) + 2 <= Stretch
PROOF
  <1>1. /\ Span \in Nat /\ Span >= 8 /\ Span * h \in Nat /\ Span * (Iterations + 1) \in Nat
        /\ Span * h + Span <= Span * (Iterations + 1)
        /\ Stretch = Span * (Iterations + 1) + 1 /\ n \in Nat /\ n + 5 <= Span
    BY Numbers DEF Rest
  <1> DEFINE m == Span * h
             top == Span * (Iterations + 1)
  <1>2. m \in Nat /\ top \in Nat /\ m + Span <= top /\ Stretch = top + 1
    BY <1>1
  <1>3. MainSteps(h, label, n) =
            m + (IF label = "lookup" THEN Span - 1 ELSE IF label = "load" THEN Span - 2
                 ELSE IF label = "robot" THEN 2 + n ELSE IF label = "fetch" THEN 1 ELSE 0)
    BY DEF MainSteps
  <1> HIDE DEF m, top
  <1> QED
    BY <1>1, <1>2, <1>3

LEMMA MainFurther ==
    ASSUME NEW h \in 0 .. Iterations, NEW n \in Rest, NEW k \in Rest
    PROVE  /\ MainSteps(h, "load", n) < MainSteps(h, "lookup", k)
           /\ MainSteps(h, "wait", n) < MainSteps(h, "lookup", k)
           /\ MainSteps(h, "robot", n) < MainSteps(h, "load", k)
           /\ MainSteps(h, "fetch", n) < MainSteps(h, "load", k)
           /\ MainSteps(h, "wait", n) < MainSteps(h, "load", k)
           /\ n < k => MainSteps(h, "robot", n) < MainSteps(h, "robot", k)
           /\ MainSteps(h, "fetch", n) < MainSteps(h, "robot", k)
           /\ MainSteps(h, "wait", n) < MainSteps(h, "robot", k)
           /\ MainSteps(h, "wait", n) < MainSteps(h, "fetch", k)
           /\ MainSteps(h - 1, "lookup", n) < MainSteps(h, "wait", k)
PROOF
  <1>1. /\ Span \in Nat /\ Span >= 8 /\ Span * h \in Nat /\ Span * (h - 1) = Span * h - Span
        /\ n \in Nat /\ n + 5 <= Span /\ k \in Nat /\ k + 5 <= Span
    BY Numbers DEF Rest
  <1> DEFINE m == Span * h
             l == Span * (h - 1)
  <1>2. m \in Nat /\ l = m - Span
    BY <1>1
  <1>3. \A i \in Rest : /\ MainSteps(h, "lookup", i) = m + (Span - 1)
                        /\ MainSteps(h, "load", i) = m + (Span - 2)
                        /\ MainSteps(h, "robot", i) = m + (2 + i)
                        /\ MainSteps(h, "fetch", i) = m + 1
                        /\ MainSteps(h, "wait", i) = m + 0
                        /\ MainSteps(h - 1, "lookup", i) = l + (Span - 1)
    BY DEF MainSteps
  <1> HIDE DEF m, l
  <1> QED
    BY <1>1, <1>2, <1>3

LEMMA TaskFurther ==
    ASSUME NEW n \in Nat, n >= 1,
           NEW i \in Nat, NEW j \in Nat, i + 2 <= Stretch, NEW a, NEW b, a # "idle"
    PROVE  /\ i < j /\ b # "idle" => TaskSteps(n, a, i) < TaskSteps(n, b, j)
           /\ TaskSteps(n, a, i) < TaskSteps(n, "idle", j)
           /\ TaskSteps(n - 1, "idle", j) < TaskSteps(n, a, i)
           /\ TaskSteps(n, a, i) \in Nat
PROOF
  <1>1. /\ Stretch \in Nat /\ Stretch * n \in Nat /\ Stretch * (n - 1) = Stretch * n - Stretch
        /\ Stretch * (n - 1) \in Nat
    <2>1. n - 1 \in Nat
      OBVIOUS
    <2> QED
      BY <2>1, Numbers
  <1> DEFINE m == Stretch * n
             l == Stretch * (n - 1)
  <1>2. m \in Nat /\ l = m - Stretch /\ l \in Nat
    BY <1>1
  <1>3. /\ TaskSteps(n, a, i) = l + 1 + i /\ (b # "idle" => TaskSteps(n, b, j) = l + 1 + j)
        /\ TaskSteps(n, "idle", j) = m /\ TaskSteps(n - 1, "idle", j) = l
    BY DEF TaskSteps
  <1> HIDE DEF m, l
  <1> QED
    BY <1>1, <1>2, <1>3

\* What the variables tell about task t in each state of a step.
LEMMA TaskParts ==
    ASSUME SlotInv, NEW t \in Task
    PROVE  /\ hops[Main(t)] \in 0 .. Iterations /\ hops[Robot(t)] \in 0 .. Iterations
           /\ Len(todo[t]) \in Nat /\ (at[Main(t)] # "idle" => Len(todo[t]) >= 1)
PROOF
  <1>1. hops[Main(t)] \in 0 .. Iterations /\ hops[Robot(t)] \in 0 .. Iterations
    BY Calls DEF SlotInv, Typed, TypeOK, Iterations
  <1>2. todo[t] \in Seq(Url)
    BY DEF SlotInv, Typed, TypeOK
  <1>3. Len(todo[t]) \in Nat /\ (todo[t] # <<>> => Len(todo[t]) >= 1)
    BY <1>2, LenProperties, EmptySeq
  <1> QED
    BY <1>1, <1>3 DEF SlotInv, Typed, Nesting

\* The get of a link goes on.
LEMMA MainGoesOn ==
    ASSUME SlotInv, NEW t \in Task, at[Main(t)] # "idle", at'[Main(t)] # "idle",
           todo' = todo, MainLeft(t) \in Nat, MainLeft(t)' \in Nat, MainLeft(t)' < MainLeft(t),
           MainLeft(t)' + 2 <= Stretch
    PROVE  TaskLeft(t)' < TaskLeft(t)
PROOF
  <1> DEFINE n == Len(todo[t])
             i == MainLeft(t)'
             j == MainLeft(t)
             a == at'[Main(t)]
             b == at[Main(t)]
  <1>1. n \in Nat /\ n >= 1 /\ i \in Nat /\ j \in Nat /\ i + 2 <= Stretch /\ i < j
        /\ a # "idle" /\ b # "idle"
    BY TaskParts
  <1>2. TaskLeft(t)' = TaskSteps(n, a, i) /\ TaskLeft(t) = TaskSteps(n, b, j)
    BY DEF TaskLeft
  <1> HIDE DEF n, i, j, a, b
  <1>3. TaskSteps(n, a, i) < TaskSteps(n, b, j)
    BY <1>1, TaskFurther
  <1> QED
    BY <1>2, <1>3

LEMMA StepAdvances ==
    ASSUME SlotInv, SlotInv', NEW t \in Task, Step(t)
    PROVE  TaskLeft(t)' < TaskLeft(t)
PROOF
  <1> DEFINE h == hops[Main(t)]
             r == RobotLeft(t)
             q == RobotLeft(t)'
             i == MainLeft(t)
             j == MainLeft(t)'
             n == Len(todo[t])
  <1>1. /\ h \in 0 .. Iterations /\ hops'[Main(t)] \in 0 .. Iterations
        /\ hops[Robot(t)] \in 0 .. Iterations /\ hops'[Robot(t)] \in 0 .. Iterations
    BY Calls DEF SlotInv, Typed, TypeOK, Iterations
  <1>2. r \in Rest /\ q \in Rest
    BY <1>1, RobotBound DEF RobotLeft, Rest
  <1>3. /\ i = MainSteps(h, at[Main(t)], r) /\ j = MainSteps(hops'[Main(t)], at'[Main(t)], q)
        /\ i \in Nat /\ i + 2 <= Stretch /\ j \in Nat /\ j + 2 <= Stretch
    BY <1>1, <1>2, MainBound DEF MainLeft
  <1>4. n \in Nat /\ (at[Main(t)] # "idle" => n >= 1)
    BY TaskParts
  <1>5. TaskLeft(t) = TaskSteps(n, at[Main(t)], i) /\ TaskLeft(t)' = TaskSteps(Len(todo'[t]), at'[Main(t)], j)
    BY DEF TaskLeft
  <1>6. /\ Main(t) \in Call /\ Robot(t) \in Call /\ Main(t) # Robot(t)
        /\ at \in [Call -> Label] /\ hops \in [Call -> 0 .. (MaxRedirects + 1)]
        /\ url \in [Call -> Url]
    BY Calls DEF SlotInv, Typed, TypeOK
  <1>7. CASE Get(t)
    <2>1. at[Main(t)] = "idle" /\ at'[Main(t)] = "lookup" /\ todo'[t] = todo[t]
      BY <1>6, <1>7 DEF Get
    <2>2. n >= 1
      <3>1. todo[t] \in Seq(Url) /\ todo[t] # <<>>
        BY <1>7 DEF Get, SlotInv, Typed, TypeOK
      <3> QED
        BY <3>1, LenProperties, EmptySeq
    <2> HIDE DEF i, j, n
    <2>3. TaskSteps(n, "lookup", j) < TaskSteps(n, "idle", i)
      BY <1>3, <1>4, <2>2, TaskFurther
    <2> QED
      BY <1>5, <2>1, <2>3 DEF n
  <1>8. CASE Return(t)
    <2>1. at[Main(t)] = "wait" /\ at'[Main(t)] = "idle" /\ todo'[t] = Tail(todo[t])
      BY <1>6, <1>8 DEF Return, Finished, Ready, SlotInv, Typed, TypeOK
    <2>2. Len(Tail(todo[t])) = n - 1 /\ n >= 1
      <3>1. todo[t] \in Seq(Url) /\ todo[t] # <<>>
        BY <2>1 DEF SlotInv, Typed, TypeOK, Nesting
      <3> QED
        BY <1>4, <2>1, <3>1, HeadTailProperties
    <2> HIDE DEF i, j, n
    <2>3. TaskSteps(n - 1, "idle", j) < TaskSteps(n, "wait", i)
      BY <1>3, <1>4, <2>2, TaskFurther
    <2> QED
      BY <1>5, <2>1, <2>2, <2>3
  \* The other steps go on with the get of a link.
  <1>9. ASSUME at[Main(t)] # "idle", at'[Main(t)] # "idle", todo' = todo, j < i
        PROVE  TaskLeft(t)' < TaskLeft(t)
    BY <1>3, <1>9, MainGoesOn
  <1>10. CASE Advance(Main(t))
    <2>1. CASE Lookup(Main(t))
      <3>1. /\ at[Main(t)] = "lookup" /\ at'[Main(t)] \in {"load", "wait"}
            /\ todo' = todo /\ hops' = hops
        BY <1>6, <2>1 DEF Lookup
      <3>2. j < i
        BY <1>1, <1>2, <1>3, <3>1, MainFurther
      <3> QED
        BY <1>9, <3>1, <3>2
    <2>2. CASE Hit(Main(t)) \/ Fetch(Main(t))
      <3>1. /\ at[Main(t)] \in {"load", "fetch"} /\ at'[Main(t)] = "wait"
            /\ todo' = todo /\ hops' = hops
        BY <1>6, <2>2 DEF Hit, Fetch
      <3>2. j < i
        BY <1>1, <1>2, <1>3, <3>1, MainFurther
      <3> QED
        BY <1>9, <3>1, <3>2
    <2>3. CASE Miss(Main(t))
      <3>1. /\ at[Main(t)] = "load" /\ at'[Main(t)] \in {"robot", "fetch"}
            /\ todo' = todo /\ hops'[Main(t)] = h
        BY <1>6, <2>3, Calls DEF Miss, Enter
      <3>2. j < i
        BY <1>1, <1>2, <1>3, <3>1, MainFurther
      <3> QED
        BY <1>9, <3>1, <3>2
    <2>4. CASE Follow(Main(t))
      <3>1. /\ at[Main(t)] = "wait" /\ at'[Main(t)] = "lookup"
            /\ todo' = todo /\ hops'[Main(t)] = h - 1
        BY <1>6, <2>4 DEF Follow, Redirected, Ready
      <3>2. j < i
        BY <1>1, <1>2, <1>3, <3>1, MainFurther
      <3> QED
        BY <1>9, <3>1, <3>2
    <2> QED
      BY <1>10, <2>1, <2>2, <2>3, <2>4 DEF Advance
  <1>11. CASE Advance(Robot(t))
    <2>1. at[Robot(t)] # "idle" /\ at[Main(t)] = "robot"
      <3>1. at[Robot(t)] # "idle"
        BY <1>11 DEF Advance, Lookup, Hit, Miss, Fetch, Follow, Redirected, Ready
      <3> QED
        BY <3>1 DEF SlotInv, Typed, Nesting
    <2>2. ~ Miss(Robot(t)) \/ (at' = [at EXCEPT ![Robot(t)] = "fetch"] /\ hops' = hops)
      BY Calls DEF Miss
    <2>3. at'[Main(t)] = at[Main(t)] /\ hops'[Main(t)] = h /\ todo' = todo
      BY <1>6, <1>11, <2>2 DEF Advance, Lookup, Hit, Fetch, Follow, Miss
    <2>4. q < r
      <3> DEFINE g == hops[Robot(t)]
      <3>1. r = RobotSteps(g, at[Robot(t)]) /\ q = RobotSteps(hops'[Robot(t)], at'[Robot(t)])
        BY DEF RobotLeft
      <3>2. CASE Lookup(Robot(t))
        <4>1. /\ at[Robot(t)] = "lookup" /\ at'[Robot(t)] \in {"load", "wait"}
              /\ hops'[Robot(t)] = g
          BY <1>6, <3>2 DEF Lookup
        <4> QED
          BY <1>1, <3>1, <4>1, RobotFurther
      <3>3. CASE Hit(Robot(t)) \/ Fetch(Robot(t))
        <4>1. /\ at[Robot(t)] \in {"load", "fetch"} /\ at'[Robot(t)] = "wait"
              /\ hops'[Robot(t)] = g
          BY <1>6, <3>3 DEF Hit, Fetch
        <4> QED
          BY <1>1, <3>1, <4>1, RobotFurther
      <3>4. CASE Miss(Robot(t))
        <4>1. at[Robot(t)] = "load" /\ at'[Robot(t)] = "fetch" /\ hops'[Robot(t)] = g
          BY <1>6, <2>2, <3>4 DEF Miss
        <4> QED
          BY <1>1, <3>1, <4>1, RobotFurther
      <3>5. CASE Follow(Robot(t))
        <4>1. at[Robot(t)] = "wait" /\ at'[Robot(t)] = "lookup" /\ hops'[Robot(t)] = g - 1
          BY <1>6, <3>5 DEF Follow, Redirected, Ready
        <4> QED
          BY <1>1, <3>1, <4>1, RobotFurther
      <3> QED
        BY <1>11, <3>2, <3>3, <3>4, <3>5 DEF Advance
    <2>5. j < i
      <3> HIDE DEF h, r, q, i, j
      <3>1. MainSteps(h, "robot", q) < MainSteps(h, "robot", r)
        BY <1>1, <1>2, <2>4, MainFurther
      <3> QED
        BY <1>3, <2>1, <2>3, <3>1
    <2> QED
      BY <1>9, <2>1, <2>3, <2>5
  <1>12. CASE Allow(t) \/ Refuse(t)
    <2>1. /\ at'[Main(t)] \in {"fetch", "wait"} /\ todo' = todo /\ hops' = hops
          /\ at[Robot(t)] = "wait"
      BY <1>6, <1>12 DEF Allow, Refuse, Finished, Ready
    <2>2. at[Main(t)] = "robot"
      BY <2>1 DEF SlotInv, Typed, Nesting
    <2>3. j < i
      BY <1>1, <1>2, <1>3, <2>1, <2>2, MainFurther
    <2> QED
      BY <1>9, <2>1, <2>2, <2>3
  <1> QED
    BY <1>7, <1>8, <1>10, <1>11, <1>12 DEF Step

LEMMA OthersUntouched ==
    ASSUME SlotInv, NEW t \in Task, Step(t), NEW s \in Task \ {t}
    PROVE  TaskLeft(s)' = TaskLeft(s)
PROOF
  <1>1. /\ at'[Main(s)] = at[Main(s)] /\ at'[Robot(s)] = at[Robot(s)]
        /\ hops'[Main(s)] = hops[Main(s)] /\ hops'[Robot(s)] = hops[Robot(s)] /\ todo'[s] = todo[s]
    <2>1. /\ Main(s) \in Call /\ Robot(s) \in Call /\ Main(s) \notin {Main(t), Robot(t)}
          /\ Robot(s) \notin {Main(t), Robot(t)}
          /\ at \in [Call -> Label] /\ hops \in [Call -> 0 .. (MaxRedirects + 1)]
          /\ todo \in [Task -> Seq(Url)]
          /\ Main(t)[1] = t /\ Robot(t)[1] = t
      BY Calls DEF SlotInv, Typed, TypeOK
    <2>2. CASE Get(t) \/ Allow(t) \/ Refuse(t) \/ Return(t)
      BY <2>1, <2>2 DEF Get, Enter, Allow, Refuse, Return
    <2>3. ASSUME NEW c \in {Main(t), Robot(t)}, Advance(c)
          PROVE  /\ at'[Main(s)] = at[Main(s)] /\ at'[Robot(s)] = at[Robot(s)]
                 /\ hops'[Main(s)] = hops[Main(s)] /\ hops'[Robot(s)] = hops[Robot(s)]
                 /\ todo'[s] = todo[s]
      <3>1. Main(s) # c /\ Robot(s) # c /\ Robot(c[1]) = Robot(t)
        BY <2>1
      <3>2. CASE Miss(c)
        BY <2>1, <3>1, <3>2 DEF Miss, Enter
      <3>3. CASE Lookup(c) \/ Hit(c) \/ Fetch(c) \/ Follow(c)
        BY <2>1, <3>1, <3>3 DEF Lookup, Hit, Fetch, Follow
      <3> QED
        BY <2>3, <3>2, <3>3 DEF Advance
    <2> QED
      BY <2>2, <2>3 DEF Step
  <1> QED
    BY <1>1 DEF TaskLeft, MainLeft, RobotLeft

\* Every step takes one task further, through redirect loops and the robots.txt on their way,
\* for every web, program and bound of redirects.
THEOREM EveryStepAdvances == Spec => [][Advances]_vars
PROOF
  <1>1. SlotInv /\ SlotInv' /\ [Next]_vars => [Advances]_vars
    BY StepAdvances, OthersUntouched DEF Next, Advances
  <1> QED
    BY <1>1, SlotInvariant, PTL DEF Spec

\* And a task has only so many steps left: with EveryStepAdvances, that every run ends.
THEOREM StepsAreBounded == Spec => []LeftIsFinite
PROOF
  <1>1. SlotInv => LeftIsFinite
    <2> SUFFICES ASSUME SlotInv, NEW t \in Task PROVE TaskLeft(t) \in Nat
      BY DEF LeftIsFinite
    <2>1. /\ hops[Main(t)] \in 0 .. Iterations /\ hops[Robot(t)] \in 0 .. Iterations
          /\ Len(todo[t]) \in Nat /\ (at[Main(t)] # "idle" => Len(todo[t]) >= 1)
      BY TaskParts
    <2>2. RobotLeft(t) \in Rest
      BY <2>1, RobotBound DEF RobotLeft, Rest
    <2>3. MainLeft(t) \in Nat /\ MainLeft(t) + 2 <= Stretch
      BY <2>1, <2>2, MainBound DEF MainLeft
    <2> DEFINE i == MainLeft(t)
               n == Len(todo[t])
    <2>4. TaskLeft(t) = TaskSteps(n, at[Main(t)], i)
      BY DEF TaskLeft
    <2> HIDE DEF i
    <2>5. CASE at[Main(t)] = "idle"
      BY <2>1, <2>4, <2>5, Numbers DEF TaskSteps
    <2>6. CASE at[Main(t)] # "idle"
      BY <2>1, <2>3, <2>4, <2>6, TaskFurther DEF i
    <2> QED
      BY <2>5, <2>6
  <1> QED
    BY <1>1, SlotInvariant, PTL

-----------------------------------------------------------------------------
\* Every redirect of a table s of slots leads to a URL.
Sound(s) == \A u \in Url : s[u].kind = "redirect" => s[u].to \in Url

\* What f should be for n iterations from u, if it is right for fewer.
Unfolded(s, f, n, u) ==
    IF s[u].kind = "redirect" /\ n > 1 THEN f[n - 1][s[u].to] ELSE Final(s[u])

\* Up to n iterations, f gives the ends of the chains of s.
Ends(s, f, n) == \A m \in 0..n, u \in Url : f[m][u] = Unfolded(s, f, m, u)

\* A longer table of ends agrees with a shorter one.
LEMMA EndsAgree ==
    ASSUME NEW s, Sound(s), NEW k \in Nat, NEW l \in Nat, k <= l,
           NEW f, NEW g, Ends(s, f, k), Ends(s, g, l)
    PROVE  \A n \in 0..k, u \in Url : f[n][u] = g[n][u]
PROOF
  <1> DEFINE D == {n \in 0..k : \E u \in Url : f[n][u] # g[n][u]}
  <1>1. SUFFICES ASSUME D # {} PROVE FALSE
    OBVIOUS
  <1>2. PICK n \in D : \A m \in D : n <= m
    <2>1. D \subseteq Nat
      OBVIOUS
    <2> HIDE DEF D
    <2> QED
      BY <1>1, <2>1, LeastNumber
  <1>3. PICK u \in Url : f[n][u] # g[n][u]
    OBVIOUS
  <1>4. n \in 0..k /\ n \in 0..l /\ n \in Nat
    OBVIOUS
  <1>8. \A m \in 0..k, v \in Url : m \notin D => f[m][v] = g[m][v]
    OBVIOUS
  <1> HIDE DEF D
  <1>5. f[n][u] = Unfolded(s, f, n, u) /\ g[n][u] = Unfolded(s, g, n, u)
    BY <1>4 DEF Ends
  <1>6. CASE s[u].kind = "redirect" /\ n > 1
    <2>1. s[u].to \in Url /\ n - 1 \in 0..k /\ ~(n <= n - 1)
      BY <1>4, <1>6 DEF Sound
    <2>2. n - 1 \notin D
      BY <1>2, <2>1
    <2>3. f[n - 1][s[u].to] = g[n - 1][s[u].to]
      BY <1>8, <2>1, <2>2
    <2> QED
      BY <1>3, <1>5, <1>6, <2>3 DEF Unfolded
  <1>7. CASE ~(s[u].kind = "redirect" /\ n > 1)
    BY <1>3, <1>5, <1>7 DEF Unfolded
  <1> QED
    BY <1>6, <1>7

\* For every bound there is a table of ends.
LEMMA EndsExist ==
    ASSUME NEW s, Sound(s), NEW k \in Nat
    PROVE  \E f : Ends(s, f, k)
PROOF
  <1> DEFINE D == {n \in Nat : ~\E f : Ends(s, f, n)}
  <1>1. SUFFICES ASSUME D # {} PROVE FALSE
    OBVIOUS
  <1>2. PICK n \in D : \A m \in D : n <= m
    BY <1>1, LeastNumber
  <1>3. n \in Nat /\ ~\E f : Ends(s, f, n)
    OBVIOUS
  <1> HIDE DEF D
  <1>4. CASE n = 0
    <2> DEFINE f == [m \in 0..0 |-> [u \in Url |-> Final(s[u])]]
    <2>1. \A m \in 0..n, u \in Url : f[m][u] = Final(s[u]) /\ ~(m > 1)
      BY <1>4
    <2> HIDE DEF f
    <2>2. Ends(s, f, n)
      BY <2>1 DEF Ends, Unfolded
    <2> QED
      BY <1>3, <2>2
  <1>5. CASE n # 0
    <2>1. n - 1 \in Nat /\ ~(n <= n - 1)
      BY <1>3, <1>5
    <2>2. n - 1 \notin D
      BY <1>2, <2>1
    <2>3. PICK g : Ends(s, g, n - 1)
      BY <2>1, <2>2 DEF D
    <2> DEFINE f == [m \in 0..n |-> [u \in Url |-> Unfolded(s, g, m, u)]]
    <2>4. \A m \in 0..n, u \in Url : f[m][u] = Unfolded(s, g, m, u)
      OBVIOUS
    <2> HIDE DEF f
    <2>5. \A m \in 0..(n - 1), u \in Url : f[m][u] = g[m][u]
      <3>1. \A m \in 0..(n - 1) : m \in 0..n
        BY <1>3
      <3> QED
        BY <2>3, <2>4, <3>1 DEF Ends
    <2>6. ASSUME NEW m \in 0..n, NEW u \in Url
          PROVE  Unfolded(s, g, m, u) = Unfolded(s, f, m, u)
      <3>1. CASE s[u].kind = "redirect" /\ m > 1
        <4>1. m - 1 \in 0..(n - 1) /\ s[u].to \in Url
          BY <1>3, <3>1 DEF Sound
        <4>2. f[m - 1][s[u].to] = g[m - 1][s[u].to]
          BY <2>5, <4>1
        <4> QED
          BY <4>2 DEF Unfolded
      <3>2. CASE ~(s[u].kind = "redirect" /\ m > 1)
        BY <3>2 DEF Unfolded
      <3> QED
        BY <3>1, <3>2
    <2>7. Ends(s, f, n)
      BY <2>4, <2>6 DEF Ends
    <2> QED
      BY <1>3, <2>7
  <1> QED
    BY <1>4, <1>5

\* f is defined by recursion as `Chain` is.
Unfolds(s, f) ==
    f = [n \in Nat |-> [u \in Url |->
            IF s[u].kind = "redirect" /\ n > 1 THEN f[n - 1][s[u].to] ELSE Final(s[u])]]

LEMMA UnfoldingExists ==
    ASSUME NEW s, Sound(s)
    PROVE  \E f : Unfolds(s, f)
PROOF
  <1> DEFINE table(n) == CHOOSE g : Ends(s, g, n)
             f == [n \in Nat |-> [u \in Url |-> table(n)[n][u]]]
  <1>1. ASSUME NEW n \in Nat PROVE Ends(s, table(n), n)
    BY EndsExist
  <1>2. \A n \in Nat, u \in Url : f[n][u] = table(n)[n][u]
    OBVIOUS
  <1> HIDE DEF table
  <1>3. ASSUME NEW n \in Nat, NEW u \in Url
        PROVE  table(n)[n][u] = IF s[u].kind = "redirect" /\ n > 1
                                THEN f[n - 1][s[u].to] ELSE Final(s[u])
    <2> HIDE DEF f
    <2>1. table(n)[n][u] = Unfolded(s, table(n), n, u)
      BY <1>1 DEF Ends
    <2>2. CASE s[u].kind = "redirect" /\ n > 1
      <3>1. s[u].to \in Url /\ n - 1 \in Nat /\ n - 1 <= n /\ n - 1 \in 0..(n - 1)
        BY <2>2 DEF Sound
      <3>2. Ends(s, table(n - 1), n - 1) /\ Ends(s, table(n), n)
        BY <1>1, <3>1
      <3>3. \A m \in 0..(n - 1), v \in Url : table(n - 1)[m][v] = table(n)[m][v]
        <4>1. PICK j, f1, f2 : j \in Nat /\ j = n - 1 /\ f1 = table(j) /\ f2 = table(n)
          BY <3>1
        <4>2. j <= n /\ Ends(s, f1, j) /\ Ends(s, f2, n)
          BY <3>1, <3>2, <4>1
        <4>3. \A m \in 0..j, v \in Url : f1[m][v] = f2[m][v]
          BY <4>1, <4>2, EndsAgree
        <4> QED
          BY <4>1, <4>3
      <3>4. f[n - 1][s[u].to] = table(n - 1)[n - 1][s[u].to]
        BY <1>2, <3>1
      <3> QED
        BY <2>1, <2>2, <3>1, <3>3, <3>4 DEF Unfolded
    <2>3. CASE ~(s[u].kind = "redirect" /\ n > 1)
      BY <2>1, <2>3 DEF Unfolded
    <2> QED
      BY <2>2, <2>3
  <1>4. Unfolds(s, f)
    BY <1>3 DEF Unfolds
  <1> QED
    BY <1>4

\* The chains end as the slots say.
Chained == \A n \in Nat, u \in Url : Chain[n][u] = Unfolded(slot, Chain, n, u)

LEMMA ChainUnfolds ==
    ASSUME TypeOK
    PROVE  Sound(slot) /\ Chained
PROOF
  <1>1. Sound(slot)
    <2> SUFFICES ASSUME NEW u \in Url, slot[u].kind = "redirect"
                 PROVE  slot[u].to \in Url
      BY DEF Sound
    <2>1. slot[u] \in Result \cup {Empty} \cup {Claimed(c) : c \in Call}
      BY DEF TypeOK
    <2>2. HasResponse(slot[u])
      BY DEF HasResponse, HasResult, IsError
    <2> QED
      BY <2>1, <2>2, Kinds
  <1>2. Chain = CHOOSE f : Unfolds(slot, f)
    BY DEF Chain, Unfolds
  <1>3. Unfolds(slot, CHOOSE f : Unfolds(slot, f))
    BY <1>1, UnfoldingExists, Zenon
  <1>4. Unfolds(slot, Chain)
    BY <1>2, <1>3, Zenon
  <1>5. Chained
    BY <1>4 DEF Chained, Unfolds, Unfolded
  <1> QED
    BY <1>1, <1>5

-----------------------------------------------------------------------------
\* The iterations from o through the redirects of s, as the least set of pairs of
\* iterations left and a URL that holds the first and each next one.
Onward(s, T) ==
    \A n \in Nat, u \in Url :
        <<n, u>> \in T /\ n > 1 /\ s[u].kind = "redirect" => <<n - 1, s[u].to>> \in T
OnTrail(s, o, h, v) ==
    \A T \in SUBSET (Nat \X Url) : <<MaxRedirects + 1, o>> \in T /\ Onward(s, T) => <<h, v>> \in T

LEMMA TrailStart == \A s, o : OnTrail(s, o, MaxRedirects + 1, o)
BY DEF OnTrail

LEMMA TrailGoesOn ==
    ASSUME NEW s, NEW o, NEW h \in Nat, NEW v \in Url,
           OnTrail(s, o, h, v), h > 1, s[v].kind = "redirect"
    PROVE  OnTrail(s, o, h - 1, s[v].to)
BY DEF OnTrail, Onward

\* Every filled slot of s has its entry in r.
Grows(s, r) == \A u \in Url : HasResult(s[u]) => r[u] = s[u]

LEMMA TrailStays ==
    ASSUME NEW s, NEW r, Grows(s, r), NEW o, NEW h, NEW v, OnTrail(s, o, h, v)
    PROVE  OnTrail(r, o, h, v)
PROOF
  <1> SUFFICES ASSUME NEW T \in SUBSET (Nat \X Url), <<MaxRedirects + 1, o>> \in T,
                      Onward(r, T)
               PROVE  <<h, v>> \in T
    BY DEF OnTrail
  <1>1. \A u \in Url : s[u].kind = "redirect" => r[u] = s[u]
    BY DEF Grows, HasResult
  <1>2. Onward(s, T)
    BY <1>1 DEF Onward
  <1> QED
    BY <1>2 DEF OnTrail

\* A chain ends where any later part of it ends.
LEMMA TrailEnds ==
    ASSUME TypeOK, NEW o \in Url, NEW h \in Nat, NEW v \in Url, OnTrail(slot, o, h, v)
    PROVE  Settled(o) = Chain[h][v]
PROOF
  <1> DEFINE T == {p \in Nat \X Url : Chain[p[1]][p[2]] = Settled(o)}
  <1>1. T \in SUBSET (Nat \X Url) /\ <<MaxRedirects + 1, o>> \in T
    BY MaxRedirectsAssumption DEF Settled
  <1>2. Onward(slot, T)
    <2> SUFFICES ASSUME NEW n \in Nat, NEW u \in Url, <<n, u>> \in T, n > 1,
                        slot[u].kind = "redirect"
                 PROVE  <<n - 1, slot[u].to>> \in T
      BY DEF Onward
    <2>1. slot[u].to \in Url /\ n - 1 \in Nat
      BY ChainUnfolds DEF Sound
    <2>2. Chain[n][u] = Chain[n - 1][slot[u].to]
      BY ChainUnfolds DEF Chained, Unfolded
    <2>3. Chain[n][u] = Settled(o)
      OBVIOUS
    <2> QED
      BY <2>1, <2>2, <2>3
  <1> HIDE DEF T
  <1>3. <<h, v>> \in T
    BY <1>1, <1>2 DEF OnTrail
  <1> QED
    BY <1>3 DEF T

\* What a finished call brings back is the end of the chain it followed.
LEMMA OutcomeSettles ==
    ASSUME TypeOK, NEW o \in Url, NEW c \in Call, Finished(c),
           OnTrail(slot, o, hops[c], url[c])
    PROVE  Outcome(c) = Settled(o)
PROOF
  <1>1. hops[c] \in Nat /\ url[c] \in Url
    BY MaxRedirectsAssumption DEF TypeOK
  <1>2. Settled(o) = Chain[hops[c]][url[c]]
    BY <1>1, TrailEnds
  <1>3. Chain[hops[c]][url[c]] = Unfolded(slot, Chain, hops[c], url[c])
    BY <1>1, ChainUnfolds DEF Chained
  <1>4. ~(slot[url[c]].kind = "redirect" /\ hops[c] > 1)
    BY DEF Finished, Redirected
  <1> QED
    BY <1>2, <1>3, <1>4 DEF Unfolded, Outcome

\* An end that is a result stays.
LEMMA EndsStay ==
    ASSUME NEW s, NEW r, NEW f, NEW g, Sound(s), Grows(s, r),
           \A u \in Url : ~HasResult(s[u]) => Final(s[u]) \notin Result,
           \A n \in Nat, u \in Url : f[n][u] = Unfolded(s, f, n, u),
           \A n \in Nat, u \in Url : g[n][u] = Unfolded(r, g, n, u)
    PROVE  \A n \in Nat, u \in Url : f[n][u] \in Result => g[n][u] = f[n][u]
PROOF
  <1> DEFINE D == {n \in Nat : \E u \in Url : f[n][u] \in Result /\ g[n][u] # f[n][u]}
  <1>1. SUFFICES ASSUME D # {} PROVE FALSE
    OBVIOUS
  <1>2. PICK n \in D : \A m \in D : n <= m
    <2>1. D \subseteq Nat
      OBVIOUS
    <2> HIDE DEF D
    <2> QED
      BY <1>1, <2>1, LeastNumber
  <1>3. PICK u \in Url : f[n][u] \in Result /\ g[n][u] # f[n][u]
    OBVIOUS
  <1>4. n \in Nat
    OBVIOUS
  <1>5. \A m \in Nat, v \in Url : m \notin D /\ f[m][v] \in Result => g[m][v] = f[m][v]
    OBVIOUS
  <1> HIDE DEF D
  <1>6. f[n][u] = Unfolded(s, f, n, u) /\ g[n][u] = Unfolded(r, g, n, u)
    BY <1>4
  <1>7. CASE s[u].kind = "redirect" /\ n > 1
    <2>1. r[u] = s[u] /\ s[u].to \in Url
      BY <1>7 DEF Grows, HasResult, Sound
    <2>2. n - 1 \in Nat /\ n - 1 \notin D
      BY <1>2, <1>4, <1>7
    <2>3. f[n][u] = f[n - 1][s[u].to] /\ g[n][u] = g[n - 1][s[u].to]
      BY <1>6, <1>7, <2>1 DEF Unfolded
    <2> QED
      BY <1>3, <1>5, <2>1, <2>2, <2>3
  <1>8. CASE ~(s[u].kind = "redirect" /\ n > 1)
    <2>1. f[n][u] = Final(s[u])
      BY <1>6, <1>8 DEF Unfolded
    <2>2. r[u] = s[u]
      BY <1>3, <2>1 DEF Grows
    <2> QED
      BY <1>3, <1>6, <1>8, <2>1, <2>2 DEF Unfolded
  <1> QED
    BY <1>7, <1>8

LEMMA SettledStays ==
    ASSUME TypeOK, TypeOK', Grows(slot, slot'), NEW u \in Url, Settled(u) \in Result
    PROVE  Settled(u)' = Settled(u)
PROOF
  <1>1. Sound(slot) /\ Chained
    BY ChainUnfolds
  <1>2. Chained'
    <2>1. (TypeOK => Chained)'
      BY ChainUnfolds, PTL
    <2> QED
      BY <2>1
  <1>3. ASSUME NEW v \in Url, ~HasResult(slot[v])
        PROVE  Final(slot[v]) \notin Result
    <2>1. slot[v] = Empty \/ \E c \in Call : slot[v] = Claimed(c)
      BY <1>3, Kinds DEF TypeOK
    <2>2. Final(Empty) = Empty /\ \A c : Final(Claimed(c)) = Claimed(c)
      BY DEF Final, Empty, Claimed
    <2> QED
      BY <1>3, <2>1, <2>2, Kinds
  <1>4. \A n \in Nat, v \in Url : Chain[n][v] = Unfolded(slot, Chain, n, v)
    BY <1>1 DEF Chained
  <1>5. \A n \in Nat, v \in Url : Chain'[n][v] = Unfolded(slot', Chain', n, v)
    BY <1>2 DEF Chained, Unfolded
  <1>6. \A n \in Nat, v \in Url : Chain[n][v] \in Result => Chain'[n][v] = Chain[n][v]
    BY <1>1, <1>3, <1>4, <1>5, EndsStay
  <1> QED
    BY <1>6, MaxRedirectsAssumption DEF Settled

-----------------------------------------------------------------------------
\* Where the calls of a task under way are, they got to from the link of the task
\* and from the robots.txt URL of its main call's host.
MainTrail(t) ==
    at[Main(t)] # "idle" => OnTrail(slot, Head(todo[t]), hops[Main(t)], url[Main(t)])
RobotTrail(t) ==
    at[Robot(t)] # "idle" =>
        OnTrail(slot, RobotsOf[url[Main(t)]], hops[Robot(t)], url[Robot(t)])
Trails == \A t \in Task : MainTrail(t) /\ RobotTrail(t)

\* The step of a task that starts no call and leaves those under way in place.
LEMMA TrailsKept ==
    ASSUME Grows(slot, slot'), NEW t \in Task, MainTrail(t), RobotTrail(t), todo'[t] = todo[t],
           \A c \in {Main(t), Robot(t)} :
               /\ at'[c] # "idle" => at[c] # "idle"
               /\ url'[c] = url[c] /\ hops'[c] = hops[c]
    PROVE  MainTrail(t)' /\ RobotTrail(t)'
PROOF
  <1>1. at'[Main(t)] # "idle" => OnTrail(slot', Head(todo[t]), hops[Main(t)], url[Main(t)])
    BY TrailStays DEF MainTrail
  <1>2. at'[Robot(t)] # "idle" =>
            OnTrail(slot', RobotsOf[url[Main(t)]], hops[Robot(t)], url[Robot(t)])
    BY TrailStays DEF RobotTrail
  <1> QED
    BY <1>1, <1>2 DEF MainTrail, RobotTrail

\* The calls of other tasks stay where they are.
LEMMA OthersStay ==
    ASSUME TypeOK, NEW t \in Task, Step(t), NEW r \in Task, r # t
    PROVE  /\ todo'[r] = todo[r] /\ robots'[r] = robots[r]
           /\ \A c \in {Main(r), Robot(r)} :
                  at'[c] = at[c] /\ url'[c] = url[c] /\ hops'[c] = hops[c]
PROOF
  <1>1. /\ Main(r) # Main(t) /\ Main(r) # Robot(t) /\ Robot(r) # Main(t) /\ Robot(r) # Robot(t)
        /\ Main(r) \in Call /\ Robot(r) \in Call
    BY Calls
  <1>2. ASSUME NEW c \in {Main(t), Robot(t)}, Advance(c)
        PROVE  /\ todo'[r] = todo[r] /\ robots'[r] = robots[r]
               /\ \A d \in {Main(r), Robot(r)} :
                      at'[d] = at[d] /\ url'[d] = url[d] /\ hops'[d] = hops[d]
    <2>1. c[1] = t
      BY Calls
    <2>2. CASE Lookup(c)
      BY <1>1, <2>1, <2>2 DEF TypeOK, Lookup
    <2>3. CASE Hit(c) \/ Fetch(c)
      BY <1>1, <2>3 DEF TypeOK, Hit, Fetch
    <2>4. CASE Miss(c)
      BY <1>1, <2>1, <2>4 DEF TypeOK, Miss, Enter
    <2>5. CASE Follow(c)
      BY <1>1, <2>5 DEF TypeOK, Follow
    <2> QED
      BY <1>2, <2>2, <2>3, <2>4, <2>5 DEF Advance
  <1>3. CASE Get(t)
    BY <1>1, <1>3 DEF TypeOK, Get, Enter
  <1>4. CASE Allow(t) \/ Refuse(t)
    BY <1>1, <1>4 DEF TypeOK, Allow, Refuse
  <1>5. CASE Return(t)
    BY <1>1, <1>5 DEF TypeOK, Return
  <1> QED
    BY <1>2, <1>3, <1>4, <1>5 DEF Step

LEMMA StepTrails ==
    ASSUME Typed, Typed', Grows(slot, slot'), Trails, NEW t \in Task, Step(t)
    PROVE  Trails'
PROOF
  <1>1. ASSUME NEW r \in Task, r # t PROVE MainTrail(r)' /\ RobotTrail(r)'
    BY <1>1, OthersStay, TrailsKept DEF Typed, Trails
  <1>2. MainTrail(t)' /\ RobotTrail(t)'
    <2>1. MainTrail(t) /\ RobotTrail(t)
      BY DEF Trails
    <2>2. /\ Main(t) \in Call /\ Robot(t) \in Call /\ Main(t) # Robot(t)
          /\ at \in [Call -> Label] /\ url \in [Call -> Url]
          /\ hops \in [Call -> 0..(MaxRedirects + 1)]
      BY Calls DEF Typed, TypeOK
    <2>3. /\ at[Robot(t)] # "idle" <=> at[Main(t)] = "robot"
          /\ at'[Robot(t)] # "idle" <=> at'[Main(t)] = "robot"
      BY DEF Typed, Nesting
    <2>4. CASE Get(t)
      <3>1. /\ todo' = todo /\ url'[Main(t)] = Head(todo[t])
            /\ hops'[Main(t)] = MaxRedirects + 1 /\ at'[Main(t)] = "lookup"
        BY <2>2, <2>4 DEF Get, Enter
      <3>2. OnTrail(slot', Head(todo[t]), MaxRedirects + 1, Head(todo[t]))
        BY TrailStart
      <3> QED
        BY <2>3, <3>1, <3>2 DEF MainTrail, RobotTrail
    <2>5. ASSUME NEW c \in {Main(t), Robot(t)}, Lookup(c) \/ Hit(c) \/ Fetch(c)
          PROVE  MainTrail(t)' /\ RobotTrail(t)'
      <3>1. /\ todo' = todo /\ url' = url /\ hops' = hops /\ at[c] # "idle"
            /\ \A d \in Call : d # c => at'[d] = at[d]
        BY <2>2, <2>5 DEF Lookup, Hit, Fetch
      <3> QED
        BY <2>1, <2>2, <3>1, TrailsKept
    <2>6. ASSUME NEW c \in {Main(t), Robot(t)}, Miss(c)
          PROVE  MainTrail(t)' /\ RobotTrail(t)'
      <3>1. c[1] = t /\ (c[2] = "main" => c = Main(t)) /\ at[c] = "load" /\ todo' = todo
        BY <2>6, Calls DEF Miss
      <3>2. CASE at' = [at EXCEPT ![c] = "fetch"] /\ url' = url /\ hops' = hops
        BY <2>1, <2>2, <3>1, <3>2, TrailsKept
      <3>3. CASE c = Main(t) /\ Enter(Robot(t), RobotsOf[url[c]])
                 /\ at' = [at EXCEPT ![c] = "robot", ![Robot(t)] = "lookup"]
        <4>1. /\ url'[Main(t)] = url[Main(t)] /\ hops'[Main(t)] = hops[Main(t)]
              /\ url'[Robot(t)] = RobotsOf[url[Main(t)]] /\ hops'[Robot(t)] = MaxRedirects + 1
          BY <2>2, <3>3 DEF Enter
        <4>2. OnTrail(slot', RobotsOf[url[Main(t)]], MaxRedirects + 1, RobotsOf[url[Main(t)]])
          BY TrailStart
        <4>3. OnTrail(slot', Head(todo[t]), hops[Main(t)], url[Main(t)])
          BY <2>1, <3>1, <3>3, TrailStays DEF MainTrail
        <4> QED
          BY <3>1, <4>1, <4>2, <4>3 DEF MainTrail, RobotTrail
      <3> QED
        BY <2>6, <3>1, <3>2, <3>3 DEF Miss
    <2>7. ASSUME NEW c \in {Main(t), Robot(t)}, Follow(c)
          PROVE  MainTrail(t)' /\ RobotTrail(t)'
      <3>1. /\ at[c] = "wait" /\ slot[url[c]].kind = "redirect" /\ hops[c] > 1
            /\ todo' = todo /\ slot' = slot
            /\ url' = [url EXCEPT ![c] = slot[url[c]].to]
            /\ hops' = [hops EXCEPT ![c] = @ - 1] /\ at' = [at EXCEPT ![c] = "lookup"]
        BY <2>7 DEF Follow, Redirected, Ready
      <3>2. hops[c] \in Nat /\ url[c] \in Url
        BY <2>2, MaxRedirectsAssumption
      <3>3. CASE c = Main(t)
        <4>1. OnTrail(slot, Head(todo[t]), hops[c], url[c])
          BY <2>1, <3>1, <3>3 DEF MainTrail
        <4>2. OnTrail(slot, Head(todo[t]), hops[c] - 1, slot[url[c]].to)
          BY <3>1, <3>2, <4>1, TrailGoesOn
        <4>3. url'[c] = slot[url[c]].to /\ hops'[c] = hops[c] - 1 /\ at'[Main(t)] = "lookup"
          BY <2>2, <3>1, <3>3
        <4> QED
          BY <2>3, <3>1, <3>3, <4>2, <4>3 DEF MainTrail, RobotTrail
      <3>4. CASE c = Robot(t)
        <4>1. OnTrail(slot, RobotsOf[url[Main(t)]], hops[c], url[c])
          BY <2>1, <3>1, <3>4 DEF RobotTrail
        <4>2. OnTrail(slot, RobotsOf[url[Main(t)]], hops[c] - 1, slot[url[c]].to)
          BY <3>1, <3>2, <4>1, TrailGoesOn
        <4>3. /\ url'[c] = slot[url[c]].to /\ hops'[c] = hops[c] - 1
              /\ url'[Main(t)] = url[Main(t)] /\ hops'[Main(t)] = hops[Main(t)]
              /\ at'[Main(t)] = at[Main(t)]
          BY <2>2, <3>1, <3>4
        <4> QED
          BY <2>1, <3>1, <3>4, <4>2, <4>3 DEF MainTrail, RobotTrail
      <3> QED
        BY <3>3, <3>4
    <2>8. CASE Allow(t) \/ Refuse(t)
      <3>1. /\ todo' = todo /\ url' = url /\ hops' = hops /\ at[Robot(t)] = "wait"
            /\ \E label \in Label : at' = [at EXCEPT ![Robot(t)] = "idle", ![Main(t)] = label]
        BY <2>8 DEF Allow, Refuse, Finished, Ready, Label
      <3>2. at[Main(t)] # "idle" /\ at'[Robot(t)] = "idle"
        BY <2>2, <2>3, <3>1
      <3> QED
        BY <2>1, <2>2, <3>1, <3>2, TrailsKept
    <2>9. CASE Return(t)
      <3>1. at'[Main(t)] = "idle"
        BY <2>2, <2>9 DEF Return
      <3> QED
        BY <2>3, <3>1 DEF MainTrail, RobotTrail
    <2> QED
      BY <2>4, <2>5, <2>6, <2>7, <2>8, <2>9 DEF Step, Advance
  <1> QED
    BY <1>1, <1>2 DEF Trails

\* A filled slot stays, so every trail stays.
LEMMA NextGrows ==
    ASSUME SlotInv, [Next]_vars
    PROVE  Grows(slot, slot')
BY SlotsGrow DEF Grows

LEMMA NextTrails ==
    ASSUME SlotInv, Typed', Trails, [Next]_vars
    PROVE  Trails'
PROOF
  <1>1. Grows(slot, slot') /\ Typed
    BY NextGrows DEF SlotInv
  <1>2. CASE UNCHANGED vars
    BY <1>2 DEF vars, Trails, MainTrail, RobotTrail
  <1> QED
    BY <1>1, <1>2, StepTrails DEF Next

LEMMA InitTrails == Init => Trails
BY Calls DEF Init, Trails, MainTrail, RobotTrail

-----------------------------------------------------------------------------
\* A get returns the end of the chain from its link, and ends stay.
VerdictsSettle == \A u \in Url : \A result \in verdict[u] : result \in Result /\ result = Settled(u)

LEMMA SettledKeeps ==
    ASSUME Typed, Typed', Grows(slot, slot'), VerdictsSettle, NEW u \in Url,
           NEW result \in verdict[u]
    PROVE  result \in Result /\ result = Settled(u)'
BY SettledStays DEF Typed, VerdictsSettle

LEMMA NextVerdicts ==
    ASSUME SlotInv, Typed', Trails, VerdictsSettle, [Next]_vars
    PROVE  VerdictsSettle'
PROOF
  <1>1. Grows(slot, slot') /\ Typed /\ TypeOK
    BY NextGrows DEF SlotInv, Typed
  <1>2. SUFFICES ASSUME NEW u \in Url, NEW result \in verdict'[u]
                 PROVE  result \in Result /\ result = Settled(u)'
    BY DEF VerdictsSettle
  <1>3. CASE verdict' = verdict
    BY <1>1, <1>2, <1>3, SettledKeeps
  <1>4. CASE verdict' # verdict
    <2>1. PICK t \in Task : Return(t)
      <3>1. PICK t \in Task : Step(t)
        BY <1>4 DEF Next, vars
      <3> QED
        BY <1>4, <3>1 DEF Step, Get, Advance, Lookup, Hit, Miss, Fetch, Follow, Allow, Refuse
    <2>2. /\ Main(t) \in Call /\ at[Main(t)] = "wait" /\ Finished(Main(t)) /\ slot' = slot
          /\ verdict' = [verdict EXCEPT ![Head(todo[t])] = @ \cup {Outcome(Main(t))}]
      BY <2>1, Calls DEF Return, Finished, Ready
    <2>3. Head(todo[t]) \in Url
      <3>1. todo[t] \in Seq(Url) /\ todo[t] # <<>>
        BY <1>1, <2>2 DEF Typed, TypeOK, Nesting
      <3> QED
        BY <3>1, HeadTailProperties
    <2>4. CASE result \in verdict[u]
      BY <1>1, <2>4, SettledKeeps
    <2>5. CASE result \notin verdict[u]
      <3>1. u = Head(todo[t]) /\ result = Outcome(Main(t))
        BY <1>1, <1>2, <2>2, <2>5 DEF TypeOK
      <3>2. OnTrail(slot, u, hops[Main(t)], url[Main(t)])
        BY <2>2, <3>1 DEF Trails, MainTrail
      <3>3. result = Settled(u) /\ result \in Result
        BY <1>1, <2>2, <3>1, <3>2, OutcomeSettles, OutcomeTyped
      <3> QED
        BY <1>1, <3>3, SettledStays DEF Typed
    <2> QED
      BY <2>4, <2>5
  <1> QED
    BY <1>3, <1>4

\* Links to one URL get one verdict, in whatever order and by whichever tasks.
THEOREM OneVerdict == Spec => []SameVerdict
PROOF
  <1>1. Init => Trails /\ VerdictsSettle
    BY InitTrails DEF Init, VerdictsSettle
  <1>2. SlotInv /\ SlotInv' /\ Trails /\ VerdictsSettle /\ [Next]_vars
            => Trails' /\ VerdictsSettle'
    BY NextTrails, NextVerdicts DEF SlotInv
  <1>3. VerdictsSettle => SameVerdict
    BY DEF VerdictsSettle, SameVerdict
  <1> QED
    BY SlotInvariant, <1>1, <1>2, <1>3, PTL DEF Spec

-----------------------------------------------------------------------------
\* The robots.txt of u's host is settled and allows u.
Allowed(u) ==
    Settled(RobotsOf[u]) \in Result /\ Refusal(Settled(RobotsOf[u]), u) = {}

\* What is true of a persisted response whose slot is open, of a fetch that is
\* checked, and of a response in a slot.
GlobalVetted == \A u \in Url : ~HasResult(slot[u]) /\ HasResponse(global[u]) => u \in Persisted
FetchVetted ==
    \A t \in Task : at[Main(t)] = "fetch" /\ robots[t] => Allowed(url[Main(t)])
SlotVetted ==
    \A u \in Url : HasResponse(slot[u]) =>
        u \in Persisted \/ fetched[u] = <<FALSE>> \/ Allowed(u)
VettedInv == GlobalVetted /\ FetchVetted /\ SlotVetted

LEMMA AllowedStays ==
    ASSUME Typed, Typed', Grows(slot, slot'), NEW u \in Url, Allowed(u)
    PROVE  Allowed(u)'
PROOF
  <1>1. RobotsOf[u] \in Url
    BY RobotsOfAssumption, UrlAssumption
  <1>2. PICK o \in Url : o = RobotsOf[u]
    BY <1>1
  <1>3. Settled(o)' = Settled(o)
    BY <1>2, SettledStays DEF Allowed, Typed
  <1> QED
    BY <1>2, <1>3 DEF Allowed

\* An allowed link: what the robot call brought back is the settled robots.txt.
LEMMA AllowAllows ==
    ASSUME Typed, Trails, NEW t \in Task, Allow(t)
    PROVE  Allowed(url[Main(t)])
PROOF
  <1>1. Robot(t) \in Call /\ Finished(Robot(t)) /\ at[Robot(t)] = "wait"
    BY Calls DEF Allow, Finished, Ready
  <1>2. url[Main(t)] \in Url /\ RobotsOf[url[Main(t)]] \in Url
    BY Calls, RobotsOfAssumption, UrlAssumption DEF Typed, TypeOK
  <1>3. OnTrail(slot, RobotsOf[url[Main(t)]], hops[Robot(t)], url[Robot(t)])
    BY <1>1 DEF Trails, RobotTrail
  <1>4. Outcome(Robot(t)) = Settled(RobotsOf[url[Main(t)]]) /\ Outcome(Robot(t)) \in Result
    BY <1>1, <1>2, <1>3, OutcomeSettles, OutcomeTyped DEF Typed
  <1> QED
    BY <1>4 DEF Allow, Allowed

LEMMA StepGlobalVetted ==
    ASSUME SlotInv, GlobalVetted, NEW t \in Task, Step(t), Grows(slot, slot')
    PROVE  GlobalVetted'
PROOF
  <1>1. SUFFICES ASSUME NEW u \in Url, ~HasResult(slot'[u]), HasResponse(global'[u])
                 PROVE  u \in Persisted
    BY DEF GlobalVetted
  <1>2. ~HasResult(slot[u])
    BY <1>1 DEF Grows
  <1>3. slot \in [Url -> Result \cup {Empty} \cup {Claimed(c) : c \in Call}]
        /\ global \in [Url -> Result \cup {Empty}] /\ url \in [Call -> Url]
    BY DEF SlotInv, Typed, TypeOK
  <1>4. CASE global'[u] = global[u]
    BY <1>1, <1>2, <1>4 DEF GlobalVetted
  <1>5. ASSUME NEW c \in Call, NEW result \in Result, Fill(c, result), Persist(c, result)
        PROVE  global'[u] = global[u]
    <2>1. u # url[c]
      BY <1>1, <1>3, <1>5, Kinds DEF Fill
    <2> QED
      BY <1>3, <1>5, <2>1 DEF Persist
  <1>6. ASSUME NEW c \in Call, Advance(c) PROVE global'[u] = global[u]
    <2>1. CASE Miss(c)
      BY <1>1, <1>3, <2>1, Kinds DEF Miss, Persist
    <2>2. CASE Fetch(c)
      <3>1. PICK answer \in Serves[url[c]] : Fill(c, answer) /\ Persist(c, answer)
        BY <2>2 DEF Fetch
      <3>2. answer \in Result
        BY <1>3, <3>1, ServesResults
      <3> QED
        BY <1>5, <3>1, <3>2
    <2>3. CASE Lookup(c) \/ Hit(c) \/ Follow(c)
      BY <2>3 DEF Lookup, Hit, Follow
    <2> QED
      BY <1>6, <2>1, <2>2, <2>3 DEF Advance
  <1>7. CASE Refuse(t)
    <2>1. PICK error \in Refusal(Outcome(Robot(t)), url[Main(t)]) :
              Fill(Main(t), error) /\ Persist(Main(t), error)
      BY <1>7 DEF Refuse
    <2>2. url[Main(t)] \in Url /\ slot[url[Robot(t)]] \in Result
      BY <1>3, <1>7, Calls, ReadyResult DEF SlotInv, Refuse, Finished
    <2>3. error \in Result
      BY <2>1, <2>2, RefusalsAreErrors DEF Outcome, Result
    <2> QED
      BY <1>4, <1>5, <2>1, <2>3, Calls
  <1>8. CASE Get(t) \/ Allow(t) \/ Return(t)
    BY <1>4, <1>8 DEF Get, Allow, Return
  <1> QED
    BY <1>4, <1>6, <1>7, <1>8, Calls DEF Step

LEMMA StepFetchVetted ==
    ASSUME Typed, Typed', Grows(slot, slot'), Trails, FetchVetted, NEW t \in Task, Step(t)
    PROVE  FetchVetted'
PROOF
  <1>1. ASSUME NEW r \in Task, at[Main(r)] = "fetch", robots[r], url'[Main(r)] = url[Main(r)]
        PROVE  Allowed(url[Main(r)])'
    <2>1. PICK u \in Url : u = url[Main(r)]
      BY Calls DEF Typed, TypeOK
    <2>2. Allowed(u)'
      BY <1>1, <2>1, AllowedStays DEF FetchVetted
    <2> QED
      BY <1>1, <2>1, <2>2 DEF Allowed
  <1>2. SUFFICES ASSUME NEW r \in Task, at'[Main(r)] = "fetch", robots'[r]
                 PROVE  Allowed(url[Main(r)])'
    BY DEF FetchVetted
  <1>3. CASE r # t
    BY <1>1, <1>2, <1>3, OthersStay DEF Typed
  <1>4. CASE r = t
    <2>1. /\ Main(t) \in Call /\ Robot(t) \in Call /\ Main(t) # Robot(t)
          /\ at \in [Call -> Label] /\ url \in [Call -> Url] /\ robots \in [Task -> BOOLEAN]
      BY Calls DEF Typed, TypeOK
    <2>2. CASE Allow(t)
      <3>1. PICK u \in Url : u = url[Main(t)]
        BY <2>1
      <3>2. Allowed(u)'
        BY <2>2, <3>1, AllowAllows, AllowedStays
      <3> QED
        BY <1>4, <2>2, <3>1, <3>2 DEF Allowed, Allow
    <2>3. CASE Advance(Main(t))
      <3>1. at'[Main(t)] = "fetch" => Miss(Main(t)) /\ ~robots[t] /\ robots' = robots
        <4>1. at'[Main(t)] = "fetch" => Miss(Main(t))
          BY <2>1, <2>3 DEF Advance, Lookup, Hit, Fetch, Follow
        <4>2. Miss(Main(t)) /\ at'[Main(t)] = "fetch" => ~robots[t] /\ robots' = robots
          BY <2>1, Calls DEF Miss
        <4> QED
          BY <4>1, <4>2
      <3> QED
        BY <1>2, <1>4, <3>1
    <2>4. CASE Advance(Robot(t))
      <3>1. Robot(t)[2] # "main"
        BY Calls
      <3>2. /\ at'[Main(t)] = at[Main(t)] /\ url'[Main(t)] = url[Main(t)]
            /\ robots' = robots
        BY <2>1, <2>4, <3>1 DEF Advance, Lookup, Hit, Miss, Fetch, Follow
      <3> QED
        BY <1>1, <1>2, <1>4, <3>2
    <2>5. CASE Get(t) \/ Refuse(t) \/ Return(t)
      <3>1. at'[Main(t)] # "fetch"
        BY <2>1, <2>5 DEF Get, Refuse, Return
      <3> QED
        BY <1>2, <1>4, <3>1
    <2> QED
      BY <2>2, <2>3, <2>4, <2>5 DEF Step
  <1> QED
    BY <1>3, <1>4

LEMMA StepSlotVetted ==
    ASSUME SlotInv, Typed', Grows(slot, slot'), VettedInv, NEW t \in Task, Step(t)
    PROVE  SlotVetted'
PROOF
  <1>1. /\ slot \in [Url -> Result \cup {Empty} \cup {Claimed(c) : c \in Call}]
        /\ global \in [Url -> Result \cup {Empty}] /\ url \in [Call -> Url]
        /\ fetched \in [Url -> Seq(BOOLEAN)] /\ Typed
    BY DEF SlotInv, Typed, TypeOK
  <1>2. SUFFICES ASSUME NEW u \in Url, HasResponse(slot'[u])
                 PROVE  u \in Persisted \/ fetched'[u] = <<FALSE>> \/ Allowed(u)'
    BY DEF SlotVetted
  <1>3. CASE HasResult(slot[u])
    <2>1. slot'[u] = slot[u]
      BY <1>3 DEF Grows
    <2>2. u \in Persisted \/ fetched[u] = <<FALSE>> \/ Allowed(u)
      BY <1>2, <2>1 DEF VettedInv, SlotVetted
    <2>3. Allowed(u) => Allowed(u)'
      BY <1>1, AllowedStays
    <2>4. fetched'[u] = fetched[u]
      <3>1. ASSUME NEW c \in Call, Fetch(c) PROVE fetched'[u] = fetched[u]
        <4>1. slot[url[c]] = Claimed(c)
          BY <3>1 DEF SlotInv, ClaimsMatch, Computes, Computing, Fetch
        <4>2. u # url[c]
          BY <1>3, <4>1, Kinds
        <4> QED
          BY <1>1, <3>1, <4>2 DEF Fetch
      <3>2. ASSUME NEW c \in Call, Advance(c) PROVE fetched'[u] = fetched[u]
        BY <3>1, <3>2 DEF Advance, Lookup, Hit, Miss, Follow
      <3>3. CASE Get(t) \/ Allow(t) \/ Refuse(t) \/ Return(t)
        BY <3>3 DEF Get, Allow, Refuse, Return
      <3> QED
        BY <3>2, <3>3, Calls DEF Step
    <2> QED
      BY <2>2, <2>3, <2>4
  <1>4. CASE ~HasResult(slot[u])
    <2>1. slot'[u] # slot[u]
      BY <1>2, <1>4 DEF HasResponse
    <2>2. ASSUME NEW c \in {Main(t), Robot(t)}, Hit(c) PROVE u \in Persisted
      <3>1. c \in Call /\ slot'[u] = global[u] /\ u = url[c]
        BY <1>1, <2>1, <2>2, Calls DEF Hit, Fill
      <3> QED
        BY <1>4, <2>2, <3>1 DEF VettedInv, GlobalVetted, Hit
    <2>3. ASSUME NEW c \in {Main(t), Robot(t)}, Fetch(c)
          PROVE  fetched'[u] = <<FALSE>> \/ Allowed(u)'
      <3>1. c \in Call /\ u = url[c] /\ at[c] = "fetch" /\ url' = url
        BY <1>1, <2>1, <2>3, Calls DEF Fetch, Fill
      <3>2. fetched[u] = <<>>
        BY <1>4 DEF SlotInv, Asked
      <3>3. PICK flag \in BOOLEAN : flag = (c[2] = "main" /\ robots[c[1]])
        OBVIOUS
      <3>4. fetched'[u] = Append(fetched[u], flag)
        BY <1>1, <2>3, <3>1, <3>3 DEF Fetch
      <3>5. fetched'[u] = <<flag>>
        BY <3>2, <3>4
      <3>6. CASE flag
        <4>1. c = Main(t) /\ robots[t]
          <5>1. c[2] = "main" /\ robots[c[1]]
            BY <3>3, <3>6, Zenon
          <5>2. c = Main(t) \/ c[2] = "robot"
            BY Calls
          <5>3. c = Main(t)
            BY <5>1, <5>2
          <5> QED
            BY <5>1, <5>3, Calls
        <4>2. Allowed(u)
          BY <3>1, <4>1 DEF VettedInv, FetchVetted
        <4> QED
          BY <1>1, <4>2, AllowedStays
      <3>7. CASE ~flag
        BY <3>5, <3>7
      <3> QED
        BY <3>6, <3>7
    <2>4. CASE Refuse(t)
      <3>1. PICK error \in Refusal(Outcome(Robot(t)), url[Main(t)]) : Fill(Main(t), error)
        BY <2>4 DEF Refuse
      <3>2. url[Main(t)] \in Url /\ slot[url[Robot(t)]] \in Result
        BY <1>1, <2>4, Calls, ReadyResult DEF Refuse, Finished
      <3>3. error \in Error
        BY <3>1, <3>2, RefusalsAreErrors DEF Outcome
      <3>4. ~HasResponse(error)
        BY <3>3 DEF HasResponse, IsError, Error, Denied, TooMany, Failed
      <3>5. slot'[u] = error
        BY <1>1, <2>1, <3>1, <3>2 DEF Fill
      <3> QED
        BY <1>2, <3>4, <3>5
    <2>5. ASSUME NEW c \in {Main(t), Robot(t)}, Lookup(c) PROVE FALSE
      <3>1. slot'[u] = Claimed(c)
        BY <1>1, <2>1, <2>5 DEF Lookup
      <3> QED
        BY <1>2, <3>1, Kinds DEF HasResponse
    <2>6. CASE Get(t) \/ Allow(t) \/ Return(t)
      BY <2>1, <2>6 DEF Get, Allow, Return
    <2>7. ASSUME NEW c \in {Main(t), Robot(t)}, Miss(c) \/ Follow(c) PROVE FALSE
      BY <2>1, <2>7 DEF Miss, Follow
    <2> QED
      BY <2>2, <2>3, <2>4, <2>5, <2>6, <2>7 DEF Step, Advance
  <1> QED
    BY <1>3, <1>4

LEMMA NextVetted ==
    ASSUME SlotInv, Typed', Trails, VettedInv, [Next]_vars
    PROVE  VettedInv'
PROOF
  <1>1. Grows(slot, slot') /\ Typed
    BY NextGrows DEF SlotInv
  <1>2. CASE UNCHANGED vars
    <2>1. slot' = slot /\ global' = global /\ fetched' = fetched /\ at' = at /\ url' = url
          /\ robots' = robots
      BY <1>2 DEF vars
    <2>2. \A u \in Url : Allowed(u) => Allowed(u)'
      BY <1>1, AllowedStays
    <2>3. \A t \in Task : url[Main(t)] \in Url
      BY <1>1, Calls DEF Typed, TypeOK
    <2>4. GlobalVetted'
      BY <2>1 DEF VettedInv, GlobalVetted
    <2>5. SlotVetted'
      BY <2>1, <2>2 DEF VettedInv, SlotVetted
    <2>6. FetchVetted'
      <3> SUFFICES ASSUME NEW t \in Task, at[Main(t)] = "fetch", robots[t]
                   PROVE  Allowed(url[Main(t)])'
        BY <2>1 DEF FetchVetted
      <3>1. PICK u \in Url : u = url[Main(t)]
        BY <2>3
      <3>2. Allowed(u)'
        BY <2>2, <3>1 DEF VettedInv, FetchVetted
      <3> QED
        BY <2>1, <3>1, <3>2 DEF Allowed
    <2> QED
      BY <2>4, <2>5, <2>6 DEF VettedInv
  <1>3. ASSUME NEW t \in Task, Step(t) PROVE VettedInv'
    BY <1>1, <1>3, StepGlobalVetted, StepFetchVetted, StepSlotVetted DEF VettedInv
  <1> QED
    BY <1>2, <1>3 DEF Next

LEMMA InitVetted == Init => VettedInv
PROOF
  <1> SUFFICES ASSUME Init PROVE VettedInv
    OBVIOUS
  <1>1. GlobalVetted
    BY Kinds DEF Init, GlobalVetted
  <1>2. FetchVetted
    BY Calls DEF Init, FetchVetted
  <1>3. SlotVetted
    BY Kinds DEF Init, SlotVetted
  <1> QED
    BY <1>1, <1>2, <1>3 DEF VettedInv

\* Whatever the order of gets and redirects, a response that a get can see was
\* allowed by the robots.txt of its host, kept from an earlier run, or fetched
\* with the check off.
THEOREM ResponsesAreVetted == Spec => []Vetted
PROOF
  <1>1. Init => Trails /\ VettedInv
    BY InitTrails, InitVetted
  <1>2. SlotInv /\ SlotInv' /\ Trails /\ VettedInv /\ [Next]_vars => Trails' /\ VettedInv'
    BY NextTrails, NextVetted DEF SlotInv
  <1>3. VettedInv => Vetted
    BY DEF VettedInv, SlotVetted, Allowed, Vetted
  <1> QED
    BY SlotInvariant, <1>1, <1>2, <1>3, PTL DEF Spec

==============================================================================
