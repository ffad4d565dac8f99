------------------------- MODULE SiteMeaningProofs --------------------------
(***************************************************************************)
(* Proofs about the crawl and what it reports.                             *)
(*                                                                         *)
(* First, of WebValidator: every document is in one place, is reported     *)
(* whole, and none is left out; the crawl implements the abstract one and  *)
(* goes on.  Then, of SiteMeaning: what is reported of a document is what  *)
(* its author wrote, for documents of every type and size.  That argument  *)
(* goes by the type of a document.  A sitemap is read event by event, a    *)
(* srcset candidate by candidate, a page and an image node by node; what   *)
(* an author writes is placed in what is read, and read there.             *)
(***************************************************************************)
EXTENDS SiteMeaning, CountingLemmas, SequenceTheorems, FiniteSetTheorems, TLAPS

-----------------------------------------------------------------------------
\* What a step leaves of the web, and what IsWeb tells about links and items.
LEMMA WebStays ==
    ASSUME web' = web
    PROVE  /\ \A l : /\ TypeOf(l)' = TypeOf(l)
                     /\ Fails(l)' <=> Fails(l)
                     /\ Crawls(l)' <=> Crawls(l)
           /\ \A d, k : /\ Places(d, k)' = Places(d, k)
                        /\ LinksOf(d, k)' = LinksOf(d, k)
                        /\ Errors(d, k)' = Errors(d, k)
BY DEF TypeOf, Fails, Crawls, Places, LinksOf, Items, ItemAt, Errors

LEMMA TypesOfLinks ==
    ASSUME web \in Webs, NEW l \in Link, web.target[l] \in Doc
    PROVE  TypeOf(l) \in Type \cup {Nothing, Invalid}
PROOF
  <1> DEFINE media == web.media[web.target[l]]
  <1>1. media \in Media \cup {Nothing} /\ Declared[l] \in Type \cup {Nothing}
    BY LinkAssumption DEF IsWeb
  <1> HIDE DEF media
  <1>2. media \in Media => OwnType(media) \in Type \cup {Nothing}
    BY DEF OwnType, Media, Type
  <1>3. DocumentType(media, Declared[l]) \in Type \cup {Nothing, Invalid}
    BY <1>1, <1>2 DEF DocumentType
  <1> QED
    BY <1>3 DEF TypeOf, media

LEMMA CrawledLinks ==
    ASSUME web \in Webs, NEW l \in Link, Crawls(l)
    PROVE  web.target[l] \in Doc /\ TypeOf(l) \in Type
BY TypesOfLinks DEF Crawls, Fails

LEMMA FinitePlaces ==
    ASSUME web \in Webs, NEW d \in Doc, NEW k \in Type
    PROVE  IsFiniteSet(Places(d, k))
PROOF
  <1> DEFINE es == web.elements[d][k]
             S == {{i} \X DOMAIN es[i] : i \in DOMAIN es}
  <1>1. es \in Seq(Seq(Link \cup {Wrong}))
    BY LinkAssumption DEF IsWeb
  <1>2. DOMAIN es = 1 .. Len(es) /\ Len(es) \in Nat
    BY <1>1, LenProperties
  <1>3. IsFiniteSet(DOMAIN es)
    BY <1>2, FS_Interval
  <1>4. IsFiniteSet(S)
    <2> DEFINE f == [i \in DOMAIN es |-> {i} \X DOMAIN es[i]]
    <2>1. f \in Surjection(DOMAIN es, S)
      BY DEF Surjection
    <2> QED
      BY <1>3, <2>1, FS_Surjection
  <1>5. ASSUME NEW i \in DOMAIN es PROVE IsFiniteSet({i} \X DOMAIN es[i])
    <2>1. es[i] \in Seq(Link \cup {Wrong})
      BY <1>1, <1>2, ElementOfSeq
    <2>2. DOMAIN es[i] = 1 .. Len(es[i]) /\ Len(es[i]) \in Nat
      BY <2>1, LenProperties
    <2>3. IsFiniteSet(1 .. Len(es[i]))
      BY <2>2, FS_Interval
    <2>4. IsFiniteSet({i})
      BY FS_Singleton
    <2> QED
      BY <2>2, <2>3, <2>4, FS_Product
  <1> QED
    BY <1>4, <1>5, FS_UNION DEF Places

LEMMA LinksAreLinks ==
    ASSUME web \in Webs, NEW d \in Doc, NEW k \in Type \cup {Nothing}
    PROVE  LinksOf(d, k) \subseteq Link
PROOF
  <1>1. CASE k = Nothing
    BY <1>1 DEF LinksOf
  <1>2. CASE k \in Type
    <2>1. web.elements[d][k] \in Seq(Seq(Link \cup {Wrong}))
      BY <1>2, LinkAssumption DEF IsWeb
    <2> DEFINE es == web.elements[d][k]
    <2>2. \A i \in DOMAIN es : \A j \in DOMAIN es[i] : es[i][j] \in Link \cup {Wrong}
      <3> SUFFICES ASSUME NEW i \in DOMAIN es, NEW j \in DOMAIN es[i]
                   PROVE  es[i][j] \in Link \cup {Wrong}
        OBVIOUS
      <3>1. es[i] \in Seq(Link \cup {Wrong})
        BY <2>1, LenProperties, ElementOfSeq
      <3> QED
        BY <3>1, LenProperties, ElementOfSeq
    <2> HIDE DEF es
    <2>3. \A p \in Places(d, k) : p[1] \in DOMAIN es /\ p[2] \in DOMAIN es[p[1]]
      BY DEF Places, es
    <2>4. \A p \in Places(d, k) : ItemAt(d, k, p) \in Link \cup {Wrong}
      BY <2>2, <2>3 DEF ItemAt, es
    <2> QED
      BY <2>4 DEF LinksOf, Items
  <1> QED
    BY <1>1, <1>2

LEMMA CountsAreNumbers ==
    ASSUME web \in Webs, NEW d \in Doc, NEW k \in Type
    PROVE  Counts(d, k, Errors(d, k)) \in [{"success", "error"} -> Nat]
PROOF
  <1>1. IsFiniteSet(Places(d, k)) /\ Errors(d, k) \subseteq Places(d, k)
    BY FinitePlaces DEF Errors
  <1>2. IsFiniteSet(Errors(d, k)) /\ IsFiniteSet(Places(d, k) \ Errors(d, k))
    BY <1>1, FS_Subset
  <1>3. /\ Cardinality(Errors(d, k)) \in Nat
        /\ Cardinality(Places(d, k) \ Errors(d, k)) \in Nat
    BY <1>2, FS_CardinalityType
  <1> QED
    BY <1>3 DEF Counts
LEMMA TaskLinks ==
    ASSUME TypeOK, NEW t \in DOMAIN task
    PROVE  /\ t[2] \in Link
           /\ At(t) \in Link \cup {Nothing}
           /\ After(t) \in {"own", "done"}
BY LinkAssumption DEF TypeOK, Task, At, After

-----------------------------------------------------------------------------
\* A task sends the job of the document that it inserted.
Senders ==
    \A t \in sending :
        task[t] # "done" /\ At(t) # Nothing /\ Crawls(At(t)) /\ Coming(t) \in documents

\* An inserted document has a type and a task, and no other document has any trace.
Inserted ==
    /\ \A d \in Doc : doc[d] = "none" <=> d \notin documents
    /\ \A d \in documents : kind[d] \in Type
    /\ buffer \cup Queued \cup Reported \subseteq documents

\* The link tasks of the roots and of the documents that were expanded exist, and those
\* of a finished document ended.
RootTasks == {Root} \X Roots \subseteq DOMAIN task
Expanded ==
    \A d \in Doc : doc[d] \in {"waiting", "finished"} =>
        {d} \X LinksOf(d, kind[d]) \subseteq DOMAIN task
Finished ==
    \A d \in Doc : doc[d] = "finished" => \A l \in LinksOf(d, kind[d]) : task[<<d, l>>] = "done"
OnlyFinished == \A d \in Reported : doc[d] = "finished"

IInv ==
    /\ web \in Webs /\ TypeOK /\ IsFiniteSet(buffer)
    /\ Senders /\ Inserted /\ RootTasks /\ Expanded /\ Finished /\ OnlyFinished

LEMMA InitIInv == Init => IInv
PROOF
  <1> SUFFICES ASSUME Init PROVE IInv
    OBVIOUS
  <1>1. documents = {} /\ sending = {} /\ buffer = {} /\ channel = <<>>
    BY DEF Init
  <1>2. DOMAIN task = {Root} \X Roots /\ \A t \in DOMAIN task : task[t] = "before"
    BY DEF Init
  <1>3. Cardinality(buffer) = 0 /\ IsFiniteSet(buffer)
    BY <1>1, FS_EmptySet
  <1>4. /\ kind \in [Doc -> Type \cup {Nothing}] /\ reported \in [Doc -> Nat]
        /\ doc = [d \in Doc |-> "none"] /\ \A d \in Doc : reported[d] = 0
    BY DEF Init
  <1>5. metrics \in [{"documents", "elements"} -> [{"success", "error"} -> Nat]]
    BY DEF Init
  <1>6. TypeOK
    <2>1. phase \in Phase /\ exit \in {Nothing, "success", "failure"}
      BY DEF Init, Phase
    <2>2. /\ doc \in [Doc -> {"none", "spawned", "waiting", "finished", "broken"}]
          /\ DOMAIN task \subseteq Task /\ task \in [DOMAIN task -> {"before", "own", "done"}]
      <3>1. doc \in [Doc -> {"none", "spawned", "waiting", "finished", "broken"}]
        BY <1>4
      <3>2. task \in [DOMAIN task -> {"before", "own", "done"}]
        BY DEF Init
      <3> QED
        BY <1>2, <3>1, <3>2 DEF Task
    <2>3. channel \in Seq(Doc) /\ Len(channel) = 0
      BY <1>1
    <2>4. JobCapacity \in Nat /\ Buffer \in Nat
      BY CapacityAssumption
    <2> QED
      BY <1>1, <1>3, <1>4, <1>5, <2>1, <2>2, <2>3, <2>4 DEF TypeOK, Outcome
  <1>7. Senders /\ RootTasks /\ Expanded /\ Finished
    BY <1>1, <1>2, <1>4 DEF Senders, RootTasks, Expanded, Finished
  <1>8. Queued = {} /\ Reported = {}
    BY <1>1, <1>4 DEF Queued, Reported
  <1>9. Inserted /\ OnlyFinished
    BY <1>1, <1>4, <1>8 DEF Inserted, OnlyFinished
  <1> QED
    BY <1>3, <1>6, <1>7, <1>9 DEF IInv, Init
-----------------------------------------------------------------------------
\* A link task that is not at its end moves on, and disturbs no other.
LEMMA StaysAt ==
    ASSUME web' = web, NEW t, task'[t] = task[t]
    PROVE  At(t)' = At(t) /\ Coming(t)' = Coming(t)
BY DEF At, Coming

LEMMA TaskMoves ==
    ASSUME IInv, NEW t \in DOMAIN task, task[t] # "done",
           task' = [task EXCEPT ![t] = After(t)], UNCHANGED <<web, kind, doc>>
    PROVE  /\ DOMAIN task' = DOMAIN task
           /\ task' \in [DOMAIN task -> {"before", "own", "done"}]
           /\ \A u \in DOMAIN task \ {t} : task'[u] = task[u]
           /\ RootTasks' /\ Expanded' /\ Finished'
PROOF
  <1>1. /\ DOMAIN task' = DOMAIN task
        /\ \A u \in DOMAIN task \ {t} : task'[u] = task[u]
    OBVIOUS
  <1>2. task' \in [DOMAIN task -> {"before", "own", "done"}]
    BY TaskLinks DEF IInv, TypeOK
  <1>3. RootTasks' /\ Expanded'
    BY <1>1, WebStays DEF IInv, RootTasks, Expanded
  <1>4. Finished'
    <2> SUFFICES ASSUME NEW d \in Doc, doc[d] = "finished", NEW l \in LinksOf(d, kind[d])
                 PROVE  task'[<<d, l>>] = "done"
      BY WebStays DEF Finished
    <2>1. <<d, l>> \in DOMAIN task /\ task[<<d, l>>] = "done"
      BY DEF IInv, Expanded, Finished
    <2> QED
      BY <1>1, <2>1
  <1> QED
    BY <1>1, <1>2, <1>3, <1>4

LEMMA VisitKeeps ==
    ASSUME IInv, NEW t \in DOMAIN task, Visit(t)
    PROVE  IInv'
PROOF
  <1> DEFINE x == web.target[At(t)]
  <1>1. web' = web /\ buffer' = buffer /\ reported' = reported /\ channel' = channel
    BY DEF Visit
  <1>2. Reported' = Reported /\ Queued' = Queued
    BY <1>1 DEF Reported, Queued
  <1>3. web' \in Webs /\ IsFiniteSet(buffer')
    BY <1>1 DEF IInv
  <1>4. CASE Spawns(t)
    <2>1. /\ At(t) # Nothing /\ Crawls(At(t)) /\ x \notin documents
          /\ documents' = documents \cup {x} /\ sending' = sending \cup {t}
          /\ kind' = [kind EXCEPT ![x] = TypeOf(At(t))]
          /\ doc' = [doc EXCEPT ![x] = "spawned"]
          /\ task' = task /\ task[t] # "done"
      BY <1>4 DEF Visit, Spawns
    <2>2. At(t) \in Link
      BY <2>1, TaskLinks DEF IInv
    <2>3. x \in Doc /\ TypeOf(At(t)) \in Type
      BY <2>1, <2>2, CrawledLinks DEF IInv
    <2> HIDE DEF x
    <2>4. /\ kind'[x] \in Type /\ \A d \in Doc \ {x} : kind'[d] = kind[d]
          /\ doc'[x] = "spawned" /\ \A d \in Doc \ {x} : doc'[d] = doc[d]
      BY <2>1, <2>3 DEF IInv, TypeOK
    <2>5. TypeOK'
      <3>1. documents' \subseteq Doc /\ kind' \in [Doc -> Type \cup {Nothing}]
        BY <2>1, <2>3 DEF IInv, TypeOK
      <3>2. doc' \in [Doc -> {"none", "spawned", "waiting", "finished", "broken"}]
        BY <2>1, <2>3 DEF IInv, TypeOK
      <3>3. sending' \subseteq DOMAIN task
        BY <2>1 DEF IInv, TypeOK
      <3> QED
        BY <1>1, <2>1, <3>1, <3>2, <3>3 DEF IInv, TypeOK, Visit
    <2>6. Senders'
      <3>1. \A u : At(u)' = At(u) /\ Coming(u)' = Coming(u)
        BY <1>1, <2>1, StaysAt
      <3>2. Coming(t) = x
        BY DEF Coming, x
      <3> QED
        BY <1>1, <2>1, <3>1, <3>2, WebStays DEF IInv, Senders
    <2>7. Inserted'
      BY <1>1, <1>2, <2>1, <2>3, <2>4 DEF IInv, Inserted, TypeOK
    <2>8. RootTasks'
      BY <2>1 DEF IInv, RootTasks
    <2>9. Expanded'
      BY <1>1, <2>1, <2>4, WebStays DEF IInv, Expanded
    <2>10. Finished'
      BY <1>1, <2>1, <2>4, WebStays DEF IInv, Finished
    <2>11. OnlyFinished'
      <3>1. x \notin Reported
        BY <2>1 DEF IInv, Inserted
      <3> QED
        BY <1>2, <2>4, <3>1 DEF IInv, OnlyFinished, Reported
    <2> QED
      BY <1>3, <2>5, <2>6, <2>7, <2>8, <2>9, <2>10, <2>11 DEF IInv
  <1>5. CASE ~Spawns(t)
    <2>1. /\ task' = [task EXCEPT ![t] = After(t)] /\ task[t] # "done" /\ t \notin sending
          /\ UNCHANGED <<web, phase, documents, kind, doc, sending, channel, buffer, reported,
                         metrics, exit>>
      BY <1>5 DEF Visit
    <2>2. /\ DOMAIN task' = DOMAIN task
          /\ task' \in [DOMAIN task -> {"before", "own", "done"}]
          /\ \A u \in DOMAIN task \ {t} : task'[u] = task[u]
          /\ RootTasks' /\ Expanded' /\ Finished'
      BY <2>1, TaskMoves
    <2>3. TypeOK'
      BY <2>1, <2>2 DEF IInv, TypeOK
    <2>4. Senders'
      <3>1. \A u \in sending : u \in DOMAIN task \ {t}
        BY <2>1 DEF IInv, TypeOK
      <3>2. \A u \in sending : At(u)' = At(u) /\ Coming(u)' = Coming(u)
        BY <1>1, <2>2, <3>1, StaysAt
      <3> QED
        BY <1>1, <2>1, <2>2, <3>1, <3>2, WebStays DEF IInv, Senders
    <2>5. Inserted' /\ OnlyFinished'
      BY <1>2, <2>1 DEF IInv, Inserted, OnlyFinished
    <2> QED
      BY <1>3, <2>2, <2>3, <2>4, <2>5 DEF IInv
  <1> QED
    BY <1>4, <1>5
\* What a job that is appended to the channel, or taken from it, changes there.
LEMMA Appended ==
    ASSUME TypeOK, NEW d \in Doc, channel' = Append(channel, d)
    PROVE  /\ channel' \in Seq(Doc) /\ Len(channel') = Len(channel) + 1
           /\ \A i \in DOMAIN channel : channel'[i] = channel[i]
           /\ DOMAIN channel' = DOMAIN channel \cup {Len(channel) + 1}
           /\ channel'[Len(channel) + 1] = d
           /\ Queued' = Queued \cup {d}
PROOF
  <1>1. channel \in Seq(Doc)
    BY DEF TypeOK
  <1>2. Len(channel) \in Nat /\ DOMAIN channel = 1 .. Len(channel)
    BY <1>1, LenProperties
  <1>3. channel' \in Seq(Doc) /\ Len(channel') = Len(channel) + 1
    BY <1>1, AppendProperties
  <1>4. DOMAIN channel' = 1 .. Len(channel')
    BY <1>3, LenProperties
  <1>5. /\ \A i \in 1 .. Len(channel) : channel'[i] = channel[i]
        /\ channel'[Len(channel) + 1] = d
    BY <1>1, AppendProperties
  <1>6. DOMAIN channel' = DOMAIN channel \cup {Len(channel) + 1}
    BY <1>2, <1>3, <1>4
  <1>7. Queued' = Queued \cup {d}
    <2>1. Queued' = {channel'[i] : i \in DOMAIN channel'}
      BY DEF Queued
    <2> QED
      BY <1>2, <1>5, <1>6, <2>1 DEF Queued
  <1> QED
    BY <1>2, <1>3, <1>5, <1>6, <1>7

LEMMA Taken ==
    ASSUME TypeOK, channel # <<>>, channel' = Tail(channel)
    PROVE  /\ Head(channel) \in Doc
           /\ channel' \in Seq(Doc) /\ Len(channel') = Len(channel) - 1
           /\ 1 \in DOMAIN channel /\ channel[1] = Head(channel)
           /\ \A i \in DOMAIN channel' : /\ i + 1 \in DOMAIN channel /\ i \in Nat \ {0}
                                        /\ channel'[i] = channel[i + 1]
           /\ Queued = Queued' \cup {Head(channel)}
PROOF
  <1>1. channel \in Seq(Doc)
    BY DEF TypeOK
  <1>2. Len(channel) \in Nat \ {0} /\ DOMAIN channel = 1 .. Len(channel)
    BY <1>1, LenProperties, EmptySeq
  <1>3. /\ Head(channel) \in Doc
        /\ channel' \in Seq(Doc) /\ Len(channel') = Len(channel) - 1
        /\ \A i \in 1 .. Len(channel') : channel'[i] = channel[i + 1]
    BY <1>1, HeadTailProperties
  <1>4. DOMAIN channel' = 1 .. (Len(channel) - 1)
    BY <1>3, LenProperties
  <1>5. Head(channel) = channel[1]
    BY <1>1
  <1>6. Queued' = {channel'[i] : i \in DOMAIN channel'}
    BY DEF Queued
  <1>7. \A i \in DOMAIN channel' : /\ i + 1 \in DOMAIN channel /\ i \in Nat \ {0}
                                 /\ channel'[i] = channel[i + 1]
    BY <1>2, <1>3, <1>4
  <1>8. ASSUME NEW i \in DOMAIN channel
        PROVE  channel[i] \in Queued' \cup {Head(channel)}
    <2>1. CASE i = 1
      BY <1>5, <2>1
    <2>2. CASE i # 1
      <3>1. i - 1 \in DOMAIN channel' /\ (i - 1) + 1 = i
        BY <1>2, <1>4, <2>2
      <3> QED
        BY <1>6, <1>7, <3>1
    <2> QED
      BY <2>1, <2>2
  <1>9. Queued = Queued' \cup {Head(channel)}
    BY <1>2, <1>5, <1>6, <1>7, <1>8 DEF Queued
  <1> QED
    BY <1>2, <1>3, <1>5, <1>7, <1>9

LEMMA SendKeeps ==
    ASSUME IInv, NEW t \in DOMAIN task, Send(t)
    PROVE  IInv'
PROOF
  <1> DEFINE x == Coming(t)
  <1>1. /\ channel' = Append(channel, x) /\ sending' = sending \ {t}
        /\ task' = [task EXCEPT ![t] = After(t)] /\ t \in sending
        /\ Len(channel) < JobCapacity
        /\ UNCHANGED <<web, phase, documents, kind, doc, buffer, reported, metrics, exit>>
    BY DEF Send, Coming
  <1>2. task[t] # "done" /\ x \in documents /\ x \in Doc
    BY <1>1 DEF IInv, Senders, TypeOK
  <1>3. /\ DOMAIN task' = DOMAIN task
        /\ task' \in [DOMAIN task -> {"before", "own", "done"}]
        /\ \A u \in DOMAIN task \ {t} : task'[u] = task[u]
        /\ RootTasks' /\ Expanded' /\ Finished'
    BY <1>1, <1>2, TaskMoves
  <1> HIDE DEF x
  <1>4. /\ channel' \in Seq(Doc) /\ Len(channel') = Len(channel) + 1
        /\ Queued' = Queued \cup {x}
    BY <1>1, <1>2, Appended DEF IInv
  <1>5. TypeOK'
    <2>1. Len(channel') <= JobCapacity
      <3>1. Len(channel) \in Nat /\ JobCapacity \in Nat
        BY CapacityAssumption, LenProperties DEF IInv, TypeOK
      <3> QED
        BY <1>1, <1>4, <3>1
    <2> QED
      BY <1>1, <1>3, <1>4, <2>1 DEF IInv, TypeOK
  <1>6. Senders'
    <2>1. \A u \in sending' : u \in DOMAIN task \ {t} /\ u \in sending
      BY <1>1 DEF IInv, TypeOK
    <2>2. \A u \in sending' : At(u)' = At(u) /\ Coming(u)' = Coming(u)
      BY <1>1, <1>3, <2>1, StaysAt
    <2> QED
      BY <1>1, <1>3, <2>1, <2>2, WebStays DEF IInv, Senders
  <1>7. Inserted' /\ OnlyFinished'
    <2>1. Reported' = Reported
      BY <1>1 DEF Reported
    <2> QED
      BY <1>1, <1>2, <1>4, <2>1 DEF IInv, Inserted, OnlyFinished
  <1> QED
    BY <1>1, <1>3, <1>5, <1>6, <1>7 DEF IInv

LEMMA ExpandKeeps ==
    ASSUME IInv, NEW d \in Doc, Expand(d)
    PROVE  IInv'
PROOF
  <1>1. /\ doc[d] = "spawned"
        /\ UNCHANGED <<web, phase, documents, kind, sending, channel, buffer, reported,
                       metrics, exit>>
    BY DEF Expand
  <1>2. Reported' = Reported /\ Queued' = Queued
    BY <1>1 DEF Reported, Queued
  <1>3. d \in documents /\ kind[d] \in Type \cup {Nothing}
    BY <1>1 DEF IInv, Inserted, TypeOK
  <1>4. LinksOf(d, kind[d]) \subseteq Link
    BY <1>3, LinksAreLinks DEF IInv
  <1>5. /\ doc'[d] \in {"broken", "waiting"} /\ \A e \in Doc \ {d} : doc'[e] = doc[e]
        /\ doc' \in [Doc -> {"none", "spawned", "waiting", "finished", "broken"}]
    BY DEF Expand, IInv, TypeOK
  <1>6. /\ DOMAIN task \subseteq DOMAIN task' /\ DOMAIN task' \subseteq Task
        /\ task' \in [DOMAIN task' -> {"before", "own", "done"}]
        /\ \A u \in DOMAIN task : task'[u] = task[u]
        /\ doc'[d] = "waiting" => {d} \X LinksOf(d, kind[d]) \subseteq DOMAIN task'
    <2>1. CASE <<d, kind[d]>> \in web.broken
      BY <2>1 DEF Expand, IInv, TypeOK
    <2>2. CASE <<d, kind[d]>> \notin web.broken
      <3> DEFINE D == DOMAIN task \cup ({d} \X LinksOf(d, kind[d]))
      <3>1. task' = [u \in D |-> IF u \in DOMAIN task THEN task[u] ELSE "before"]
        BY <2>2 DEF Expand
      <3>2. D \subseteq Task
        BY <1>4 DEF IInv, TypeOK, Task
      <3> HIDE DEF D
      <3>3. \A u \in D : task'[u] = IF u \in DOMAIN task THEN task[u] ELSE "before"
        BY <3>1
      <3>4. task' \in [D -> {"before", "own", "done"}]
        BY <3>1 DEF IInv, TypeOK
      <3> QED
        BY <3>1, <3>2, <3>3, <3>4 DEF D
    <2> QED
      BY <2>1, <2>2
  <1>7. TypeOK'
    BY <1>1, <1>5, <1>6 DEF IInv, TypeOK
  <1>8. Senders'
    <2>1. \A u \in sending : u \in DOMAIN task /\ At(u)' = At(u) /\ Coming(u)' = Coming(u)
      BY <1>1, <1>6, StaysAt DEF IInv, TypeOK
    <2> QED
      BY <1>1, <1>6, <2>1, WebStays DEF IInv, Senders
  <1>9. Inserted'
    BY <1>1, <1>2, <1>3, <1>5 DEF IInv, Inserted
  <1>10. RootTasks'
    BY <1>6 DEF IInv, RootTasks
  <1>11. Expanded'
    BY <1>1, <1>5, <1>6, WebStays DEF IInv, Expanded
  <1>12. Finished'
    <2> SUFFICES ASSUME NEW e \in Doc, doc'[e] = "finished", NEW l \in LinksOf(e, kind[e])
                 PROVE  task'[<<e, l>>] = "done"
      BY <1>1, WebStays DEF Finished
    <2>1. doc[e] = "finished"
      BY <1>5
    <2>2. <<e, l>> \in DOMAIN task /\ task[<<e, l>>] = "done"
      BY <2>1 DEF IInv, Expanded, Finished
    <2> QED
      BY <1>6, <2>2
  <1>13. OnlyFinished'
    BY <1>1, <1>2, <1>5 DEF IInv, OnlyFinished, Reported
  <1> QED
    BY <1>1, <1>7, <1>8, <1>9, <1>10, <1>11, <1>12, <1>13 DEF IInv

LEMMA FinishKeeps ==
    ASSUME IInv, NEW d \in Doc, Finish(d)
    PROVE  IInv'
PROOF
  <1>1. /\ doc[d] = "waiting" /\ doc' = [doc EXCEPT ![d] = "finished"]
        /\ UNCHANGED <<web, phase, documents, kind, task, sending, channel, buffer, reported,
                       metrics, exit>>
        /\ \A l \in LinksOf(d, kind[d]) : task[<<d, l>>] = "done"
    BY DEF Finish
  <1>2. Reported' = Reported /\ Queued' = Queued
    BY <1>1 DEF Reported, Queued
  <1>3. /\ doc'[d] = "finished" /\ \A e \in Doc \ {d} : doc'[e] = doc[e]
        /\ doc' \in [Doc -> {"none", "spawned", "waiting", "finished", "broken"}]
    BY <1>1 DEF IInv, TypeOK
  <1>4. TypeOK'
    BY <1>1, <1>3 DEF IInv, TypeOK
  <1>5. Senders'
    <2>1. \A u : At(u)' = At(u) /\ Coming(u)' = Coming(u)
      BY <1>1, StaysAt
    <2> QED
      BY <1>1, <2>1, WebStays DEF IInv, Senders
  <1>6. Inserted' /\ RootTasks' /\ OnlyFinished'
    BY <1>1, <1>2, <1>3 DEF IInv, Inserted, RootTasks, OnlyFinished
  <1>7. Expanded' /\ Finished'
    BY <1>1, <1>3, WebStays DEF IInv, Expanded, Finished
  <1> QED
    BY <1>1, <1>4, <1>5, <1>6, <1>7 DEF IInv
\* Steps of the consumer leave the tasks as they are.
TasksStay == UNCHANGED <<web, documents, kind, doc, task, sending>>

LEMMA TasksKeep ==
    ASSUME IInv, TasksStay
    PROVE  web' \in Webs /\ Senders' /\ RootTasks' /\ Expanded' /\ Finished'
PROOF
  <1>1. web' = web /\ documents' = documents /\ sending' = sending /\ task' = task
        /\ kind' = kind /\ doc' = doc
    BY DEF TasksStay
  <1>2. \A u : At(u)' = At(u) /\ Coming(u)' = Coming(u)
    BY <1>1, StaysAt
  <1>3. Senders'
    BY <1>1, <1>2, WebStays DEF IInv, Senders
  <1>4. RootTasks' /\ Expanded' /\ Finished'
    BY <1>1, WebStays DEF IInv, RootTasks, Expanded, Finished
  <1> QED
    BY <1>1, <1>3, <1>4 DEF IInv

LEMMA PullKeeps ==
    ASSUME IInv, Pull
    PROVE  IInv'
PROOF
  <1>1. /\ buffer' = buffer \cup {Head(channel)} /\ channel' = Tail(channel)
        /\ channel # <<>> /\ Cardinality(buffer) < Buffer
        /\ TasksStay /\ UNCHANGED <<web, phase, documents, kind, doc, task, sending, reported,
                                    metrics, exit>>
    BY DEF Pull, TasksStay
  <1>2. /\ Head(channel) \in Doc /\ Head(channel) \in Queued
        /\ channel' \in Seq(Doc) /\ Len(channel') = Len(channel) - 1
        /\ Queued' \subseteq Queued
    BY <1>1, Taken DEF IInv
  <1>3. IsFiniteSet(buffer') /\ Cardinality(buffer') <= Buffer
    <2>1. Cardinality(buffer) \in Nat /\ Buffer \in Nat
      BY CapacityAssumption, FS_CardinalityType DEF IInv
    <2>2. /\ IsFiniteSet(buffer \cup {Head(channel)})
          /\ Cardinality(buffer \cup {Head(channel)}) =
                IF Head(channel) \in buffer THEN Cardinality(buffer) ELSE Cardinality(buffer) + 1
      BY FS_AddElement DEF IInv
    <2> QED
      BY <1>1, <2>1, <2>2
  <1>4. TypeOK'
    <2>1. Len(channel) \in Nat /\ JobCapacity \in Nat
      BY CapacityAssumption, LenProperties DEF IInv, TypeOK
    <2> QED
      BY <1>1, <1>2, <1>3, <2>1 DEF IInv, TypeOK
  <1>5. Inserted' /\ OnlyFinished'
    <2>1. Reported' = Reported
      BY <1>1 DEF Reported
    <2> QED
      BY <1>1, <1>2, <2>1 DEF IInv, Inserted, OnlyFinished
  <1> QED
    BY <1>1, <1>3, <1>4, <1>5, TasksKeep DEF IInv

LEMMA MetricsTyped ==
    ASSUME web \in Webs, NEW d \in Doc, kind[d] \in Type,
           metrics \in [{"documents", "elements"} -> [{"success", "error"} -> Nat]]
    PROVE  MetricsWith(d) \in [{"documents", "elements"} -> [{"success", "error"} -> Nat]]
PROOF
  <1> DEFINE own == DocumentMetrics(d)
             Count == [{"success", "error"} -> Nat]
  <1>1. own \in Count
    BY CountsAreNumbers DEF DocumentMetrics
  <1>2. metrics.documents \in Count /\ metrics.elements \in Count
    OBVIOUS
  <1> HIDE DEF own
  <1>3. own.success \in Nat /\ own.error \in Nat
    BY <1>1
  <1>4. AddDocument(metrics.documents, own) \in Count
    BY <1>2 DEF AddDocument
  <1>5. MergeMetrics(metrics.elements, own) \in Count
    BY <1>2, <1>3 DEF MergeMetrics
  <1> HIDE DEF Count
  <1>6. MetricsWith(d) \in [{"documents", "elements"} -> Count]
    BY <1>4, <1>5 DEF own, MetricsWith
  <1> QED
    BY <1>6 DEF Count

LEMMA ReportKeeps ==
    ASSUME IInv, NEW d \in Doc, Report(d)
    PROVE  IInv'
PROOF
  <1>1. /\ d \in buffer /\ buffer' = buffer \ {d} /\ TasksStay
        /\ UNCHANGED <<web, documents, kind, doc, task, sending, channel>>
    BY DEF Report, TasksStay
  <1>2. IsFiniteSet(buffer') /\ Cardinality(buffer') <= Buffer
    <2>1. Cardinality(buffer) \in Nat /\ Buffer \in Nat
      BY CapacityAssumption, FS_CardinalityType DEF IInv
    <2>2. /\ IsFiniteSet(buffer \ {d})
          /\ Cardinality(buffer \ {d}) =
                IF d \in buffer THEN Cardinality(buffer) - 1 ELSE Cardinality(buffer)
      BY FS_RemoveElement DEF IInv
    <2> QED
      BY <1>1, <2>1, <2>2 DEF IInv, TypeOK
  <1>3. d \in documents /\ kind[d] \in Type
    BY <1>1 DEF IInv, Inserted
  <1>4. Queued' = Queued
    BY <1>1 DEF Queued
  <1>5. /\ reported' \in [Doc -> Nat] /\ phase' \in Phase
        /\ exit' \in {Nothing, "success", "failure"}
    <2>1. reported \in [Doc -> Nat] /\ phase \in Phase /\ exit \in {Nothing, "success", "failure"}
      BY DEF IInv, TypeOK, Outcome
    <2>2. CASE reported' = [reported EXCEPT ![d] = @ + 1] /\ UNCHANGED <<phase, exit>>
      BY <2>1, <2>2
    <2>3. CASE phase' = "aborted" /\ exit' = "failure" /\ reported' = reported
      BY <2>1, <2>3 DEF Phase
    <2> QED
      BY <2>2, <2>3 DEF Report
  <1>6. metrics' \in [{"documents", "elements"} -> [{"success", "error"} -> Nat]]
    <2>1. CASE doc[d] = "broken" /\ metrics' = metrics
      BY <2>1 DEF IInv, TypeOK
    <2>2. CASE metrics' = MetricsWith(d)
      BY <1>3, <2>2, MetricsTyped DEF IInv, TypeOK
    <2> QED
      BY <2>1, <2>2 DEF Report
  <1>7. TypeOK'
    BY <1>1, <1>2, <1>5, <1>6 DEF IInv, TypeOK, Outcome
  <1>8. Reported' \subseteq Reported \cup {d} /\ (d \in Reported' => d \in Reported \/ doc[d] = "finished")
    <2>1. CASE doc[d] = "broken" /\ reported' = reported
      BY <2>1 DEF Reported
    <2>2. CASE doc[d] = "finished" /\ reported' = [reported EXCEPT ![d] = @ + 1]
      BY <2>2 DEF Reported, IInv, TypeOK
    <2> QED
      BY <2>1, <2>2 DEF Report
  <1>9. Inserted' /\ OnlyFinished'
    BY <1>1, <1>3, <1>4, <1>8 DEF IInv, Inserted, OnlyFinished
  <1> QED
    BY <1>1, <1>2, <1>7, <1>9, TasksKeep DEF IInv

LEMMA FailToPrintKeeps ==
    ASSUME IInv, NEW d \in Doc, FailToPrint(d)
    PROVE  IInv'
PROOF
  <1>1. /\ d \in buffer /\ buffer' = buffer \ {d} /\ TasksStay
        /\ UNCHANGED <<web, documents, kind, doc, task, sending, channel, reported>>
        /\ phase' = "unwritten" /\ exit' = "failure" /\ metrics' = MetricsWith(d)
    BY DEF FailToPrint, TasksStay
  <1>2. IsFiniteSet(buffer') /\ Cardinality(buffer') <= Buffer
    <2>1. Cardinality(buffer) \in Nat /\ Buffer \in Nat
      BY CapacityAssumption, FS_CardinalityType DEF IInv
    <2>2. /\ IsFiniteSet(buffer \ {d})
          /\ Cardinality(buffer \ {d}) =
                IF d \in buffer THEN Cardinality(buffer) - 1 ELSE Cardinality(buffer)
      BY FS_RemoveElement DEF IInv
    <2> QED
      BY <1>1, <2>1, <2>2 DEF IInv, TypeOK
  <1>3. d \in documents /\ kind[d] \in Type
    BY <1>1 DEF IInv, Inserted
  <1>4. metrics' \in [{"documents", "elements"} -> [{"success", "error"} -> Nat]]
    BY <1>1, <1>3, MetricsTyped DEF IInv, TypeOK
  <1>5. TypeOK'
    BY <1>1, <1>2, <1>4 DEF IInv, TypeOK, Outcome, Phase
  <1>6. Queued' = Queued /\ Reported' = Reported
    BY <1>1 DEF Queued, Reported
  <1>7. Inserted' /\ OnlyFinished'
    BY <1>1, <1>6 DEF IInv, Inserted, OnlyFinished
  <1> QED
    BY <1>1, <1>2, <1>5, <1>7, TasksKeep DEF IInv

\* The steps that change nothing but how the run stands.
LEMMA PhaseKeeps ==
    ASSUME IInv, Fail \/ Stream \/ FailToFlush \/ End \/ UNCHANGED vars
    PROVE  IInv'
PROOF
  <1>1. TasksStay /\ UNCHANGED <<channel, buffer, reported, metrics>>
    BY DEF Fail, Stream, FailToFlush, End, vars, TasksStay
  <1>2. phase' \in Phase /\ exit' \in {Nothing, "success", "failure"}
    BY DEF Fail, Stream, FailToFlush, End, vars, IInv, TypeOK, Phase, Outcome
  <1>3. TypeOK'
    BY <1>1, <1>2 DEF IInv, TypeOK, TasksStay, Outcome
  <1>4. Queued' = Queued /\ Reported' = Reported
    BY <1>1 DEF Queued, Reported
  <1>5. Inserted' /\ OnlyFinished' /\ IsFiniteSet(buffer')
    BY <1>1, <1>4 DEF IInv, Inserted, OnlyFinished, TasksStay
  <1> QED
    BY <1>1, <1>3, <1>5, TasksKeep DEF IInv

LEMMA NextKeeps ==
    ASSUME IInv, [Next]_vars
    PROVE  IInv'
BY VisitKeeps, SendKeeps, ExpandKeeps, FinishKeeps, PullKeeps, ReportKeeps, FailToPrintKeeps,
   PhaseKeeps
    DEF Next, Step, Consume, FailToWrite

LEMMA Invariance == Spec => []IInv
PROOF
  <1>1. Init => IInv
    BY InitIInv
  <1>2. IInv /\ [Next]_vars => IInv'
    BY NextKeeps
  <1> QED
    BY <1>1, <1>2, PTL DEF Spec

\* The variables of the crawl have their types, and neither the channel nor the buffer
\* is ever fuller than its capacity.
THEOREM TypeCorrect == Spec => []TypeOK
PROOF
  <1>1. IInv => TypeOK
    BY DEF IInv
  <1> QED
    BY <1>1, Invariance, PTL

\* A document is reported after the link tasks of all its links ended.
THEOREM ReportsWhole == Spec => []ReportedWhole
PROOF
  <1>1. IInv => ReportedWhole
    <2> SUFFICES ASSUME IInv, NEW d \in Reported, NEW l \in LinksOf(d, kind[d])
                 PROVE  <<d, l>> \in DOMAIN task /\ task[<<d, l>>] = "done"
      BY DEF ReportedWhole
    <2>1. d \in Doc /\ doc[d] = "finished"
      BY DEF IInv, OnlyFinished, Reported
    <2> QED
      BY <2>1 DEF IInv, Expanded, Finished
  <1> QED
    BY <1>1, Invariance, PTL
-----------------------------------------------------------------------------
\* The inserted documents move from place to place, one at a time.
Placed == SentOnce /\ QueuedOnce /\ ReportedOnce /\ Apart /\ Somewhere

LEMMA InitPlaced == Init => Placed
PROOF
  <1> SUFFICES ASSUME Init PROVE Placed
    OBVIOUS
  <1>1. /\ documents = {} /\ sending = {} /\ buffer = {} /\ channel = <<>>
        /\ \A d \in Doc : reported[d] = 0
    BY DEF Init
  <1>2. Sent = {} /\ Queued = {} /\ Reported = {}
    BY <1>1 DEF Sent, Queued, Reported
  <1> QED
    BY <1>1, <1>2 DEF Placed, SentOnce, QueuedOnce, ReportedOnce, Apart, Somewhere

\* The jobs being sent are where they were when neither they nor the senders moved.
LEMMA SentStays ==
    ASSUME IInv, web' = web, sending' = sending, \A u \in sending : task'[u] = task[u]
    PROVE  Sent' = Sent /\ (SentOnce' <=> SentOnce)
PROOF
  <1>1. \A u \in sending : Coming(u)' = Coming(u)
    BY StaysAt
  <1> QED
    BY <1>1 DEF Sent, SentOnce

LEMMA VisitPlaced ==
    ASSUME IInv, Placed, NEW t \in DOMAIN task, Visit(t)
    PROVE  Placed'
PROOF
  <1>1. web' = web /\ UNCHANGED <<channel, buffer, reported>>
    BY DEF Visit
  <1>2. Queued' = Queued /\ Reported' = Reported /\ QueuedOnce' /\ ReportedOnce'
    BY <1>1 DEF Placed, Queued, Reported, QueuedOnce, ReportedOnce
  <1>3. CASE Spawns(t)
    <2> DEFINE x == Coming(t)
    <2>1. x \notin documents /\ documents' = documents \cup {x}
      BY <1>3 DEF Visit, Spawns, Coming
    <2>2. sending' = sending \cup {t} /\ task' = task
      BY <1>3 DEF Visit
    <2>3. \A u : Coming(u)' = Coming(u)
      BY <1>1, <2>2, StaysAt
    <2>4. Sent' = Sent \cup {x}
      BY <2>2, <2>3 DEF Sent
    <2>5. \A u \in sending : Coming(u) # x
      BY <2>1 DEF IInv, Senders
    <2> HIDE DEF x
    <2>6. x \notin Sent \cup Queued \cup buffer \cup Reported
      BY <2>1 DEF Placed, Somewhere
    <2>7. SentOnce'
      BY <2>2, <2>3, <2>5 DEF Placed, SentOnce, x
    <2> QED
      BY <1>1, <1>2, <2>1, <2>4, <2>6, <2>7 DEF Placed, Apart, Somewhere
  <1>4. CASE ~Spawns(t)
    <2>1. UNCHANGED <<documents, sending>> /\ t \notin sending /\ task' = [task EXCEPT ![t] = After(t)]
      BY <1>4 DEF Visit
    <2>2. \A u \in sending : task'[u] = task[u]
      BY <2>1 DEF IInv, TypeOK
    <2>3. Sent' = Sent /\ (SentOnce' <=> SentOnce)
      BY <1>1, <2>1, <2>2, SentStays
    <2> QED
      BY <1>1, <1>2, <2>1, <2>3 DEF Placed, Apart, Somewhere
  <1> QED
    BY <1>3, <1>4

LEMMA SendPlaced ==
    ASSUME IInv, Placed, NEW t \in DOMAIN task, Send(t)
    PROVE  Placed'
PROOF
  <1> DEFINE x == Coming(t)
  <1>1. /\ web' = web /\ UNCHANGED <<documents, buffer, reported>>
        /\ t \in sending /\ sending' = sending \ {t} /\ channel' = Append(channel, x)
        /\ task' = [task EXCEPT ![t] = After(t)]
    BY DEF Send, Coming
  <1>2. x \in documents /\ x \in Doc
    BY <1>1 DEF IInv, Senders, TypeOK
  <1>3. \A u \in sending' : task'[u] = task[u]
    BY <1>1 DEF IInv, TypeOK
  <1>4. \A u \in sending' : Coming(u)' = Coming(u) /\ Coming(u) # x
    BY <1>1, <1>3, StaysAt DEF Placed, SentOnce
  <1>5. Sent' = Sent \ {x}
    BY <1>1, <1>4 DEF Sent
  <1>6. SentOnce'
    BY <1>1, <1>4 DEF Placed, SentOnce
  <1>7. Reported' = Reported /\ ReportedOnce'
    BY <1>1 DEF Placed, Reported, ReportedOnce
  <1>8. x \in Sent
    BY <1>1 DEF Sent
  <1> HIDE DEF x
  <1>9. /\ \A i \in DOMAIN channel : channel'[i] = channel[i]
        /\ DOMAIN channel' = DOMAIN channel \cup {Len(channel) + 1}
        /\ channel'[Len(channel) + 1] = x /\ Queued' = Queued \cup {x}
    BY <1>1, <1>2, Appended DEF IInv
  <1>10. \A i \in DOMAIN channel : channel[i] # x
    BY <1>8 DEF Placed, Apart, Queued
  <1>11. QueuedOnce'
    BY <1>9, <1>10 DEF Placed, QueuedOnce
  <1> QED
    BY <1>1, <1>5, <1>6, <1>7, <1>8, <1>9, <1>11 DEF Placed, Apart, Somewhere

LEMMA PullPlaced ==
    ASSUME IInv, Placed, Pull
    PROVE  Placed'
PROOF
  <1> DEFINE h == Head(channel)
  <1>1. /\ channel # <<>> /\ channel' = Tail(channel) /\ buffer' = buffer \cup {h}
        /\ UNCHANGED <<web, documents, sending, task, reported>>
    BY DEF Pull
  <1>2. /\ 1 \in DOMAIN channel /\ channel[1] = h
        /\ \A i \in DOMAIN channel' : /\ i + 1 \in DOMAIN channel /\ i \in Nat \ {0}
                                     /\ channel'[i] = channel[i + 1]
        /\ Queued = Queued' \cup {h}
    BY <1>1, Taken DEF IInv
  <1>3. Sent' = Sent /\ SentOnce' /\ Reported' = Reported /\ ReportedOnce'
    BY <1>1, SentStays DEF Placed, Reported, ReportedOnce
  <1> HIDE DEF h
  <1>4. \A i \in DOMAIN channel' : channel'[i] # h
    BY <1>2 DEF Placed, QueuedOnce
  <1>5. h \notin Queued'
    BY <1>4 DEF Queued
  <1>6. QueuedOnce'
    <2> SUFFICES ASSUME NEW i \in DOMAIN channel', NEW j \in DOMAIN channel',
                        channel'[i] = channel'[j]
                 PROVE  i = j
      BY DEF QueuedOnce
    <2>1. i + 1 = j + 1
      BY <1>2 DEF Placed, QueuedOnce
    <2> QED
      BY <1>2, <2>1
  <1> QED
    BY <1>1, <1>2, <1>3, <1>5, <1>6 DEF Placed, Apart, Somewhere

LEMMA ReportPlaced ==
    ASSUME IInv, Placed, NEW d \in Doc, Report(d), phase' # "aborted"
    PROVE  Placed'
PROOF
  <1>1. /\ d \in buffer /\ buffer' = buffer \ {d} /\ reported' = [reported EXCEPT ![d] = @ + 1]
        /\ UNCHANGED <<web, documents, sending, task, channel>>
    BY DEF Report
  <1>2. Sent' = Sent /\ SentOnce' /\ Queued' = Queued /\ QueuedOnce'
    BY <1>1, SentStays DEF Placed, Queued, QueuedOnce
  <1>3. /\ reported \in [Doc -> Nat] /\ reported'[d] = reported[d] + 1
        /\ \A e \in Doc \ {d} : reported'[e] = reported[e]
    BY <1>1 DEF IInv, TypeOK
  <1>4. d \notin Reported
    BY <1>1 DEF Placed, Apart
  <1>5. reported[d] = 0
    BY <1>3, <1>4 DEF Reported
  <1>6. ReportedOnce'
    BY <1>3, <1>5 DEF Placed, ReportedOnce
  <1>7. Reported' = Reported \cup {d}
    BY <1>3, <1>5 DEF Reported
  <1> QED
    BY <1>1, <1>2, <1>4, <1>6, <1>7 DEF Placed, Apart, Somewhere

\* The steps that move no job.
LEMMA OtherPlaced ==
    ASSUME IInv, Placed,
           \/ \E d \in Doc : Expand(d) \/ Finish(d)
           \/ Fail \/ Stream \/ End \/ UNCHANGED vars
    PROVE  Placed'
PROOF
  <1>1. UNCHANGED <<web, documents, sending, channel, buffer, reported>>
    BY DEF Expand, Finish, Fail, Stream, End, vars
  <1>2. \A u \in sending : task'[u] = task[u]
    <2>1. CASE task' = task
      BY <2>1
    <2>2. CASE \E d \in Doc : Expand(d) /\ <<d, kind[d]>> \notin web.broken
      BY <2>2 DEF Expand, IInv, TypeOK
    <2> QED
      BY <2>1, <2>2 DEF Expand, Finish, Fail, Stream, End, vars
  <1>3. Sent' = Sent /\ SentOnce'
    BY <1>1, <1>2, SentStays DEF Placed
  <1> QED
    BY <1>1, <1>3 DEF Placed, Queued, Reported, QueuedOnce, ReportedOnce, Apart, Somewhere

\* The runs that were given up in the middle of a report.
GivenUp == {"aborted", "unwritten"}

LEMMA NextPlaced ==
    ASSUME IInv, OnePlace, [Next]_vars
    PROVE  OnePlace'
PROOF
  <1> SUFFICES ASSUME phase' \notin GivenUp PROVE Placed'
    BY DEF OnePlace, Placed, GivenUp
  <1>1. CASE phase \in GivenUp
    <2>1. UNCHANGED vars
      BY <1>1 DEF Next, Step, Consume, FailToWrite, Running, Visit, Send, Expand, Finish, Fail,
                  Stream, Pull, Report, FailToPrint, FailToFlush, End, GivenUp
    <2> QED
      BY <1>1, <2>1 DEF vars
  <1>2. CASE phase \notin GivenUp
    <2>1. Placed
      BY <1>2 DEF OnePlace, Placed, GivenUp
    <2>2. ~FailToWrite
      BY DEF FailToWrite, FailToPrint, FailToFlush, GivenUp
    <2>3. phase' # "aborted"
      BY DEF GivenUp
    <2> QED
      BY <2>1, <2>2, <2>3, VisitPlaced, SendPlaced, PullPlaced, ReportPlaced, OtherPlaced
          DEF Next, Step, Consume
  <1> QED
    BY <1>1, <1>2

\* However many tasks come to a document at once, its job is in one place and it is
\* reported at most once, for every web, every capacity and any number of documents.
THEOREM NothingLost == Spec => []OnePlace
PROOF
  <1>1. Init => OnePlace
    BY InitPlaced DEF OnePlace, Placed
  <1>2. IInv /\ OnePlace /\ [Next]_vars => OnePlace'
    BY NextPlaced
  <1> QED
    BY <1>1, <1>2, Invariance, PTL DEF Spec
-----------------------------------------------------------------------------
\* The type of a document is the one that all links that crawl it can agree on.
LEMMA SettledByMedia ==
    ASSUME web \in Webs, NEW l \in Link, Crawls(l), web.media[web.target[l]] # Nothing
    PROVE  TypeOf(l) = SettledType(web.target[l])
PROOF
  <1> DEFINE media == web.media[web.target[l]]
             declared == Declared[l]
  <1>1. media \in Media /\ declared \in Type \cup {Nothing}
    BY LinkAssumption DEF IsWeb, Crawls
  <1>2. TypeOf(l) = DocumentType(media, declared) /\ TypeOf(l) \notin {Nothing, Invalid}
    BY DEF TypeOf, Crawls, Fails
  <1>3. Nothing \notin Type /\ Nothing \notin Media
    BY NoneAssumption
  <1> HIDE DEF media, declared
  <1>4. CASE declared = Nothing
    <2>1. TypeOf(l) = OwnType(media)
      BY <1>1, <1>2, <1>3, <1>4 DEF DocumentType
    <2>2. media \notin {"text/plain", "application/xml", "other"}
      BY <1>2, <2>1 DEF OwnType
    <2> QED
      BY <1>1, <1>3, <2>1, <2>2 DEF SettledType, media
  <1>5. CASE declared \in Type
    <2>1. media \in AcceptedMedia(declared) /\ TypeOf(l) = declared
      BY <1>1, <1>2, <1>3, <1>5 DEF DocumentType
    <2>2. SettledType(web.target[l]) =
            CASE media = Nothing           -> kind[web.target[l]]
              [] media = "text/plain"      -> "robots"
              [] media = "application/xml" -> "sitemap"
              [] OTHER                     -> OwnType(media)
      BY DEF SettledType, media
    <2>3. \/ declared = "css" /\ media = "text/css"
          \/ declared = "html" /\ media = "text/html"
          \/ declared = "robots" /\ media = "text/plain"
          \/ declared = "sitemap" /\ media = "application/xml"
          \/ declared = "svg" /\ media = "image/svg+xml"
      BY <1>5, <2>1 DEF AcceptedMedia, Type
    <2> QED
      BY <1>1, <1>3, <2>1, <2>2, <2>3 DEF OwnType, Media
  <1> QED
    BY <1>1, <1>4, <1>5

-----------------------------------------------------------------------------
\* Where a link task comes from, what its end means, and which documents failed.
Settled == \A d \in documents : kind[d] = SettledType(d)
Origins ==
    \A t \in DOMAIN task :
        \/ t[1] = Root /\ t[2] \in Roots
        \/ /\ t[1] \in documents /\ t[2] \in LinksOf(t[1], kind[t[1]])
           /\ <<t[1], kind[t[1]]>> \notin web.broken
Followed ==
    \A t \in DOMAIN task :
        /\ task[t] = "done" /\ Crawls(t[2]) => web.target[t[2]] \in documents
        /\ task[t] # "before" /\ Before[t[2]] # Nothing /\ Crawls(Before[t[2]])
              => web.target[Before[t[2]]] \in documents
Broken ==
    \A d \in Doc :
        /\ doc[d] = "broken" => <<d, kind[d]>> \in web.broken
        /\ doc[d] \in {"waiting", "finished"} => <<d, kind[d]>> \notin web.broken

NoOtherKinds == \A d \in Doc \ documents : kind[d] = Nothing

Graph == Settled /\ Origins /\ Followed /\ Broken /\ NoOtherKinds

LEMMA InitGraph == Init => Graph
PROOF
  <1> SUFFICES ASSUME Init PROVE Graph
    OBVIOUS
  <1>1. /\ documents = {} /\ \A d \in Doc : doc[d] = "none" /\ kind[d] = Nothing
        /\ DOMAIN task = {Root} \X Roots /\ \A t \in DOMAIN task : task[t] = "before"
    BY DEF Init
  <1> QED
    BY <1>1 DEF Graph, Settled, Origins, Followed, Broken, NoOtherKinds

LEMMA SettledStays ==
    ASSUME web' = web, NEW d, kind'[d] = kind[d] \/ web.media[d] # Nothing
    PROVE  SettledType(d)' = SettledType(d)
BY DEF SettledType

\* A link task moves on past a link to a document that is inserted, or to none.
LEMMA MovesOn ==
    ASSUME IInv, Graph, NEW t \in DOMAIN task, task[t] # "done",
           task' = [task EXCEPT ![t] = After(t)], UNCHANGED <<web, documents, kind, doc>>,
           At(t) # Nothing /\ Crawls(At(t)) => web.target[At(t)] \in documents
    PROVE  Graph'
PROOF
  <1>1. /\ DOMAIN task' = DOMAIN task
        /\ task'[t] = After(t) /\ \A u \in DOMAIN task \ {t} : task'[u] = task[u]
    BY TaskMoves
  <1>2. t[2] \in Link /\ t[2] # Nothing
    BY TaskLinks, NoneAssumption DEF IInv
  <1>3. Settled'
    BY SettledStays DEF Graph, Settled
  <1>4. Origins' /\ Broken' /\ NoOtherKinds'
    BY <1>1, WebStays DEF Graph, Origins, Broken, NoOtherKinds
  <1>5. Followed'
    <2>1. task[t] = "before" \/ task[t] = "own"
      BY DEF IInv, TypeOK
    <2>2. /\ task'[t] = "done" /\ Crawls(t[2]) => web.target[t[2]] \in documents
          /\ task'[t] # "before" /\ Before[t[2]] # Nothing /\ Crawls(Before[t[2]])
                => web.target[Before[t[2]]] \in documents
      <3>1. CASE task[t] = "before"
        BY <1>1, <3>1 DEF At, After
      <3>2. CASE task[t] = "own"
        BY <1>1, <1>2, <3>2 DEF At, Graph, Followed
      <3> QED
        BY <2>1, <3>1, <3>2
    <2> QED
      BY <1>1, <2>2, WebStays DEF Graph, Followed
  <1> QED
    BY <1>3, <1>4, <1>5 DEF Graph

LEMMA VisitGraph ==
    ASSUME IInv, Graph, NEW t \in DOMAIN task, Visit(t)
    PROVE  Graph'
PROOF
  <1> DEFINE x == web.target[At(t)]
  <1>1. web' = web /\ task[t] # "done"
    BY DEF Visit
  <1>2. CASE Spawns(t)
    <2>1. /\ At(t) # Nothing /\ Crawls(At(t)) /\ x \notin documents
          /\ documents' = documents \cup {x} /\ task' = task
          /\ kind' = [kind EXCEPT ![x] = TypeOf(At(t))]
          /\ doc' = [doc EXCEPT ![x] = "spawned"]
      BY <1>2 DEF Visit, Spawns
    <2>2. At(t) \in Link
      BY <2>1, TaskLinks DEF IInv
    <2>3. x \in Doc /\ TypeOf(At(t)) \in Type
      BY <2>1, <2>2, CrawledLinks DEF IInv
    <2>4. web.media[x] # Nothing => SettledType(x) = TypeOf(At(t))
      BY <2>1, <2>2, SettledByMedia DEF IInv
    <2>5. PICK y \in Doc : y = x
      BY <2>3
    <2>6. /\ y \notin documents /\ documents' = documents \cup {y} /\ task' = task
          /\ kind' = [kind EXCEPT ![y] = TypeOf(At(t))]
          /\ doc' = [doc EXCEPT ![y] = "spawned"]
          /\ web.media[y] # Nothing => SettledType(y) = TypeOf(At(t))
      BY <2>1, <2>4, <2>5
    <2>7. /\ kind'[y] = TypeOf(At(t)) /\ \A d \in Doc \ {y} : kind'[d] = kind[d]
          /\ doc'[y] = "spawned" /\ \A d \in Doc \ {y} : doc'[d] = doc[d]
      BY <2>6, <2>3 DEF IInv, TypeOK
    <2>8. documents \subseteq Doc \ {y}
      BY <2>6 DEF IInv, TypeOK
    <2>9. kind'[y] = SettledType(y)'
      <3>1. CASE web.media[y] = Nothing
        BY <1>1, <3>1, NoneAssumption DEF SettledType, Media
      <3>2. CASE web.media[y] # Nothing
        BY <1>1, <2>6, <2>7, <3>2, SettledStays
      <3> QED
        BY <3>1, <3>2
    <2>10. Settled'
      BY <1>1, <2>6, <2>7, <2>8, <2>9, SettledStays DEF Graph, Settled
    <2>11. Origins'
      <3>1. \A d \in documents : kind'[d] = kind[d] /\ LinksOf(d, kind[d])' = LinksOf(d, kind[d])
        BY <1>1, <2>7, <2>8, WebStays
      <3> QED
        BY <1>1, <2>6, <3>1 DEF Graph, Origins
    <2>12. Followed'
      BY <1>1, <2>6, WebStays DEF Graph, Followed
    <2>13. Broken' /\ NoOtherKinds'
      BY <1>1, <2>6, <2>7 DEF Graph, Broken, NoOtherKinds
    <2> QED
      BY <2>10, <2>11, <2>12, <2>13 DEF Graph
  <1>3. CASE ~Spawns(t)
    <2>1. task' = [task EXCEPT ![t] = After(t)] /\ UNCHANGED <<web, documents, kind, doc>>
      BY <1>3 DEF Visit
    <2>2. At(t) # Nothing /\ Crawls(At(t)) => web.target[At(t)] \in documents
      BY <1>3 DEF Spawns
    <2> QED
      BY <1>1, <2>1, <2>2, MovesOn
  <1> QED
    BY <1>2, <1>3

LEMMA SendGraph ==
    ASSUME IInv, Graph, NEW t \in DOMAIN task, Send(t)
    PROVE  Graph'
PROOF
  <1>1. /\ t \in sending /\ task' = [task EXCEPT ![t] = After(t)]
        /\ UNCHANGED <<web, documents, kind, doc>>
    BY DEF Send
  <1>2. task[t] # "done" /\ web.target[At(t)] \in documents
    BY <1>1 DEF IInv, Senders, Coming
  <1> QED
    BY <1>1, <1>2, MovesOn

LEMMA ExpandGraph ==
    ASSUME IInv, Graph, NEW d \in Doc, Expand(d)
    PROVE  Graph'
PROOF
  <1>1. doc[d] = "spawned" /\ UNCHANGED <<web, documents, kind>> /\ d \in documents
    BY DEF Expand, IInv, Inserted
  <1>2. \A e \in Doc \ {d} : doc'[e] = doc[e]
    BY DEF Expand, IInv, TypeOK
  <1>3. Settled' /\ NoOtherKinds'
    BY <1>1, SettledStays DEF Graph, Settled, NoOtherKinds
  <1>4. CASE <<d, kind[d]>> \in web.broken
    <2>1. doc'[d] = "broken" /\ task' = task
      BY <1>4 DEF Expand, IInv, TypeOK
    <2> QED
      BY <1>1, <1>2, <1>3, <1>4, <2>1, WebStays DEF Graph, Origins, Followed, Broken
  <1>5. CASE <<d, kind[d]>> \notin web.broken
    <2> DEFINE D == DOMAIN task \cup ({d} \X LinksOf(d, kind[d]))
    <2>1. /\ doc'[d] = "waiting"
          /\ task' = [u \in D |-> IF u \in DOMAIN task THEN task[u] ELSE "before"]
      BY <1>5 DEF Expand, IInv, TypeOK
    <2>2. \A u \in D : u \in DOMAIN task \/ (u[1] = d /\ u[2] \in LinksOf(d, kind[d]))
      OBVIOUS
    <2> HIDE DEF D
    <2>3. DOMAIN task' = D /\ \A u \in D : task'[u] = IF u \in DOMAIN task THEN task[u] ELSE "before"
      BY <2>1
    <2>4. Origins'
      BY <1>1, <1>5, <2>2, <2>3, WebStays DEF Graph, Origins
    <2>5. Followed'
      BY <1>1, <2>2, <2>3, WebStays DEF Graph, Followed
    <2>6. Broken'
      BY <1>1, <1>2, <1>5, <2>1 DEF Graph, Broken
    <2> QED
      BY <1>3, <2>4, <2>5, <2>6 DEF Graph
  <1> QED
    BY <1>4, <1>5

LEMMA FinishGraph ==
    ASSUME IInv, Graph, NEW d \in Doc, Finish(d)
    PROVE  Graph'
PROOF
  <1>1. doc[d] = "waiting" /\ UNCHANGED <<web, documents, kind, task>>
    BY DEF Finish
  <1>2. doc'[d] = "finished" /\ \A e \in Doc \ {d} : doc'[e] = doc[e]
    BY DEF Finish, IInv, TypeOK
  <1>3. Settled' /\ NoOtherKinds'
    BY <1>1, SettledStays DEF Graph, Settled, NoOtherKinds
  <1>4. Origins' /\ Followed'
    BY <1>1, WebStays DEF Graph, Origins, Followed
  <1>5. Broken'
    BY <1>1, <1>2 DEF Graph, Broken
  <1> QED
    BY <1>3, <1>4, <1>5 DEF Graph

LEMMA TasksKeepGraph ==
    ASSUME IInv, Graph, TasksStay
    PROVE  Graph'
PROOF
  <1>1. UNCHANGED <<web, documents, kind, doc, task>>
    BY DEF TasksStay
  <1>2. Settled'
    BY <1>1, SettledStays DEF Graph, Settled
  <1>3. Origins' /\ Followed' /\ Broken' /\ NoOtherKinds'
    BY <1>1, WebStays DEF Graph, Origins, Followed, Broken, NoOtherKinds
  <1> QED
    BY <1>2, <1>3 DEF Graph

LEMMA NextGraph ==
    ASSUME IInv, Graph, [Next]_vars
    PROVE  Graph'
PROOF
  <1>1. ASSUME Consume \/ UNCHANGED vars
        PROVE  TasksStay
    BY <1>1 DEF Consume, FailToWrite, Fail, Stream, Pull, Report, FailToPrint, FailToFlush, End,
                vars, TasksStay
  <1> QED
    BY <1>1, VisitGraph, SendGraph, ExpandGraph, FinishGraph, TasksKeepGraph DEF Next, Step

LEMMA GraphInvariance == Spec => []Graph
PROOF
  <1>1. IInv /\ Graph /\ [Next]_vars => Graph'
    BY NextGraph
  <1> QED
    BY <1>1, InitGraph, Invariance, PTL DEF Spec

-----------------------------------------------------------------------------
\* Only reachable documents are inserted: every closed set holds them.
Reached == \A docs \in SUBSET Doc : Closed(docs) => documents \subseteq docs

LEMMA CrawledStays == ASSUME web' = web PROVE \A links : Crawled(links)' = Crawled(links)
BY WebStays DEF Crawled

LEMMA WebNeverChanges == ASSUME [Next]_vars PROVE web' = web
BY DEF Next, Step, Consume, FailToWrite, Visit, Send, Expand, Finish, Fail, Stream, Pull, Report,
       FailToPrint, FailToFlush, End, vars

\* The type of a document is settled once; a set that is closed by then was before.
LEMMA TypesSettleOnce ==
    ASSUME IInv, Graph, [Next]_vars, NEW d \in Doc
    PROVE  kind'[d] = kind[d] \/ (kind[d] = Nothing /\ d \notin documents)
PROOF
  <1>1. CASE \E t \in DOMAIN task : Visit(t) /\ Spawns(t)
    <2>1. PICK t \in DOMAIN task : Visit(t) /\ Spawns(t)
      BY <1>1
    <2>2. /\ web.target[At(t)] \notin documents
          /\ kind' = [kind EXCEPT ![web.target[At(t)]] = TypeOf(At(t))]
      BY <2>1 DEF Visit, Spawns
    <2>3. CASE d = web.target[At(t)]
      BY <2>2, <2>3 DEF Graph, NoOtherKinds
    <2>4. CASE d # web.target[At(t)]
      BY <2>2, <2>4 DEF IInv, TypeOK
    <2> QED
      BY <2>3, <2>4
  <1>2. CASE ~\E t \in DOMAIN task : Visit(t) /\ Spawns(t)
    <2>1. kind' = kind
      BY <1>2 DEF Next, Step, Consume, Visit, Send, Expand, Finish, Fail, Stream, Pull, Report,
                  FailToWrite, FailToPrint, FailToFlush, End, vars
    <2> QED
      BY <2>1
  <1> QED
    BY <1>1, <1>2

LEMMA ClosedBefore ==
    ASSUME IInv, Graph, [Next]_vars, NEW docs \in SUBSET Doc, Closed(docs)'
    PROVE  Closed(docs)
PROOF
  <1>1. web' = web
    BY WebNeverChanges
  <1>2. Crawled(Roots) \subseteq docs
    BY <1>1, CrawledStays DEF Closed
  <1>3. ASSUME NEW d \in docs, <<d, SettledType(d)>> \notin web.broken
        PROVE  Crawled(LinksOf(d, SettledType(d))) \subseteq docs
    <2>1. CASE SettledType(d)' = SettledType(d)
      <3>1. LinksOf(d, SettledType(d))' = LinksOf(d, SettledType(d))
        BY <1>1, <2>1, WebStays DEF LinksOf, Items, Places, ItemAt
      <3> QED
        BY <1>1, <1>3, <2>1, <3>1, CrawledStays DEF Closed
    <2>2. CASE SettledType(d)' # SettledType(d)
      <3>1. kind'[d] # kind[d] /\ web.media[d] = Nothing
        BY <1>1, <2>2, SettledStays
      <3>2. kind[d] = Nothing
        BY <3>1, TypesSettleOnce
      <3>3. SettledType(d) = Nothing
        BY <3>1, <3>2, NoneAssumption DEF SettledType, Media
      <3> QED
        BY <3>3 DEF LinksOf, Crawled
    <2> QED
      BY <2>1, <2>2
  <1> QED
    BY <1>2, <1>3 DEF Closed

\* The link that a task is at leads into every closed set.
LEMMA LinksLeadInside ==
    ASSUME IInv, Graph, NEW docs \in SUBSET Doc, Closed(docs), documents \subseteq docs,
           NEW t \in DOMAIN task, At(t) # Nothing, Crawls(At(t))
    PROVE  web.target[At(t)] \in docs
PROOF
  <1>1. At(t) \in Link /\ (At(t) = t[2] \/ At(t) = Before[t[2]])
    BY TaskLinks DEF IInv, At
  <1>2. ASSUME NEW links, t[2] \in links
        PROVE  web.target[At(t)] \in Crawled(links)
    BY <1>1, <1>2 DEF Crawled
  <1>3. CASE t[2] \in Roots
    BY <1>2, <1>3 DEF Closed
  <1>4. CASE /\ t[1] \in documents /\ t[2] \in LinksOf(t[1], kind[t[1]])
             /\ <<t[1], kind[t[1]]>> \notin web.broken
    <2>1. kind[t[1]] = SettledType(t[1])
      BY <1>4 DEF Graph, Settled
    <2> QED
      BY <1>2, <1>4, <2>1 DEF Closed
  <1> QED
    BY <1>3, <1>4 DEF Graph, Origins

LEMMA NextReached ==
    ASSUME IInv, Graph, Reached, [Next]_vars
    PROVE  Reached'
PROOF
  <1> SUFFICES ASSUME NEW docs \in SUBSET Doc, Closed(docs)'
               PROVE  documents' \subseteq docs
    BY DEF Reached
  <1>1. Closed(docs)
    BY ClosedBefore
  <1>2. documents \subseteq docs
    BY <1>1 DEF Reached
  <1>3. CASE \E t \in DOMAIN task : Visit(t) /\ Spawns(t)
    <2>1. PICK t \in DOMAIN task : Visit(t) /\ Spawns(t)
      BY <1>3
    <2>2. /\ documents' = documents \cup {web.target[At(t)]}
          /\ At(t) # Nothing /\ Crawls(At(t))
      BY <2>1 DEF Visit, Spawns
    <2> QED
      BY <1>1, <1>2, <2>2, LinksLeadInside
  <1>4. CASE ~\E t \in DOMAIN task : Visit(t) /\ Spawns(t)
    <2>1. documents' = documents
      BY <1>4 DEF Next, Step, Consume, Visit, Send, Expand, Finish, Fail, Stream, Pull, Report,
                  FailToWrite, FailToPrint, FailToFlush, End, vars
    <2> QED
      BY <1>2, <2>1
  <1> QED
    BY <1>3, <1>4

LEMMA ReachedInvariance == Spec => []Reached
PROOF
  <1>1. Init => Reached
    BY DEF Init, Reached
  <1>2. IInv /\ Graph /\ Reached /\ [Next]_vars => Reached'
    BY NextReached
  <1> QED
    BY <1>1, <1>2, Invariance, GraphInvariance, PTL DEF Spec

LEMMA DocumentsReachable == ASSUME IInv, Reached PROVE documents \subseteq Reachable
BY DEF IInv, TypeOK, Reached, Reachable
-----------------------------------------------------------------------------
\* The metrics of the documents that were reported.
ErrorCount == [d \in documents |-> Cardinality(Errors(d, kind[d]))]
ItemCount == [d \in documents |-> Cardinality(Places(d, kind[d]))]
Tally ==
    phase \notin GivenUp =>
        /\ IsFiniteSet(Reported)
        /\ metrics.documents.success + metrics.documents.error = Cardinality(Reported)
        /\ metrics.documents.error > 0 <=> \E d \in Reported : Errors(d, kind[d]) # {}
        /\ metrics.elements.error = Total(ErrorCount, Reported)
        /\ metrics.elements.success + metrics.elements.error = Total(ItemCount, Reported)

LEMMA InitTally == Init => Tally
PROOF
  <1> SUFFICES ASSUME Init PROVE Tally
    OBVIOUS
  <1>1. /\ metrics.documents.success = 0 /\ metrics.documents.error = 0
        /\ metrics.elements.success = 0 /\ metrics.elements.error = 0
        /\ \A d \in Doc : reported[d] = 0
    BY DEF Init
  <1>2. Reported = {}
    BY <1>1 DEF Reported
  <1>3. Total(ErrorCount, Reported) = 0 /\ Total(ItemCount, Reported) = 0
    <2>1. PICK f, g, S : f = ErrorCount /\ g = ItemCount /\ S = Reported
      OBVIOUS
    <2> QED
      BY <1>2, <2>1, TotalOfNone
  <1> QED
    BY <1>1, <1>2, <1>3, FS_EmptySet DEF Tally

LEMMA ErrorsCounted ==
    ASSUME web \in Webs, NEW d \in Doc, kind[d] \in Type
    PROVE  DocumentMetrics(d).error > 0 <=> Errors(d, kind[d]) # {}
PROOF
  <1>1. IsFiniteSet(Errors(d, kind[d]))
    BY FinitePlaces, FS_Subset DEF Errors
  <1>2. /\ Cardinality(Errors(d, kind[d])) \in Nat
        /\ Cardinality(Errors(d, kind[d])) = 0 <=> Errors(d, kind[d]) = {}
    BY <1>1, FS_CardinalityType, FS_EmptySet
  <1>3. DocumentMetrics(d).error = Cardinality(Errors(d, kind[d]))
    BY DEF DocumentMetrics, Counts
  <1> QED
    BY <1>2, <1>3

LEMMA CountsAreOfItems ==
    ASSUME IInv
    PROVE  /\ ErrorCount \in [documents -> Nat] /\ ItemCount \in [documents -> Nat]
           /\ \A d \in documents :
                /\ DocumentMetrics(d).error = ErrorCount[d]
                /\ DocumentMetrics(d).success + DocumentMetrics(d).error = ItemCount[d]
                /\ DocumentMetrics(d).success \in Nat
PROOF
  <1> SUFFICES ASSUME NEW d \in documents
               PROVE  /\ Cardinality(Errors(d, kind[d])) \in Nat
                      /\ Cardinality(Places(d, kind[d])) \in Nat
                      /\ DocumentMetrics(d).error = Cardinality(Errors(d, kind[d]))
                      /\ DocumentMetrics(d).success + DocumentMetrics(d).error
                            = Cardinality(Places(d, kind[d]))
                      /\ DocumentMetrics(d).success \in Nat
    BY DEF ErrorCount, ItemCount
  <1> DEFINE places == Places(d, kind[d])
             errors == Errors(d, kind[d])
  <1>1. d \in Doc /\ kind[d] \in Type /\ web \in Webs
    BY DEF IInv, Inserted, TypeOK
  <1>2. IsFiniteSet(places) /\ errors \subseteq places
    BY <1>1, FinitePlaces DEF Errors
  <1>3. /\ DocumentMetrics(d).error = Cardinality(errors)
        /\ DocumentMetrics(d).success = Cardinality(places \ errors)
    BY DEF DocumentMetrics, Counts
  <1> HIDE DEF places, errors
  <1>4. IsFiniteSet(errors) /\ IsFiniteSet(places \ errors) /\ places \cap errors = errors
    BY <1>2, FS_Subset
  <1>5. Cardinality(places \ errors) = Cardinality(places) - Cardinality(errors)
    BY <1>2, <1>4, FS_Difference
  <1>6. /\ Cardinality(places) \in Nat /\ Cardinality(errors) \in Nat
        /\ Cardinality(places \ errors) \in Nat
    BY <1>2, <1>4, FS_CardinalityType
  <1> QED
    BY <1>3, <1>5, <1>6 DEF places, errors

\* What a document adds to the sums.
LEMMA ReportAdds ==
    ASSUME IInv, Tally, phase \notin GivenUp, NEW d \in documents, d \notin Reported,
           Reported' = Reported \cup {d}, UNCHANGED <<web, kind, documents>>,
           metrics'.elements = MergeMetrics(metrics.elements, DocumentMetrics(d))
    PROVE  /\ metrics'.elements.error = Total(ErrorCount', Reported')
           /\ metrics'.elements.success + metrics'.elements.error = Total(ItemCount', Reported')
PROOF
  <1> DEFINE own == DocumentMetrics(d)
             total == metrics.elements
  <1>1. /\ ErrorCount \in [documents -> Nat] /\ ItemCount \in [documents -> Nat]
        /\ own.error = ErrorCount[d] /\ own.success + own.error = ItemCount[d]
        /\ own.success \in Nat
    BY CountsAreOfItems
  <1>2. ErrorCount' = ErrorCount /\ ItemCount' = ItemCount
    BY WebStays DEF ErrorCount, ItemCount
  <1>3. total.success \in Nat /\ total.error \in Nat
    BY DEF IInv, TypeOK
  <1>4. /\ metrics'.elements.success = total.success + own.success
        /\ metrics'.elements.error = total.error + own.error
    BY DEF MergeMetrics
  <1>5. /\ IsFiniteSet(Reported) /\ Reported \in SUBSET documents
        /\ total.error = Total(ErrorCount, Reported)
        /\ total.success + total.error = Total(ItemCount, Reported)
    BY DEF Tally, IInv, Inserted
  <1> HIDE DEF own, total
  <1>6. /\ Total(ErrorCount, Reported \cup {d}) = Total(ErrorCount, Reported) + ErrorCount[d]
        /\ Total(ItemCount, Reported \cup {d}) = Total(ItemCount, Reported) + ItemCount[d]
    <2>1. PICK f, g, D, S, x : f = ErrorCount /\ g = ItemCount /\ D = documents /\ S = Reported /\ x = d
      OBVIOUS
    <2>2. /\ f \in [D -> Nat] /\ g \in [D -> Nat] /\ S \in SUBSET D /\ IsFiniteSet(S)
          /\ x \in D \ S
      BY <1>1, <1>5, <2>1
    <2>3. Total(f, S \cup {x}) = Total(f, S) + f[x] /\ Total(g, S \cup {x}) = Total(g, S) + g[x]
      BY <2>2, TotalOfMore
    <2> QED
      BY <2>1, <2>3
  <1>7. ErrorCount[d] \in Nat
    BY <1>1
  <1> QED
    BY <1>1, <1>2, <1>3, <1>4, <1>5, <1>6, <1>7

LEMMA ReportTally ==
    ASSUME IInv, Placed, Tally, phase \notin GivenUp, NEW d \in Doc, Report(d), phase' # "aborted"
    PROVE  Tally'
PROOF
  <1> DEFINE total == metrics.documents
             own == DocumentMetrics(d)
  <1>1. /\ d \in buffer /\ reported' = [reported EXCEPT ![d] = @ + 1]
        /\ metrics'.documents = AddDocument(total, own)
        /\ metrics'.elements = MergeMetrics(metrics.elements, DocumentMetrics(d))
        /\ UNCHANGED <<web, kind, documents>>
    BY DEF Report, MetricsWith
  <1>2. d \notin Reported /\ d \in documents /\ kind[d] \in Type
    BY <1>1 DEF Placed, Apart, IInv, Inserted
  <1>3. reported \in [Doc -> Nat] /\ total \in [{"success", "error"} -> Nat]
    BY DEF IInv, TypeOK
  <1>4. Reported' = Reported \cup {d}
    <2>1. reported[d] = 0
      BY <1>2, <1>3 DEF Reported
    <2>2. reported'[d] = 1 /\ \A e \in Doc \ {d} : reported'[e] = reported[e]
      BY <1>1, <1>3, <2>1
    <2> QED
      BY <2>2 DEF Reported
  <1>5. IsFiniteSet(Reported') /\ Cardinality(Reported') = Cardinality(Reported) + 1
    BY <1>2, <1>4, FS_AddElement DEF Tally
  <1>6. own.error > 0 <=> Errors(d, kind[d]) # {}
    BY <1>2, ErrorsCounted DEF IInv
  <1>7. (\E e \in Reported' : (Errors(e, kind[e]) # {})') <=>
            (\E e \in Reported : Errors(e, kind[e]) # {}) \/ Errors(d, kind[d]) # {}
    BY <1>1, <1>4, WebStays
  <1>10. /\ metrics'.elements.error = Total(ErrorCount', Reported')
         /\ metrics'.elements.success + metrics'.elements.error = Total(ItemCount', Reported')
    BY <1>1, <1>2, <1>4, ReportAdds
  <1> HIDE DEF total, own
  <1>8. CASE own.error > 0
    <2>1. /\ metrics'.documents.success = total.success
          /\ metrics'.documents.error = total.error + 1
      BY <1>1, <1>3, <1>8 DEF AddDocument
    <2>2. metrics'.documents.success + metrics'.documents.error = Cardinality(Reported')
      BY <1>3, <1>5, <2>1 DEF Tally, total
    <2>3. metrics'.documents.error > 0
      BY <1>3, <2>1
    <2> QED
      BY <1>5, <1>6, <1>7, <1>8, <1>10, <2>2, <2>3 DEF Tally
  <1>9. CASE ~(own.error > 0)
    <2>1. /\ metrics'.documents.success = total.success + 1
          /\ metrics'.documents.error = total.error
      BY <1>1, <1>3, <1>9 DEF AddDocument
    <2>2. metrics'.documents.success + metrics'.documents.error = Cardinality(Reported')
      BY <1>3, <1>5, <2>1 DEF Tally, total
    <2> QED
      BY <1>5, <1>6, <1>7, <1>9, <1>10, <2>1, <2>2 DEF Tally, total
  <1> QED
    BY <1>8, <1>9

LEMMA NextTally ==
    ASSUME IInv, Graph, OnePlace, Tally, [Next]_vars
    PROVE  Tally'
PROOF
  <1> SUFFICES ASSUME phase' \notin GivenUp PROVE Tally'
    BY DEF Tally
  <1>1. phase \notin GivenUp
    BY DEF Next, Step, Consume, FailToWrite, Running, Visit, Send, Expand, Finish, Fail, Stream,
           Pull, Report, FailToPrint, FailToFlush, End, vars, GivenUp
  <1>2. Placed
    BY <1>1 DEF OnePlace, Placed, GivenUp
  <1>5. ~FailToWrite /\ phase' # "aborted"
    BY DEF FailToWrite, FailToPrint, FailToFlush, GivenUp
  <1>3. CASE \E d \in Doc : Report(d)
    BY <1>1, <1>2, <1>3, <1>5, ReportTally
  <1>4. CASE ~\E d \in Doc : Report(d)
    <2>1. UNCHANGED <<metrics, reported>>
      BY <1>4, <1>5 DEF Next, Step, Consume, Visit, Send, Expand, Finish, Fail, Stream, Pull, End,
                        vars
    <2>2. Reported' = Reported
      BY <2>1 DEF Reported
    <2>3. \A d \in Reported : (Errors(d, kind[d]) # {})' <=> Errors(d, kind[d]) # {}
      <3> SUFFICES ASSUME NEW d \in Reported
                   PROVE  (Errors(d, kind[d]) # {})' <=> Errors(d, kind[d]) # {}
        OBVIOUS
      <3>1. d \in Doc /\ d \in documents
        BY DEF Reported, IInv, Inserted
      <3>2. kind'[d] = kind[d] /\ web' = web
        BY <3>1, TypesSettleOnce, WebNeverChanges
      <3> QED
        BY <3>2, WebStays
    <2>4. IsFiniteSet(Reported) /\ Reported \subseteq documents /\ Reported \subseteq documents'
      <3>1. Reported \subseteq documents
        BY DEF IInv, Inserted
      <3>2. documents \subseteq documents'
        BY DEF Next, Step, Consume, FailToWrite, Visit, Send, Expand, Finish, Fail, Stream, Pull,
               Report, FailToPrint, FailToFlush, End, vars
      <3> QED
        BY <1>1, <3>1, <3>2 DEF Tally
    <2>5. ASSUME NEW d \in Reported
          PROVE  ErrorCount'[d] = ErrorCount[d] /\ ItemCount'[d] = ItemCount[d]
      <3>1. d \in Doc /\ d \in documents /\ d \in documents'
        BY <2>4 DEF Reported
      <3>2. kind'[d] = kind[d] /\ web' = web
        BY <3>1, TypesSettleOnce, WebNeverChanges
      <3> QED
        BY <3>1, <3>2, WebStays DEF ErrorCount, ItemCount
    <2>6. Total(ErrorCount', Reported) = Total(ErrorCount, Reported)
      <3>1. PICK f, g, S : f = ErrorCount' /\ g = ErrorCount /\ S = Reported
        OBVIOUS
      <3> QED
        BY <2>4, <2>5, <3>1, TotalsAgree
    <2>7. Total(ItemCount', Reported) = Total(ItemCount, Reported)
      <3>1. PICK f, g, S : f = ItemCount' /\ g = ItemCount /\ S = Reported
        OBVIOUS
      <3> QED
        BY <2>4, <2>5, <3>1, TotalsAgree
    <2> QED
      BY <1>1, <2>1, <2>2, <2>3, <2>6, <2>7 DEF Tally
  <1> QED
    BY <1>3, <1>4

-----------------------------------------------------------------------------
\* What is printed is wrong, unless all is printed.
Printed(d) == Verbose \/ Errors(d, SettledType(d)) # {}

\* How a run stands at its end.
Ended ==
    /\ phase = "ended" =>
        /\ Reported = documents /\ Closed(documents)
        /\ exit = "success" <=> ~(metrics.documents.error > 0)
    /\ phase = "failed" => \E l \in Roots : Fails(l)
    /\ phase = "aborted" => \E d \in documents : <<d, SettledType(d)>> \in web.broken
    /\ phase = "unwritten" => \E d \in documents : Printed(d)

LEMMA PrintsWhatIsWrong ==
    ASSUME IInv, Graph, NEW d \in documents, Prints(d)
    PROVE  Printed(d)
PROOF
  <1>1. d \in Doc /\ kind[d] \in Type /\ web \in Webs /\ SettledType(d) = kind[d]
    BY DEF IInv, Inserted, TypeOK, Graph, Settled
  <1>2. CASE Verbose
    BY <1>2 DEF Printed
  <1>3. CASE DocumentMetrics(d).error > 0
    BY <1>1, <1>3, ErrorsCounted DEF Printed
  <1> QED
    BY <1>2, <1>3 DEF Prints

LEMMA FailToWriteEnded ==
    ASSUME IInv, Graph, FailToWrite
    PROVE  /\ UNCHANGED <<web, documents, kind>> /\ phase' = "unwritten"
           /\ \E d \in documents : Printed(d)
PROOF
  <1>1. UNCHANGED <<web, documents, kind>> /\ phase' = "unwritten"
    BY DEF FailToWrite, FailToPrint, FailToFlush
  <1>2. PICK d \in Doc : Prints(d) /\ (d \in buffer \/ reported[d] > 0)
    BY DEF FailToWrite, FailToPrint, FailToFlush
  <1>3. d \in documents
    BY <1>2 DEF IInv, Inserted, Reported
  <1> QED
    BY <1>1, <1>2, <1>3, PrintsWhatIsWrong

LEMMA EndCloses ==
    ASSUME IInv, Graph, Placed, End
    PROVE  Reported = documents /\ Closed(documents)
PROOF
  <1>1. /\ \A t \in DOMAIN task : task[t] = "done"
        /\ channel = <<>> /\ buffer = {}
    BY DEF End, SendersDropped
  <1>2. sending = {}
    BY <1>1 DEF IInv, TypeOK, Senders
  <1>3. Sent = {} /\ Queued = {}
    BY <1>1, <1>2 DEF Sent, Queued
  <1>4. Reported = documents
    BY <1>1, <1>3 DEF Placed, Somewhere
  <1>5. ASSUME NEW links, \A l \in links : \E t \in DOMAIN task : t[2] = l
        PROVE  Crawled(links) \subseteq documents
    <2> SUFFICES ASSUME NEW l \in links,
                        NEW k \in {l, Before[l]}, k \in Link, Crawls(k)
                 PROVE  web.target[k] \in documents
      BY DEF Crawled
    <2>1. PICK t \in DOMAIN task : t[2] = l
      BY <1>5
    <2>2. k # Nothing
      BY NoneAssumption
    <2> QED
      BY <1>1, <2>1, <2>2 DEF Graph, Followed
  <1>6. Crawled(Roots) \subseteq documents
    <2>1. \A l \in Roots : <<Root, l>> \in DOMAIN task /\ <<Root, l>>[2] = l
      BY DEF IInv, RootTasks
    <2> QED
      BY <1>5, <2>1
  <1>7. ASSUME NEW d \in documents
        PROVE  Crawled(LinksOf(d, SettledType(d))) \subseteq documents
    <2>1. SettledType(d) = kind[d]
      BY DEF Graph, Settled
    <2>2. d \in Doc /\ doc[d] = "finished"
      BY <1>4 DEF IInv, OnlyFinished, TypeOK
    <2>3. \A l \in LinksOf(d, kind[d]) : <<d, l>> \in DOMAIN task /\ <<d, l>>[2] = l
      BY <2>2 DEF IInv, Expanded
    <2> QED
      BY <1>5, <2>1, <2>3
  <1> QED
    BY <1>4, <1>6, <1>7 DEF Closed

LEMMA NextEnded ==
    ASSUME IInv, Graph, OnePlace, Ended, [Next]_vars
    PROVE  Ended'
PROOF
  <1>1. CASE UNCHANGED vars
    <2>1. \A docs : Closed(docs)' <=> Closed(docs)
      BY <1>1, WebStays, CrawledStays, SettledStays DEF Closed, vars
    <2>2. \A d : SettledType(d)' = SettledType(d)
      BY <1>1, SettledStays DEF vars
    <2>3. Reported' = Reported
      BY <1>1 DEF Reported, vars
    <2>4. \A d : Printed(d)' <=> Printed(d)
      BY <1>1, <2>2, WebStays DEF Printed, vars
    <2> QED
      BY <1>1, <2>1, <2>2, <2>3, <2>4, WebStays DEF Ended, vars
  <1>2. CASE \E t \in DOMAIN task : Visit(t) \/ Send(t)
    BY <1>2 DEF Visit, Send, Running, Ended
  <1>3. CASE \E d \in Doc : Expand(d) \/ Finish(d)
    BY <1>3 DEF Expand, Finish, Running, Ended
  <1>4. CASE Stream \/ Pull
    BY <1>4 DEF Stream, Pull, Ended
  <1>5. CASE Fail
    <2>1. web' = web /\ phase' = "failed" /\ \E l \in Roots : Fails(l)
      BY <1>5 DEF Fail
    <2> QED
      BY <2>1, WebStays DEF Ended
  <1>6. CASE \E d \in Doc : Report(d)
    <2>1. PICK d \in Doc : Report(d)
      BY <1>6
    <2>2. CASE phase' = phase
      BY <2>1, <2>2 DEF Report, Ended
    <2>3. CASE phase' = "aborted" /\ doc[d] = "broken"
      <3>1. d \in documents /\ UNCHANGED <<web, documents, kind>>
        BY <2>1, <2>3 DEF Report, IInv, Inserted
      <3>2. <<d, kind[d]>> \in web.broken /\ SettledType(d) = kind[d]
        BY <2>3, <3>1 DEF Graph, Settled, Broken
      <3>3. SettledType(d)' = SettledType(d)
        BY <3>1, SettledStays
      <3> QED
        BY <2>3, <3>1, <3>2, <3>3 DEF Ended
    <2> QED
      BY <2>1, <2>2, <2>3 DEF Report
  <1>7. CASE End
    <2>1. Placed
      BY <1>7 DEF End, OnePlace, Placed
    <2>2. Reported = documents /\ Closed(documents)
      BY <1>7, <2>1, EndCloses
    <2>3. /\ UNCHANGED <<web, documents, kind, doc, task, reported, metrics>>
          /\ phase' = "ended"
          /\ exit' = IF metrics.documents.error > 0 THEN "failure" ELSE "success"
      BY <1>7 DEF End
    <2>4. Reported' = Reported
      BY <2>3 DEF Reported
    <2>5. Closed(documents)'
      BY <2>2, <2>3, WebStays, CrawledStays, SettledStays DEF Closed
    <2> QED
      BY <2>2, <2>3, <2>4, <2>5 DEF Ended
  <1>8. CASE FailToWrite
    <2>1. /\ UNCHANGED <<web, documents, kind>> /\ phase' = "unwritten"
          /\ \E d \in documents : Printed(d)
      BY <1>8, FailToWriteEnded
    <2>2. \A d : Printed(d)' <=> Printed(d)
      <3>1. \A d : SettledType(d)' = SettledType(d)
        BY <2>1, SettledStays
      <3> QED
        BY <2>1, <3>1, WebStays DEF Printed
    <2> QED
      BY <2>1, <2>2 DEF Ended
  <1> QED
    BY <1>1, <1>2, <1>3, <1>4, <1>5, <1>6, <1>7, <1>8 DEF Next, Step, Consume

LEMMA EndInvariance == Spec => [](Tally /\ Ended)
PROOF
  <1>1. Init => Ended
    BY DEF Init, Ended
  <1>2. IInv /\ Graph /\ OnePlace /\ (Tally /\ Ended) /\ [Next]_vars => (Tally /\ Ended)'
    BY NextTally, NextEnded
  <1> QED
    BY <1>1, <1>2, InitTally, Invariance, GraphInvariance, NothingLost, PTL DEF Spec

\* A run that ends by itself reported all the documents that can be reached from the
\* roots and no others, in whatever order its tasks ran.
THEOREM CrawlsAll == Spec => []Complete
PROOF
  <1>1. IInv /\ Reached /\ Ended => Complete
    <2> SUFFICES ASSUME IInv, Reached, Ended, phase = "ended" PROVE Reported = Reachable
      BY DEF Complete
    <2>1. Reported = documents /\ Closed(documents) /\ documents \in SUBSET Doc
      BY DEF Ended, IInv, TypeOK
    <2>2. Reachable \subseteq documents
      BY <2>1 DEF Reachable
    <2> QED
      BY <2>1, <2>2, DocumentsReachable
  <1> QED
    BY <1>1, Invariance, ReachedInvariance, EndInvariance, PTL

\* A run is given up only for a root link in error, for a document that can be reached
\* and not be read, or for output that cannot be written, which a site without errors has
\* none of unless the run is verbose.
THEOREM GivesUpRightly == Spec => []GivesUpForCause
PROOF
  <1>1. IInv /\ Reached /\ Ended => GivesUpForCause
    BY DocumentsReachable DEF Ended, GivesUpForCause, Printed
  <1> QED
    BY <1>1, Invariance, ReachedInvariance, EndInvariance, PTL

\* The sums of ResultsCounted are totals.
LEMMA ErrorsSum ==
    ASSUME NEW S, IsFiniteSet(S)
    PROVE  MapThenSumSet(LAMBDA d : Cardinality(Errors(d, SettledType(d))), S)
                = Total([d \in S |-> Cardinality(Errors(d, SettledType(d)))], S)
PROOF
  <1> DEFINE f == [d \in S |-> Cardinality(Errors(d, SettledType(d)))]
             body(r) == [T \in SUBSET S |->
                            IF T = {} THEN 0
                            ELSE Cardinality(Errors(One(T), SettledType(One(T)))) + r[T \ {One(T)}]]
             iter == CHOOSE r : r = body(r)
  <1>1. ASSUME NEW r PROVE Sums(r, S, f) <=> r = body(r)
    <2>1. \A T \in SUBSET S : T # {} =>
            Cardinality(Errors(One(T), SettledType(One(T)))) + r[T \ {One(T)}]
                = f[One(T)] + r[T \ {One(T)}]
      BY DEF One
    <2>2. [T \in SUBSET S |-> IF T = {} THEN 0 ELSE f[One(T)] + r[T \ {One(T)}]] = body(r)
      <3> HIDE DEF f
      <3> QED
        BY <2>1
    <2> QED
      BY <2>2, Zenon DEF Sums
  <1>2. \E r : Sums(r, S, f)
    BY SumsExist
  <1>3. MapThenSumSet(LAMBDA d : Cardinality(Errors(d, SettledType(d))), S) = iter[S]
    BY DEF MapThenSumSet, MapThenFoldSet, One
  <1> HIDE DEF f, body
  <1>4. Sums(iter, S, f)
    BY <1>1, <1>2
  <1> HIDE DEF iter
  <1> QED
    BY <1>3, <1>4, TotalIsSum DEF f

LEMMA ItemsSum ==
    ASSUME NEW S, IsFiniteSet(S)
    PROVE  MapThenSumSet(LAMBDA d : Cardinality(Places(d, SettledType(d))), S)
                = Total([d \in S |-> Cardinality(Places(d, SettledType(d)))], S)
PROOF
  <1> DEFINE f == [d \in S |-> Cardinality(Places(d, SettledType(d)))]
             body(r) == [T \in SUBSET S |->
                            IF T = {} THEN 0
                            ELSE Cardinality(Places(One(T), SettledType(One(T)))) + r[T \ {One(T)}]]
             iter == CHOOSE r : r = body(r)
  <1>1. ASSUME NEW r PROVE Sums(r, S, f) <=> r = body(r)
    <2>1. \A T \in SUBSET S : T # {} =>
            Cardinality(Places(One(T), SettledType(One(T)))) + r[T \ {One(T)}]
                = f[One(T)] + r[T \ {One(T)}]
      BY DEF One
    <2>2. [T \in SUBSET S |-> IF T = {} THEN 0 ELSE f[One(T)] + r[T \ {One(T)}]] = body(r)
      <3> HIDE DEF f
      <3> QED
        BY <2>1
    <2> QED
      BY <2>2, Zenon DEF Sums
  <1>2. \E r : Sums(r, S, f)
    BY SumsExist
  <1>3. MapThenSumSet(LAMBDA d : Cardinality(Places(d, SettledType(d))), S) = iter[S]
    BY DEF MapThenSumSet, MapThenFoldSet, One
  <1> HIDE DEF f, body
  <1>4. Sums(iter, S, f)
    BY <1>1, <1>2
  <1> HIDE DEF iter
  <1> QED
    BY <1>3, <1>4, TotalIsSum DEF f

\* A run that ends by itself tells success if and only if no document that can be reached
\* has a result in error, and it counted every document and every result once.
THEOREM TellsTruth == Spec => []ExitTells
PROOF
  <1>1. IInv /\ Graph /\ Complete /\ Tally /\ Ended => ExitTells
    <2> SUFFICES ASSUME IInv, Graph, Complete, Tally, Ended, phase = "ended" PROVE ExitTells
      BY DEF ExitTells, ExitHonest, ResultsCounted
    <2>1. Reported = Reachable /\ Reported = documents
      BY DEF Complete, Ended
    <2>2. \A d \in Reported : kind[d] = SettledType(d)
      BY <2>1 DEF Graph, Settled
    <2>3. ExitHonest
      BY <2>1, <2>2 DEF Tally, Ended, ExitHonest, GivenUp
    <2>4. /\ ErrorCount = [d \in Reachable |-> Cardinality(Errors(d, SettledType(d)))]
          /\ ItemCount = [d \in Reachable |-> Cardinality(Places(d, SettledType(d)))]
      BY <2>1, <2>2 DEF ErrorCount, ItemCount
    <2>5. PICK S : S = Reachable
      OBVIOUS
    <2>6. IsFiniteSet(S)
      BY <2>1, <2>5 DEF Tally, GivenUp
    <2>7. /\ metrics.elements.error = Total(ErrorCount, S)
          /\ metrics.elements.success + metrics.elements.error = Total(ItemCount, S)
      BY <2>1, <2>5 DEF Tally, GivenUp
    <2>8. /\ metrics.elements.error
                = MapThenSumSet(LAMBDA d : Cardinality(Errors(d, SettledType(d))), S)
          /\ metrics.elements.success + metrics.elements.error
                = MapThenSumSet(LAMBDA d : Cardinality(Places(d, SettledType(d))), S)
      BY <2>4, <2>5, <2>6, <2>7, ErrorsSum, ItemsSum
    <2>9. ResultsCounted
      BY <2>5, <2>8 DEF ResultsCounted
    <2> QED
      BY <2>3, <2>9 DEF ExitTells
  <1> QED
    BY <1>1, Invariance, GraphInvariance, EndInvariance, CrawlsAll, PTL

-----------------------------------------------------------------------------
\* While the consumer streams, the roots are over and fine; nothing is told before the end.
Streaming ==
    /\ phase = "stream" => \A l \in Roots : task[<<Root, l>>] = "done" /\ ~Fails(l)
    /\ Running <=> exit = Nothing

LEMMA InitStreaming == Init => Streaming
BY DEF Init, Streaming, Running

LEMMA NextStreaming ==
    ASSUME IInv, Streaming, [Next]_vars
    PROVE  Streaming'
PROOF
  <1>1. \A l \in Roots : <<Root, l>> \in DOMAIN task
    BY DEF IInv, RootTasks
  <1>2. ASSUME UNCHANGED <<web, phase, exit>>,
               \A t \in DOMAIN task : task[t] = "done" => task'[t] = "done"
        PROVE  Streaming'
    BY <1>1, <1>2, WebStays DEF Streaming, Running
  <1>3. CASE \E t \in DOMAIN task : Visit(t) \/ Send(t)
    <2>1. PICK t \in DOMAIN task : Visit(t) \/ Send(t)
      BY <1>3
    <2>2. UNCHANGED <<web, phase, exit>> /\ task[t] # "done"
      BY <2>1 DEF Visit, Send, IInv, Senders
    <2>3. task' = task \/ task' = [task EXCEPT ![t] = After(t)]
      BY <2>1 DEF Visit, Send
    <2> QED
      BY <1>2, <2>2, <2>3
  <1>4. CASE \E d \in Doc : Expand(d) \/ Finish(d)
    BY <1>2, <1>4 DEF Expand, Finish
  <1>5. CASE Fail \/ Pull \/ End \/ FailToWrite \/ UNCHANGED vars
    BY <1>2, <1>5, NoneAssumption DEF Fail, Pull, End, FailToWrite, FailToPrint, FailToFlush, vars,
                                      Streaming, Running, Outcome
  <1>6. CASE Stream
    <2>1. UNCHANGED <<web, task, exit>> /\ phase = "roots" /\ phase' = "stream"
      BY <1>6 DEF Stream
    <2>2. \A l \in Roots : task[<<Root, l>>] = "done" /\ ~Fails(l)
      BY <1>6 DEF Stream
    <2> QED
      BY <2>1, <2>2, WebStays DEF Streaming, Running
  <1>7. CASE \E d \in Doc : Report(d)
    BY <1>2, <1>7, NoneAssumption DEF Report, Streaming, Running, Outcome
  <1> QED
    BY <1>3, <1>4, <1>5, <1>6, <1>7 DEF Next, Step, Consume

\* The instance of Crawl means the same by the web.
LEMMA SameWeb ==
    /\ Search!Root = Root
    /\ \A l : /\ Search!TypeOf(l) = TypeOf(l)
              /\ Search!Fails(l) <=> Fails(l)
              /\ Search!Crawls(l) <=> Crawls(l)
    /\ \A d, k : Search!LinksOf(d, k) = LinksOf(d, k) /\ Search!Errors(d, k) = Errors(d, k)
    /\ \A links : Search!Crawled(links) = Crawled(links)
PROOF
  <1>1. \A l : /\ Search!TypeOf(l) = TypeOf(l)
               /\ Search!Fails(l) <=> Fails(l)
               /\ Search!Crawls(l) <=> Crawls(l)
    BY DEF Search!TypeOf, Search!Fails, Search!Crawls, TypeOf, Fails, Crawls,
           Search!DocumentType, DocumentType, Search!AcceptedMedia, AcceptedMedia,
           Search!OwnType, OwnType
  <1>2. \A d, k : Search!LinksOf(d, k) = LinksOf(d, k) /\ Search!Errors(d, k) = Errors(d, k)
    BY <1>1 DEF Search!LinksOf, Search!Items, Search!Places, Search!ItemAt, Search!Errors,
                LinksOf, Items, Places, ItemAt, Errors
  <1>3. \A links : Search!Crawled(links) = Crawled(links)
    BY <1>1 DEF Search!Crawled, Crawled
  <1> QED
    BY <1>1, <1>2, <1>3 DEF Search!Root, Root

\* What is still to follow is what was ever to follow but for what is over.
Wanted == ({Root} \X Roots) \cup UNION {{d} \X LinksOf(d, kind[d]) : d \in documents}
Over == {t \in DOMAIN task : task[t] = "done"}

LEMMA OpenIsRest == Open = Wanted \ Over /\ Open' = Wanted' \ Over'
BY DEF Open, Wanted, Over

LEMMA TasksWanted ==
    ASSUME IInv, Graph, NEW t \in DOMAIN task
    PROVE  /\ t \in Wanted
           /\ t[1] = Root \/ (t[1] \in documents /\ <<t[1], kind[t[1]]>> \notin web.broken)
PROOF
  <1>1. t = <<t[1], t[2]>>
    BY DEF IInv, TypeOK, Task
  <1> QED
    BY <1>1 DEF Graph, Origins, Wanted

LEMMA TasksCanFollow ==
    ASSUME IInv, Graph, Streaming, Running, NEW t \in DOMAIN task, task[t] # "done"
    PROVE  Search!CanFollow(t)
PROOF
  <1>1. t \in Open
    BY OpenIsRest, TasksWanted DEF Over
  <1>2. exit = Nothing
    BY DEF Streaming
  <1> QED
    BY <1>1, <1>2, TasksWanted, SameWeb DEF Search!CanFollow, Search!Unreadable

\* A link task that moves on is one that is followed to its end, or nothing yet.
LEMMA MoveImplements ==
    ASSUME IInv, Graph, Streaming, Running, NEW t \in DOMAIN task, task[t] # "done",
           task' = [task EXCEPT ![t] = After(t)],
           UNCHANGED <<web, documents, kind, reported, exit>>,
           At(t) # Nothing /\ Crawls(At(t)) => web.target[At(t)] \in documents
    PROVE  Search!Settle(t) \/ UNCHANGED Search!vars
PROOF
  <1>1. /\ DOMAIN task' = DOMAIN task
        /\ task'[t] = After(t) /\ \A u \in DOMAIN task \ {t} : task'[u] = task[u]
    OBVIOUS
  <1>2. Wanted' = Wanted /\ Reported' = Reported
    BY WebStays DEF Wanted, Reported
  <1>3. CASE task[t] = "before"
    <2>1. Over' = Over
      BY <1>1, <1>3 DEF Over, After
    <2>2. Open' = Open
      BY <1>2, <2>1, OpenIsRest
    <2> QED
      BY <1>2, <2>2 DEF Search!vars
  <1>4. CASE task[t] = "own"
    <2>1. Over' = Over \cup {t}
      BY <1>1, <1>4 DEF Over, After
    <2>2. Open' = Open \ {t}
      BY <1>2, <2>1, OpenIsRest
    <2>3. Crawled({t[2]}) \subseteq documents
      <3> SUFFICES ASSUME NEW k \in {t[2], Before[t[2]]}, k \in Link, Crawls(k)
                   PROVE  web.target[k] \in documents
        BY DEF Crawled
      <3>1. k # Nothing
        BY NoneAssumption
      <3>2. CASE k = t[2]
        BY <1>4, <3>1, <3>2 DEF At
      <3>3. CASE k = Before[t[2]]
        BY <1>4, <3>1, <3>3 DEF Graph, Followed
      <3> QED
        BY <3>2, <3>3
    <2>4. Search!CanFollow(t)
      BY TasksCanFollow
    <2> QED
      BY <1>2, <2>2, <2>3, <2>4, SameWeb DEF Search!Settle
  <1> QED
    BY <1>3, <1>4 DEF IInv, TypeOK

LEMMA VisitImplements ==
    ASSUME IInv, Graph, Streaming, NEW t \in DOMAIN task, Visit(t)
    PROVE  [Search!Next]_(Search!vars)
PROOF
  <1>1. /\ Running /\ task[t] # "done"
        /\ UNCHANGED <<web, reported, exit>>
    BY DEF Visit
  <1>2. CASE Spawns(t)
    <2> DEFINE l == At(t)
               x == web.target[l]
    <2>1. /\ l # Nothing /\ Crawls(l) /\ x \notin documents
          /\ documents' = documents \cup {x} /\ task' = task
          /\ kind' = [kind EXCEPT ![x] = TypeOf(l)]
      BY <1>2 DEF Visit, Spawns
    <2>2. l \in Link /\ l \in {t[2], Before[t[2]]}
      BY <2>1, TaskLinks DEF IInv, At
    <2>3. x \in Doc /\ TypeOf(l) \in Type
      BY <2>1, <2>2, CrawledLinks DEF IInv
    <2> HIDE DEF l
    <2>4. kind'[x] = TypeOf(l) /\ \A d \in documents : kind'[d] = kind[d]
      BY <2>1, <2>3 DEF IInv, TypeOK
    <2>5. Wanted' = Wanted \cup ({x} \X LinksOf(x, TypeOf(l)))
      BY <1>1, <2>1, <2>4, WebStays DEF Wanted
    <2>6. Over' = Over
      BY <2>1 DEF Over
    <2>7. ({x} \X LinksOf(x, TypeOf(l))) \cap Over = {}
      <3>1. \A u \in DOMAIN task : u[1] # x
        BY <2>1, <2>3, TasksWanted, NoneAssumption
      <3> QED
        BY <3>1 DEF Over
    <2>8. Open' = Open \cup ({x} \X LinksOf(x, TypeOf(l)))
      BY <2>5, <2>6, <2>7, OpenIsRest
    <2>9. Search!CanFollow(t)
      BY <1>1, TasksCanFollow
    <2>10. Reported' = Reported
      BY <1>1 DEF Reported
    <2>11. Search!Find(t, l)
      BY <1>1, <2>1, <2>2, <2>8, <2>9, <2>10, SameWeb DEF Search!Find
    <2>12. t \in Open
      BY <2>9 DEF Search!CanFollow
    <2> QED
      BY <2>2, <2>11, <2>12 DEF Search!Next
  <1>3. CASE ~Spawns(t)
    <2>1. /\ task' = [task EXCEPT ![t] = After(t)] /\ UNCHANGED <<documents, kind>>
          /\ At(t) # Nothing /\ Crawls(At(t)) => web.target[At(t)] \in documents
      BY <1>3 DEF Visit, Spawns
    <2>2. Search!Settle(t) \/ UNCHANGED Search!vars
      BY <1>1, <2>1, MoveImplements
    <2> QED
      BY <2>2 DEF Search!Next, Search!Settle, Search!CanFollow
  <1> QED
    BY <1>2, <1>3

LEMMA SendImplements ==
    ASSUME IInv, Graph, Streaming, NEW t \in DOMAIN task, Send(t)
    PROVE  [Search!Next]_(Search!vars)
PROOF
  <1>1. /\ Running /\ t \in sending
        /\ task' = [task EXCEPT ![t] = After(t)]
        /\ UNCHANGED <<web, documents, kind, reported, exit>>
    BY DEF Send
  <1>2. task[t] # "done" /\ web.target[At(t)] \in documents
    BY <1>1 DEF IInv, Senders, Coming
  <1>3. Search!Settle(t) \/ UNCHANGED Search!vars
    BY <1>1, <1>2, MoveImplements
  <1> QED
    BY <1>3 DEF Search!Next, Search!Settle, Search!CanFollow

\* Documents whose tasks start or end change nothing for Crawl.
LEMMA DocumentsImplement ==
    ASSUME IInv, NEW d \in Doc, Expand(d) \/ Finish(d)
    PROVE  UNCHANGED Search!vars
PROOF
  <1>1. UNCHANGED <<web, documents, kind, reported, exit>>
    BY DEF Expand, Finish
  <1>2. Wanted' = Wanted /\ Reported' = Reported
    BY <1>1, WebStays DEF Wanted, Reported
  <1>3. Over' = Over
    <2>1. CASE task' = task
      BY <2>1 DEF Over
    <2>2. CASE task' # task
      <3> DEFINE D == DOMAIN task \cup ({d} \X LinksOf(d, kind[d]))
      <3>1. task' = [u \in D |-> IF u \in DOMAIN task THEN task[u] ELSE "before"]
        BY <2>2 DEF Expand, Finish
      <3> HIDE DEF D
      <3>2. DOMAIN task' = D /\ \A u \in D : task'[u] = IF u \in DOMAIN task THEN task[u] ELSE "before"
        BY <3>1
      <3> QED
        BY <3>2 DEF Over, D
    <2> QED
      BY <2>1, <2>2
  <1>4. Open' = Open
    BY <1>2, <1>3, OpenIsRest
  <1> QED
    BY <1>1, <1>2, <1>4 DEF Search!vars

-----------------------------------------------------------------------------
LEMMA ConsumerLeavesOpen ==
    ASSUME UNCHANGED <<web, documents, kind, task>>
    PROVE  Open' = Open
BY WebStays DEF Open

LEMMA RootsAreOver ==
    ASSUME IInv, Streaming, phase = "stream"
    PROVE  exit = Nothing /\ Search!RootsAreFine
PROOF
  <1>1. \A l \in Roots : <<Root, l>> \in Over /\ ~Fails(l)
    BY DEF Streaming, IInv, RootTasks, Over
  <1> QED
    BY <1>1, OpenIsRest, SameWeb DEF Streaming, Running, Search!RootsAreFine

LEMMA FailImplements ==
    ASSUME IInv, Streaming, Fail
    PROVE  Search!GiveUp
PROOF
  <1>1. PICK l \in Roots : task[<<Root, l>>] = "done" /\ Fails(l)
    BY DEF Fail
  <1>2. <<Root, l>> \notin Open
    BY <1>1, OpenIsRest DEF IInv, RootTasks, Over
  <1>3. exit = Nothing /\ exit' = "failure" /\ UNCHANGED <<web, documents, kind, task, reported>>
    BY DEF Fail, Streaming, Running
  <1>4. Open' = Open /\ Reported' = Reported
    BY <1>3, ConsumerLeavesOpen DEF Reported
  <1> QED
    BY <1>1, <1>2, <1>3, <1>4, SameWeb DEF Search!GiveUp

\* The links of a finished document are over.
LEMMA FinishedIsWhole ==
    ASSUME IInv, Graph, NEW d \in Doc, doc[d] = "finished"
    PROVE  Search!Whole(d)
PROOF
  <1>1. <<d, kind[d]>> \notin web.broken
    BY DEF Graph, Broken
  <1>2. \A o \in Open : o[1] # d
    <2> SUFFICES ASSUME NEW o \in Open, o[1] = d PROVE FALSE
      OBVIOUS
    <2>1. o \in Wanted /\ d # Root
      BY OpenIsRest, NoneAssumption
    <2>2. o[2] \in LinksOf(d, kind[d]) /\ o = <<d, o[2]>>
      BY <2>1 DEF Wanted
    <2>3. o \in Over
      BY <2>2 DEF IInv, Expanded, Finished, Over
    <2> QED
      BY <2>3, OpenIsRest
  <1> QED
    BY <1>1, <1>2 DEF Search!Whole, Search!Unreadable

LEMMA FailToWriteImplements ==
    ASSUME IInv, Graph, Streaming, FailToWrite
    PROVE  Search!GiveUp
PROOF
  <1>1. /\ phase = "stream" /\ exit' = "failure"
        /\ UNCHANGED <<web, documents, kind, task, reported>>
    BY DEF FailToWrite, FailToPrint, FailToFlush
  <1>2. exit = Nothing /\ Search!RootsAreFine
    BY <1>1, RootsAreOver
  <1>3. PICK d \in Doc : /\ Prints(d)
                        /\ \/ d \in buffer /\ doc[d] = "finished"
                           \/ reported[d] > 0
    BY DEF FailToWrite, FailToPrint, FailToFlush
  <1>4. d \in documents /\ doc[d] = "finished"
    BY <1>3 DEF IInv, Inserted, OnlyFinished, Reported
  <1>5. Search!Whole(d)
    BY <1>4, FinishedIsWhole
  <1>6. kind[d] = SettledType(d)
    BY <1>4 DEF Graph, Settled
  <1>7. Verbose \/ Errors(d, kind[d]) # {}
    BY <1>3, <1>4, <1>6, PrintsWhatIsWrong DEF Printed
  <1>8. Open' = Open /\ Reported' = Reported
    BY <1>1, ConsumerLeavesOpen DEF Reported
  <1> QED
    BY <1>1, <1>2, <1>4, <1>5, <1>7, <1>8, SameWeb DEF Search!GiveUp

LEMMA ReportImplements ==
    ASSUME IInv, Graph, Streaming, OnePlace, NEW d \in Doc, Report(d)
    PROVE  Search!Report(d) \/ Search!GiveUp
PROOF
  <1>1. /\ phase = "stream" /\ d \in buffer
        /\ UNCHANGED <<web, documents, kind, doc, task>>
    BY DEF Report
  <1>2. exit = Nothing /\ Search!RootsAreFine
    BY <1>1, RootsAreOver
  <1>3. d \in documents \ Reported
    BY <1>1 DEF IInv, Inserted, OnePlace, Apart
  <1>4. Open' = Open
    BY <1>1, ConsumerLeavesOpen
  <1>5. CASE doc[d] = "finished"
    <2>1. reported' = [reported EXCEPT ![d] = @ + 1] /\ exit' = exit
      BY <1>5 DEF Report
    <2>2. Reported' = Reported \cup {d}
      <3>1. reported[d] \in Nat
        BY DEF IInv, TypeOK
      <3> QED
        BY <2>1, <3>1 DEF IInv, TypeOK, Reported
    <2>3. Search!Whole(d)
      BY <1>5, FinishedIsWhole
    <2> QED
      BY <1>1, <1>2, <1>3, <1>4, <2>1, <2>2, <2>3 DEF Search!Report
  <1>6. CASE doc[d] = "broken"
    <2>1. exit' = "failure" /\ reported' = reported
      BY <1>6 DEF Report
    <2>2. Reported' = Reported
      BY <2>1 DEF Reported
    <2>3. <<d, kind[d]>> \in web.broken
      BY <1>6 DEF Graph, Broken
    <2> QED
      BY <1>1, <1>2, <1>3, <1>4, <2>1, <2>2, <2>3 DEF Search!GiveUp, Search!Unreadable
  <1> QED
    BY <1>5, <1>6 DEF Report

LEMMA EndImplements ==
    ASSUME IInv, Graph, Streaming, OnePlace, Tally, End
    PROVE  Search!End
PROOF
  <1>1. /\ phase = "stream" /\ \A t \in DOMAIN task : task[t] = "done"
        /\ UNCHANGED <<web, documents, kind, task, reported>>
        /\ exit' = IF metrics.documents.error > 0 THEN "failure" ELSE "success"
    BY DEF End, SendersDropped
  <1>2. exit = Nothing /\ Search!RootsAreFine
    BY <1>1, RootsAreOver
  <1>3. Reported = documents
    BY <1>1, EndCloses DEF OnePlace, Placed
  <1>4. Open = {}
    <2>1. \A d \in documents : {d} \X LinksOf(d, kind[d]) \subseteq Over
      <3> SUFFICES ASSUME NEW d \in documents, NEW l \in LinksOf(d, kind[d])
                   PROVE  <<d, l>> \in Over
        OBVIOUS
      <3>1. d \in Doc /\ doc[d] = "finished"
        BY <1>3 DEF IInv, OnlyFinished, TypeOK
      <3>2. <<d, l>> \in DOMAIN task
        BY <3>1 DEF IInv, Expanded
      <3> QED
        BY <1>1, <3>2 DEF Over
    <2>2. {Root} \X Roots \subseteq Over
      BY <1>1 DEF IInv, RootTasks, Over
    <2> QED
      BY <2>1, <2>2, OpenIsRest DEF Wanted
  <1>5. metrics.documents.error > 0 <=> \E d \in Reported : Errors(d, kind[d]) # {}
    BY <1>1 DEF Tally, GivenUp
  <1>6. Open' = Open /\ Reported' = Reported
    BY <1>1, ConsumerLeavesOpen DEF Reported
  <1> QED
    BY <1>1, <1>2, <1>3, <1>4, <1>5, <1>6, SameWeb DEF Search!End

LEMMA NextImplements ==
    ASSUME IInv, Graph, Streaming, OnePlace, Tally, [Next]_vars
    PROVE  [Search!Next]_(Search!vars)
PROOF
  <1>1. CASE \E t \in DOMAIN task : Visit(t) \/ Send(t)
    BY <1>1, VisitImplements, SendImplements
  <1>2. CASE \E d \in Doc : Expand(d) \/ Finish(d)
    BY <1>2, DocumentsImplement
  <1>3. CASE Fail
    BY <1>3, FailImplements DEF Search!Next
  <1>4. CASE Stream \/ Pull \/ UNCHANGED vars
    <2>1. UNCHANGED <<web, documents, kind, task, reported, exit>>
      BY <1>4 DEF Stream, Pull, vars
    <2>2. Open' = Open /\ Reported' = Reported
      BY <2>1, ConsumerLeavesOpen DEF Reported
    <2> QED
      BY <2>1, <2>2 DEF Search!vars
  <1>5. CASE \E d \in Doc : Report(d)
    <2>1. PICK d \in Doc : Report(d)
      BY <1>5
    <2>2. Search!Report(d) \/ Search!GiveUp
      BY <2>1, ReportImplements
    <2> QED
      BY <2>2 DEF Search!Next, Search!Report
  <1>6. CASE End
    BY <1>6, EndImplements DEF Search!Next
  <1>7. CASE FailToWrite
    BY <1>7, FailToWriteImplements DEF Search!Next
  <1> QED
    BY <1>1, <1>2, <1>3, <1>4, <1>5, <1>6, <1>7 DEF Next, Step, Consume

LEMMA InitImplements == Init => Search!Init
PROOF
  <1> SUFFICES ASSUME Init PROVE Search!Init
    OBVIOUS
  <1>1. /\ web \in Webs /\ documents = {} /\ kind = [d \in Doc |-> Nothing] /\ exit = Nothing
        /\ \A d \in Doc : reported[d] = 0
        /\ task = [t \in {Root} \X Roots |-> "before"]
    BY DEF Init
  <1>2. Reported = {}
    BY <1>1 DEF Reported
  <1>3. Open = {Root} \X Roots
    BY <1>1 DEF Open
  <1> QED
    BY <1>1, <1>2, <1>3, SameWeb DEF Search!Init

\* The concurrent crawl does what the sequential one of Crawl does, step by step, for
\* every web, every number of roots and every capacity.
THEOREM Implements == Spec => ImplementsCrawl
PROOF
  <1>1. Init => Search!Init /\ Streaming
    BY InitImplements, InitStreaming
  <1>2. IInv /\ Graph /\ OnePlace /\ Tally /\ Streaming /\ [Next]_vars
            => [Search!Next]_(Search!vars) /\ Streaming'
    BY NextImplements, NextStreaming
  <1> QED
    BY <1>1, <1>2, Invariance, GraphInvariance, NothingLost, EndInvariance, PTL
       DEF Spec, ImplementsCrawl, Search!Spec

-----------------------------------------------------------------------------
\* Why a run ends.  What TLAPS does not do is to conclude Terminates from it: while a run
\* goes on a step can be taken, and a step adds to marks which are never lost and of which
\* there are finitely many.

\* The guards of the steps, in their order in Step.
Ready ==
    \/ \E t \in DOMAIN task \ sending : task[t] # "done"
    \/ sending # {} /\ Len(channel) < JobCapacity
    \/ \E d \in Doc : doc[d] = "spawned"
    \/ \E d \in Doc : doc[d] = "waiting" /\ \A l \in LinksOf(d, kind[d]) : task[<<d, l>>] = "done"
    \/ phase = "roots" /\ \A l \in Roots : task[<<Root, l>>] = "done"
    \/ phase = "stream" /\ Cardinality(buffer) < Buffer /\ channel # <<>>
    \/ phase = "stream" /\ \E d \in buffer : doc[d] \in {"finished", "broken"}
    \/ phase = "stream" /\ channel = <<>> /\ buffer = {} /\ SendersDropped

NeverStuck == Running => Ready

\* The jobs in the channel are of different documents, so they are no more than those.
LEMMA QueueIsShort ==
    ASSUME IInv, Placed, IsFiniteSet(Doc), Cardinality(Doc) <= JobCapacity, sending # {}
    PROVE  Len(channel) < JobCapacity
PROOF
  <1>1. /\ channel \in Seq(Doc) /\ Len(channel) \in Nat /\ DOMAIN channel = 1 .. Len(channel)
    BY LenProperties DEF IInv, TypeOK
  <1>2. PICK t : t \in sending
    OBVIOUS
  <1>3. Coming(t) \in Doc /\ Coming(t) \notin Queued
    BY <1>2 DEF IInv, TypeOK, Senders, Placed, Apart, Sent
  <1>4. Queued \subseteq Doc \ {Coming(t)}
    BY <1>1, <1>3, ElementOfSeq DEF Queued
  <1>5. /\ IsFiniteSet(Doc \ {Coming(t)})
        /\ Cardinality(Doc) \in Nat /\ Cardinality(Doc \ {Coming(t)}) \in Nat
        /\ Cardinality(Doc \ {Coming(t)}) < Cardinality(Doc)
    BY <1>3, SmallerWithout
  <1>6. IsFiniteSet(Queued) /\ Cardinality(Queued) <= Cardinality(Doc \ {Coming(t)})
    BY <1>4, <1>5, FS_Subset
  <1>7. Cardinality(Queued) = Len(channel)
    <2> DEFINE f == [i \in 1 .. Len(channel) |-> channel[i]]
    <2>1. f \in Bijection(1 .. Len(channel), Queued)
      BY <1>1 DEF Bijection, Injection, Surjection, IsInjective, Queued, Placed, QueuedOnce
    <2>2. ExistsBijection(1 .. Len(channel), Queued)
      BY <2>1 DEF ExistsBijection
    <2> QED
      BY <1>1, <2>2, FS_CountingElements
  <1>8. JobCapacity \in Nat
    BY CapacityAssumption
  <1> QED
    BY <1>1, <1>5, <1>6, <1>7, <1>8

\* As long as a run goes on, one of its tasks or its consumer can go on, if the channel has
\* room for the documents there are.
THEOREM GoesOn ==
    ASSUME IsFiniteSet(Doc), Cardinality(Doc) <= JobCapacity
    PROVE  Spec => []NeverStuck
PROOF
  <1>1. IInv /\ OnePlace => NeverStuck
    <2> SUFFICES ASSUME IInv, OnePlace, Running, ~Ready PROVE FALSE
      BY DEF NeverStuck
    <2>1. Placed
      BY DEF OnePlace, Placed, Running
    <2>2. sending = {}
      <3> SUFFICES ASSUME sending # {} PROVE FALSE
        OBVIOUS
      <3> QED
        BY <2>1, QueueIsShort DEF Ready
    <2>3. \A t \in DOMAIN task : task[t] = "done"
      BY <2>2 DEF Ready
    <2>4. \A d \in Doc : doc[d] \notin {"spawned", "waiting"}
      <3> SUFFICES ASSUME NEW d \in Doc, doc[d] = "waiting" PROVE FALSE
        BY DEF Ready
      <3>1. \A l \in LinksOf(d, kind[d]) : <<d, l>> \in DOMAIN task
        BY DEF IInv, Expanded
      <3> QED
        BY <2>3, <3>1 DEF Ready
    <2>5. \A l \in Roots : task[<<Root, l>>] = "done"
      BY <2>3 DEF IInv, RootTasks
    <2>6. phase = "stream"
      BY <2>5 DEF Ready, Running
    <2>7. buffer = {}
      <3> SUFFICES ASSUME NEW d \in buffer PROVE FALSE
        OBVIOUS
      <3>1. d \in Doc /\ doc[d] # "none"
        BY DEF IInv, TypeOK, Inserted
      <3>2. doc[d] \in {"finished", "broken"}
        BY <2>4, <3>1 DEF IInv, TypeOK
      <3> QED
        BY <2>6, <3>2 DEF Ready
    <2>8. Cardinality(buffer) < Buffer
      BY <2>7, FS_EmptySet, CapacityAssumption
    <2>9. channel = <<>>
      BY <2>6, <2>8 DEF Ready
    <2> QED
      BY <2>3, <2>4, <2>6, <2>7, <2>9 DEF Ready, SendersDropped
  <1> QED
    BY <1>1, Invariance, NothingLost, PTL

\* The marks of progress: the documents inserted, taken from the channel and reported, the
\* links whose robots.txt or which themselves are over, the documents read and finished,
\* and how far the consumer is.
Pulled == documents \ (Sent \cup Queued)
PastRobots == {t \in DOMAIN task : task[t] # "before"}
Read == {d \in Doc : doc[d] \in {"waiting", "finished", "broken"}}
AllDone == {d \in Doc : doc[d] = "finished"}
Past == CASE phase = "roots" -> {} [] phase = "stream" -> {"roots"} [] OTHER -> {"roots", "stream"}

Marks == <<documents, Pulled, Reported, PastRobots, Over, Read, AllDone, Past>>
Kept ==
    /\ documents \subseteq documents' /\ Pulled \subseteq Pulled' /\ Reported \subseteq Reported'
    /\ PastRobots \subseteq PastRobots' /\ Over \subseteq Over'
    /\ Read \subseteq Read' /\ AllDone \subseteq AllDone' /\ Past \subseteq Past'
StepsForward == Step => Kept /\ Marks' # Marks

\* A link task that moves on leaves a mark.
LEMMA MovesForward ==
    ASSUME IInv, NEW t \in DOMAIN task, task[t] # "done", task' = [task EXCEPT ![t] = After(t)]
    PROVE  /\ PastRobots \subseteq PastRobots' /\ Over \subseteq Over'
           /\ PastRobots' # PastRobots \/ Over' # Over
PROOF
  <1>1. /\ DOMAIN task' = DOMAIN task
        /\ task'[t] = After(t) /\ \A u \in DOMAIN task \ {t} : task'[u] = task[u]
    OBVIOUS
  <1>2. task[t] \in {"before", "own"}
    BY DEF IInv, TypeOK
  <1>3. After(t) # "before"
    BY DEF After
  <1>4. PastRobots \subseteq PastRobots' /\ Over \subseteq Over'
    BY <1>1, <1>3 DEF PastRobots, Over
  <1>5. CASE task[t] = "before"
    <2>1. t \notin PastRobots
      BY <1>5 DEF PastRobots
    <2>2. t \in PastRobots'
      BY <1>1, <1>3 DEF PastRobots
    <2> QED
      BY <1>4, <2>1, <2>2
  <1>6. CASE task[t] = "own"
    <2>1. t \notin Over
      BY <1>6 DEF Over
    <2>2. After(t) = "done"
      BY <1>6 DEF After
    <2>3. t \in Over'
      BY <1>1, <2>2 DEF Over
    <2> QED
      BY <1>4, <2>1, <2>3
  <1> QED
    BY <1>2, <1>4, <1>5, <1>6

LEMMA VisitForward ==
    ASSUME IInv, NEW t \in DOMAIN task, Visit(t)
    PROVE  Kept /\ Marks' # Marks
PROOF
  <1>1. /\ UNCHANGED <<web, phase, channel, reported>> /\ task[t] # "done" /\ t \notin sending
    BY DEF Visit
  <1>2. Reported' = Reported /\ Queued' = Queued /\ Past' = Past
    BY <1>1 DEF Reported, Queued, Past
  <1>3. CASE Spawns(t)
    <2> DEFINE x == web.target[At(t)]
    <2>1. /\ At(t) # Nothing /\ Crawls(At(t)) /\ x \notin documents
          /\ documents' = documents \cup {x} /\ sending' = sending \cup {t} /\ task' = task
          /\ doc' = [doc EXCEPT ![x] = "spawned"]
      BY <1>3 DEF Visit, Spawns
    <2>2. x \in Doc
      BY <2>1, TaskLinks, CrawledLinks DEF IInv
    <2>3. Sent' = Sent \cup {x}
      <3>1. \A u : Coming(u)' = Coming(u)
        BY <1>1, <2>1, StaysAt
      <3>2. Coming(t) = x
        BY DEF Coming
      <3> QED
        BY <2>1, <3>1, <3>2 DEF Sent
    <2> HIDE DEF x
    <2>4. Pulled' = Pulled
      BY <1>2, <2>1, <2>3 DEF Pulled
    <2>5. PastRobots' = PastRobots /\ Over' = Over
      BY <2>1 DEF PastRobots, Over
    <2>6. Read' = Read /\ AllDone' = AllDone
      <3>1. doc[x] = "none"
        BY <2>1, <2>2 DEF IInv, Inserted
      <3>2. doc'[x] = "spawned" /\ \A d \in Doc \ {x} : doc'[d] = doc[d]
        BY <2>1, <2>2 DEF IInv, TypeOK
      <3> QED
        BY <3>1, <3>2 DEF Read, AllDone
    <2>7. documents' # documents
      BY <2>1
    <2> QED
      BY <1>2, <2>1, <2>4, <2>5, <2>6, <2>7 DEF Kept, Marks
  <1>4. CASE ~Spawns(t)
    <2>1. task' = [task EXCEPT ![t] = After(t)] /\ UNCHANGED <<documents, doc, sending>>
      BY <1>4 DEF Visit
    <2>2. Sent' = Sent
      <3>1. \A u \in sending : task'[u] = task[u]
        BY <1>1, <2>1 DEF IInv, TypeOK
      <3> QED
        BY <1>1, <2>1, <3>1, SentStays
    <2>3. Pulled' = Pulled /\ Read' = Read /\ AllDone' = AllDone
      BY <1>2, <2>1, <2>2 DEF Pulled, Read, AllDone
    <2> QED
      BY <1>1, <1>2, <2>1, <2>3, MovesForward DEF Kept, Marks
  <1> QED
    BY <1>3, <1>4

LEMMA SendForward ==
    ASSUME IInv, NEW t \in DOMAIN task, Send(t)
    PROVE  Kept /\ Marks' # Marks
PROOF
  <1>1. /\ t \in sending /\ sending' = sending \ {t}
        /\ channel' = Append(channel, web.target[At(t)])
        /\ task' = [task EXCEPT ![t] = After(t)]
        /\ UNCHANGED <<web, phase, documents, doc, reported>>
    BY DEF Send
  <1>2. Reported' = Reported /\ Past' = Past /\ Read' = Read /\ AllDone' = AllDone
    BY <1>1 DEF Reported, Past, Read, AllDone
  <1>3. task[t] # "done" /\ Coming(t) \in Doc
    BY <1>1 DEF IInv, TypeOK, Senders
  <1>4. Sent' \subseteq Sent
    <2>1. \A u \in sending' : Coming(u)' = Coming(u)
      <3>1. \A u \in sending' : task'[u] = task[u]
        BY <1>1 DEF IInv, TypeOK
      <3> QED
        BY <1>1, <3>1, StaysAt
    <2> QED
      BY <1>1, <2>1 DEF Sent
  <1>5. Queued' = Queued \cup {Coming(t)}
    BY <1>1, <1>3, Appended DEF IInv, TypeOK, Queued, Coming
  <1>6. Coming(t) \in Sent
    BY <1>1 DEF Sent
  <1>7. Pulled \subseteq Pulled'
    BY <1>1, <1>4, <1>5, <1>6 DEF Pulled
  <1> QED
    BY <1>1, <1>2, <1>3, <1>7, MovesForward DEF Kept, Marks

LEMMA DocumentsForward ==
    ASSUME IInv, NEW d \in Doc, Expand(d) \/ Finish(d)
    PROVE  Kept /\ Marks' # Marks
PROOF
  <1>1. /\ UNCHANGED <<web, phase, documents, sending, channel, reported>>
        /\ DOMAIN task \subseteq DOMAIN task' /\ \A u \in DOMAIN task : task'[u] = task[u]
    <2>1. CASE task' = task
      BY <2>1 DEF Expand, Finish
    <2>2. CASE task' # task
      <3> DEFINE D == DOMAIN task \cup ({d} \X LinksOf(d, kind[d]))
      <3>1. task' = [u \in D |-> IF u \in DOMAIN task THEN task[u] ELSE "before"]
        BY <2>2 DEF Expand, Finish
      <3> HIDE DEF D
      <3>2. DOMAIN task' = D /\ \A u \in D : task'[u] = IF u \in DOMAIN task THEN task[u] ELSE "before"
        BY <3>1
      <3> QED
        BY <3>2 DEF Expand, Finish, D
    <2> QED
      BY <2>1, <2>2
  <1>2. Reported' = Reported /\ Queued' = Queued /\ Past' = Past
    BY <1>1 DEF Reported, Queued, Past
  <1>3. Sent' = Sent
    BY <1>1, SentStays DEF IInv, TypeOK
  <1>4. Pulled' = Pulled
    BY <1>1, <1>2, <1>3 DEF Pulled
  <1>5. PastRobots \subseteq PastRobots' /\ Over \subseteq Over'
    BY <1>1 DEF PastRobots, Over
  <1>6. \A e \in Doc \ {d} : doc'[e] = doc[e]
    BY DEF Expand, Finish, IInv, TypeOK
  <1>7. CASE Expand(d)
    <2>1. doc[d] = "spawned" /\ doc'[d] \in {"waiting", "broken"}
      BY <1>7 DEF Expand, IInv, TypeOK
    <2>2. Read \subseteq Read' /\ AllDone \subseteq AllDone' /\ d \in Read' /\ d \notin Read
      BY <1>6, <2>1 DEF Read, AllDone
    <2> QED
      BY <1>1, <1>2, <1>4, <1>5, <2>2 DEF Kept, Marks
  <1>8. CASE Finish(d)
    <2>1. doc[d] = "waiting" /\ doc'[d] = "finished"
      BY <1>8 DEF Finish, IInv, TypeOK
    <2>2. Read \subseteq Read' /\ AllDone \subseteq AllDone' /\ d \in AllDone' /\ d \notin AllDone
      BY <1>6, <2>1 DEF Read, AllDone
    <2> QED
      BY <1>1, <1>2, <1>4, <1>5, <2>2 DEF Kept, Marks
  <1> QED
    BY <1>7, <1>8

LEMMA ConsumerForward ==
    ASSUME IInv, Placed, Consume
    PROVE  Kept /\ Marks' # Marks
PROOF
  <1>1. UNCHANGED <<web, documents, doc, task, sending>>
    BY DEF Consume, Fail, Stream, Pull, Report, FailToWrite, FailToPrint, FailToFlush, End
  <1>2. /\ Sent' = Sent /\ PastRobots' = PastRobots /\ Over' = Over
        /\ Read' = Read /\ AllDone' = AllDone
    BY <1>1, SentStays DEF PastRobots, Over, Read, AllDone
  <1>3. CASE Fail \/ Stream \/ FailToWrite \/ End
    <2>1. /\ UNCHANGED <<channel, reported>>
          /\ phase \in {"roots", "stream"} /\ phase' # "roots" /\ phase' # phase
          /\ phase = "stream" => phase' \in {"ended", "unwritten"}
      BY <1>3 DEF Fail, Stream, FailToWrite, FailToPrint, FailToFlush, End
    <2>2. Queued' = Queued /\ Reported' = Reported
      BY <2>1 DEF Queued, Reported
    <2>3. Pulled' = Pulled
      BY <1>1, <1>2, <2>2 DEF Pulled
    <2>4. Past \subseteq Past' /\ Past' # Past
      BY <2>1 DEF Past
    <2> QED
      BY <1>1, <1>2, <2>2, <2>3, <2>4 DEF Kept, Marks
  <1>4. CASE Pull
    <2> DEFINE h == Head(channel)
    <2>1. /\ channel # <<>> /\ channel' = Tail(channel) /\ UNCHANGED <<phase, reported>>
      BY <1>4 DEF Pull
    <2>2. /\ 1 \in DOMAIN channel /\ channel[1] = h
          /\ \A i \in DOMAIN channel' : /\ i + 1 \in DOMAIN channel /\ i \in Nat \ {0}
                                       /\ channel'[i] = channel[i + 1]
          /\ Queued = Queued' \cup {h}
      BY <2>1, Taken DEF IInv
    <2> HIDE DEF h
    <2>3. h \notin Queued'
      <3>1. \A i \in DOMAIN channel' : channel'[i] # h
        BY <2>2 DEF Placed, QueuedOnce
      <3> QED
        BY <3>1 DEF Queued
    <2>4. h \in documents /\ h \notin Sent
      BY <2>2 DEF Placed, Somewhere, Apart
    <2>5. Pulled \subseteq Pulled' /\ h \in Pulled' /\ h \notin Pulled
      BY <1>1, <1>2, <2>2, <2>3, <2>4 DEF Pulled
    <2>6. Reported' = Reported /\ Past' = Past
      BY <2>1 DEF Reported, Past
    <2> QED
      BY <1>1, <1>2, <2>5, <2>6 DEF Kept, Marks
  <1>5. CASE \E d \in Doc : Report(d)
    <2>1. PICK d \in Doc : Report(d)
      BY <1>5
    <2>2. phase = "stream" /\ d \in buffer /\ channel' = channel
      BY <2>1 DEF Report
    <2>3. Queued' = Queued
      BY <2>2 DEF Queued
    <2>4. Pulled' = Pulled
      BY <1>1, <1>2, <2>3 DEF Pulled
    <2>5. CASE reported' = [reported EXCEPT ![d] = @ + 1] /\ phase' = phase
      <3>1. /\ reported \in [Doc -> Nat] /\ reported'[d] = reported[d] + 1
            /\ \A e \in Doc \ {d} : reported'[e] = reported[e]
        BY <2>5 DEF IInv, TypeOK
      <3>2. d \notin Reported
        BY <2>2 DEF Placed, Apart
      <3>3. Reported' = Reported \cup {d} /\ Past' = Past
        BY <2>5, <3>1 DEF Reported, Past
      <3> QED
        BY <1>1, <1>2, <2>4, <3>2, <3>3 DEF Kept, Marks
    <2>6. CASE reported' = reported /\ phase' = "aborted"
      <3>1. Reported' = Reported
        BY <2>6 DEF Reported
      <3>2. Past \subseteq Past' /\ Past' # Past
        BY <2>2, <2>6 DEF Past
      <3> QED
        BY <1>1, <1>2, <2>4, <3>1, <3>2 DEF Kept, Marks
    <2> QED
      BY <2>1, <2>5, <2>6 DEF Report
  <1> QED
    BY <1>3, <1>4, <1>5 DEF Consume

\* Every step leaves a mark, and no mark is ever lost.
THEOREM EveryStepAdvances == Spec => [][StepsForward]_vars
PROOF
  <1>1. IInv /\ OnePlace /\ [Next]_vars => [StepsForward]_vars
    <2> SUFFICES ASSUME IInv, OnePlace, Step PROVE Kept /\ Marks' # Marks
      BY DEF StepsForward
    <2>1. CASE \E t \in DOMAIN task : Visit(t) \/ Send(t)
      BY <2>1, VisitForward, SendForward
    <2>2. CASE \E d \in Doc : Expand(d) \/ Finish(d)
      BY <2>2, DocumentsForward
    <2>3. CASE Consume
      <3>1. Placed
        BY <2>3 DEF Consume, Fail, Stream, Pull, Report, FailToWrite, FailToPrint, FailToFlush, End,
                    OnePlace, Placed
      <3> QED
        BY <2>3, <3>1, ConsumerForward
    <2> QED
      BY <2>1, <2>2, <2>3 DEF Step
  <1> QED
    BY <1>1, Invariance, NothingLost, PTL DEF Spec

\* There are finitely many marks to leave.
AllMarks == <<Doc, Doc, Doc, Task, Task, Doc, Doc, {"roots", "stream"}>>
MarksBounded == \A i \in 1 .. 8 : Marks[i] \subseteq AllMarks[i]

THEOREM MarksAreBounded ==
    ASSUME IsFiniteSet(Doc), IsFiniteSet(Link)
    PROVE  /\ \A i \in 1 .. 8 : IsFiniteSet(AllMarks[i])
           /\ Spec => []MarksBounded
PROOF
  <1>1. IsFiniteSet(Task)
    <2>1. IsFiniteSet(Roots) /\ IsFiniteSet({Root})
      BY LinkAssumption, FS_Subset, FS_Singleton
    <2>2. IsFiniteSet({Root} \X Roots) /\ IsFiniteSet(Doc \X Link)
      BY <2>1, FS_Product
    <2> QED
      BY <2>2, FS_Union DEF Task
  <1>2. IsFiniteSet({"roots", "stream"})
    <2>1. IsFiniteSet({"roots"}) /\ IsFiniteSet({"stream"})
      BY FS_Singleton
    <2>2. {"roots", "stream"} = {"roots"} \cup {"stream"}
      OBVIOUS
    <2> QED
      BY <2>1, <2>2, FS_Union
  <1>3. \A i \in 1 .. 8 : IsFiniteSet(AllMarks[i])
    BY <1>1, <1>2 DEF AllMarks
  <1>4. IInv => MarksBounded
    <2> SUFFICES ASSUME IInv PROVE MarksBounded
      OBVIOUS
    <2>1. documents \subseteq Doc /\ Pulled \subseteq Doc /\ Reported \subseteq Doc
      BY DEF IInv, TypeOK, Pulled, Reported
    <2>2. PastRobots \subseteq Task /\ Over \subseteq Task
      BY DEF IInv, TypeOK, PastRobots, Over
    <2>3. Read \subseteq Doc /\ AllDone \subseteq Doc /\ Past \subseteq {"roots", "stream"}
      BY DEF Read, AllDone, Past
    <2>4. /\ Marks[1] = documents /\ Marks[2] = Pulled /\ Marks[3] = Reported /\ Marks[4] = PastRobots
          /\ Marks[5] = Over /\ Marks[6] = Read /\ Marks[7] = AllDone /\ Marks[8] = Past
      BY DEF Marks
    <2>5. /\ AllMarks[1] = Doc /\ AllMarks[2] = Doc /\ AllMarks[3] = Doc /\ AllMarks[4] = Task
          /\ AllMarks[5] = Task /\ AllMarks[6] = Doc /\ AllMarks[7] = Doc
          /\ AllMarks[8] = {"roots", "stream"}
      BY DEF AllMarks
    <2>6. \A i \in 1 .. 8 : i \in {1, 2, 3, 4, 5, 6, 7, 8}
      OBVIOUS
    <2> QED
      BY <2>1, <2>2, <2>3, <2>4, <2>5, <2>6 DEF MarksBounded
  <1> QED
    BY <1>3, <1>4, Invariance, PTL

-----------------------------------------------------------------------------
\* Sequences: what holds up to n, tables of steps, joined and flattened sequences.

\* What holds of 0 and of each number after one that it holds of holds up to n.
LEMMA Upwards ==
    ASSUME NEW n \in Nat, NEW S, 0 \in S, \A i \in 1..n : i - 1 \in S => i \in S
    PROVE  \A i \in 0..n : i \in S
PROOF
  <1> DEFINE bad == (0..n) \ S
  <1>1. ASSUME bad # {} PROVE FALSE
    <2>1. PICK m \in bad : \A k \in bad : m <= k
      <3>1. bad \subseteq Nat
        OBVIOUS
      <3> HIDE DEF bad
      <3> QED
        BY <1>1, <3>1, LeastNumber
    <2>2. m \in 1..n /\ m - 1 \in 0..n /\ ~(m <= m - 1)
      OBVIOUS
    <2>3. m - 1 \in S
      BY <2>1, <2>2
    <2> QED
      BY <2>2, <2>3
  <1> QED
    BY <1>1

\* What holds of each number that it holds of all below holds of all.
LEMMA FromBelow ==
    ASSUME NEW S, \A i \in Nat : (\A j \in Nat : j < i => j \in S) => i \in S
    PROVE  \A i \in Nat : i \in S
PROOF
  <1> DEFINE bad == Nat \ S
  <1>1. ASSUME bad # {} PROVE FALSE
    <2>1. PICK m \in bad : \A k \in bad : m <= k
      <3>1. bad \subseteq Nat
        OBVIOUS
      <3> HIDE DEF bad
      <3> QED
        BY <1>1, <3>1, LeastNumber
    <2>2. \A j \in Nat : j < m => j \in S
      BY <2>1
    <2> QED
      BY <2>2
  <1> QED
    BY <1>1

\* A table of steps from a, each from the one before it.
Iterated(f, n, D, a, step) ==
    f \in [0..n -> D] /\ f[0] = a /\ \A i \in 1..n : f[i] = step[i][f[i - 1]]

Steps(step, n, D) == step \in [1..n -> [D -> D]]

\* Steps of a table can be taken one after the other from a, in one way.
LEMMA Iterates ==
    ASSUME NEW n \in Nat, NEW D, NEW a \in D, NEW step, Steps(step, n, D)
    PROVE  \E f : Iterated(f, n, D, a, step)
PROOF
  <1> DEFINE S == {m \in 0..n : \E f \in [0..m -> D] :
                        f[0] = a /\ \A i \in 1..m : f[i] = step[i][f[i - 1]]}
  <1>1. 0 \in S
    <2> DEFINE f == [i \in 0..0 |-> a]
    <2>1. f \in [0..0 -> D] /\ f[0] = a /\ \A i \in 1..0 : f[i] = step[i][f[i - 1]]
      OBVIOUS
    <2>2. 0 \in 0..n
      OBVIOUS
    <2> HIDE DEF f
    <2> QED
      BY <2>1, <2>2
  <1>2. ASSUME NEW m \in 1..n, m - 1 \in S PROVE m \in S
    <2>1. PICK f \in [0..(m - 1) -> D] :
            f[0] = a /\ \A i \in 1..(m - 1) : f[i] = step[i][f[i - 1]]
      BY <1>2
    <2> DEFINE g == [i \in 0..m |-> IF i = m THEN step[m][f[m - 1]] ELSE f[i]]
    <2>2. m - 1 \in 0..(m - 1) /\ 0 \in 0..m /\ 0 # m /\ \A i \in 0..m : i = m \/ i \in 0..(m - 1)
      OBVIOUS
    <2>3. g \in [0..m -> D]
      BY <2>1, <2>2 DEF Steps
    <2>4. g[0] = a
      BY <2>1, <2>2
    <2>5. ASSUME NEW i \in 1..m PROVE g[i] = step[i][g[i - 1]]
      <3>1. i \in 0..m /\ i - 1 \in 0..m /\ i - 1 # m
        OBVIOUS
      <3>2. CASE i = m
        BY <3>1, <3>2
      <3>3. CASE i # m
        <4>1. i \in 1..(m - 1)
          BY <3>3
        <4> QED
          BY <2>1, <3>1, <3>3, <4>1
      <3> QED
        BY <3>2, <3>3
    <2> HIDE DEF g
    <2> QED
      BY <2>3, <2>4, <2>5
  <1>3. n \in S
    <2>1. n \in 0..n
      OBVIOUS
    <2> HIDE DEF S
    <2> QED
      BY <1>1, <1>2, <2>1, Upwards
  <1> QED
    BY <1>3 DEF Iterated

\* Sequences as functions.
LEMMA AsFunctions ==
    ASSUME NEW X, NEW s \in Seq(X)
    PROVE  /\ Len(s) \in Nat /\ DOMAIN s = 1..Len(s)
           /\ \A i \in 1..Len(s) : s[i] \in X
           /\ s = [i \in 1..Len(s) |-> s[i]]
BY ElementOfSeq

\* What an append adds.
LEMMA Appending ==
    ASSUME NEW X, NEW s \in Seq(X), NEW x \in X
    PROVE  /\ Append(s, x) \in Seq(X) /\ Len(Append(s, x)) = Len(s) + 1
           /\ \A i \in 1..Len(s) : Append(s, x)[i] = s[i]
           /\ Append(s, x)[Len(s) + 1] = x
           /\ ToSet(Append(s, x)) = ToSet(s) \cup {x}
PROOF
  <1>1. Append(s, x) \in Seq(X) /\ Len(Append(s, x)) = Len(s) + 1
    BY AppendProperties
  <1>2. \A i \in 1..Len(s) : Append(s, x)[i] = s[i]
    BY AppendProperties
  <1>3. Append(s, x)[Len(s) + 1] = x
    BY AppendProperties
  <1> DEFINE t == Append(s, x)
  <1>4. DOMAIN t = 1..(Len(s) + 1) /\ DOMAIN s = 1..Len(s) /\ Len(s) \in Nat
    BY <1>1, LenProperties
  <1>5. ToSet(t) = ToSet(s) \cup {x}
    <2> HIDE DEF t
    <2>1. \A i \in 1..(Len(s) + 1) : i = Len(s) + 1 \/ i \in 1..Len(s)
      BY <1>4
    <2>2. Len(s) + 1 \in 1..(Len(s) + 1) /\ \A i \in 1..Len(s) : i \in 1..(Len(s) + 1)
      BY <1>4
    <2>3. t[Len(s) + 1] = x /\ \A i \in 1..Len(s) : t[i] = s[i]
      BY <1>2, <1>3 DEF t
    <2> QED
      BY <1>4, <2>1, <2>2, <2>3 DEF ToSet
  <1> QED
    BY <1>1, <1>2, <1>3, <1>5

\* Two sequences, one after the other.
LEMMA Joining ==
    ASSUME NEW X, NEW s \in Seq(X), NEW t \in Seq(X)
    PROVE  /\ s \o t \in Seq(X) /\ Len(s \o t) = Len(s) + Len(t)
           /\ \A i \in 1..Len(s) : (s \o t)[i] = s[i]
           /\ \A i \in 1..Len(t) : (s \o t)[Len(s) + i] = t[i]
           /\ ToSet(s \o t) = ToSet(s) \cup ToSet(t)
PROOF
  <1> DEFINE u == s \o t
  <1>1. u \in Seq(X) /\ Len(u) = Len(s) + Len(t)
    BY ConcatProperties
  <1>2. \A i \in 1..Len(u) : u[i] = IF i <= Len(s) THEN s[i] ELSE t[i - Len(s)]
    BY ConcatProperties
  <1> HIDE DEF u
  <1>3. DOMAIN u = 1..Len(u) /\ DOMAIN s = 1..Len(s) /\ DOMAIN t = 1..Len(t)
        /\ Len(s) \in Nat /\ Len(t) \in Nat
    BY <1>1, LenProperties
  <1>4. \A i \in 1..Len(s) : i \in 1..Len(u) /\ u[i] = s[i]
    BY <1>1, <1>2, <1>3
  <1>5. \A i \in 1..Len(t) : Len(s) + i \in 1..Len(u) /\ u[Len(s) + i] = t[i]
    <2> SUFFICES ASSUME NEW i \in 1..Len(t)
                 PROVE  Len(s) + i \in 1..Len(u) /\ u[Len(s) + i] = t[i]
      OBVIOUS
    <2>1. Len(s) + i \in 1..Len(u) /\ ~(Len(s) + i <= Len(s)) /\ (Len(s) + i) - Len(s) = i
      BY <1>1, <1>3
    <2> QED
      BY <1>2, <2>1
  <1>6. ASSUME NEW i \in 1..Len(u)
        PROVE  i \in 1..Len(s) \/ \E j \in 1..Len(t) : i = Len(s) + j
    <2>1. CASE i <= Len(s)
      BY <1>1, <1>3, <2>1
    <2>2. CASE ~(i <= Len(s))
      <3>1. i - Len(s) \in 1..Len(t) /\ i = Len(s) + (i - Len(s))
        BY <1>1, <1>3, <2>2
      <3> QED
        BY <3>1
    <2> QED
      BY <2>1, <2>2
  <1>7. ToSet(u) = ToSet(s) \cup ToSet(t)
    BY <1>3, <1>4, <1>5, <1>6, ZenonT(30) DEF ToSet
  <1> QED
    BY <1>1, <1>4, <1>5, <1>7 DEF u

\* Those is what its recursive function says.
ThoseSteps(f, s, T) ==
    f = [i \in 0..Len(s) |->
            IF i = 0 THEN <<>> ELSE IF s[i] \in T THEN Append(f[i - 1], s[i]) ELSE f[i - 1]]

\* Those keeps what is in the set.
LEMMA ThoseKept ==
    ASSUME NEW X, NEW s \in Seq(X), NEW T
    PROVE  /\ Those(s, T) \in Seq(X)
           /\ ToSet(Those(s, T)) = ToSet(s) \cap T
PROOF
  <1> DEFINE n == Len(s)
             D == Seq(X)
             step == [i \in 1..n |-> [q \in D |-> IF s[i] \in T THEN Append(q, s[i]) ELSE q]]
             f == CHOOSE f : ThoseSteps(f, s, T)
  <1>1. n \in Nat /\ DOMAIN s = 1..n /\ \A i \in 1..n : s[i] \in X
    BY AsFunctions
  <1>2. <<>> \in D /\ Steps(step, n, D)
    <2>1. \A i \in 1..n : \A q \in D : Append(q, s[i]) \in D
      BY <1>1, AppendProperties
    <2> QED
      BY <2>1 DEF Steps
  <1>3. PICK g \in [0..n -> D] : g[0] = <<>> /\ \A i \in 1..n : g[i] = step[i][g[i - 1]]
    <2> HIDE DEF D, step, n
    <2>1. PICK a : a = <<>>
      OBVIOUS
    <2>2. a \in D
      BY <1>2, <2>1
    <2>3. \E g : Iterated(g, n, D, a, step)
      BY <1>1, <1>2, <2>2, Iterates
    <2> QED
      BY <2>1, <2>3 DEF Iterated
  <1>4. \A i \in 0..n : i # 0 => i \in 1..n /\ i - 1 \in 0..n
    BY <1>1
  <1>5. ThoseSteps(g, s, T)
    <2>1. \A i \in 0..n : g[i] = IF i = 0 THEN <<>>
                                 ELSE IF s[i] \in T THEN Append(g[i - 1], s[i]) ELSE g[i - 1]
      BY <1>3, <1>4
    <2> QED
      BY <1>3, <2>1 DEF ThoseSteps
  <1>6. ThoseSteps(f, s, T)
    BY <1>5
  <1>7. Those(s, T) = f[n]
    BY DEF Those, ThoseSteps
  <1> HIDE DEF f
  <1>8. /\ f[0] = <<>>
        /\ \A i \in 1..n : f[i] = IF s[i] \in T THEN Append(f[i - 1], s[i]) ELSE f[i - 1]
    <2>1. 0 \in 0..n /\ \A i \in 1..n : i \in 0..n /\ i # 0
      BY <1>1
    <2> HIDE DEF n
    <2>2. n = Len(s)
      BY DEF n
    <2> QED
      BY <1>6, <2>1, <2>2 DEF ThoseSteps
  <1> DEFINE P == {i \in 0..n : f[i] \in D /\ ToSet(f[i]) = {s[j] : j \in 1..i} \cap T}
  <1>9. 0 \in P
    <2>1. ToSet(<<>>) = {} /\ 1..0 = {} /\ 0 \in 0..n
      BY <1>1 DEF ToSet
    <2> QED
      BY <1>2, <1>8, <2>1
  <1>10. ASSUME NEW i \in 1..n, i - 1 \in P PROVE i \in P
    <2>1. f[i - 1] \in D /\ ToSet(f[i - 1]) = {s[j] : j \in 1..(i - 1)} \cap T
      BY <1>10
    <2>2. i \in 0..n /\ \A j \in 1..i : j = i \/ j \in 1..(i - 1)
      BY <1>1
    <2>3. {s[j] : j \in 1..i} = {s[j] : j \in 1..(i - 1)} \cup {s[i]}
      BY <1>1, <2>2
    <2>4. CASE s[i] \in T
      <3>1. f[i] = Append(f[i - 1], s[i])
        BY <1>8, <2>4
      <3>2. f[i] \in D /\ ToSet(f[i]) = ToSet(f[i - 1]) \cup {s[i]}
        <4>1. PICK q : q = f[i - 1]
          OBVIOUS
        <4>2. Append(q, s[i]) \in Seq(X) /\ ToSet(Append(q, s[i])) = ToSet(q) \cup {s[i]}
          BY <1>1, <2>1, <4>1, Appending
        <4> QED
          BY <3>1, <4>1, <4>2
      <3> QED
        BY <2>1, <2>2, <2>3, <2>4, <3>2
    <2>5. CASE s[i] \notin T
      <3>1. f[i] = f[i - 1]
        BY <1>8, <2>5
      <3> QED
        BY <2>1, <2>2, <2>3, <2>5, <3>1
    <2> QED
      BY <2>4, <2>5
  <1>11. n \in P
    <2>1. n \in 0..n
      BY <1>1
    <2> HIDE DEF P, n
    <2> QED
      BY <1>1, <1>9, <1>10, <2>1, Upwards
  <1>12. ToSet(s) = {s[j] : j \in 1..n}
    BY <1>1 DEF ToSet
  <1> QED
    BY <1>7, <1>11, <1>12

\* A flattened sequence is its parts, one after the other.
Joined(f, X, parts, n) ==
    /\ f \in [0..n -> Seq(X)]
    /\ f[0] = <<>>
    /\ \A i \in 1..n : f[i] = f[i - 1] \o parts[i]

FlattenSteps(f, parts) ==
    f = [i \in 1..Len(parts) |-> IF i = 1 THEN parts[i] ELSE f[i - 1] \o parts[i]]

\* FlattenSeq, part by part.
LEMMA Flattening ==
    ASSUME NEW X, NEW n \in Nat, NEW parts \in [1..n -> Seq(X)]
    PROVE  \E f : Joined(f, X, parts, n) /\ FlattenSeq(parts) = f[n]
PROOF
  <1> DEFINE D == Seq(X)
             step == [i \in 1..n |-> [q \in D |-> q \o parts[i]]]
             h == CHOOSE h : FlattenSteps(h, parts)
  <1>1. Len(parts) = n /\ \A i \in 1..n : parts[i] \in D
    <2>1. parts \in Seq(D)
      BY IsASeq
    <2> QED
      BY <2>1, LenProperties
  <1>2. <<>> \in D /\ Steps(step, n, D)
    <2>1. \A i \in 1..n : \A q \in D : q \o parts[i] \in D
      BY <1>1, ConcatProperties
    <2> QED
      BY <2>1 DEF Steps
  <1>3. PICK f \in [0..n -> D] : f[0] = <<>> /\ \A i \in 1..n : f[i] = step[i][f[i - 1]]
    <2> HIDE DEF D, step
    <2>1. PICK a : a = <<>>
      OBVIOUS
    <2>2. a \in D
      BY <1>2, <2>1
    <2>3. \E g : Iterated(g, n, D, a, step)
      BY <1>2, <2>2, Iterates
    <2> QED
      BY <2>1, <2>3 DEF Iterated
  <1>4. \A i \in 1..n : i - 1 \in 0..n /\ i \in 0..n
    OBVIOUS
  <1>5. \A i \in 1..n : f[i] = f[i - 1] \o parts[i]
    BY <1>3, <1>4
  <1>6. Joined(f, X, parts, n)
    BY <1>3, <1>5 DEF Joined
  <1>7. FlattenSeq(parts) = f[n]
    <2>1. CASE n = 0
      <3>1. parts = <<>>
        <4>1. parts \in Seq(D)
          BY IsASeq
        <4> QED
          BY <1>1, <2>1, <4>1, EmptySeq
      <3> QED
        BY <1>1, <1>3, <2>1, <3>1 DEF FlattenSeq
    <2>2. CASE n # 0
      <3> DEFINE g == [i \in 1..n |-> f[i]]
      <3>1. FlattenSteps(g, parts)
        <4>1. f[1] = parts[1]
          <5>1. 1 \in 1..n /\ 1 - 1 = 0
            BY <2>2
          <5>2. f[1] = <<>> \o parts[1] /\ parts[1] \in D
            BY <1>1, <1>3, <1>5, <5>1, ZenonT(30)
          <5> QED
            BY <5>2, ConcatEmptySeq
        <4>2. \A i \in 1..n : g[i] = IF i = 1 THEN parts[i] ELSE g[i - 1] \o parts[i]
          <5>1. \A i \in 1..n : i # 1 => i - 1 \in 1..n
            OBVIOUS
          <5> QED
            BY <1>5, <4>1, <5>1
        <4> HIDE DEF g
        <4>3. g = [i \in 1..n |-> IF i = 1 THEN parts[i] ELSE g[i - 1] \o parts[i]]
          BY <4>2 DEF g
        <4> QED
          BY <1>1, <4>3 DEF FlattenSteps
      <3>2. FlattenSteps(h, parts)
        BY <3>1
      <3>3. FlattenSeq(parts) = h[n]
        BY <1>1, <2>2 DEF FlattenSeq, FlattenSteps
      <3> HIDE DEF h
      <3>4. \A i \in 1..n : h[i] = IF i = 1 THEN parts[i] ELSE h[i - 1] \o parts[i]
        BY <1>1, <3>2 DEF FlattenSteps
      <3> DEFINE P == {i \in 0..n : i # 0 => h[i] = f[i]}
      <3>5. 0 \in P
        OBVIOUS
      <3>6. ASSUME NEW i \in 1..n, i - 1 \in P PROVE i \in P
        <4>1. CASE i = 1
          <5>1. f[1] = parts[1]
            <6>1. 1 \in 1..n /\ 1 - 1 = 0
              BY <2>2
            <6>2. f[1] = <<>> \o parts[1] /\ parts[1] \in D
              BY <1>1, <1>3, <1>5, <6>1, ZenonT(30)
            <6> QED
              BY <6>2, ConcatEmptySeq
          <5> QED
            BY <1>4, <3>4, <4>1, <5>1
        <4>2. CASE i # 1
          <5>1. h[i - 1] = f[i - 1]
            BY <3>6, <4>2
          <5> QED
            BY <1>4, <1>5, <3>4, <4>2, <5>1
        <4> QED
          BY <4>1, <4>2
      <3>7. n \in P
        <4>1. n \in 0..n
          OBVIOUS
        <4> HIDE DEF P
        <4> QED
          BY <3>5, <3>6, <4>1, Upwards
      <3> QED
        BY <2>2, <3>3, <3>7
    <2> QED
      BY <2>1, <2>2
  <1> QED
    BY <1>6, <1>7

\* The sets of the first i parts together.
SetOf(parts, i) == UNION {ToSet(parts[j]) : j \in 1..i}

LEMMA OneMorePart ==
    ASSUME NEW parts, NEW i \in Nat \ {0}
    PROVE  SetOf(parts, i) = SetOf(parts, i - 1) \cup ToSet(parts[i])
PROOF
  <1>1. i \in 1..i /\ \A j \in 1..i : j = i \/ j \in 1..(i - 1)
    OBVIOUS
  <1>2. \A j \in 1..(i - 1) : j \in 1..i
    OBVIOUS
  <1>3. \A x : x \in SetOf(parts, i) <=> \E j \in 1..i : x \in ToSet(parts[j])
    BY DEF SetOf
  <1>4. \A x : x \in SetOf(parts, i - 1) <=> \E j \in 1..(i - 1) : x \in ToSet(parts[j])
    BY DEF SetOf
  <1> QED
    BY <1>1, <1>2, <1>3, <1>4

\* What is in a flattened sequence is what is in its parts.
LEMMA FlattenedSet ==
    ASSUME NEW X, NEW n \in Nat, NEW parts \in [1..n -> Seq(X)]
    PROVE  /\ FlattenSeq(parts) \in Seq(X)
           /\ ToSet(FlattenSeq(parts)) = SetOf(parts, n)
PROOF
  <1>1. PICK f : Joined(f, X, parts, n) /\ FlattenSeq(parts) = f[n]
    BY Flattening
  <1>2. \A i \in 0..n : f[i] \in Seq(X)
    BY <1>1 DEF Joined
  <1> DEFINE P == {i \in 0..n : ToSet(f[i]) = SetOf(parts, i)}
  <1>3. 0 \in P
    <2>1. ToSet(<<>>) = {} /\ SetOf(parts, 0) = {} /\ 0 \in 0..n
      BY DEF ToSet, SetOf
    <2> QED
      BY <1>1, <2>1 DEF Joined
  <1>4. ASSUME NEW i \in 1..n, i - 1 \in P PROVE i \in P
    <2>1. f[i - 1] \in Seq(X) /\ parts[i] \in Seq(X) /\ f[i] = f[i - 1] \o parts[i] /\ i \in 0..n
      <3>1. i \in 0..n /\ i - 1 \in 0..n
        OBVIOUS
      <3>2. f[i] = f[i - 1] \o parts[i]
        BY <1>1 DEF Joined
      <3> QED
        BY <1>2, <3>1, <3>2
    <2>2. ToSet(f[i]) = ToSet(f[i - 1]) \cup ToSet(parts[i])
      <3>1. PICK q, r : q = f[i - 1] /\ r = parts[i]
        OBVIOUS
      <3>2. ToSet(q \o r) = ToSet(q) \cup ToSet(r)
        BY <2>1, <3>1, Joining
      <3> QED
        BY <2>1, <3>1, <3>2
    <2>3. ToSet(f[i - 1]) = SetOf(parts, i - 1) /\ i \in Nat \ {0}
      BY <1>4
    <2>4. SetOf(parts, i) = SetOf(parts, i - 1) \cup ToSet(parts[i])
      BY <2>3, OneMorePart
    <2> QED
      BY <2>1, <2>2, <2>3, <2>4
  <1>5. n \in P
    <2>1. n \in 0..n
      OBVIOUS
    <2> HIDE DEF P
    <2> QED
      BY <1>3, <1>4, <2>1, Upwards
  <1> QED
    BY <1>1, <1>2, <1>5

-----------------------------------------------------------------------------
\* The loop over the events of a sitemap.

\* The loop over the events of a sitemap, event by event.
LoopSteps(f, state, events) ==
    f = [i \in 0..Len(events) |-> IF i = 0 THEN state ELSE OnEvent(f[i - 1], events[i])]

\* The state after each event.
Tells(f, state, events) ==
    /\ f[0] = state
    /\ \A i \in 1..Len(events) : f[i] = OnEvent(f[i - 1], events[i])

Table(state, events) == CHOOSE f : LoopSteps(f, state, events)

\* The loop, event by event.
LEMMA LoopUnfolds ==
    ASSUME NEW state, NEW events, Len(events) \in Nat
    PROVE  /\ Tells(Table(state, events), state, events)
           /\ Loop(state, events) = Table(state, events)[Len(events)]
PROOF
  <1> DEFINE n == Len(events)
             For(f, m) == f = [i \in 0..m |-> IF i = 0 THEN state ELSE OnEvent(f[i - 1], events[i])]
             S == {m \in 0..n : \E f : For(f, m)}
  <1>1. 0 \in S
    <2> DEFINE f == [i \in 0..0 |-> state]
    <2>1. f = [i \in 0..0 |-> IF i = 0 THEN state ELSE OnEvent(f[i - 1], events[i])]
      OBVIOUS
    <2>2. For(f, 0)
      BY <2>1
    <2> HIDE DEF f, For
    <2> QED
      BY <2>2
  <1>2. ASSUME NEW m \in 1..n, m - 1 \in S PROVE m \in S
    <2>1. PICK f : For(f, m - 1)
      BY <1>2
    <2> DEFINE g == [i \in 0..m |-> IF i = m THEN OnEvent(f[m - 1], events[m]) ELSE f[i]]
    <2>2. \A i \in 0..(m - 1) : f[i] = IF i = 0 THEN state ELSE OnEvent(f[i - 1], events[i])
      BY <2>1
    <2>3. ASSUME NEW i \in 0..m
          PROVE  g[i] = IF i = 0 THEN state ELSE OnEvent(g[i - 1], events[i])
      <3>1. i # 0 => i - 1 \in 0..m /\ i - 1 # m
        OBVIOUS
      <3>2. i # 0 => g[i - 1] = f[i - 1]
        BY <3>1
      <3>3. CASE i = m
        <4>1. i # 0
          BY <3>3
        <4> QED
          BY <3>2, <3>3, <4>1
      <3>4. CASE i # m
        <4>1. i \in 0..(m - 1) /\ g[i] = f[i]
          BY <3>4
        <4> QED
          BY <2>2, <3>2, <4>1
      <3> QED
        BY <3>3, <3>4
    <2> HIDE DEF g
    <2>4. g = [i \in 0..m |-> IF i = 0 THEN state ELSE OnEvent(g[i - 1], events[i])]
      BY <2>3 DEF g
    <2>5. For(g, m)
      BY <2>4
    <2> HIDE DEF For
    <2>6. m \in 0..n
      OBVIOUS
    <2> QED
      BY <2>5, <2>6
  <1>3. \E f : For(f, n)
    <2>1. n \in 0..n
      OBVIOUS
    <2> HIDE DEF S
    <2>2. n \in S
      BY <1>1, <1>2, <2>1, Upwards
    <2> HIDE DEF For
    <2> QED
      BY <2>2 DEF S
  <1>4. LoopSteps(Table(state, events), state, events)
    BY <1>3 DEF LoopSteps, Table
  <1>5. Tells(Table(state, events), state, events)
    <2> DEFINE f == Table(state, events)
    <2>1. f = [i \in 0..n |-> IF i = 0 THEN state ELSE OnEvent(f[i - 1], events[i])]
      BY <1>4 DEF LoopSteps
    <2> HIDE DEF f
    <2>2. 0 \in 0..n /\ \A i \in 1..n : i \in 0..n /\ i # 0
      OBVIOUS
    <2>3. f[0] = state /\ \A i \in 1..n : f[i] = OnEvent(f[i - 1], events[i])
      BY <2>1, <2>2
    <2> QED
      BY <2>3 DEF f, Tells
  <1> QED
    BY <1>5 DEF Loop, Table, LoopSteps

\* Two tables that agree on the events agree on the states.
Agree(n, f, g, a, b) ==
    /\ f[0] = g[0]
    /\ \A i \in 1..n : /\ f[i] = OnEvent(f[i - 1], a[i])
                       /\ g[i] = OnEvent(g[i - 1], b[i])
                       /\ a[i] = b[i]

LEMMA LoopAgrees ==
    ASSUME NEW n \in Nat, NEW f, NEW g, NEW a, NEW b, Agree(n, f, g, a, b)
    PROVE  f[n] = g[n]
PROOF
  <1> DEFINE S == {i \in 0..n : f[i] = g[i]}
  <1>1. 0 \in S
    BY DEF Agree
  <1>2. ASSUME NEW i \in 1..n, i - 1 \in S PROVE i \in S
    BY <1>2 DEF Agree
  <1>3. n \in S
    <2>1. n \in 0..n
      OBVIOUS
    <2> HIDE DEF S
    <2> QED
      BY <1>1, <1>2, <2>1, Upwards
  <1> QED
    BY <1>3

\* Some events, then others.
LEMMA LoopJoins ==
    ASSUME NEW X, NEW s \in Seq(X), NEW t \in Seq(X), NEW state
    PROVE  Loop(state, s \o t) = Loop(Loop(state, s), t)
PROOF
  <1> DEFINE u == s \o t
             f == Table(state, s)
             h == Table(state, u)
             mid == Loop(state, s)
             g == Table(mid, t)
             m == Len(s)
             n == Len(t)
             k == [i \in 0..n |-> h[m + i]]
  <1>1. m \in Nat /\ n \in Nat /\ Len(u) = m + n /\ Len(u) \in Nat
    BY Joining, LenProperties
  <1>2. /\ \A i \in 1..m : u[i] = s[i]
        /\ \A i \in 1..n : u[m + i] = t[i]
    BY Joining
  <1>3. Tells(f, state, s) /\ f[m] = Loop(state, s)
    BY <1>1, LoopUnfolds
  <1>4. Tells(g, mid, t) /\ g[n] = Loop(mid, t)
    BY <1>1, LoopUnfolds
  <1>5. Tells(h, state, u) /\ h[Len(u)] = Loop(state, u)
    BY <1>1, LoopUnfolds
  <1> HIDE DEF f, g, h, u, mid
  <1>6. f[m] = h[m]
    <2>1. \A i \in 1..m : i \in 1..Len(u)
      BY <1>1
    <2>2. \A i \in 1..m : /\ f[i] = OnEvent(f[i - 1], s[i])
                           /\ h[i] = OnEvent(h[i - 1], u[i])
                           /\ s[i] = u[i]
      BY <1>2, <1>3, <1>5, <2>1 DEF Tells
    <2>3. f[0] = h[0]
      BY <1>3, <1>5 DEF Tells
    <2> HIDE DEF m
    <2>4. Agree(m, f, h, s, u)
      BY <2>2, <2>3 DEF Agree
    <2> QED
      BY <1>1, <2>4, LoopAgrees
  <1>7. k[n] = g[n]
    <2>1. k[0] = g[0]
      <3>1. 0 \in 0..n /\ m + 0 = m
        BY <1>1
      <3> QED
        BY <1>3, <1>4, <1>6, <3>1 DEF Tells, mid
    <2>2. ASSUME NEW i \in 1..n
          PROVE  /\ k[i] = OnEvent(k[i - 1], t[i])
                 /\ g[i] = OnEvent(g[i - 1], t[i])
                 /\ t[i] = t[i]
      <3>1. /\ i \in 0..n /\ i - 1 \in 0..n /\ m + i \in 1..Len(u) /\ (m + i) - 1 = m + (i - 1)
        BY <1>1
      <3>2. h[m + i] = OnEvent(h[(m + i) - 1], u[m + i])
        BY <1>5, <3>1 DEF Tells
      <3>3. k[i] = h[m + i] /\ k[i - 1] = h[m + (i - 1)]
        BY <3>1
      <3> QED
        BY <1>2, <1>4, <3>1, <3>2, <3>3 DEF Tells
    <2> HIDE DEF k, n
    <2>3. Agree(n, k, g, t, t)
      BY <2>1, <2>2 DEF Agree
    <2> QED
      BY <1>1, <2>3, LoopAgrees
  <1>8. k[n] = h[Len(u)]
    <2>1. n \in 0..n
      BY <1>1
    <2> QED
      BY <1>1, <2>1
  <1> QED
    BY <1>4, <1>5, <1>7, <1>8 DEF mid, u

LEMMA LoopOne ==
    ASSUME NEW state, NEW event
    PROVE  /\ Loop(state, <<>>) = state
           /\ Loop(state, <<event>>) = OnEvent(state, event)
PROOF
  <1>1. Len(<<>>) = 0 /\ Len(<<event>>) = 1 /\ <<event>>[1] = event
    OBVIOUS
  <1>2. Loop(state, <<>>) = state
    BY <1>1, LoopUnfolds DEF Tells
  <1>3. Loop(state, <<event>>) = OnEvent(state, event)
    <2> DEFINE e == <<event>>
               f == Table(state, e)
    <2>1. Tells(f, state, e) /\ f[1] = Loop(state, e)
      BY <1>1, LoopUnfolds
    <2> HIDE DEF f
    <2>2. 1 \in 1..1 /\ 1 - 1 = 0
      OBVIOUS
    <2>3. f[1] = OnEvent(f[1 - 1], e[1]) /\ f[0] = state
      BY <1>1, <2>1, <2>2 DEF Tells
    <2> QED
      BY <1>1, <2>1, <2>2, <2>3
  <1> QED
    BY <1>2, <1>3

\* The state after the first k events is that in the table of all.
LEMMA LoopPrefix ==
    ASSUME NEW X, NEW s \in Seq(X), NEW k \in 0..Len(s), NEW state
    PROVE  Loop(state, SubSeq(s, 1, k)) = Table(state, s)[k]
PROOF
  <1> DEFINE p == SubSeq(s, 1, k)
             f == Table(state, p)
             g == Table(state, s)
  <1>1. Len(s) \in Nat /\ k \in Nat
    BY LenProperties
  <1>2. p \in Seq(X) /\ Len(p) = k /\ \A i \in 1..k : p[i] = s[i]
    <2>1. \A i \in 1..k : s[i] \in X
      BY <1>1, AsFunctions
    <2>2. Len(p) = k /\ \A i \in 1..k : p[i] = s[i]
      BY <1>1
    <2>3. p \in Seq(X)
      BY <1>1
    <2> QED
      BY <2>2, <2>3
  <1>3. Tells(f, state, p) /\ f[k] = Loop(state, p)
    BY <1>1, <1>2, LoopUnfolds
  <1>4. Tells(g, state, s)
    BY <1>1, LoopUnfolds
  <1> HIDE DEF f, g, p
  <1>5. f[k] = g[k]
    <2>1. \A i \in 1..k : i \in 1..Len(s)
      BY <1>1
    <2>2. \A i \in 1..k : /\ f[i] = OnEvent(f[i - 1], p[i])
                          /\ g[i] = OnEvent(g[i - 1], s[i])
                          /\ p[i] = s[i]
      BY <1>2, <1>3, <1>4, <2>1 DEF Tells
    <2>3. f[0] = g[0]
      BY <1>3, <1>4 DEF Tells
    <2>4. Agree(k, f, g, p, s)
      BY <2>2, <2>3 DEF Agree
    <2> QED
      BY <1>1, <2>4, LoopAgrees
  <1> QED
    BY <1>3, <1>5 DEF g, p

\* Events, with tags of some names, and the states of the loop.
Event(tags) ==
    [kind : {"start"}, name : tags] \cup [kind : {"text"}, text : Seq(Token)]
        \cup [kind : {"badText", "end", "bad", "other"}]

St(elements, location, entries, failed) ==
    [elements |-> elements, location |-> location, entries |-> entries, failed |-> failed]

\* The first and the last of some places in a sequence.
LEMMA EarliestIs ==
    ASSUME NEW n \in Nat, NEW places \in SUBSET (1..n), places # {}
    PROVE  Earliest(places) \in places /\ \A j \in places : Earliest(places) <= j
PROOF
  <1>1. PICK i \in places : \A j \in places : i <= j
    <2>1. places \subseteq Nat
      OBVIOUS
    <2> QED
      BY <2>1, LeastNumber
  <1> QED
    BY <1>1 DEF Earliest

LEMMA LatestIs ==
    ASSUME NEW n \in Nat, NEW places \in SUBSET (1..n), places # {}
    PROVE  Latest(places) \in places /\ \A j \in places : j <= Latest(places)
PROOF
  <1> DEFINE mirrored == {i \in 0..n : n - i \in places}
  <1>1. mirrored # {} /\ mirrored \subseteq Nat
    <2>1. PICK j \in places : TRUE
      OBVIOUS
    <2>2. n - j \in 0..n /\ n - (n - j) = j
      OBVIOUS
    <2>3. n - j \in mirrored
      BY <2>2
    <2>4. mirrored \subseteq Nat
      OBVIOUS
    <2> QED
      BY <2>3, <2>4
  <1>2. PICK i \in mirrored : \A j \in mirrored : i <= j
    <2> HIDE DEF mirrored
    <2> QED
      BY <1>1, LeastNumber
  <1>3. \A j \in places : j <= n - i
    <2> SUFFICES ASSUME NEW j \in places PROVE j <= n - i
      OBVIOUS
    <2>1. j \in 1..n /\ n - j \in 0..n /\ n - (n - j) = j
      OBVIOUS
    <2>2. i <= n - j
      BY <1>2, <2>1
    <2> QED
      BY <2>1, <2>2
  <1>4. n - i \in places
    OBVIOUS
  <1> QED
    BY <1>3, <1>4 DEF Latest

\* Trimming keeps the type.
LEMMA TrimTypes ==
    ASSUME NEW X, NEW s \in Seq(X), NEW set
    PROVE  TrimStart(s, set) \in Seq(X) /\ TrimEnd(s, set) \in Seq(X)
PROOF
  <1> DEFINE kept == {i \in DOMAIN s : s[i] \notin set}
             n == Len(s)
  <1>1. n \in Nat /\ kept \in SUBSET (1..n) /\ \A i \in 1..n : s[i] \in X
    BY AsFunctions
  <1>2. CASE kept = {}
    BY <1>2 DEF TrimStart, TrimEnd
  <1>3. CASE kept # {}
    <2>1. PICK i, j : i = Earliest(kept) /\ j = Latest(kept)
      OBVIOUS
    <2>2. i \in 1..n /\ j \in 1..n
      <3> HIDE DEF kept, n
      <3> QED
        BY <1>1, <1>3, <2>1, EarliestIs, LatestIs
    <2>3. SubSeq(s, i, n) \in Seq(X) /\ SubSeq(s, 1, j) \in Seq(X)
      <3>1. /\ \A k \in i..n : s[k] \in X
            /\ \A k \in 1..j : s[k] \in X
        BY <1>1, <2>2
      <3> QED
        BY <1>1, <2>2, <3>1, SubSeqProperties
    <2> QED
      BY <1>3, <2>1, <2>3 DEF TrimStart, TrimEnd
  <1> QED
    BY <1>2, <1>3

LEMMA StripTypes == ASSUME NEW X, NEW s \in Seq(X) PROVE Strip(s) \in Seq(X)
BY TrimTypes DEF Strip

\* The top of a stack, and what is under it.
LEMMA Stacks ==
    ASSUME NEW X, NEW els \in Seq(X), NEW tag \in X
    PROVE  /\ Append(els, tag) \in Seq(X)
           /\ \A state : state.elements = Append(els, tag) => Top(state) = tag
           /\ Front(Append(els, tag)) = els
PROOF
  <1> DEFINE t == Append(els, tag)
  <1>1. t \in Seq(X) /\ Len(t) = Len(els) + 1 /\ t[Len(t)] = tag /\ Len(els) \in Nat
        /\ \A i \in 1..Len(els) : t[i] = els[i]
    <2>1. /\ t \in Seq(X) /\ Len(t) = Len(els) + 1
          /\ t[Len(els) + 1] = tag
          /\ \A i \in 1..Len(els) : t[i] = els[i]
      <3>1. t \in Seq(X) /\ Len(t) = Len(els) + 1
        BY Appending
      <3>2. t[Len(els) + 1] = tag
        BY Appending
      <3>3. \A i \in 1..Len(els) : t[i] = els[i]
        BY Appending
      <3> QED
        BY <3>1, <3>2, <3>3
    <2> HIDE DEF t
    <2> QED
      BY <2>1, LenProperties
  <1>2. t # <<>>
    <2>1. Len(t) # 0 /\ Len(<<>>) = 0
      BY <1>1
    <2> QED
      BY <2>1
  <1>3. Last(t) = tag
    BY <1>1 DEF Last
  <1>4. SubSeq(t, 1, Len(t) - 1) = els
    <2>1. Len(t) - 1 = Len(els)
      BY <1>1
    <2>2. SubSeq(t, 1, Len(els)) = els
      <3> DEFINE u == SubSeq(t, 1, Len(els))
      <3>1. \A i \in 1..Len(els) : t[i] \in X
        BY <1>1, AsFunctions
      <3>2. u \in Seq(X) /\ Len(u) = Len(els) /\ \A i \in 1..Len(els) : u[i] = t[i]
        BY <1>1, <3>1
      <3> HIDE DEF u, t
      <3>3. \A i \in 1..Len(els) : u[i] = els[i]
        BY <1>1, <3>2
      <3>4. u = els
        BY <3>2, <3>3, SeqEqual
      <3> QED
        BY <3>4 DEF u
    <2> QED
      BY <2>1, <2>2
  <1> QED
    BY <1>1, <1>2, <1>3, <1>4 DEF Top, Front

LEMMA LoopThree ==
    ASSUME NEW state, NEW a, NEW b, NEW c
    PROVE  Loop(state, <<a, b, c>>) = OnEvent(OnEvent(OnEvent(state, a), b), c)
PROOF
  <1> DEFINE e == <<a, b, c>>
             f == Table(state, e)
  <1>1. Len(e) = 3 /\ e[1] = a /\ e[2] = b /\ e[3] = c
    OBVIOUS
  <1>2. Tells(f, state, e) /\ f[3] = Loop(state, e)
    BY <1>1, LoopUnfolds
  <1> HIDE DEF f, e
  <1>3. f[0] = state /\ \A i \in 1..3 : f[i] = OnEvent(f[i - 1], e[i])
    BY <1>1, <1>2 DEF Tells
  <1>4. f[1] = OnEvent(f[0], e[1]) /\ f[2] = OnEvent(f[1], e[2]) /\ f[3] = OnEvent(f[2], e[3])
    <2>1. 1 \in 1..3 /\ 2 \in 1..3 /\ 3 \in 1..3 /\ 1 - 1 = 0 /\ 2 - 1 = 1 /\ 3 - 1 = 2
      OBVIOUS
    <2> QED
      BY <1>3, <2>1
  <1> QED
    BY <1>1, <1>2, <1>3, <1>4 DEF e

\* What each event does, as the loop is in an element.
Handles(els, tag, loc, ents) ==
    LET in == Append(els, tag)
            state == St(in, loc, ents, FALSE)
        IN  /\ \A name :
                 OnEvent(state, Start(name))
                   = St(Append(in, name), IF name = "loc" /\ tag \in {"sitemap", "url"} THEN <<>> ELSE loc,
                        ents, FALSE)
            /\ \A text \in Seq(Token) :
                 OnEvent(state, [kind |-> "text", text |-> text])
                   = St(in, IF loc # NoLocation /\ tag = "loc" THEN loc \o text ELSE loc, ents, FALSE)
            /\ OnEvent(state, [kind |-> "badText"])
                   = St(in, loc, ents, loc # NoLocation /\ tag = "loc")
            /\ OnEvent(state, [kind |-> "other"]) = state
            /\ \A name : tag # "loc" \/ loc = NoLocation
                           => OnEvent(state, Close(name)) = St(els, loc, ents, FALSE)

LEMMA Handlers ==
    ASSUME NEW X, NEW els \in Seq(X), NEW tag \in X, NEW loc, NEW ents
    PROVE  Handles(els, tag, loc, ents)
PROOF
  <1> DEFINE in == Append(els, tag)
             state == St(in, loc, ents, FALSE)
  <1>2. state.elements = in /\ state.location = loc /\ state.entries = ents /\ state.failed = FALSE
    BY DEF St
  <1>1. Top(state) = tag /\ Front(in) = els
    <2> HIDE DEF state
    <2> QED
      BY <1>2, Stacks
  <1>3. state = [elements |-> in, location |-> loc, entries |-> ents, failed |-> FALSE]
    BY DEF St
  <1> HIDE DEF in, state
  <1>4. ASSUME NEW name
        PROVE  OnEvent(state, Start(name))
                      = St(Append(in, name), IF name = "loc" /\ tag \in {"sitemap", "url"} THEN <<>> ELSE loc,
                           ents, FALSE)
    <2>1. OnEvent(state, Start(name)) = OnStart(state, name)
      BY <1>2 DEF OnEvent, Start
    <2> QED
      BY <1>1, <1>3, <2>1 DEF OnStart, St
  <1>5. ASSUME NEW text \in Seq(Token)
        PROVE  OnEvent(state, [kind |-> "text", text |-> text])
                      = St(in, IF loc # NoLocation /\ tag = "loc" THEN loc \o text ELSE loc, ents, FALSE)
    <2>1. OnEvent(state, [kind |-> "text", text |-> text]) = OnText(state, text)
      BY <1>2 DEF OnEvent
    <2> QED
      BY <1>1, <1>3, <2>1 DEF OnText, St
  <1>6. OnEvent(state, [kind |-> "badText"]) = St(in, loc, ents, loc # NoLocation /\ tag = "loc")
    <2>1. OnEvent(state, [kind |-> "badText"]) = OnBadText(state)
      BY <1>2 DEF OnEvent
    <2> QED
      BY <1>1, <1>3, <2>1 DEF OnBadText, St
  <1>7. OnEvent(state, [kind |-> "other"]) = state
    BY <1>2 DEF OnEvent
  <1>8. ASSUME NEW name, tag # "loc" \/ loc = NoLocation
        PROVE  OnEvent(state, Close(name)) = St(els, loc, ents, FALSE)
    <2>1. OnEvent(state, Close(name)) = OnEnd(state)
      BY <1>2 DEF OnEvent, Close
    <2>2. OnEnd(state) = [state EXCEPT !.elements = els]
      BY <1>1, <1>2, <1>8 DEF OnEnd
    <2> QED
      BY <1>3, <2>1, <2>2 DEF St
  <1> QED
    BY <1>4, <1>5, <1>6, <1>7, <1>8 DEF in, state, Handles

\* An error ends the loop.
LEMMA LoopFails ==
    ASSUME NEW X, NEW events \in Seq(X), NEW state, state.failed
    PROVE  Loop(state, events) = state
PROOF
  <1> DEFINE n == Len(events)
             f == Table(state, events)
             S == {i \in 0..n : f[i] = state}
  <1>1. n \in Nat
    BY LenProperties
  <1>2. Tells(f, state, events) /\ Loop(state, events) = f[n]
    BY <1>1, LoopUnfolds
  <1> HIDE DEF f
  <1>3. 0 \in S
    BY <1>1, <1>2 DEF Tells
  <1>4. ASSUME NEW i \in 1..n, i - 1 \in S PROVE i \in S
    <2>1. f[i] = OnEvent(f[i - 1], events[i]) /\ f[i - 1] = state /\ i \in 0..n
      BY <1>1, <1>2, <1>4 DEF Tells
    <2>2. f[i] = state
      BY <2>1 DEF OnEvent
    <2> QED
      BY <2>1, <2>2
  <1>5. n \in S
    <2>1. n \in 0..n
      BY <1>1
    <2> HIDE DEF S, n
    <2> QED
      BY <1>1, <1>3, <1>4, <2>1, Upwards
  <1> QED
    BY <1>2, <1>5

LEMMA TextIsNotNowhere == \A text \in Seq(Token) : text # NoLocation
PROOF
  <1> SUFFICES ASSUME NEW text \in Seq(Token), text = NoLocation PROVE FALSE
    OBVIOUS
  <1>1. Len(text) = 1 /\ text[1] = "nowhere"
    BY DEF NoLocation
  <1>2. text[1] \in Token
    BY <1>1, AsFunctions
  <1> QED
    BY <1>1, <1>2, TokenAssumption DEF NoLocation

\* What the loop does in a loc: adds a text, or fails, if it is one it looks for.
ReadsOn(in, ents, loc, events, text, what) ==
    Loop(St(in, loc, ents, FALSE), events)
      = St(in, IF loc = NoLocation THEN loc ELSE loc \o text, ents, what = "bad" /\ loc # NoLocation)

\* The loop takes of a piece its own text, and a nested element leaves it as it is.
LEMMA PieceRead ==
    ASSUME NEW X, {"loc", "b"} \subseteq X,
           NEW p \in Piece, NEW els \in Seq(X), NEW ents,
           NEW loc \in Seq(Token) \cup {NoLocation}
    PROVE  /\ RenderPiece(p) \in Seq(Event(X)) /\ OwnText(p) \in Seq(Token)
           /\ ReadsOn(Append(els, "loc"), ents, loc, RenderPiece(p), OwnText(p), p.kind)
PROOF
  <1> DEFINE in == Append(els, "loc")
             state == St(in, loc, ents, FALSE)
  <1>1. in \in Seq(X)
    BY AppendProperties
  <1>2. loc # NoLocation => loc \in Seq(Token)
    OBVIOUS
  <1> HIDE DEF in, state, ReadsOn
  <1>0. Handles(els, "loc", loc, ents)
    BY Handlers
  <1>3. /\ \A name :
             OnEvent(state, Start(name))
               = St(Append(in, name), IF name = "loc" /\ "loc" \in {"sitemap", "url"} THEN <<>> ELSE loc,
                    ents, FALSE)
        /\ \A text \in Seq(Token) :
             OnEvent(state, [kind |-> "text", text |-> text])
               = St(in, IF loc # NoLocation /\ "loc" = "loc" THEN loc \o text ELSE loc, ents, FALSE)
        /\ OnEvent(state, [kind |-> "badText"])
               = St(in, loc, ents, loc # NoLocation /\ "loc" = "loc")
    BY <1>0 DEF Handles, in, state
  <1>4. CASE p.kind \in {"text", "data"}
    <2> DEFINE text == IF p.kind = "text" THEN Strip(p.text) ELSE p.text
    <2>1. p.text \in Seq(Token)
      BY <1>4 DEF Piece
    <2>2. text \in Seq(Token)
      BY <2>1, StripTypes
    <2>3. OwnText(p) = text
      BY <1>4 DEF OwnText
    <2>4. RenderPiece(p) = <<[kind |-> "text", text |-> text]>>
      BY <1>4 DEF RenderPiece
    <2> HIDE DEF text, in, state
    <2>5. Loop(state, RenderPiece(p)) = OnEvent(state, [kind |-> "text", text |-> text])
      BY <2>4, LoopOne
    <2>6. RenderPiece(p) \in Seq(Event(X))
      BY <2>2, <2>4 DEF Event
    <2>7. p.kind # "bad"
      BY <1>4
    <2> QED
      BY <1>3, <2>2, <2>3, <2>5, <2>6, <2>7 DEF in, state, ReadsOn
  <1>5. CASE p.kind = "bad"
    <2>1. OwnText(p) = <<>> /\ <<>> \in Seq(Token)
      BY <1>5 DEF OwnText
    <2>2. RenderPiece(p) = <<[kind |-> "badText"]>>
      BY <1>5 DEF RenderPiece
    <2>3. RenderPiece(p) \in Seq(Event(X))
      BY <2>2 DEF Event
    <2> HIDE DEF in, state, ReadsOn
    <2>4. Loop(state, RenderPiece(p)) = OnEvent(state, [kind |-> "badText"])
      BY <2>2, LoopOne
    <2>5. loc # NoLocation => loc \o <<>> = loc
      BY <1>2, ConcatEmptySeq
    <2>6. (IF loc = NoLocation THEN loc ELSE loc \o OwnText(p)) = loc
      BY <2>1, <2>5
    <2>7. (loc # NoLocation /\ "loc" = "loc") = (p.kind = "bad" /\ loc # NoLocation)
      BY <1>5
    <2> QED
      BY <1>3, <2>1, <2>3, <2>4, <2>6, <2>7 DEF in, state, ReadsOn
  <1>6. CASE p.kind = "element"
    <2> DEFINE inner == [kind |-> "text", text |-> p.text]
               deep == Append(in, "b")
    <2>1. OwnText(p) = <<>> /\ <<>> \in Seq(Token) /\ p.text \in Seq(Token)
      BY <1>6 DEF OwnText, Piece
    <2>2. RenderPiece(p) = <<Start("b"), inner, Close("b")>>
      BY <1>6 DEF RenderPiece
    <2>3. Start("b") \in Event(X) /\ inner \in Event(X) /\ Close("b") \in Event(X)
      BY <2>1 DEF Event, Start, Close
    <2>4. RenderPiece(p) \in Seq(Event(X))
      BY <2>2, <2>3
    <2>5. OnEvent(state, Start("b")) = St(deep, loc, ents, FALSE)
      <3>1. ("b" = "loc" /\ "loc" \in {"sitemap", "url"}) = FALSE
        OBVIOUS
      <3> QED
        BY <1>3, <3>1
    <2>6. /\ OnEvent(St(deep, loc, ents, FALSE), inner) = St(deep, loc, ents, FALSE)
          /\ OnEvent(St(deep, loc, ents, FALSE), Close("b")) = St(in, loc, ents, FALSE)
      <3>0. Handles(in, "b", loc, ents)
        BY <1>1, Handlers
      <3>1. /\ \A text \in Seq(Token) :
                  OnEvent(St(deep, loc, ents, FALSE), [kind |-> "text", text |-> text])
                    = St(deep, IF loc # NoLocation /\ "b" = "loc" THEN loc \o text ELSE loc, ents, FALSE)
            /\ \A name : "b" # "loc" \/ loc = NoLocation
                  => OnEvent(St(deep, loc, ents, FALSE), Close(name)) = St(in, loc, ents, FALSE)
        BY <3>0 DEF Handles
      <3> QED
        BY <2>1, <3>1
    <2> HIDE DEF inner, deep, in, state
    <2>7. Loop(state, RenderPiece(p)) = St(in, loc, ents, FALSE)
      <3>1. PICK a, c : a = Start("b") /\ c = Close("b")
        OBVIOUS
      <3>2. Loop(state, <<a, inner, c>>) = OnEvent(OnEvent(OnEvent(state, a), inner), c)
        BY LoopThree
      <3> QED
        BY <2>2, <2>5, <2>6, <3>1, <3>2
    <2>8. loc # NoLocation => loc \o <<>> = loc
      BY <1>2, ConcatEmptySeq
    <2>9. (IF loc = NoLocation THEN loc ELSE loc \o OwnText(p)) = loc
      BY <2>1, <2>8
    <2>10. (p.kind = "bad" /\ loc # NoLocation) = FALSE
      BY <1>6
    <2> QED
      BY <2>1, <2>4, <2>7, <2>9, <2>10 DEF in, state, ReadsOn
  <1>7. p.kind \in {"text", "data", "element", "bad"}
    BY DEF Piece
  <1> QED
    BY <1>4, <1>5, <1>6, <1>7

\* The events and the texts of the pieces of a loc.
PieceEvents(pieces) == FlattenSeq([i \in DOMAIN pieces |-> RenderPiece(pieces[i])])

OwnTexts(pieces) == FlattenSeq([i \in DOMAIN pieces |-> OwnText(pieces[i])])

\* Of all pieces of a loc, the loop takes their own texts.
LEMMA PiecesRead ==
    ASSUME NEW X, {"loc", "b"} \subseteq X, NEW pieces \in Seq(Piece), NEW els \in Seq(X), NEW ents
    PROVE  LET in == Append(els, "loc")
           IN  /\ PieceEvents(pieces) \in Seq(Event(X)) /\ OwnTexts(pieces) \in Seq(Token)
               /\ Loop(St(in, NoLocation, ents, FALSE), PieceEvents(pieces))
                    = St(in, NoLocation, ents, FALSE)
               /\ ~HasBad(pieces) =>
                    Loop(St(in, <<>>, ents, FALSE), PieceEvents(pieces))
                      = St(in, OwnTexts(pieces), ents, FALSE)
               /\ HasBad(pieces) => Loop(St(in, <<>>, ents, FALSE), PieceEvents(pieces)).failed
PROOF
  <1> DEFINE in == Append(els, "loc")
             n == Len(pieces)
             V == Event(X)
             events == [i \in 1..n |-> RenderPiece(pieces[i])]
             texts == [i \in 1..n |-> OwnText(pieces[i])]
             none == St(in, NoLocation, ents, FALSE)
             some == St(in, <<>>, ents, FALSE)
             BadTo(i) == \E j \in 1..i : pieces[j].kind = "bad"
  <1>1. n \in Nat /\ DOMAIN pieces = 1..n /\ \A i \in 1..n : pieces[i] \in Piece
    BY AsFunctions
  <1>2. /\ \A i \in 1..n : events[i] \in Seq(V) /\ texts[i] \in Seq(Token)
        /\ \A i \in 1..n : \A loc \in Seq(Token) \cup {NoLocation} :
             ReadsOn(in, ents, loc, events[i], texts[i], pieces[i].kind)
    <2> SUFFICES ASSUME NEW i \in 1..n
                 PROVE  /\ events[i] \in Seq(V) /\ texts[i] \in Seq(Token)
                        /\ \A loc \in Seq(Token) \cup {NoLocation} :
                             ReadsOn(in, ents, loc, events[i], texts[i], pieces[i].kind)
      OBVIOUS
    <2>1. PICK p \in Piece : p = pieces[i]
      BY <1>1
    <2>2. RenderPiece(p) \in Seq(Event(X)) /\ OwnText(p) \in Seq(Token)
      <3>1. NoLocation \in Seq(Token) \cup {NoLocation}
        OBVIOUS
      <3> QED
        BY <3>1, PieceRead
    <2>3. ASSUME NEW loc \in Seq(Token) \cup {NoLocation}
          PROVE  ReadsOn(in, ents, loc, RenderPiece(p), OwnText(p), p.kind)
      BY PieceRead
    <2> QED
      BY <2>1, <2>2, <2>3
  <1>3. PICK f : Joined(f, V, events, n) /\ FlattenSeq(events) = f[n]
    <2>1. events \in [1..n -> Seq(V)]
      BY <1>2
    <2> HIDE DEF events, n, V
    <2> QED
      BY <1>1, <2>1, Flattening
  <1>4. PICK g : Joined(g, Token, texts, n) /\ FlattenSeq(texts) = g[n]
    <2>1. texts \in [1..n -> Seq(Token)]
      BY <1>2
    <2> HIDE DEF texts, n
    <2> QED
      BY <1>1, <2>1, Flattening
  <1>5. PieceEvents(pieces) = f[n] /\ OwnTexts(pieces) = g[n] /\ (HasBad(pieces) <=> BadTo(n))
    BY <1>1, <1>3, <1>4 DEF PieceEvents, OwnTexts, HasBad
  <1> HIDE DEF events, texts, in, V, n
  <1>6. /\ \A i \in 0..n : f[i] \in Seq(V) /\ g[i] \in Seq(Token)
        /\ f[0] = <<>> /\ g[0] = <<>>
        /\ \A i \in 1..n : f[i] = f[i - 1] \o events[i] /\ g[i] = g[i - 1] \o texts[i]
    BY <1>3, <1>4 DEF Joined
  <1> DEFINE S == {i \in 0..n : /\ Loop(none, f[i]) = none
                                /\ ~BadTo(i) => Loop(some, f[i]) = St(in, g[i], ents, FALSE)
                                /\ BadTo(i) => Loop(some, f[i]).failed}
  <1>7. 0 \in S
    <2>1. Loop(none, f[0]) = none /\ Loop(some, f[0]) = some
      BY <1>6, LoopOne
    <2>2. some = St(in, g[0], ents, FALSE) /\ ~BadTo(0) /\ 0 \in 0..n
      BY <1>1, <1>6
    <2> HIDE DEF some, none
    <2> QED
      BY <2>1, <2>2
  <1>8. ASSUME NEW i \in 1..n, i - 1 \in S PROVE i \in S
    <2>0. i - 1 \in 0..n /\ i \in 0..n
      BY <1>1
    <2>1. f[i - 1] \in Seq(V) /\ events[i] \in Seq(V) /\ f[i] = f[i - 1] \o events[i]
      BY <1>2, <1>6, <2>0
    <2>2. \A state : Loop(state, f[i]) = Loop(Loop(state, f[i - 1]), events[i])
      <3>1. PICK q, r : q = f[i - 1] /\ r = events[i]
        OBVIOUS
      <3>2. \A state : Loop(state, q \o r) = Loop(Loop(state, q), r)
        BY <2>1, <3>1, LoopJoins
      <3> QED
        BY <2>1, <3>1, <3>2
    <2>3. Loop(none, f[i]) = none
      <3>1. Loop(none, events[i]) = none
        <4>1. NoLocation \in Seq(Token) \cup {NoLocation}
              /\ (pieces[i].kind = "bad" /\ NoLocation # NoLocation) = FALSE
          OBVIOUS
        <4> QED
          BY <1>2, <4>1 DEF ReadsOn
      <3> QED
        BY <1>8, <2>2, <3>1
    <2>4. g[i - 1] \in Seq(Token) /\ g[i - 1] # NoLocation /\ g[i] = g[i - 1] \o texts[i]
      BY <1>6, <2>0, TextIsNotNowhere
    <2>5. BadTo(i) <=> BadTo(i - 1) \/ pieces[i].kind = "bad"
      <3>1. \A j \in 1..i : j = i \/ j \in 1..(i - 1)
        BY <1>1
      <3>2. i \in 1..i /\ \A j \in 1..(i - 1) : j \in 1..i
        BY <1>1
      <3> QED
        BY <3>1, <3>2
    <2>6. CASE ~BadTo(i - 1)
      <3>1. Loop(some, f[i - 1]) = St(in, g[i - 1], ents, FALSE)
        BY <1>8, <2>6
      <3>2. Loop(St(in, g[i - 1], ents, FALSE), events[i])
              = St(in, g[i - 1] \o texts[i], ents, pieces[i].kind = "bad" /\ g[i - 1] # NoLocation)
        BY <1>2, <2>4 DEF ReadsOn
      <3>3. Loop(some, f[i]) = St(in, g[i], ents, pieces[i].kind = "bad" /\ g[i - 1] # NoLocation)
        BY <2>2, <2>4, <3>1, <3>2
      <3>4. CASE pieces[i].kind = "bad"
        <4>0. (pieces[i].kind = "bad" /\ g[i - 1] # NoLocation) = TRUE
          BY <2>4, <3>4
        <4>1. Loop(some, f[i]).failed
          <5>1. Loop(some, f[i]) = St(in, g[i], ents, TRUE)
            BY <3>3, <4>0
          <5> QED
            BY <5>1 DEF St
        <4> QED
          BY <2>0, <2>3, <2>5, <3>4, <4>1
      <3>5. CASE pieces[i].kind # "bad"
        <4>1. (pieces[i].kind = "bad" /\ g[i - 1] # NoLocation) = FALSE
          BY <3>5
        <4>2. Loop(some, f[i]) = St(in, g[i], ents, FALSE)
          BY <3>3, <4>1
        <4> QED
          BY <2>0, <2>3, <2>5, <2>6, <3>5, <4>2
      <3> QED
        BY <3>4, <3>5
    <2>7. CASE BadTo(i - 1)
      <3>1. Loop(some, f[i - 1]).failed
        BY <1>8, <2>7
      <3>2. PICK state, r : state = Loop(some, f[i - 1]) /\ r = events[i]
        OBVIOUS
      <3>3. Loop(state, r) = state
        BY <2>1, <3>1, <3>2, LoopFails
      <3>4. Loop(some, f[i]).failed
        BY <2>2, <3>1, <3>2, <3>3
      <3> QED
        BY <2>0, <2>3, <2>5, <2>7, <3>4
    <2> QED
      BY <2>6, <2>7
  <1>9. n \in S
    <2>1. n \in 0..n
      BY <1>1
    <2> HIDE DEF S
    <2> QED
      BY <1>1, <1>7, <1>8, <2>1, Upwards
  <1>10. f[n] \in Seq(V) /\ g[n] \in Seq(Token)
    BY <1>1, <1>6
  <1> QED
    BY <1>5, <1>9, <1>10 DEF in, V

\* The end of a loc that is looked for.
LEMMA LocationEnds ==
    ASSUME NEW X, NEW els \in Seq(X), NEW parent \in X, "loc" \in X, NEW ents, NEW loc \in Seq(Token),
           NEW name
    PROVE  OnEvent(St(Append(Append(els, parent), "loc"), loc, ents, FALSE), Close(name))
             = St(Append(els, parent), NoLocation,
                  IF Strip(loc) = <<>> THEN ents ELSE Append(ents, Entry(parent, Strip(loc))), FALSE)
PROOF
  <1> DEFINE under == Append(els, parent)
             in == Append(under, "loc")
             state == St(in, loc, ents, FALSE)
  <1>1. /\ state.elements = in /\ state.location = loc /\ state.entries = ents /\ state.failed = FALSE
        /\ state = [elements |-> in, location |-> loc, entries |-> ents, failed |-> FALSE]
    BY DEF St
  <1>2. under \in Seq(X) /\ Len(under) = Len(els) + 1 /\ under[Len(els) + 1] = parent
        /\ Len(els) \in Nat
    BY AppendProperties, LenProperties
  <1>3. under # <<>> /\ Last(under) = parent
    <2>1. Len(under) # 0 /\ Len(<<>>) = 0
      BY <1>2
    <2> HIDE DEF under
    <2> QED
      BY <1>2, <2>1 DEF Last
  <1> HIDE DEF under
  <1>4. Front(in) = under /\ Top(state) = "loc"
    <2> HIDE DEF state
    <2> QED
      BY <1>1, <1>2, Stacks
  <1> HIDE DEF in, state
  <1>5. loc # NoLocation
    BY TextIsNotNowhere
  <1>6. OnEvent(state, Close(name)) = OnEnd(state)
    BY <1>1 DEF OnEvent, Close
  <1>7. OnEnd(state)
          = [state EXCEPT !.elements = under, !.location = NoLocation,
                !.entries = IF Strip(loc) = <<>> THEN @ ELSE Append(@, Entry(parent, Strip(loc)))]
    BY <1>1, <1>3, <1>4, <1>5 DEF OnEnd, Strip
  <1> QED
    BY <1>1, <1>6, <1>7 DEF St, state, in, under

\* The entries whose loc the loop looks for.
Sought(e) == e.parent \in {"url", "sitemap"}

\* The entries after an entry that was read.
Added(e, ents) ==
    IF Sought(e) /\ MeantText(e.pieces) # <<>>
    THEN Append(ents, Entry(e.parent, MeantText(e.pieces))) ELSE ents

ImageEvents == Around("image", Around("loc", <<[kind |-> "text", text |-> <<"image">>]>>))

EntryStart(e) == IF e.image THEN ImageEvents ELSE <<[kind |-> "other"]>>

\* All events of an entry but the end of its loc and its own end.
Body(e) == ((<<Start(e.parent)>> \o EntryStart(e)) \o <<Start("loc")>>) \o PieceEvents(e.pieces)

Tags(e) == {"set", "loc", "b", "image", e.parent}

\* A loc of a nested element is none of the entry.
LEMMA ImagesAreSkipped ==
    ASSUME NEW X, {"loc", "image"} \subseteq X, "image" \in Token,
           NEW els \in Seq(X), NEW parent \in X, NEW ents
    PROVE  /\ ImageEvents \in Seq(Event(X))
           /\ LET state == St(Append(els, parent), NoLocation, ents, FALSE)
              IN  Loop(state, ImageEvents) = state
PROOF
  <1> DEFINE in == Append(els, parent)
             in2 == Append(in, "image")
             in3 == Append(in2, "loc")
             text == [kind |-> "text", text |-> <<"image">>]
             state == St(in, NoLocation, ents, FALSE)
             state2 == St(in2, NoLocation, ents, FALSE)
             state3 == St(in3, NoLocation, ents, FALSE)
  <1>1. in \in Seq(X) /\ in2 \in Seq(X) /\ in3 \in Seq(X)
    BY AppendProperties
  <1>2. Handles(els, parent, NoLocation, ents)
    BY Handlers
  <1>3. Handles(in, "image", NoLocation, ents)
    BY <1>1, Handlers
  <1>4. Handles(in2, "loc", NoLocation, ents)
    <2> HIDE DEF in2
    <2> QED
      BY <1>1, Handlers
  <1>5. <<"image">> \in Seq(Token)
    OBVIOUS
  <1>6. OnEvent(state, Start("image")) = state2
    <2>1. ("image" = "loc" /\ parent \in {"sitemap", "url"}) = FALSE
      OBVIOUS
    <2> QED
      BY <1>2, <2>1 DEF Handles
  <1>7. OnEvent(state2, Start("loc")) = state3
    <2>1. ("loc" = "loc" /\ "image" \in {"sitemap", "url"}) = FALSE
      OBVIOUS
    <2> QED
      BY <1>3, <2>1 DEF Handles
  <1>8. OnEvent(state3, text) = state3
    BY <1>4, <1>5 DEF Handles
  <1>9. OnEvent(state3, Close("loc")) = state2
    BY <1>4 DEF Handles
  <1>10. OnEvent(state2, Close("image")) = state
    BY <1>3 DEF Handles
  <1> DEFINE a == <<Start("image")>>
             b == <<Start("loc")>>
             t == <<text>>
             c == <<Close("loc")>>
             d == <<Close("image")>>
             inner == (b \o t) \o c
             V == Event(X)
  <1>11. a \in Seq(V) /\ b \in Seq(V) /\ t \in Seq(V) /\ c \in Seq(V) /\ d \in Seq(V)
    <2>1. Start("image") \in V /\ Start("loc") \in V /\ text \in V /\ Close("loc") \in V /\ Close("image") \in V
      BY <1>5 DEF Event, Start, Close
    <2> HIDE DEF V, text
    <2> QED
      BY <2>1
  <1>12. ImageEvents = (a \o inner) \o d
    BY DEF ImageEvents, Around
  <1> HIDE DEF state, state2, state3, in, in2, in3, text
  <1>13. /\ Loop(state, a) = state2 /\ Loop(state2, b) = state3 /\ Loop(state3, t) = state3
         /\ Loop(state3, c) = state2 /\ Loop(state2, d) = state
    BY <1>6, <1>7, <1>8, <1>9, <1>10, LoopOne
  <1> HIDE DEF a, b, t, c, d, V
  <1>14. Loop(state2, b \o t) = state3 /\ b \o t \in Seq(V)
    BY <1>11, <1>13, LoopJoins, ConcatProperties
  <1>15. Loop(state2, inner) = state2 /\ inner \in Seq(V)
    <2>1. PICK u : u = b \o t
      OBVIOUS
    <2>2. Loop(state2, u \o c) = Loop(Loop(state2, u), c) /\ u \o c \in Seq(V)
      BY <1>11, <1>14, <2>1, LoopJoins, ConcatProperties
    <2> QED
      BY <1>13, <1>14, <2>1, <2>2
  <1> HIDE DEF inner
  <1>16. Loop(state, a \o inner) = state2 /\ a \o inner \in Seq(V)
    BY <1>11, <1>13, <1>15, LoopJoins, ConcatProperties
  <1>17. Loop(state, (a \o inner) \o d) = state /\ (a \o inner) \o d \in Seq(V)
    <2>1. PICK u : u = a \o inner
      OBVIOUS
    <2>2. Loop(state, u \o d) = Loop(Loop(state, u), d) /\ u \o d \in Seq(V)
      BY <1>11, <1>16, <2>1, LoopJoins, ConcatProperties
    <2> QED
      BY <1>13, <1>16, <2>1, <2>2
  <1> QED
    BY <1>12, <1>17 DEF V, state, in

Same(s, t) == s = t

LEMMA FourJoined ==
    ASSUME NEW V, NEW a \in Seq(V), NEW b \in Seq(V), NEW c \in Seq(V), NEW d \in Seq(V)
    PROVE  /\ Same(a \o (b \o (c \o d)), ((a \o b) \o c) \o d)
           /\ ((a \o b) \o c) \o d \in Seq(V) /\ (a \o b) \o c \in Seq(V) /\ a \o b \in Seq(V)
           /\ \A state : Loop(state, ((a \o b) \o c) \o d) = Loop(Loop(Loop(Loop(state, a), b), c), d)
PROOF
  <1>1. a \o b \in Seq(V)
    BY ConcatProperties
  <1>2. PICK p : p = a \o b
    OBVIOUS
  <1>3. p \o c \in Seq(V) /\ c \o d \in Seq(V)
    BY <1>1, <1>2, ConcatProperties
  <1>4. PICK q, r : q = p \o c /\ r = c \o d
    OBVIOUS
  <1>5. q \o d \in Seq(V)
    BY <1>3, <1>4, ConcatProperties
  <1>6. a \o (b \o r) = p \o r
    <2>1. r \in Seq(V)
      BY <1>3, <1>4
    <2>2. (a \o b) \o r = a \o (b \o r)
      BY <2>1, ConcatAssociative, SMTT(30)
    <2> QED
      BY <1>2, <2>2
  <1>7. p \o (c \o d) = q \o d
    <2>1. p \in Seq(V)
      BY <1>1, <1>2
    <2>2. (p \o c) \o d = p \o (c \o d)
      BY <2>1, ConcatAssociative, SMTT(30)
    <2> QED
      BY <1>4, <2>2
  <1>8. ASSUME NEW state
        PROVE  Loop(state, q \o d) = Loop(Loop(Loop(Loop(state, a), b), c), d)
    <2>1. Loop(state, q \o d) = Loop(Loop(state, q), d)
      BY <1>3, <1>4, LoopJoins
    <2>2. Loop(state, p \o c) = Loop(Loop(state, p), c)
      BY <1>1, <1>2, LoopJoins
    <2>3. Loop(state, a \o b) = Loop(Loop(state, a), b)
      BY LoopJoins
    <2> QED
      BY <1>2, <1>4, <2>1, <2>2, <2>3
  <1> QED
    BY <1>1, <1>2, <1>3, <1>4, <1>5, <1>6, <1>7, <1>8 DEF Same

\* An entry adds what its author meant, at the end of its loc and not before, or fails.
BodyDoes(e, state, ents) ==
    IF Sought(e) /\ HasBad(e.pieces) THEN Loop(state, Body(e)).failed
    ELSE /\ ~Loop(state, Body(e)).failed
         /\ Loop(state, Body(e)).entries = ents

EntryDoes(e, els, ents) ==
    LET state == St(els, NoLocation, ents, FALSE)
        close == Loop(state, Body(e) \o <<Close("loc")>>)
    IN  /\ BodyDoes(e, state, ents)
        /\ ~(Sought(e) /\ HasBad(e.pieces)) =>
              /\ ~close.failed /\ close.entries = Added(e, ents)
              /\ Loop(close, <<Close(e.parent)>>) = St(els, NoLocation, Added(e, ents), FALSE)

\* An entry is read as it was meant, wherever it is in the sitemap.
LEMMA EntryRead ==
    ASSUME NEW X, {"set", "loc", "b", "image"} \subseteq X, "image" \in Token,
           NEW e, e.parent \in X, e.image \in BOOLEAN, e.pieces \in Seq(Piece),
           NEW under \in Seq(X), NEW ents
    PROVE  LET els == Append(under, "set")
           IN  /\ Body(e) \in Seq(Event(X))
               /\ RenderEntry(e) = (Body(e) \o <<Close("loc")>>) \o <<Close(e.parent)>>
               /\ EntryDoes(e, els, ents)
PROOF
  <1> DEFINE els == Append(under, "set")
             V == Event(X)
             a == <<Start(e.parent)>>
             b == EntryStart(e)
             c == <<Start("loc")>>
             d == PieceEvents(e.pieces)
             close == <<Close("loc")>>
             end == <<Close(e.parent)>>
             in == Append(els, e.parent)
             in2 == Append(in, "loc")
             state == St(els, NoLocation, ents, FALSE)
             state1 == St(in, NoLocation, ents, FALSE)
             loc == IF Sought(e) THEN <<>> ELSE NoLocation
             state2 == St(in2, loc, ents, FALSE)
  <1>1. els \in Seq(X) /\ in \in Seq(X) /\ in2 \in Seq(X)
    BY AppendProperties
  <1>2. a \in Seq(V) /\ c \in Seq(V) /\ close \in Seq(V) /\ end \in Seq(V)
    <2>1. Start(e.parent) \in V /\ Start("loc") \in V /\ Close("loc") \in V /\ Close(e.parent) \in V
      BY DEF Event, Start, Close
    <2> HIDE DEF V
    <2> QED
      BY <2>1
  <1>3. d \in Seq(V)
    BY PiecesRead
  <1>4. ImageEvents \in Seq(V) /\ Loop(state1, ImageEvents) = state1
    <2> HIDE DEF els
    <2> QED
      BY <1>1, ImagesAreSkipped, ZenonT(30)
  <1>5. b \in Seq(V) /\ Loop(state1, b) = state1
    <2>1. CASE e.image
      BY <1>4, <2>1 DEF EntryStart
    <2>2. CASE ~e.image
      <3>1. [kind |-> "other"] \in V
        BY DEF Event
      <3>2. Handles(els, e.parent, NoLocation, ents)
        <4> HIDE DEF els
        <4> QED
          BY <1>1, Handlers
      <3>3. OnEvent(state1, [kind |-> "other"]) = state1
        BY <3>2 DEF Handles
      <3>4. Loop(state1, <<[kind |-> "other"]>>) = state1
        BY <3>3, LoopOne
      <3>5. b = <<[kind |-> "other"]>>
        BY <2>2 DEF EntryStart
      <3>6. <<[kind |-> "other"]>> \in Seq(V)
        <4> HIDE DEF V
        <4> QED
          BY <3>1
      <3> HIDE DEF b
      <3> QED
        BY <3>4, <3>5, <3>6
    <2> QED
      BY <2>1, <2>2
  <1>6. Loop(state, a) = state1
    <2>1. Handles(under, "set", NoLocation, ents)
      BY Handlers
    <2>2. (e.parent = "loc" /\ "set" \in {"sitemap", "url"}) = FALSE
      OBVIOUS
    <2>3. OnEvent(state, Start(e.parent)) = state1
      BY <2>1, <2>2 DEF Handles
    <2> QED
      BY <2>3, LoopOne
  <1>7. Loop(state1, c) = state2
    <2>1. Handles(els, e.parent, NoLocation, ents)
      <3> HIDE DEF els
      <3> QED
        BY <1>1, Handlers
    <2>2. (IF "loc" = "loc" /\ e.parent \in {"sitemap", "url"} THEN <<>> ELSE NoLocation) = loc
      BY DEF Sought
    <2>3. OnEvent(state1, Start("loc")) = state2
      BY <2>1, <2>2 DEF Handles
    <2> QED
      BY <2>3, LoopOne
  <1>8. /\ RenderEntry(e) = (a \o (b \o (c \o d) \o close)) \o end
    <2>1. RenderEntry(e) = (a \o (b \o ((c \o d) \o close))) \o end
      BY DEF RenderEntry, Around, EntryStart, ImageEvents, PieceEvents
    <2>2. c \o d \in Seq(V)
      BY <1>2, <1>3, ConcatProperties
    <2>3. PICK cd : cd = c \o d
      OBVIOUS
    <2>4. b \o (cd \o close) = (b \o cd) \o close
      <3> HIDE DEF b, close, V
      <3> QED
        BY <1>2, <1>5, <2>2, <2>3, ConcatAssociative
    <2> HIDE DEF a, b, close, end
    <2> QED
      BY <2>1, <2>3, <2>4
  <1>9. Body(e) = ((a \o b) \o c) \o d
    BY DEF Body
  <1> HIDE DEF a, b, c, d, V, close, end
  <1>10. /\ a \o (b \o (c \o d)) = Body(e) /\ Body(e) \in Seq(V)
         /\ Loop(state, Body(e)) = Loop(state2, d)
    <2> HIDE DEF state, state1, state2
    <2>3. b \in Seq(V)
      BY <1>5
    <2>4. PICK bb : bb = b
      OBVIOUS
    <2>5. Same(a \o (bb \o (c \o d)), ((a \o bb) \o c) \o d)
      <3>1. a \in Seq(V) /\ c \in Seq(V) /\ d \in Seq(V) /\ bb \in Seq(V)
        BY <1>2, <1>3, <2>3, <2>4
      <3> QED
        BY <3>1, FourJoined
    <2>6. ((a \o bb) \o c) \o d \in Seq(V)
      BY <1>2, <1>3, <2>3, <2>4, FourJoined
    <2>1. a \o (b \o (c \o d)) = Body(e) /\ Body(e) \in Seq(V)
      <3> HIDE DEF Body
      <3> QED
        BY <1>9, <2>4, <2>5, <2>6 DEF Same
    <2>2. Loop(state, ((a \o b) \o c) \o d) = Loop(Loop(Loop(Loop(state, a), b), c), d)
      BY <1>2, <1>3, <1>5, FourJoined
    <2> QED
      BY <1>5, <1>6, <1>7, <1>9, <2>1, <2>2
  <1>11. RenderEntry(e) = (Body(e) \o close) \o end
    <2>1. c \o d \in Seq(V)
      BY <1>2, <1>3, ConcatProperties
    <2>2. PICK cd : cd = c \o d
      OBVIOUS
    <2>3. b \o cd \in Seq(V)
      BY <1>5, <2>1, <2>2, ConcatProperties
    <2>4. PICK bcd : bcd = b \o cd
      OBVIOUS
    <2>5. a \o (bcd \o close) = (a \o bcd) \o close
      <3>1. bcd \in Seq(V) /\ a \in Seq(V) /\ close \in Seq(V)
        BY <1>2, <2>3, <2>4
      <3>2. PICK A, C, W : A = a /\ C = close /\ W = V
        OBVIOUS
      <3>3. A \in Seq(W) /\ C \in Seq(W) /\ bcd \in Seq(W)
        BY <3>1, <3>2
      <3>4. (A \o bcd) \o C = A \o (bcd \o C)
        BY <3>3, ConcatAssociative
      <3> QED
        BY <3>2, <3>4
    <2> QED
      BY <1>8, <1>10, <2>2, <2>4, <2>5
  <1> HIDE DEF els, state, state1, state2, in, in2
  <1>12. EntryDoes(e, els, ents)
    <2> DEFINE bad == HasBad(e.pieces)
               text == OwnTexts(e.pieces)
               after == Loop(state, Body(e) \o close)
    <2>1. after = Loop(Loop(state2, d), close)
      <3>1. PICK body : body = Body(e)
        OBVIOUS
      <3>2. Loop(state, body \o close) = Loop(Loop(state, body), close)
        BY <1>2, <1>10, <3>1, LoopJoins
      <3> QED
        BY <1>10, <3>1, <3>2
    <2>2. \A s : Loop(s, close) = OnEvent(s, Close("loc")) /\ Loop(s, end) = OnEvent(s, Close(e.parent))
      BY LoopOne DEF close, end
    <2>3. \A es : OnEvent(St(in, NoLocation, es, FALSE), Close(e.parent)) = St(els, NoLocation, es, FALSE)
      <3> SUFFICES ASSUME NEW es
                   PROVE  OnEvent(St(in, NoLocation, es, FALSE), Close(e.parent))
                            = St(els, NoLocation, es, FALSE)
        OBVIOUS
      <3>1. Handles(els, e.parent, NoLocation, es)
        BY <1>1, Handlers
      <3> QED
        BY <3>1 DEF Handles, in
    <2>4. MeantText(e.pieces) = Strip(text) /\ text \in Seq(Token)
      BY PiecesRead DEF MeantText, OwnTexts
    <2>5. CASE Sought(e) /\ bad
      <3>1. Loop(St(in2, <<>>, ents, FALSE), PieceEvents(e.pieces)).failed
        BY <1>1, <2>5, PiecesRead DEF in2
      <3>2. Loop(state, Body(e)).failed
        BY <1>10, <2>5, <3>1 DEF state2, d
      <3> QED
        BY <2>5, <3>2 DEF EntryDoes, BodyDoes, state
    <2>6. CASE Sought(e) /\ ~bad
      <3>1. Loop(state2, d) = St(in2, text, ents, FALSE)
        <4>1. Loop(St(in2, <<>>, ents, FALSE), PieceEvents(e.pieces)) = St(in2, text, ents, FALSE)
          BY <1>1, <2>6, PiecesRead, ZenonT(30) DEF in2
        <4> QED
          BY <2>6, <4>1 DEF state2, d
      <3>2. after = St(in, NoLocation, Added(e, ents), FALSE)
        <4>1. OnEvent(St(in2, text, ents, FALSE), Close("loc"))
                = St(in, NoLocation,
                     IF Strip(text) = <<>> THEN ents ELSE Append(ents, Entry(e.parent, Strip(text))), FALSE)
          <5> HIDE DEF text
          <5>1. PICK loc2, parent : loc2 = text /\ parent = e.parent
            OBVIOUS
          <5>2. OnEvent(St(Append(Append(els, parent), "loc"), loc2, ents, FALSE), Close("loc"))
                  = St(Append(els, parent), NoLocation,
                       IF Strip(loc2) = <<>> THEN ents ELSE Append(ents, Entry(parent, Strip(loc2))), FALSE)
            BY <1>1, <2>4, <5>1, LocationEnds, ZenonT(30)
          <5> QED
            BY <5>1, <5>2 DEF in2, in
        <4>2. (IF Strip(text) = <<>> THEN ents ELSE Append(ents, Entry(e.parent, Strip(text))))
                = Added(e, ents)
          BY <2>4, <2>6 DEF Added
        <4> QED
          BY <2>1, <2>2, <3>1, <4>1, <4>2
      <3>3. Loop(after, end) = St(els, NoLocation, Added(e, ents), FALSE)
        BY <2>2, <2>3, <3>2
      <3>4. Loop(state, Body(e)) = St(in2, text, ents, FALSE)
        BY <1>10, <3>1
      <3> HIDE DEF after, text
      <3>5. /\ ~Loop(state, Body(e)).failed /\ Loop(state, Body(e)).entries = ents
            /\ ~after.failed /\ after.entries = Added(e, ents)
        BY <3>2, <3>4 DEF St
      <3> QED
        BY <2>6, <3>3, <3>5 DEF EntryDoes, BodyDoes, state, after, close, end
    <2>7. CASE ~Sought(e)
      <3>1. Loop(state2, d) = St(in2, NoLocation, ents, FALSE)
        <4>1. Loop(St(in2, NoLocation, ents, FALSE), PieceEvents(e.pieces)) = St(in2, NoLocation, ents, FALSE)
          BY <1>1, PiecesRead, ZenonT(30) DEF in2
        <4> QED
          BY <2>7, <4>1 DEF state2, d
      <3>2. after = St(in, NoLocation, ents, FALSE)
        <4>1. Handles(in, "loc", NoLocation, ents)
          BY <1>1, Handlers
        <4>2. OnEvent(St(in2, NoLocation, ents, FALSE), Close("loc")) = St(in, NoLocation, ents, FALSE)
          BY <4>1 DEF Handles, in2
        <4> QED
          BY <2>1, <2>2, <3>1, <4>2
      <3>3. Added(e, ents) = ents
        BY <2>7 DEF Added
      <3>4. Loop(after, end) = St(els, NoLocation, Added(e, ents), FALSE)
        BY <2>2, <2>3, <3>2, <3>3
      <3>5. Loop(state, Body(e)) = St(in2, NoLocation, ents, FALSE)
        BY <1>10, <3>1
      <3> HIDE DEF after
      <3>6. /\ ~Loop(state, Body(e)).failed /\ Loop(state, Body(e)).entries = ents
            /\ ~after.failed /\ after.entries = Added(e, ents)
        BY <3>2, <3>3, <3>5 DEF St
      <3> QED
        BY <2>7, <3>4, <3>6 DEF EntryDoes, BodyDoes, state, after, close, end
    <2> QED
      BY <2>5, <2>6, <2>7
  <1> QED
    BY <1>10, <1>11, <1>12 DEF els, V, close, end

\* The entries that the loop finds, and its states.
Found == [kind : {"url", "sitemap"}, url : Seq(Token)]

Sound(st) ==
    /\ st = St(st.elements, st.location, st.entries, st.failed)
    /\ st.location \in Seq(Token) \cup {NoLocation}
    /\ st.entries \in Seq(Found)
    /\ st.failed \in BOOLEAN

Grown(st, next) ==
    /\ next.entries = st.entries \/ Len(next.entries) > Len(st.entries)
    /\ st.failed => next = st

\* The loop only adds entries, and nothing comes after an error.
LEMMA StepGrows ==
    ASSUME NEW X, NEW st, Sound(st), NEW event \in Event(X)
    PROVE  Sound(OnEvent(st, event)) /\ Grown(st, OnEvent(st, event))
PROOF
  <1> DEFINE next == OnEvent(st, event)
  <1> SUFFICES Sound(next) /\ Grown(st, next)
    OBVIOUS
  <1>0. PICK els, loc, ents, bad : els = st.elements /\ loc = st.location /\ ents = st.entries /\ bad = st.failed
    OBVIOUS
  <1>1. /\ st = [elements |-> els, location |-> loc, entries |-> ents, failed |-> bad]
        /\ loc \in Seq(Token) \cup {NoLocation} /\ ents \in Seq(Found) /\ bad \in BOOLEAN
    BY <1>0 DEF Sound, St
  <1>2. ASSUME NEW els2, NEW loc2, NEW ents2, NEW bad2, next = St(els2, loc2, ents2, bad2),
               loc2 \in Seq(Token) \cup {NoLocation}, ents2 \in Seq(Found), bad2 \in BOOLEAN,
               ents2 = ents \/ Len(ents2) > Len(ents), bad = FALSE
        PROVE  Sound(next) /\ Grown(st, next)
    <2>1. next.elements = els2 /\ next.location = loc2 /\ next.entries = ents2 /\ next.failed = bad2
      BY <1>2 DEF St
    <2> HIDE DEF next
    <2>2. Sound(next)
      BY <1>2, <2>1 DEF Sound
    <2>3. Grown(st, next)
      BY <1>0, <1>2, <2>1 DEF Grown
    <2> QED
      BY <2>2, <2>3
  <1>3. CASE bad = TRUE
    <2>1. next = st
      BY <1>0, <1>3 DEF OnEvent
    <2> HIDE DEF next
    <2> QED
      BY <2>1 DEF Grown
  <1>4. CASE bad = FALSE /\ event.kind = "start"
    <2>1. next = OnStart(st, event.name)
      BY <1>0, <1>4 DEF OnEvent
    <2> DEFINE loc2 == IF event.name = "loc" /\ Top(st) \in {"sitemap", "url"} THEN <<>> ELSE loc
    <2>2. next = St(Append(els, event.name), loc2, ents, bad)
      BY <1>1, <2>1 DEF OnStart, St
    <2>3. loc2 \in Seq(Token) \cup {NoLocation}
      BY <1>1
    <2> HIDE DEF next, loc2
    <2> QED
      BY <1>1, <1>2, <1>4, <2>2, <2>3
  <1>5. CASE bad = FALSE /\ event.kind = "text"
    <2>1. next = OnText(st, event.text) /\ event.text \in Seq(Token)
      BY <1>0, <1>5 DEF OnEvent, Event
    <2> DEFINE loc2 == IF loc = NoLocation \/ Top(st) # "loc" THEN loc ELSE loc \o event.text
    <2>2. next = St(els, loc2, ents, bad)
      BY <1>1, <2>1 DEF OnText, St
    <2>3. loc2 \in Seq(Token) \cup {NoLocation}
      <3>1. PICK text \in Seq(Token) : text = event.text
        BY <2>1
      <3>2. loc # NoLocation => loc \o text \in Seq(Token)
        <4>1. SUFFICES ASSUME loc \in Seq(Token) PROVE loc \o text \in Seq(Token)
          BY <1>1
        <4> QED
          BY <4>1, ConcatProperties
      <3> QED
        BY <1>1, <3>1, <3>2
    <2> HIDE DEF next, loc2
    <2> QED
      BY <1>1, <1>2, <1>5, <2>2, <2>3
  <1>6. CASE bad = FALSE /\ event.kind = "badText"
    <2>1. next = OnBadText(st)
      BY <1>0, <1>6 DEF OnEvent
    <2> DEFINE bad2 == st.location # NoLocation /\ Top(st) = "loc"
    <2>2. next = St(els, loc, ents, bad2)
      BY <1>1, <2>1 DEF OnBadText, St
    <2>3. bad2 \in BOOLEAN
      OBVIOUS
    <2> HIDE DEF next, bad2
    <2> QED
      BY <1>1, <1>2, <1>6, <2>2, <2>3
  <1>7. CASE bad = FALSE /\ event.kind = "bad"
    <2>1. next = [st EXCEPT !.failed = TRUE]
      BY <1>0, <1>7 DEF OnEvent
    <2>2. next = St(els, loc, ents, TRUE)
      BY <1>1, <2>1 DEF St
    <2> HIDE DEF next
    <2> QED
      BY <1>1, <1>2, <1>7, <2>2
  <1>8. CASE bad = FALSE /\ event.kind = "other"
    <2>1. next = st
      BY <1>0, <1>8 DEF OnEvent
    <2> HIDE DEF next
    <2> QED
      BY <2>1 DEF Grown
  <1>9. CASE bad = FALSE /\ event.kind = "end"
    <2>1. next = OnEnd(st)
      BY <1>0, <1>9 DEF OnEvent
    <2> DEFINE parents == Front(st.elements)
               parent == IF parents = <<>> THEN Untyped ELSE Last(parents)
               text == Strip(st.location)
               more == IF text = <<>> THEN ents ELSE Append(ents, Entry(parent, text))
    <2>2. CASE Top(st) # "loc" \/ loc = NoLocation
      <3>1. next = St(parents, loc, ents, bad)
        BY <1>1, <2>1, <2>2 DEF OnEnd, St
      <3> HIDE DEF next, parents
      <3> QED
        BY <1>1, <1>2, <1>9, <3>1
    <2>3. CASE Top(st) = "loc" /\ loc # NoLocation
      <3>1. next = [st EXCEPT !.elements = parents, !.location = NoLocation,
                      !.entries = IF text = <<>> THEN @ ELSE Append(@, Entry(parent, text))]
        BY <1>0, <2>1, <2>3 DEF OnEnd, Strip
      <3>2. next = St(parents, NoLocation, more, bad)
        <4> HIDE DEF parents, parent, text, next
        <4> QED
          BY <1>1, <3>1 DEF St
      <3>3. text \in Seq(Token)
        <4>1. st.location \in Seq(Token)
          BY <1>0, <1>1, <2>3
        <4> QED
          BY <4>1, StripTypes
      <3>4. Entry(parent, text) \in Found
        <4> HIDE DEF text, parent
        <4> QED
          BY <3>3 DEF Entry, Found
      <3>5. more \in Seq(Found) /\ (more = ents \/ Len(more) > Len(ents))
        <4>1. PICK en \in Found : en = Entry(parent, text)
          BY <3>4
        <4>2. Append(ents, en) \in Seq(Found) /\ Len(Append(ents, en)) = Len(ents) + 1 /\ Len(ents) \in Nat
          BY <1>1, Appending, LenProperties
        <4> HIDE DEF text, parent
        <4> QED
          BY <1>1, <4>1, <4>2
      <3> HIDE DEF next, parents, more
      <3> QED
        BY <1>1, <1>2, <1>9, <3>2, <3>5
    <2> QED
      BY <2>2, <2>3
  <1>10. event.kind \in {"start", "text", "badText", "end", "bad", "other"}
    BY DEF Event
  <1> QED
    BY <1>1, <1>3, <1>4, <1>5, <1>6, <1>7, <1>8, <1>9, <1>10

\* If two states have the same entries, so has every state between them.
Between(t, n) ==
    \A p, q \in 0..n : t[p].entries = t[q].entries =>
        \A j \in p..q : t[j].entries = t[p].entries

Ascends(t, n) ==
    \A p \in 0..n : \A j \in p..n :
        /\ Len(t[p].entries) <= Len(t[j].entries)
        /\ t[p].failed => t[j].failed

\* So through all events.
LEMMA TableGrows ==
    ASSUME NEW X, NEW events \in Seq(Event(X)), NEW t, Tells(t, SitemapStart, events)
    PROVE  /\ \A i \in 0..Len(events) : Sound(t[i])
           /\ Ascends(t, Len(events))
           /\ Between(t, Len(events))
PROOF
  <1> DEFINE n == Len(events)
  <1>1. n \in Nat /\ \A i \in 1..n : events[i] \in Event(X)
    BY AsFunctions
  <1>2. t[0] = SitemapStart /\ \A i \in 1..n : t[i] = OnEvent(t[i - 1], events[i])
    BY DEF Tells
  <1> HIDE DEF n
  <1>3. \A i \in 0..n : Sound(t[i])
    <2> DEFINE S == {i \in 0..n : Sound(t[i])}
    <2>1. 0 \in S
      <3>1. Sound(SitemapStart)
        BY DEF SitemapStart, Sound, St
      <3> QED
        BY <1>1, <1>2, <3>1
    <2>2. ASSUME NEW i \in 1..n, i - 1 \in S PROVE i \in S
      <3>1. PICK st, event : st = t[i - 1] /\ event = events[i]
        OBVIOUS
      <3>2. Sound(st) /\ event \in Event(X)
        BY <1>1, <2>2, <3>1
      <3>3. Sound(OnEvent(st, event))
        BY <3>2, StepGrows
      <3>4. t[i] = OnEvent(st, event)
        BY <1>2, <3>1
      <3> QED
        BY <1>1, <3>3, <3>4
    <2> HIDE DEF S
    <2>3. \A i \in 0..n : i \in S
      BY <1>1, <2>1, <2>2, Upwards
    <2> QED
      BY <2>3 DEF S
  <1>4. \A i \in 1..n : Grown(t[i - 1], t[i])
    <2> SUFFICES ASSUME NEW i \in 1..n PROVE Grown(t[i - 1], t[i])
      OBVIOUS
    <2>1. PICK st, event : st = t[i - 1] /\ event = events[i]
      OBVIOUS
    <2>2. Sound(st) /\ event \in Event(X)
      <3>1. i - 1 \in 0..n
        BY <1>1
      <3> QED
        BY <1>1, <1>3, <2>1, <3>1
    <2>3. Grown(st, OnEvent(st, event))
      BY <2>2, StepGrows
    <2> QED
      BY <1>2, <2>1, <2>3
  <1>5. \A i \in 0..n : Len(t[i].entries) \in Nat
    <2> SUFFICES ASSUME NEW i \in 0..n PROVE Len(t[i].entries) \in Nat
      OBVIOUS
    <2>1. t[i].entries \in Seq(Found)
      BY <1>3 DEF Sound
    <2> QED
      BY <2>1, LenProperties
  <1>6. ASSUME NEW p \in 0..n, NEW j \in p..n
        PROVE  Len(t[p].entries) <= Len(t[j].entries) /\ (t[p].failed => t[j].failed)
    <2> DEFINE S == {i \in 0..(n - p) : /\ Len(t[p].entries) <= Len(t[p + i].entries)
                                        /\ t[p].failed => t[p + i].failed}
    <2>1. 0 \in S
      <3>1. p + 0 = p /\ 0 \in 0..(n - p) /\ Len(t[p].entries) \in Nat
        BY <1>1, <1>5
      <3> QED
        BY <3>1
    <2>2. ASSUME NEW i \in 1..(n - p), i - 1 \in S PROVE i \in S
      <3>1. p + i \in 1..n /\ p + (i - 1) = (p + i) - 1 /\ (p + i) - 1 \in 0..n /\ p + i \in 0..n
            /\ i \in 0..(n - p)
        BY <1>1
      <3>2. Grown(t[(p + i) - 1], t[p + i])
        BY <1>4, <3>1
      <3>3. PICK u, v : u = t[(p + i) - 1] /\ v = t[p + i]
        OBVIOUS
      <3>4. Len(u.entries) \in Nat /\ Len(v.entries) \in Nat /\ Len(t[p].entries) \in Nat
        BY <1>5, <3>1, <3>3
      <3>5. Len(t[p].entries) <= Len(u.entries) /\ (t[p].failed => u.failed)
        BY <2>2, <3>1, <3>3
      <3>6. Grown(u, v)
        BY <3>2, <3>3
      <3>7. Len(t[p].entries) <= Len(v.entries)
        BY <3>4, <3>5, <3>6 DEF Grown
      <3>8. t[p].failed => v.failed
        BY <3>5, <3>6 DEF Grown
      <3> QED
        BY <3>1, <3>3, <3>7, <3>8
    <2>3. n - p \in Nat /\ j - p \in 0..(n - p) /\ p + (j - p) = j
      BY <1>1
    <2> HIDE DEF S
    <2>4. j - p \in S
      BY <2>1, <2>2, <2>3, Upwards
    <2> QED
      BY <2>3, <2>4 DEF S
  <1>7. ASSUME NEW p \in 0..n, NEW q \in 0..n, t[p].entries = t[q].entries, NEW j \in p..q
        PROVE  t[j].entries = t[p].entries
    <2> DEFINE S == {i \in 0..(q - p) : t[p + i].entries = t[p].entries}
    <2>1. 0 \in S
      <3>1. p + 0 = p /\ 0 \in 0..(q - p)
        BY <1>1
      <3> QED
        BY <3>1
    <2>2. ASSUME NEW i \in 1..(q - p), i - 1 \in S PROVE i \in S
      <3>1. p + i \in 1..n /\ p + (i - 1) = (p + i) - 1 /\ p + i \in 0..n
            /\ i \in 0..(q - p) /\ q \in (p + i)..n
        BY <1>1
      <3>2. PICK u, v : u = t[(p + i) - 1] /\ v = t[p + i]
        OBVIOUS
      <3>3. Grown(u, v)
        BY <1>4, <3>1, <3>2
      <3>4. u.entries = t[p].entries
        BY <2>2, <3>1, <3>2
      <3>5. Len(v.entries) <= Len(t[q].entries)
        BY <1>6, <3>1, <3>2
      <3>6. Len(t[q].entries) = Len(u.entries)
        BY <1>7, <3>4
      <3>7. Len(v.entries) \in Nat /\ Len(u.entries) \in Nat
        BY <1>5, <1>7, <3>1, <3>2, <3>4
      <3>8. ~(Len(v.entries) > Len(u.entries))
        BY <3>5, <3>6, <3>7
      <3>9. v.entries = t[p].entries
        BY <3>3, <3>4, <3>8 DEF Grown
      <3> QED
        BY <3>1, <3>2, <3>9
    <2>3. q - p \in Nat /\ j - p \in 0..(q - p) /\ p + (j - p) = j
      BY <1>1
    <2> HIDE DEF S
    <2>4. j - p \in S
      BY <2>1, <2>2, <2>3, Upwards
    <2> QED
      BY <2>3, <2>4 DEF S
  <1>8. Ascends(t, n)
    BY <1>6 DEF Ascends
  <1>9. Between(t, n)
    BY <1>7 DEF Between
  <1> QED
    BY <1>3, <1>8, <1>9 DEF n

LEMMA Associative ==
    ASSUME NEW V, NEW s \in Seq(V), NEW t \in Seq(V), NEW u \in Seq(V)
    PROVE  Same((s \o t) \o u, s \o (t \o u))
BY ConcatAssociative DEF Same

\* The rest of a flattened sequence after some of its parts.
LEMMA JoinedRest ==
    ASSUME NEW V, NEW n \in Nat, NEW parts \in [1..n -> Seq(V)], NEW f, Joined(f, V, parts, n),
           NEW i \in 0..n
    PROVE  \E rest \in Seq(V) : Same(f[n], f[i] \o rest)
PROOF
  <1> DEFINE S == {k \in 0..n : \E rest \in Seq(V) : f[n] = f[n - k] \o rest}
  <1>1. /\ \A k \in 0..n : f[k] \in Seq(V)
        /\ \A k \in 1..n : f[k] = f[k - 1] \o parts[k] /\ parts[k] \in Seq(V)
    BY DEF Joined
  <1>2. 0 \in S
    <2>1. f[n] \in Seq(V) /\ n - 0 = n /\ <<>> \in Seq(V)
      BY <1>1
    <2>2. PICK g, none : g = f[n] /\ none = <<>>
      OBVIOUS
    <2>3. g \o none = g /\ none \in Seq(V) /\ g = f[n - 0]
      BY <2>1, <2>2, ConcatEmptySeq
    <2>4. f[n] = f[n - 0] \o none
      BY <2>2, <2>3
    <2> QED
      BY <2>3, <2>4
  <1>3. ASSUME NEW k \in 1..n, k - 1 \in S PROVE k \in S
    <2>1. PICK rest \in Seq(V) : f[n] = f[n - (k - 1)] \o rest
      BY <1>3
    <2>2. PICK m : m = n - k
      OBVIOUS
    <2>3. m \in 0..n /\ m + 1 \in 1..n /\ n - (k - 1) = m + 1 /\ (m + 1) - 1 = m
      BY <2>2
    <2>4. PICK p, g : p = parts[m + 1] /\ g = f[m]
      OBVIOUS
    <2>5. p \in Seq(V) /\ g \in Seq(V) /\ f[m + 1] = g \o p
      BY <1>1, <2>3, <2>4
    <2>6. f[n] = (g \o p) \o rest
      BY <2>1, <2>3, <2>5
    <2>7. (g \o p) \o rest = g \o (p \o rest)
      <3>1. p \in Seq(V)
        BY <2>5
      <3>2. g \in Seq(V)
        BY <2>5
      <3> QED
        BY <3>1, <3>2, ConcatAssociative
    <2>8. p \o rest \in Seq(V)
      BY <2>5, ConcatProperties
    <2>9. PICK more : more = p \o rest
      OBVIOUS
    <2>10. f[n] = f[n - k] \o more /\ more \in Seq(V)
      BY <2>2, <2>4, <2>6, <2>7, <2>8, <2>9
    <2>11. \E r \in Seq(V) : f[n] = f[n - k] \o r
      BY <2>10, Zenon
    <2>12. k \in 0..n
      OBVIOUS
    <2> QED
      BY <2>11, <2>12, Zenon
  <1>4. n - i \in 0..n /\ n - (n - i) = i
    OBVIOUS
  <1> HIDE DEF S
  <1>5. n - i \in S
    BY <1>2, <1>3, <1>4, Upwards
  <1>6. PICK rest \in Seq(V) : f[n] = f[n - (n - i)] \o rest
    BY <1>5 DEF S
  <1>7. Same(f[n], f[i] \o rest)
    BY <1>4, <1>6 DEF Same
  <1> QED
    BY <1>7

\* Some of the parts, flattened.
LEMMA FlattenedPrefix ==
    ASSUME NEW V, NEW n \in Nat, NEW parts \in [1..n -> Seq(V)], NEW f, Joined(f, V, parts, n),
           NEW i \in 0..n
    PROVE  FlattenSeq([j \in 1..i |-> parts[j]]) = f[i]
PROOF
  <1> DEFINE some == [j \in 1..i |-> parts[j]]
  <1>0. i \in Nat
    OBVIOUS
  <1>1. some \in [1..i -> Seq(V)]
    OBVIOUS
  <1>2. PICK g : Joined(g, V, some, i) /\ FlattenSeq(some) = g[i]
    <2> HIDE DEF some
    <2> QED
      BY <1>1, <1>0, Flattening
  <1> DEFINE S == {k \in 0..i : f[k] = g[k]}
  <1>3. 0 \in S
    BY <1>2 DEF Joined
  <1>4. ASSUME NEW k \in 1..i, k - 1 \in S PROVE k \in S
    <2>1. k \in 1..n /\ some[k] = parts[k]
      OBVIOUS
    <2>2. g[k] = g[k - 1] \o parts[k]
      <3>1. g[k] = g[k - 1] \o some[k]
        <4> HIDE DEF some
        <4> QED
          BY <1>2, <1>4 DEF Joined
      <3> QED
        BY <2>1, <3>1
    <2>3. f[k] = f[k - 1] \o parts[k]
      BY <2>1 DEF Joined
    <2>4. f[k - 1] = g[k - 1] /\ k \in 0..i
      BY <1>4
    <2> QED
      BY <2>2, <2>3, <2>4
  <1> HIDE DEF S, some
  <1>5. i \in S
    <2>1. i \in 0..i
      OBVIOUS
    <2> QED
      BY <1>0, <1>3, <1>4, <2>1, Upwards
  <1> QED
    BY <1>2, <1>5 DEF S, some

LEMMA Beginning ==
    ASSUME NEW X, NEW u \in Seq(X), NEW v \in Seq(X)
    PROVE  Same(SubSeq(u \o v, 1, Len(u)), u)
PROOF
  <1> DEFINE s == u \o v
  <1>1. Len(u) \in Nat /\ Len(v) \in Nat /\ Len(s) = Len(u) + Len(v)
        /\ \A i \in 1..Len(u) : s[i] = u[i]
    BY Joining, LenProperties
  <1>0. s \in Seq(X)
    BY Joining
  <1> HIDE DEF s
  <1>2. SubSeq(s, 1, Len(u)) = u
    <2>1. u = [i \in 1..Len(u) |-> u[i]]
      BY AsFunctions
    <2>2. PICK p : p = SubSeq(s, 1, Len(u))
      OBVIOUS
    <2>3. p \in Seq(X) /\ Len(p) = Len(u) /\ \A i \in 1..Len(u) : p[i] = s[i]
      <3>1. \A i \in 1..Len(u) : s[i] \in X
        BY <1>0, <1>1, AsFunctions
      <3>2. Len(p) = Len(u) /\ \A i \in 1..Len(u) : p[i] = s[i]
        BY <1>0, <1>1, <2>2
      <3>3. p \in Seq(X)
        BY <1>0, <1>1, <2>2
      <3> QED
        BY <3>2, <3>3
    <2>4. p = [i \in 1..Len(u) |-> p[i]]
      BY <2>3, AsFunctions
    <2> QED
      BY <1>1, <2>1, <2>2, <2>3, <2>4
  <1> QED
    BY <1>2 DEF s, Same

\* The state in the table of a sequence after its beginning.
LEMMA TableAt ==
    ASSUME NEW X, NEW s \in Seq(X), NEW u \in Seq(X), NEW v \in Seq(X), Same(s, u \o v), NEW state
    PROVE  /\ Len(u) \in 0..Len(s) /\ Len(s) = Len(u) + Len(v)
           /\ Table(state, s)[Len(u)] = Loop(state, u)
PROOF
  <1>0. s = u \o v
    BY DEF Same
  <1>1. Len(u) \in Nat /\ Len(v) \in Nat /\ Len(s) = Len(u) + Len(v)
        /\ \A i \in 1..Len(u) : s[i] = u[i]
    BY <1>0, Joining, LenProperties
  <1>2. SubSeq(s, 1, Len(u)) = u
    BY <1>0, Beginning DEF Same
  <1>3. Len(u) \in 0..Len(s)
    BY <1>1
  <1>4. Loop(state, SubSeq(s, 1, Len(u))) = Table(state, s)[Len(u)]
    BY <1>3, LoopPrefix
  <1> QED
    BY <1>1, <1>2, <1>3, <1>4

-----------------------------------------------------------------------------
\* The entries of a sitemap, whole, ended by a wrong tag or cut off.

\* Of the first i entries: that one fails, which have a location, and what they are.
SoughtBad(entries, i) == \E j \in 1..i : Sought(entries[j]) /\ HasBad(entries[j].pieces)

Telling(entries, i) == {j \in 1..i : Sought(entries[j]) /\ MeantText(entries[j].pieces) # <<>>}

EntrySet(entries, i) ==
    {Entry(entries[j].parent, MeantText(entries[j].pieces)) : j \in Telling(entries, i)}

\* The state of the loop after i entries.
EntriesDone(entries, i, u) ==
    LET st == Loop(SitemapStart, u)
    IN  /\ SoughtBad(entries, i) => st.failed
        /\ ~SoughtBad(entries, i) =>
              /\ st = St(Append(<<>>, "set"), NoLocation, st.entries, FALSE)
              /\ st.entries \in Seq(Found)
              /\ ToSet(st.entries) = EntrySet(entries, i)

\* The entries change at the end of a loc only.
AddsAtEnd(e, u) ==
    LET entriesOf(events) == Loop(SitemapStart, u \o events).entries
    IN  /\ entriesOf(Body(e)) = Loop(SitemapStart, u).entries
        /\ entriesOf(Body(e) \o <<Close("loc")>>) = entriesOf(RenderEntry(e))

LEMMA MeantTextTypes == ASSUME NEW pieces \in Seq(Piece) PROVE MeantText(pieces) \in Seq(Token)
PROOF
  <1> DEFINE X == {"loc", "b"}
  <1>1. <<>> \in Seq(X)
    OBVIOUS
  <1>2. OwnTexts(pieces) \in Seq(Token)
    BY <1>1, PiecesRead
  <1> QED
    BY <1>2, StripTypes DEF MeantText, OwnTexts

\* What one more entry makes of it.
LEMMA OneMoreEntry ==
    ASSUME NEW entries, NEW i \in Nat \ {0}
    PROVE  /\ SoughtBad(entries, i) <=>
                  SoughtBad(entries, i - 1) \/ (Sought(entries[i]) /\ HasBad(entries[i].pieces))
           /\ EntrySet(entries, i) =
                  EntrySet(entries, i - 1) \cup
                  (IF Sought(entries[i]) /\ MeantText(entries[i].pieces) # <<>>
                   THEN {Entry(entries[i].parent, MeantText(entries[i].pieces))} ELSE {})
PROOF
  <1>1. i \in 1..i /\ \A j \in 1..i : j = i \/ j \in 1..(i - 1)
    OBVIOUS
  <1>2. \A j \in 1..(i - 1) : j \in 1..i
    OBVIOUS
  <1>3. SoughtBad(entries, i) <=>
          SoughtBad(entries, i - 1) \/ (Sought(entries[i]) /\ HasBad(entries[i].pieces))
    BY <1>1, <1>2 DEF SoughtBad
  <1>4. Telling(entries, i) = Telling(entries, i - 1) \cup
            (IF Sought(entries[i]) /\ MeantText(entries[i].pieces) # <<>> THEN {i} ELSE {})
    <2> DEFINE Q(j) == Sought(entries[j]) /\ MeantText(entries[j].pieces) # <<>>
    <2>1. Telling(entries, i) = {j \in 1..i : Q(j)} /\ Telling(entries, i - 1) = {j \in 1..(i - 1) : Q(j)}
      BY DEF Telling
    <2> HIDE DEF Q
    <2>2. {j \in 1..i : Q(j)} = {j \in 1..(i - 1) : Q(j)} \cup (IF Q(i) THEN {i} ELSE {})
      BY <1>1, <1>2
    <2> QED
      BY <2>1, <2>2 DEF Q
  <1>5. PICK T, T1, g : /\ T = Telling(entries, i) /\ T1 = Telling(entries, i - 1)
                        /\ g = [j \in 1..i |-> Entry(entries[j].parent, MeantText(entries[j].pieces))]
    OBVIOUS
  <1>6. T \subseteq 1..i /\ T1 \subseteq 1..i
    BY <1>2, <1>5 DEF Telling
  <1>7. EntrySet(entries, i) = {g[j] : j \in T} /\ EntrySet(entries, i - 1) = {g[j] : j \in T1}
    BY <1>5, <1>6 DEF EntrySet
  <1>8. g[i] = Entry(entries[i].parent, MeantText(entries[i].pieces))
    BY <1>1, <1>5
  <1>9. CASE Sought(entries[i]) /\ MeantText(entries[i].pieces) # <<>>
    <2>1. T = T1 \cup {i}
      BY <1>4, <1>5, <1>9
    <2> QED
      BY <1>3, <1>7, <1>8, <1>9, <2>1
  <1>10. CASE ~(Sought(entries[i]) /\ MeantText(entries[i].pieces) # <<>>)
    <2>1. T = T1
      BY <1>4, <1>5, <1>10
    <2>2. EntrySet(entries, i) = EntrySet(entries, i - 1)
      BY <1>7, <2>1
    <2> QED
      BY <1>3, <1>10, <2>2
  <1> QED
    BY <1>9, <1>10

\* The loop does.
LEMMA NextEntryRead ==
    ASSUME NEW X, {"set", "loc", "b", "image"} \subseteq X, "image" \in Token,
           NEW entries, NEW i \in Nat \ {0}, entries[i] \in MapEntry(X),
           NEW u \in Seq(Event(X)), EntriesDone(entries, i - 1, u)
    PROVE  LET e == entries[i]
           IN  /\ RenderEntry(e) \in Seq(Event(X))
               /\ Body(e) \in Seq(Event(X))
               /\ RenderEntry(e) = (Body(e) \o <<Close("loc")>>) \o <<Close(e.parent)>>
               /\ EntriesDone(entries, i, u \o RenderEntry(e))
               /\ ~SoughtBad(entries, i) => AddsAtEnd(e, u)
PROOF
  <1> DEFINE V == Event(X)
             close == <<Close("loc")>>
  <1>1. PICK e : e = entries[i]
    OBVIOUS
  <1> DEFINE end == <<Close(e.parent)>>
             els == Append(<<>>, "set")
  <1>2. e.parent \in X /\ e.image \in BOOLEAN /\ e.pieces \in Seq(Piece)
    BY <1>1 DEF MapEntry
  <1>3. close \in Seq(V) /\ end \in Seq(V)
    <2>1. Close("loc") \in V /\ Close(e.parent) \in V
      BY DEF Close, Event
    <2> HIDE DEF V
    <2> QED
      BY <2>1
  <1>4. <<>> \in Seq(X)
    OBVIOUS
  <1> HIDE DEF V
  <1>5. PICK st : st = Loop(SitemapStart, u)
    OBVIOUS
  <1>6. PICK ents : ents = st.entries
    OBVIOUS
  <1>7. Body(e) \in Seq(V) /\ RenderEntry(e) = (Body(e) \o close) \o end
    BY <1>2, <1>4, EntryRead DEF V
  <1>8. EntryDoes(e, els, ents)
    BY <1>2, <1>4, EntryRead
  <1>9. PICK b : b = Body(e)
    OBVIOUS
  <1> HIDE DEF close, end, els
  <1>10. b \in Seq(V) /\ u \in Seq(V)
    BY <1>7, <1>9 DEF V
  <1>11. b \o close \in Seq(V)
    BY <1>3, <1>10, ConcatProperties
  <1>12. PICK bc : bc = b \o close
    OBVIOUS
  <1>13. bc \in Seq(V)
    BY <1>11, <1>12
  <1>14. bc \o end \in Seq(V)
    BY <1>3, <1>13, ConcatProperties
  <1>15. PICK r : r = bc \o end
    OBVIOUS
  <1>16. r \in Seq(V) /\ r = RenderEntry(e)
    BY <1>7, <1>9, <1>12, <1>14, <1>15
  <1>17. /\ Loop(SitemapStart, u \o b) = Loop(st, b)
         /\ Loop(SitemapStart, u \o bc) = Loop(st, bc)
         /\ Loop(SitemapStart, u \o r) = Loop(st, r)
    <2>1. Loop(SitemapStart, u \o b) = Loop(Loop(SitemapStart, u), b)
      BY <1>10, LoopJoins
    <2>2. Loop(SitemapStart, u \o bc) = Loop(Loop(SitemapStart, u), bc)
      BY <1>10, <1>13, LoopJoins
    <2>3. Loop(SitemapStart, u \o r) = Loop(Loop(SitemapStart, u), r)
      BY <1>10, <1>16, LoopJoins
    <2> QED
      BY <1>5, <2>1, <2>2, <2>3
  <1>18. Loop(st, r) = Loop(Loop(st, bc), end) /\ Loop(st, bc) = Loop(Loop(st, b), close)
    <2>1. Loop(st, bc \o end) = Loop(Loop(st, bc), end)
      BY <1>3, <1>13, LoopJoins
    <2>2. Loop(st, b \o close) = Loop(Loop(st, b), close)
      BY <1>3, <1>10, LoopJoins
    <2> QED
      BY <1>12, <1>15, <2>1, <2>2
  <1>19. /\ SoughtBad(entries, i) <=> SoughtBad(entries, i - 1) \/ (Sought(e) /\ HasBad(e.pieces))
         /\ EntrySet(entries, i) = EntrySet(entries, i - 1) \cup
                  (IF Sought(e) /\ MeantText(e.pieces) # <<>> THEN {Entry(e.parent, MeantText(e.pieces))} ELSE {})
    BY <1>1, OneMoreEntry
  <1>20. /\ SoughtBad(entries, i - 1) => st.failed
         /\ ~SoughtBad(entries, i - 1) =>
              st = St(els, NoLocation, ents, FALSE) /\ ents \in Seq(Found) /\ ToSet(ents) = EntrySet(entries, i - 1)
    BY <1>5, <1>6 DEF EntriesDone, els
  <1>21. CASE SoughtBad(entries, i - 1)
    <2>1. Loop(st, r) = st
      BY <1>16, <1>20, <1>21, LoopFails
    <2>2. Loop(SitemapStart, u \o r).failed
      BY <1>17, <1>20, <1>21, <2>1
    <2>3. EntriesDone(entries, i, u \o r)
      BY <1>19, <1>21, <2>2 DEF EntriesDone
    <2> QED
      BY <1>1, <1>7, <1>16, <1>19, <1>21, <2>3 DEF V, close, end
  <1>22. CASE ~SoughtBad(entries, i - 1) /\ Sought(e) /\ HasBad(e.pieces)
    <2>1. Loop(st, b).failed
      BY <1>8, <1>9, <1>20, <1>22 DEF EntryDoes, BodyDoes
    <2>2. Loop(st, bc) = Loop(st, b)
      BY <1>3, <1>18, <2>1, LoopFails
    <2>3. Loop(st, r) = Loop(st, b)
      <3>1. Loop(Loop(st, bc), end) = Loop(st, bc)
        BY <1>3, <2>1, <2>2, LoopFails
      <3> QED
        BY <1>18, <2>2, <3>1
    <2>4. EntriesDone(entries, i, u \o r)
      BY <1>17, <1>19, <1>22, <2>1, <2>3 DEF EntriesDone
    <2> QED
      BY <1>1, <1>7, <1>16, <1>19, <1>22, <2>4 DEF V, close, end
  <1>23. CASE ~SoughtBad(entries, i - 1) /\ ~(Sought(e) /\ HasBad(e.pieces))
    <2>1. st = St(els, NoLocation, ents, FALSE)
      BY <1>20, <1>23
    <2>2. /\ Loop(st, b).entries = ents
          /\ ~Loop(st, bc).failed /\ Loop(st, bc).entries = Added(e, ents)
          /\ Loop(st, r) = St(els, NoLocation, Added(e, ents), FALSE)
      <3>1. BodyDoes(e, st, ents)
        BY <1>8, <2>1 DEF EntryDoes
      <3>2. Loop(st, b).entries = ents
        BY <1>9, <1>23, <3>1 DEF BodyDoes
      <3>3. LET after == Loop(st, Body(e) \o <<Close("loc")>>)
            IN  /\ ~after.failed /\ after.entries = Added(e, ents)
                /\ Loop(after, <<Close(e.parent)>>) = St(els, NoLocation, Added(e, ents), FALSE)
        BY <1>8, <1>23, <2>1 DEF EntryDoes
      <3>4. /\ ~Loop(st, bc).failed /\ Loop(st, bc).entries = Added(e, ents)
            /\ Loop(Loop(st, bc), end) = St(els, NoLocation, Added(e, ents), FALSE)
        BY <1>9, <1>12, <3>3 DEF close, end
      <3> QED
        BY <1>18, <3>2, <3>4
    <2>3. PICK more : more = Added(e, ents)
      OBVIOUS
    <2>4. Loop(st, r).entries = more
      BY <2>2, <2>3 DEF St
    <2>5. more \in Seq(Found) /\ ToSet(more) = EntrySet(entries, i)
      <3>1. CASE Sought(e) /\ MeantText(e.pieces) # <<>>
        <4>1. PICK en : en = Entry(e.parent, MeantText(e.pieces))
          OBVIOUS
        <4>2. en \in Found
          <5>1. MeantText(e.pieces) \in Seq(Token)
            BY <1>2, MeantTextTypes
          <5> QED
            BY <4>1, <5>1 DEF Entry, Found
        <4>3. more = Append(ents, en)
          BY <2>3, <3>1, <4>1 DEF Added
        <4>4. ents \in Seq(Found)
          BY <1>20, <1>23
        <4>5. Append(ents, en) \in Seq(Found) /\ ToSet(Append(ents, en)) = ToSet(ents) \cup {en}
          BY <4>2, <4>4, Appending
        <4> QED
          BY <1>19, <1>20, <1>23, <3>1, <4>1, <4>3, <4>5
      <3>2. CASE ~(Sought(e) /\ MeantText(e.pieces) # <<>>)
        <4>1. more = ents
          BY <2>3, <3>2 DEF Added
        <4> QED
          BY <1>19, <1>20, <1>23, <3>2, <4>1
      <3> QED
        BY <3>1, <3>2
    <2>6. ~SoughtBad(entries, i)
      BY <1>19, <1>23
    <2>7. PICK ur : ur = u \o r
      OBVIOUS
    <2>8. PICK new : new = Loop(SitemapStart, ur)
      OBVIOUS
    <2>9. new = St(els, NoLocation, new.entries, FALSE) /\ new.entries = more
      BY <1>17, <2>2, <2>3, <2>4, <2>7, <2>8
    <2>10. EntriesDone(entries, i, ur)
      BY <2>5, <2>6, <2>8, <2>9 DEF EntriesDone, els
    <2>11. AddsAtEnd(e, u)
      <3>1. Loop(SitemapStart, u \o b).entries = Loop(SitemapStart, u).entries
        BY <1>5, <1>6, <1>17, <2>2
      <3>2. Loop(SitemapStart, u \o bc).entries = Loop(SitemapStart, u \o r).entries
        BY <1>17, <2>2, <2>3, <2>4
      <3> QED
        BY <1>9, <1>12, <1>16, <3>1, <3>2 DEF AddsAtEnd, close
    <2> QED
      BY <1>1, <1>7, <1>16, <2>7, <2>10, <2>11 DEF V, close, end
  <1> QED
    BY <1>21, <1>22, <1>23

\* A sitemap as the start of its set, its entries and the end of the set.
EntryEvents(entries) == [i \in 1..Len(entries) |-> RenderEntry(entries[i])]

SetStart == <<Start("set")>>

SetEnd == <<Close("set")>>

LEMMA WholeIs ==
    ASSUME NEW X, NEW entries \in Seq(X)
    PROVE  Whole(entries) = (SetStart \o FlattenSeq(EntryEvents(entries))) \o SetEnd
PROOF
  <1>1. DOMAIN entries = 1..Len(entries)
    BY AsFunctions
  <1>2. EntryEvents(entries) = [i \in DOMAIN entries |-> RenderEntry(entries[i])]
    BY <1>1 DEF EntryEvents
  <1> QED
    BY <1>2 DEF Whole, Around, SetStart, SetEnd

\* The events of a sitemap up to each entry, and what the loop makes of them.
ReadInOrder(entries, f, V) ==
    /\ Joined(f, V, EntryEvents(entries), Len(entries))
    /\ FlattenSeq(EntryEvents(entries)) = f[Len(entries)]
    /\ Whole(entries) = (SetStart \o f[Len(entries)]) \o SetEnd
    /\ \A i \in 0..Len(entries) : /\ SetStart \o f[i] \in Seq(V)
                                  /\ EntriesDone(entries, i, SetStart \o f[i])
    /\ \A i \in 1..Len(entries) :
          LET e == entries[i]
          IN  /\ RenderEntry(e) \in Seq(V) /\ Body(e) \in Seq(V)
              /\ RenderEntry(e) = (Body(e) \o <<Close("loc")>>) \o <<Close(e.parent)>>
              /\ ~SoughtBad(entries, i) => AddsAtEnd(e, SetStart \o f[i - 1])

LEMMA StartOfSet ==
    ASSUME NEW X, "set" \in X, NEW entries
    PROVE  /\ SetStart \in Seq(Event(X)) /\ SetEnd \in Seq(Event(X))
           /\ EntriesDone(entries, 0, SetStart)
PROOF
  <1>1. SetStart \in Seq(Event(X)) /\ SetEnd \in Seq(Event(X))
    <2>1. Start("set") \in Event(X) /\ Close("set") \in Event(X)
      BY DEF Event, Start, Close
    <2> QED
      BY <2>1 DEF SetStart, SetEnd
  <1>2. Loop(SitemapStart, SetStart) = OnEvent(SitemapStart, Start("set"))
    BY LoopOne DEF SetStart
  <1>3. OnEvent(SitemapStart, Start("set")) = St(Append(<<>>, "set"), NoLocation, <<>>, FALSE)
    <2>1. /\ SitemapStart.failed = FALSE /\ SitemapStart.elements = <<>> /\ SitemapStart.location = NoLocation
          /\ SitemapStart.entries = <<>>
          /\ Start("set").kind = "start" /\ Start("set").name = "set"
      BY DEF SitemapStart, Start
    <2>2. OnEvent(SitemapStart, Start("set")) = OnStart(SitemapStart, "set")
      BY <2>1 DEF OnEvent
    <2>3. OnStart(SitemapStart, "set")
            = [SitemapStart EXCEPT !.location = NoLocation, !.elements = Append(<<>>, "set")]
      BY <2>1 DEF OnStart
    <2> QED
      BY <2>2, <2>3 DEF SitemapStart, St
  <1>4. ToSet(<<>>) = {} /\ EntrySet(entries, 0) = {} /\ ~SoughtBad(entries, 0)
    BY DEF ToSet, EntrySet, Telling, SoughtBad
  <1>5. PICK st : st = Loop(SitemapStart, SetStart)
    OBVIOUS
  <1>6. st = St(Append(<<>>, "set"), NoLocation, st.entries, FALSE) /\ st.entries = <<>>
    BY <1>2, <1>3, <1>5 DEF St
  <1>7. <<>> \in Seq(Found)
    OBVIOUS
  <1> QED
    BY <1>1, <1>4, <1>5, <1>6, <1>7 DEF EntriesDone

\* By induction, all entries are read as meant.
LEMMA EntriesRead ==
    ASSUME NEW X, {"set", "loc", "b", "image"} \subseteq X, "image" \in Token,
           NEW entries \in Seq(MapEntry(X))
    PROVE  \E f : ReadInOrder(entries, f, Event(X))
PROOF
  <1> DEFINE V == Event(X)
             n == Len(entries)
             parts == EntryEvents(entries)
  <1>1. n \in Nat /\ \A i \in 1..n : entries[i] \in MapEntry(X)
    BY AsFunctions
  <1>2. \A i \in 1..n : RenderEntry(entries[i]) \in Seq(V)
    <2> SUFFICES ASSUME NEW i \in 1..n PROVE RenderEntry(entries[i]) \in Seq(V)
      OBVIOUS
    <2>1. PICK e : e = entries[i]
      OBVIOUS
    <2>2. e.parent \in X /\ e.image \in BOOLEAN /\ e.pieces \in Seq(Piece)
      BY <1>1, <2>1 DEF MapEntry
    <2>3. <<>> \in Seq(X)
      OBVIOUS
    <2>4. Body(e) \in Seq(V) /\ RenderEntry(e) = (Body(e) \o <<Close("loc")>>) \o <<Close(e.parent)>>
      BY <2>2, <2>3, EntryRead
    <2>5. <<Close("loc")>> \in Seq(V) /\ <<Close(e.parent)>> \in Seq(V)
      <3>1. Close("loc") \in V /\ Close(e.parent) \in V
        BY DEF Event, Close
      <3> HIDE DEF V
      <3> QED
        BY <3>1
    <2>6. PICK b, c, d : b = Body(e) /\ c = <<Close("loc")>> /\ d = <<Close(e.parent)>>
      OBVIOUS
    <2>7. b \in Seq(V) /\ c \in Seq(V) /\ d \in Seq(V)
      BY <2>4, <2>5, <2>6
    <2> HIDE DEF V
    <2>8. b \o c \in Seq(V)
      BY <2>7, ConcatProperties
    <2>9. PICK bc : bc = b \o c
      OBVIOUS
    <2>10. bc \o d \in Seq(V)
      BY <2>7, <2>8, <2>9, ConcatProperties
    <2> QED
      BY <2>1, <2>4, <2>6, <2>9, <2>10
  <1>3. parts \in [1..n -> Seq(V)]
    BY <1>2 DEF EntryEvents
  <1> HIDE DEF V, parts
  <1>4. PICK f : Joined(f, V, parts, n) /\ FlattenSeq(parts) = f[n]
    <2> HIDE DEF n
    <2> QED
      BY <1>1, <1>3, Flattening
  <1> HIDE DEF n
  <1>5. /\ \A i \in 0..n : f[i] \in Seq(V)
        /\ f[0] = <<>>
        /\ \A i \in 1..n : f[i] = f[i - 1] \o RenderEntry(entries[i])
    <2>1. /\ \A i \in 0..n : f[i] \in Seq(V)
          /\ f[0] = <<>>
          /\ \A i \in 1..n : f[i] = f[i - 1] \o parts[i]
      BY <1>4 DEF Joined
    <2>2. \A i \in 1..n : parts[i] = RenderEntry(entries[i])
      BY DEF parts, n, EntryEvents
    <2> QED
      BY <2>1, <2>2
  <1>6. SetStart \in Seq(V) /\ EntriesDone(entries, 0, SetStart)
    BY StartOfSet DEF V
  <1>7. \A i \in 0..n : SetStart \o f[i] \in Seq(V)
    <2> SUFFICES ASSUME NEW i \in 0..n PROVE SetStart \o f[i] \in Seq(V)
      OBVIOUS
    <2>1. PICK g : g = f[i]
      OBVIOUS
    <2>2. g \in Seq(V)
      BY <1>5, <2>1
    <2>3. SetStart \o g \in Seq(V)
      BY <1>6, <2>2, ConcatProperties
    <2> QED
      BY <2>1, <2>3
  <1> DEFINE EntryAt(i) ==
          LET e == entries[i]
          IN  /\ Body(e) \in Seq(V)
              /\ RenderEntry(e) = (Body(e) \o <<Close("loc")>>) \o <<Close(e.parent)>>
              /\ ~SoughtBad(entries, i) => AddsAtEnd(e, SetStart \o f[i - 1])
             S == {i \in 0..n : EntriesDone(entries, i, SetStart \o f[i])}
  <1>8. 0 \in S
    <2>1. PICK a : a = SetStart
      OBVIOUS
    <2>2. a \o <<>> = a
      BY <1>6, <2>1, ConcatEmptySeq
    <2>3. 0 \in 0..n
      BY <1>1
    <2>4. EntriesDone(entries, 0, SetStart \o f[0])
      BY <1>5, <1>6, <2>1, <2>2
    <2> QED
      BY <2>3, <2>4
  <1>9. ASSUME NEW i \in 1..n, i - 1 \in S PROVE i \in S /\ EntryAt(i)
    <2>1. PICK e, g : e = entries[i] /\ g = f[i - 1]
      OBVIOUS
    <2>2. PICK u, r : u = SetStart \o g /\ r = RenderEntry(e)
      OBVIOUS
    <2>3. i \in Nat \ {0} /\ i \in 0..n /\ i - 1 \in 0..n
      BY <1>1
    <2>4. e \in MapEntry(X) /\ g \in Seq(V) /\ u \in Seq(V) /\ r \in Seq(V) /\ f[i] = g \o r
      BY <1>1, <1>2, <1>5, <1>7, <2>1, <2>2, <2>3 DEF V, n
    <2>5. EntriesDone(entries, i - 1, u)
      BY <1>9, <2>1, <2>2
    <2>6. /\ EntriesDone(entries, i, u \o RenderEntry(e))
          /\ Body(e) \in Seq(V)
          /\ RenderEntry(e) = (Body(e) \o <<Close("loc")>>) \o <<Close(e.parent)>>
          /\ ~SoughtBad(entries, i) => AddsAtEnd(e, u)
      BY <2>1, <2>3, <2>4, <2>5, NextEntryRead DEF V
    <2>7. (SetStart \o g) \o r = SetStart \o (g \o r)
      <3>1. g \in Seq(V)
        BY <2>4
      <3>2. r \in Seq(V)
        BY <2>4
      <3>3. SetStart \in Seq(V)
        BY <1>6
      <3> QED
        BY <3>1, <3>2, <3>3, ConcatAssociative
    <2>8. u \o r = SetStart \o f[i]
      BY <2>2, <2>4, <2>7
    <2>9. EntriesDone(entries, i, SetStart \o f[i])
      BY <2>2, <2>6, <2>8
    <2>10. EntryAt(i)
      BY <2>1, <2>2, <2>6
    <2> QED
      BY <2>3, <2>9, <2>10
  <1>10. \A i \in 0..n : i \in S
    <2>1. \A i \in 1..n : i - 1 \in S => i \in S
      BY <1>9
    <2> HIDE DEF S
    <2> QED
      BY <1>1, <1>8, <2>1, Upwards
  <1>11. \A i \in 1..n : EntryAt(i)
    <2>1. \A i \in 1..n : i - 1 \in 0..n
      BY <1>1
    <2> HIDE DEF EntryAt, S
    <2> QED
      BY <1>9, <1>10, <2>1
  <1>12. ReadInOrder(entries, f, V)
    <2>1. \A i \in 1..n : RenderEntry(entries[i]) \in Seq(V)
      BY <1>2 DEF V, n
    <2>2. Whole(entries) = (SetStart \o FlattenSeq(EntryEvents(entries))) \o SetEnd
      BY WholeIs
    <2> QED
      BY <1>4, <1>7, <1>10, <1>11, <2>1, <2>2 DEF ReadInOrder, n, parts
  <1> QED
    BY <1>12 DEF V

\* The last of ascending numbers that is not above k.
LEMMA Floor ==
    ASSUME NEW n \in Nat, NEW q \in [0..n -> Nat], \A i \in 1..n : q[i - 1] <= q[i],
           NEW k \in Nat, q[0] <= k
    PROVE  \E m \in 0..n : /\ q[m] <= k
                           /\ m < n => k < q[m + 1]
                           /\ \A i \in 0..n : i <= m <=> q[i] <= k
PROOF
  <1>1. \A i, j \in 0..n : i <= j => q[i] <= q[j]
    <2> SUFFICES ASSUME NEW i \in 0..n, NEW j \in 0..n, i <= j PROVE q[i] <= q[j]
      OBVIOUS
    <2> DEFINE S == {d \in 0..(n - i) : q[i] <= q[i + d]}
    <2>1. 0 \in S
      <3>1. i + 0 = i /\ 0 \in 0..(n - i) /\ q[i] <= q[i]
        OBVIOUS
      <3> QED
        BY <3>1
    <2>2. ASSUME NEW d \in 1..(n - i), d - 1 \in S PROVE d \in S
      <3>1. i + d \in 1..n /\ i + (d - 1) = (i + d) - 1 /\ d \in 0..(n - i)
            /\ i + d \in 0..n /\ (i + d) - 1 \in 0..n
        OBVIOUS
      <3>2. PICK e : e = i + d
        OBVIOUS
      <3>3. q[e - 1] <= q[e] /\ q[i] <= q[e - 1] /\ q[e] \in Nat /\ q[e - 1] \in Nat /\ q[i] \in Nat
        BY <2>2, <3>1, <3>2
      <3>4. q[i] <= q[e]
        BY <3>3
      <3> QED
        BY <3>1, <3>2, <3>4
    <2>3. n - i \in Nat /\ j - i \in 0..(n - i) /\ i + (j - i) = j
      OBVIOUS
    <2> HIDE DEF S
    <2>4. j - i \in S
      BY <2>1, <2>2, <2>3, Upwards
    <2> QED
      BY <2>3, <2>4 DEF S
  <1> DEFINE over == {i \in 0..n : k < q[i]}
  <1>2. CASE over = {}
    <2>1. \A i \in 0..n : q[i] <= k
      <3> SUFFICES ASSUME NEW i \in 0..n PROVE q[i] <= k
        OBVIOUS
      <3>1. i \notin over /\ q[i] \in Nat
        BY <1>2
      <3> QED
        BY <3>1
    <2> WITNESS n \in 0..n
    <2> QED
      BY <2>1
  <1>3. CASE over # {}
    <2>1. PICK o \in over : \A i \in over : o <= i
      <3>1. over \subseteq Nat
        OBVIOUS
      <3> HIDE DEF over
      <3> QED
        BY <1>3, <3>1, LeastNumber
    <2>2. o \in 1..n /\ k < q[o] /\ o - 1 \in 0..n /\ (o - 1) + 1 = o /\ ~(o <= o - 1)
      <3>1. o # 0
        <4>1. q[0] \in Nat /\ ~(k < q[0])
          OBVIOUS
        <4> QED
          BY <4>1
      <3> QED
        BY <3>1
    <2>3. PICK m : m = o - 1
      OBVIOUS
    <2>4. m \in 0..n /\ m + 1 = o /\ m < n
      BY <2>2, <2>3
    <2>5. \A i \in 0..n : i <= m => q[i] <= k
      <3> SUFFICES ASSUME NEW i \in 0..n, i <= m PROVE q[i] <= k
        OBVIOUS
      <3>1. i \notin over /\ q[i] \in Nat
        BY <2>1, <2>4
      <3> QED
        BY <3>1
    <2>6. \A i \in 0..n : q[i] <= k => i <= m
      <3> SUFFICES ASSUME NEW i \in 0..n, q[i] <= k, ~(i <= m) PROVE FALSE
        OBVIOUS
      <3>1. o <= i /\ o \in 0..n
        BY <2>2, <2>4
      <3>2. q[o] <= q[i] /\ q[o] \in Nat /\ q[i] \in Nat
        BY <1>1, <3>1
      <3> QED
        BY <2>2, <3>2
    <2>7. q[m] <= k /\ (m < n => k < q[m + 1])
      BY <2>2, <2>4, <2>5
    <2> HIDE DEF over
    <2> QED
      BY <2>4, <2>5, <2>6, <2>7
  <1> QED
    BY <1>2, <1>3

\* The entries found in some events.
EntriesAfter(u) == Loop(SitemapStart, u).entries

\* A sitemap as a whole, and one that ends with a wrong tag.
LEMMA WholeRead ==
    ASSUME NEW X, "set" \in X, NEW entries, NEW f, ReadInOrder(entries, f, Event(X)), Len(entries) \in Nat
    PROVE  LET all == SetStart \o f[Len(entries)]
           IN  /\ Whole(entries) = all \o SetEnd /\ all \o SetEnd \in Seq(Event(X))
               /\ Loop(SitemapStart, Whole(entries)).failed <=> SoughtBad(entries, Len(entries))
               /\ ~SoughtBad(entries, Len(entries)) => EntriesAfter(Whole(entries)) = EntriesAfter(all)
               /\ Loop(SitemapStart, Front(Whole(entries)) \o <<[kind |-> "bad"]>>).failed
PROOF
  <1> DEFINE V == Event(X)
             n == Len(entries)
             all == SetStart \o f[n]
             bad == <<[kind |-> "bad"]>>
             Fine == /\ Loop(SitemapStart, Whole(entries)).failed <=> SoughtBad(entries, n)
                     /\ ~SoughtBad(entries, n) => EntriesAfter(Whole(entries)) = EntriesAfter(all)
  <1>1. SetStart \in Seq(V) /\ SetEnd \in Seq(V)
    BY StartOfSet
  <1>2. bad \in Seq(V)
    <2>1. [kind |-> "bad"] \in V
      BY DEF Event
    <2> HIDE DEF V
    <2> QED
      BY <2>1
  <1>3. all \in Seq(V) /\ EntriesDone(entries, n, all) /\ Whole(entries) = all \o SetEnd
    <2>1. n \in 0..n
      OBVIOUS
    <2> QED
      BY <2>1 DEF ReadInOrder
  <1> HIDE DEF V, all, bad, n
  <1>4. all \o SetEnd \in Seq(V) /\ Len(all \o SetEnd) = Len(all) + 1 /\ Len(all) \in Nat
    <2>1. Len(SetEnd) = 1
      BY DEF SetEnd
    <2>2. PICK a, c : a = all /\ c = SetEnd
      OBVIOUS
    <2>3. a \in Seq(V) /\ c \in Seq(V)
      BY <1>1, <1>3, <2>2
    <2>4. a \o c \in Seq(V) /\ Len(a \o c) = Len(a) + Len(c) /\ Len(a) \in Nat
      BY <2>3, Joining, LenProperties
    <2> QED
      BY <2>1, <2>2, <2>4
  <1>5. PICK st : st = Loop(SitemapStart, all)
    OBVIOUS
  <1>6. Loop(SitemapStart, Whole(entries)) = Loop(st, SetEnd)
    <2>1. Loop(SitemapStart, all \o SetEnd) = Loop(Loop(SitemapStart, all), SetEnd)
      BY <1>1, <1>3, LoopJoins
    <2> QED
      BY <1>3, <1>5, <2>1
  <1>7. ASSUME SoughtBad(entries, n) PROVE Fine
    <2>1. st.failed
      BY <1>3, <1>5, <1>7 DEF EntriesDone
    <2>2. Loop(st, SetEnd) = st /\ Loop(st, bad) = st
      BY <1>1, <1>2, <2>1, LoopFails
    <2> QED
      BY <1>6, <1>7, <2>1, <2>2
  <1>8. ASSUME ~SoughtBad(entries, n) PROVE Fine
    <2>1. PICK ents : ents = st.entries
      OBVIOUS
    <2>2. st = St(Append(<<>>, "set"), NoLocation, ents, FALSE)
      BY <1>3, <1>5, <1>8, <2>1 DEF EntriesDone
    <2>3. Handles(<<>>, "set", NoLocation, ents)
      <3>1. <<>> \in Seq(X)
        OBVIOUS
      <3> QED
        BY <3>1, Handlers
    <2>4. OnEvent(st, Close("set")) = St(<<>>, NoLocation, ents, FALSE)
      BY <2>2, <2>3 DEF Handles
    <2>5. Loop(st, SetEnd) = St(<<>>, NoLocation, ents, FALSE)
      BY <2>4, LoopOne DEF SetEnd
    <2>6. PICK last : last = Loop(SitemapStart, Whole(entries))
      OBVIOUS
    <2>7. last = St(<<>>, NoLocation, ents, FALSE)
      BY <1>6, <2>5, <2>6
    <2>8. last.failed = FALSE /\ last.entries = ents
      BY <2>7 DEF St
    <2> QED
      BY <1>5, <1>8, <2>1, <2>6, <2>8 DEF EntriesAfter
  <1>9. Loop(SitemapStart, Front(Whole(entries)) \o bad).failed
    <2>1. Front(Whole(entries)) = all
      <3>1. Same(SubSeq(all \o SetEnd, 1, Len(all)), all)
        BY <1>1, <1>3, Beginning
      <3>2. PICK w : w = all \o SetEnd
        OBVIOUS
      <3>3. Len(w) - 1 = Len(all)
        BY <1>4, <3>2
      <3>4. Front(w) = SubSeq(w, 1, Len(all))
        BY <3>3 DEF Front
      <3>5. SubSeq(w, 1, Len(all)) = all
        BY <3>1, <3>2 DEF Same
      <3>6. w = Whole(entries)
        BY <1>3, <3>2
      <3> QED
        BY <3>4, <3>5, <3>6
    <2>2. Loop(SitemapStart, all \o bad) = Loop(st, bad)
      <3>1. Loop(SitemapStart, all \o bad) = Loop(Loop(SitemapStart, all), bad)
        BY <1>2, <1>3, LoopJoins
      <3> QED
        BY <1>5, <3>1
    <2>3. Loop(st, bad).failed
      <3>1. Loop(st, bad) = OnEvent(st, [kind |-> "bad"])
        BY LoopOne DEF bad
      <3>2. CASE SoughtBad(entries, n)
        <4>1. st.failed
          BY <1>3, <1>5, <3>2 DEF EntriesDone
        <4>2. OnEvent(st, [kind |-> "bad"]) = st
          BY <4>1 DEF OnEvent
        <4> QED
          BY <3>1, <4>1, <4>2
      <3>3. CASE ~SoughtBad(entries, n)
        <4>1. PICK ents : st = St(Append(<<>>, "set"), NoLocation, ents, FALSE)
          BY <1>3, <1>5, <3>3 DEF EntriesDone
        <4>2. st.failed = FALSE
          BY <4>1 DEF St
        <4>3. OnEvent(st, [kind |-> "bad"]) = [st EXCEPT !.failed = TRUE]
          BY <4>2 DEF OnEvent
        <4>4. [st EXCEPT !.failed = TRUE].failed
          BY <4>1 DEF St
        <4> QED
          BY <3>1, <4>3, <4>4
      <3> QED
        BY <3>2, <3>3
    <2> QED
      BY <2>1, <2>2, <2>3
  <1> QED
    BY <1>3, <1>4, <1>7, <1>8, <1>9 DEF all, n, V, bad

LEMMA Cuts ==
    ASSUME NEW V, NEW u \in Seq(V), NEW b \in Seq(V), NEW c \in Seq(V), NEW d \in Seq(V), NEW w \in Seq(V)
    PROVE  /\ u \o b \in Seq(V) /\ c \o (d \o w) \in Seq(V)
           /\ u \o (b \o c) \in Seq(V) /\ d \o w \in Seq(V)
           /\ Same((u \o ((b \o c) \o d)) \o w, (u \o b) \o (c \o (d \o w)))
           /\ Same((u \o ((b \o c) \o d)) \o w, (u \o (b \o c)) \o (d \o w))
           /\ Len(u \o b) = Len(u) + Len(b)
           /\ Len(u \o (b \o c)) = (Len(u) + Len(b)) + Len(c)
           /\ Len(u \o ((b \o c) \o d)) = ((Len(u) + Len(b)) + Len(c)) + Len(d)
PROOF
  <1>1. u \o b \in Seq(V) /\ b \o c \in Seq(V) /\ d \o w \in Seq(V)
        /\ Len(u \o b) = Len(u) + Len(b) /\ Len(b \o c) = Len(b) + Len(c)
    BY Joining
  <1>2. PICK ub, bc, dw : ub = u \o b /\ bc = b \o c /\ dw = d \o w
    OBVIOUS
  <1>3. ub \in Seq(V) /\ bc \in Seq(V) /\ dw \in Seq(V)
    BY <1>1, <1>2
  <1>4. c \o dw \in Seq(V) /\ u \o bc \in Seq(V) /\ bc \o d \in Seq(V)
        /\ Len(u \o bc) = Len(u) + Len(bc) /\ Len(bc \o d) = Len(bc) + Len(d)
    <2>1. bc \in Seq(V) /\ dw \in Seq(V)
      BY <1>3
    <2>2. c \o dw \in Seq(V)
      BY <2>1, Joining
    <2>3. u \o bc \in Seq(V) /\ Len(u \o bc) = Len(u) + Len(bc)
      BY <2>1, Joining
    <2>4. bc \o d \in Seq(V) /\ Len(bc \o d) = Len(bc) + Len(d)
      BY <2>1, Joining
    <2> QED
      BY <2>2, <2>3, <2>4
  <1>5. PICK cdw, ubc, bcd : cdw = c \o dw /\ ubc = u \o bc /\ bcd = bc \o d
    OBVIOUS
  <1>6. cdw \in Seq(V) /\ ubc \in Seq(V) /\ bcd \in Seq(V)
    BY <1>4, <1>5
  <1>7. Len(u \o bcd) = Len(u) + Len(bcd)
    BY <1>6, Joining
  <1>8. u \o bcd = ubc \o d
    <2>1. bc \in Seq(V)
      BY <1>3
    <2>2. Same((u \o bc) \o d, u \o (bc \o d))
      BY <2>1, Associative
    <2> QED
      BY <1>5, <2>2 DEF Same
  <1>9. (ubc \o d) \o w = ubc \o dw
    <2>1. ubc \in Seq(V)
      BY <1>6
    <2>2. Same((ubc \o d) \o w, ubc \o (d \o w))
      BY <2>1, Associative
    <2> QED
      BY <1>2, <2>2 DEF Same
  <1>10. ubc = ub \o c
    <2>1. Same((u \o b) \o c, u \o (b \o c))
      BY Associative
    <2> QED
      BY <1>2, <1>5, <2>1 DEF Same
  <1>11. (ub \o c) \o dw = ub \o cdw
    <2>1. ub \in Seq(V)
      BY <1>3
    <2>2. dw \in Seq(V)
      BY <1>3
    <2>3. Same((ub \o c) \o dw, ub \o (c \o dw))
      BY <2>1, <2>2, Associative
    <2> QED
      BY <1>5, <2>3 DEF Same
  <1>12. Len(u) \in Nat /\ Len(b) \in Nat /\ Len(c) \in Nat /\ Len(d) \in Nat
    BY LenProperties
  <1>13. Same((u \o ((b \o c) \o d)) \o w, (u \o (b \o c)) \o (d \o w))
    BY <1>2, <1>5, <1>8, <1>9 DEF Same
  <1>14. Same((u \o ((b \o c) \o d)) \o w, (u \o b) \o (c \o (d \o w)))
    BY <1>2, <1>5, <1>8, <1>9, <1>10, <1>11 DEF Same
  <1>15. Len(u \o (b \o c)) = (Len(u) + Len(b)) + Len(c)
    <2>1. Len(ubc) = Len(u) + (Len(b) + Len(c))
      BY <1>1, <1>2, <1>4, <1>5
    <2> QED
      BY <1>2, <1>5, <1>12, <2>1
  <1>16. Len(u \o ((b \o c) \o d)) = ((Len(u) + Len(b)) + Len(c)) + Len(d)
    <2>1. Len(bcd) = (Len(b) + Len(c)) + Len(d)
      BY <1>1, <1>2, <1>4, <1>5
    <2>2. Len(u \o bcd) = Len(u) + ((Len(b) + Len(c)) + Len(d))
      BY <1>7, <2>1
    <2> QED
      BY <1>2, <1>5, <1>12, <2>2
  <1> QED
    BY <1>1, <1>2, <1>4, <1>13, <1>14, <1>15, <1>16

\* All of a sitemap from an entry on.
LEMMA WholeRest ==
    ASSUME NEW X, "set" \in X, NEW entries, NEW f, ReadInOrder(entries, f, Event(X)), Len(entries) \in Nat,
           \A j \in 1..Len(entries) : RenderEntry(entries[j]) \in Seq(Event(X)),
           NEW i \in 0..Len(entries)
    PROVE  /\ SetStart \o f[i] \in Seq(Event(X)) /\ f[i] \in Seq(Event(X))
           /\ Len(SetStart \o f[i]) = 1 + Len(f[i])
           /\ \E w \in Seq(Event(X)) : Same(Whole(entries), (SetStart \o f[i]) \o w)
PROOF
  <1> DEFINE V == Event(X)
             n == Len(entries)
             parts == EntryEvents(entries)
  <1>1. parts \in [1..n -> Seq(V)]
    BY DEF EntryEvents
  <1>2. Joined(f, V, parts, n) /\ Whole(entries) = (SetStart \o f[n]) \o SetEnd
    BY DEF ReadInOrder
  <1>3. \A j \in 0..n : f[j] \in Seq(V)
    BY <1>2 DEF Joined
  <1>4. SetStart \in Seq(V) /\ SetEnd \in Seq(V) /\ Len(SetStart) = 1
    BY StartOfSet DEF SetStart
  <1> HIDE DEF V, n, parts
  <1>0. n \in Nat /\ i \in 0..n
    BY DEF n
  <1>5. PICK rest \in Seq(V) : f[n] = f[i] \o rest
    <2>1. PICK r \in Seq(V) : Same(f[n], f[i] \o r)
      BY <1>0, <1>1, <1>2, JoinedRest
    <2> QED
      BY <2>1 DEF Same
  <1>6. PICK a, c, g : a = SetStart /\ c = SetEnd /\ g = f[i]
    OBVIOUS
  <1>7. a \in Seq(V) /\ c \in Seq(V) /\ g \in Seq(V)
    BY <1>3, <1>4, <1>6 DEF n
  <1>8. a \o g \in Seq(V) /\ rest \o c \in Seq(V) /\ Len(a \o g) = Len(a) + Len(g)
    <2>1. a \in Seq(V) /\ c \in Seq(V) /\ g \in Seq(V)
      BY <1>7
    <2>2. a \o g \in Seq(V) /\ Len(a \o g) = Len(a) + Len(g)
      BY <2>1, Joining
    <2>3. rest \o c \in Seq(V)
      BY <2>1, Joining
    <2> QED
      BY <2>2, <2>3
  <1>9. PICK ag, w : ag = a \o g /\ w = rest \o c
    OBVIOUS
  <1>10. a \o (g \o rest) = ag \o rest
    <2>1. a \in Seq(V)
      BY <1>7
    <2>2. g \in Seq(V)
      BY <1>7
    <2>3. Same((a \o g) \o rest, a \o (g \o rest))
      BY <2>1, <2>2, Associative
    <2> QED
      BY <1>9, <2>3 DEF Same
  <1>11. (ag \o rest) \o c = ag \o w
    <2>1. ag \in Seq(V)
      BY <1>8, <1>9
    <2>2. c \in Seq(V)
      BY <1>7
    <2>3. Same((ag \o rest) \o c, ag \o (rest \o c))
      BY <2>1, <2>2, Associative
    <2> QED
      BY <1>9, <2>3 DEF Same
  <1>12. Whole(entries) = ag \o w
    BY <1>2, <1>5, <1>6, <1>10, <1>11
  <1>13. Same(Whole(entries), (SetStart \o f[i]) \o w)
    BY <1>6, <1>9, <1>12 DEF Same
  <1>14. w \in Seq(V)
    BY <1>8, <1>9
  <1>15. Len(SetStart \o f[i]) = 1 + Len(f[i])
    BY <1>4, <1>6, <1>8
  <1> QED
    BY <1>6, <1>7, <1>8, <1>13, <1>14, <1>15 DEF V

\* The places in a sitemap where the i-th entry begins, is read and is over.
EntryPlaces(t, entries, f, i) ==
    LET n == Len(entries)
        after(j) == EntriesAfter(SetStart \o f[j])
    IN  /\ Len(f[i]) - 1 \in 0..Len(Whole(entries)) /\ Len(f[i]) \in 0..Len(Whole(entries))
        /\ Len(f[i - 1]) <= Len(f[i]) - 1
        /\ t[Len(f[i]) - 1].entries = after(i - 1)
        /\ t[Len(f[i])].entries = after(i)

LEMMA PlacesInSitemap ==
    ASSUME NEW X, "set" \in X, NEW entries, NEW f, ReadInOrder(entries, f, Event(X)), Len(entries) \in Nat,
           Whole(entries) \in Seq(Event(X)), ~SoughtBad(entries, Len(entries)), NEW i \in 1..Len(entries)
    PROVE  EntryPlaces(Table(SitemapStart, Whole(entries)), entries, f, i)
PROOF
  <1> DEFINE V == Event(X)
             n == Len(entries)
             t == Table(SitemapStart, Whole(entries))
  <1>1. /\ \A j \in 1..n : RenderEntry(entries[j]) \in Seq(V)
        /\ i - 1 \in 0..n /\ i \in 0..n
    <2>1. \A j \in 1..n : RenderEntry(entries[j]) \in Seq(V)
      BY DEF ReadInOrder
    <2>2. i - 1 \in 0..n /\ i \in 0..n
      OBVIOUS
    <2> QED
      BY <2>1, <2>2
  <1>2. ~SoughtBad(entries, i)
    <2>1. \A j \in 1..i : j \in 1..n
      OBVIOUS
    <2> QED
      BY <2>1 DEF SoughtBad
  <1>3. PICK e, b, c, d, g, u, w :
          /\ e = entries[i] /\ b = Body(e) /\ c = <<Close("loc")>> /\ d = <<Close(e.parent)>> /\ g = f[i - 1]
          /\ u = SetStart \o g
    OBVIOUS
  <1>4. /\ RenderEntry(e) = (b \o c) \o d /\ b \in Seq(V) /\ AddsAtEnd(e, u)
        /\ f[i] = g \o RenderEntry(e)
    <2>1. /\ Body(e) \in Seq(V)
          /\ RenderEntry(e) = (Body(e) \o <<Close("loc")>>) \o <<Close(e.parent)>>
          /\ ~SoughtBad(entries, i) => AddsAtEnd(e, SetStart \o f[i - 1])
      BY <1>3 DEF ReadInOrder
    <2>2. f[i] = f[i - 1] \o EntryEvents(entries)[i] /\ EntryEvents(entries)[i] = RenderEntry(e)
      BY <1>3 DEF ReadInOrder, Joined, EntryEvents
    <2> QED
      BY <1>2, <1>3, <2>1, <2>2
  <1>5. c \in Seq(V) /\ d \in Seq(V) /\ Len(c) = 1 /\ Len(d) = 1
    <2>1. Close("loc") \in V /\ Close(e.parent) \in V
      BY DEF Event, Close
    <2> HIDE DEF V
    <2> QED
      BY <1>3, <2>1
  <1> HIDE DEF V, n, t
  <1>6. u \in Seq(V) /\ g \in Seq(V) /\ Len(u) = 1 + Len(g)
    BY <1>1, <1>3, WholeRest DEF V, n
  <1>7. PICK more \in Seq(V) : Same(Whole(entries), (SetStart \o f[i]) \o more)
    BY <1>1, WholeRest DEF V, n
  <1>8. SetStart \o f[i] = u \o ((b \o c) \o d)
    <2>1. PICK r : r = (b \o c) \o d
      OBVIOUS
    <2>2. r \in Seq(V)
      BY <1>1, <1>3, <1>4, <2>1 DEF n
    <2>3. SetStart \in Seq(V)
      BY StartOfSet DEF V
    <2>4. g \in Seq(V)
      BY <1>6
    <2>5. Same((SetStart \o g) \o r, SetStart \o (g \o r))
      BY <2>2, <2>3, <2>4, Associative
    <2> QED
      BY <1>3, <1>4, <2>1, <2>5 DEF Same
  <1>9. PICK whole : whole = Whole(entries)
    OBVIOUS
  <1>10. whole = (u \o ((b \o c) \o d)) \o more /\ whole \in Seq(V)
    BY <1>7, <1>8, <1>9 DEF Same, V
  <1>11. b \in Seq(V) /\ c \in Seq(V) /\ d \in Seq(V) /\ u \in Seq(V)
    BY <1>4, <1>5, <1>6
  <1>12. /\ u \o b \in Seq(V) /\ c \o (d \o more) \in Seq(V)
         /\ u \o (b \o c) \in Seq(V) /\ d \o more \in Seq(V)
         /\ Len(u \o b) = Len(u) + Len(b)
         /\ Len(u \o (b \o c)) = (Len(u) + Len(b)) + Len(c)
         /\ Len(u \o ((b \o c) \o d)) = ((Len(u) + Len(b)) + Len(c)) + Len(d)
    BY <1>11, Cuts
  <1>13. Same((u \o ((b \o c) \o d)) \o more, (u \o b) \o (c \o (d \o more)))
    BY <1>11, Cuts
  <1>14. Same((u \o ((b \o c) \o d)) \o more, (u \o (b \o c)) \o (d \o more))
    BY <1>11, Cuts
  <1>15. PICK p, q, x, y : p = u \o b /\ q = u \o (b \o c) /\ x = c \o (d \o more) /\ y = d \o more
    OBVIOUS
  <1>16. p \in Seq(V) /\ q \in Seq(V) /\ x \in Seq(V) /\ y \in Seq(V)
    BY <1>12, <1>15
  <1>17. whole = p \o x /\ whole = q \o y
    BY <1>10, <1>13, <1>14, <1>15 DEF Same
  <1>18. Len(p) \in 0..Len(whole) /\ Table(SitemapStart, whole)[Len(p)] = Loop(SitemapStart, p)
    <2>1. whole \in Seq(V)
      BY <1>10
    <2>2. p \in Seq(V)
      BY <1>16
    <2>3. x \in Seq(V)
      BY <1>16
    <2>4. Same(whole, p \o x)
      BY <1>17 DEF Same
    <2> QED
      BY <2>1, <2>2, <2>3, <2>4, TableAt
  <1>19. Len(q) \in 0..Len(whole) /\ Table(SitemapStart, whole)[Len(q)] = Loop(SitemapStart, q)
    <2>1. whole \in Seq(V)
      BY <1>10
    <2>2. q \in Seq(V)
      BY <1>16
    <2>3. y \in Seq(V)
      BY <1>16
    <2>4. Same(whole, q \o y)
      BY <1>17 DEF Same
    <2> QED
      BY <2>1, <2>2, <2>3, <2>4, TableAt
  <1>20. Len(f[i]) = ((Len(g) + Len(b)) + Len(c)) + Len(d)
    <2>1. Len(SetStart \o f[i]) = 1 + Len(f[i]) /\ f[i] \in Seq(V)
      BY <1>1, WholeRest DEF V, n
    <2>2. Len(f[i]) \in Nat /\ Len(g) \in Nat /\ Len(b) \in Nat
      BY <1>6, <1>11, <2>1, LenProperties
    <2>3. Len(SetStart \o f[i]) = ((Len(u) + Len(b)) + Len(c)) + Len(d)
      BY <1>8, <1>12
    <2>4. 1 + Len(f[i]) = ((1 + Len(g) + Len(b)) + Len(c)) + Len(d)
      BY <1>6, <2>1, <2>3
    <2> QED
      BY <1>5, <2>2, <2>4, SMTT(30)
  <1>21. Len(p) = Len(f[i]) - 1 /\ Len(q) = Len(f[i]) /\ Len(g) <= Len(f[i]) - 1
    <2>1. Len(g) \in Nat /\ Len(b) \in Nat
      BY <1>6, <1>11, LenProperties
    <2> QED
      BY <1>5, <1>6, <1>12, <1>15, <1>20, <2>1
  <1>22. EntriesAfter(p) = EntriesAfter(u) /\ EntriesAfter(q) = EntriesAfter(SetStart \o f[i])
    <2>1. Loop(SitemapStart, u \o Body(e)).entries = Loop(SitemapStart, u).entries
      BY <1>4 DEF AddsAtEnd
    <2>2. Loop(SitemapStart, u \o (Body(e) \o <<Close("loc")>>)).entries
            = Loop(SitemapStart, u \o RenderEntry(e)).entries
      BY <1>4 DEF AddsAtEnd
    <2>3. u \o RenderEntry(e) = SetStart \o f[i]
      BY <1>4, <1>8
    <2> QED
      BY <1>3, <1>15, <2>1, <2>2, <2>3 DEF EntriesAfter
  <1>23. t[Len(f[i]) - 1].entries = EntriesAfter(u) /\ t[Len(f[i])].entries = EntriesAfter(SetStart \o f[i])
    BY <1>9, <1>18, <1>19, <1>21, <1>22 DEF t, EntriesAfter
  <1> QED
    BY <1>3, <1>9, <1>18, <1>19, <1>21, <1>23 DEF EntryPlaces, t

\* A sitemap that is cut off tells the entries whose loc is complete.
LEMMA CutRead ==
    ASSUME NEW X, "set" \in X, NEW entries, NEW f, ReadInOrder(entries, f, Event(X)), Len(entries) \in Nat,
           ~SoughtBad(entries, Len(entries)), NEW k \in 0..Len(Whole(entries))
    PROVE  LET cut == SubSeq(Whole(entries), 1, k)
               n == Len(entries)
           IN  /\ ~Loop(SitemapStart, cut).failed
               /\ \E m \in 0..n : /\ \A i \in 1..n : i <= m <=> Len(f[i]) <= k
                                  /\ EntriesAfter(cut) = EntriesAfter(SetStart \o f[m])
PROOF
  <1> DEFINE V == Event(X)
             n == Len(entries)
             whole == Whole(entries)
             t == Table(SitemapStart, whole)
             cut == SubSeq(whole, 1, k)
             after(j) == EntriesAfter(SetStart \o f[j])
             q == [i \in 0..n |-> Len(f[i])]
             Result == /\ ~Loop(SitemapStart, cut).failed
                       /\ \E m \in 0..n : /\ \A i \in 1..n : i <= m <=> Len(f[i]) <= k
                                          /\ EntriesAfter(cut) = after(m)
  <1> SUFFICES Result
    OBVIOUS
  <1>1. /\ whole \in Seq(V) /\ Len(whole) \in Nat
        /\ ~Loop(SitemapStart, whole).failed
        /\ EntriesAfter(whole) = after(n)
    <2>1. LET all == SetStart \o f[Len(entries)]
          IN  /\ Whole(entries) = all \o SetEnd /\ all \o SetEnd \in Seq(V)
              /\ Loop(SitemapStart, Whole(entries)).failed <=> SoughtBad(entries, Len(entries))
              /\ ~SoughtBad(entries, Len(entries)) => EntriesAfter(Whole(entries)) = EntriesAfter(all)
      BY WholeRead
    <2>2. whole \in Seq(V)
      BY <2>1
    <2> QED
      BY <2>1, <2>2, LenProperties
  <1>2. \A i \in 1..n : RenderEntry(entries[i]) \in Seq(V)
    BY DEF ReadInOrder
  <1>3. \A i \in 1..n : EntryPlaces(t, entries, f, i)
    BY <1>1, PlacesInSitemap
  <1>4. \A i \in 0..n : Len(f[i]) \in Nat
    <2> SUFFICES ASSUME NEW i \in 0..n PROVE Len(f[i]) \in Nat
      OBVIOUS
    <2>1. f[i] \in Seq(V)
      BY <1>2, WholeRest
    <2> QED
      BY <2>1, LenProperties
  <1>5. f[0] = <<>> /\ Len(f[0]) = 0
    BY DEF ReadInOrder, Joined
  <1>6. Tells(t, SitemapStart, whole) /\ t[Len(whole)] = Loop(SitemapStart, whole)
        /\ t[k] = Loop(SitemapStart, cut)
    <2>1. Tells(t, SitemapStart, whole) /\ t[Len(whole)] = Loop(SitemapStart, whole)
      BY <1>1, LoopUnfolds
    <2>2. t[k] = Loop(SitemapStart, cut)
      BY <1>1, LoopPrefix
    <2> QED
      BY <2>1, <2>2
  <1> HIDE DEF V, n, whole, cut, after, t
  <1>7. Ascends(t, Len(whole)) /\ Between(t, Len(whole))
    BY <1>1, <1>6, TableGrows DEF V
  <1>8. ~t[k].failed
    <2>1. k \in 0..Len(whole) /\ Len(whole) \in k..Len(whole)
      BY <1>1 DEF whole
    <2> QED
      BY <1>1, <1>6, <1>7, <2>1 DEF Ascends
  <1>9. t[0].entries = after(0)
    <2>1. t[0] = SitemapStart
      BY <1>6 DEF Tells
    <2>2. PICK a : a = SetStart
      OBVIOUS
    <2>3. a \in Seq(V)
      BY <2>2, StartOfSet DEF V
    <2>4. a \o <<>> = a
      BY <2>3, ConcatEmptySeq
    <2>5. after(0) = Loop(SitemapStart, SetStart).entries
      BY <1>5, <2>2, <2>4 DEF after, EntriesAfter
    <2>6. Loop(SitemapStart, SetStart).entries = <<>>
      <3>1. Loop(SitemapStart, SetStart) = OnEvent(SitemapStart, Start("set"))
        BY LoopOne DEF SetStart
      <3>2. SitemapStart.failed = FALSE /\ Start("set").kind = "start"
        BY DEF SitemapStart, Start
      <3>3. OnEvent(SitemapStart, Start("set")) = OnStart(SitemapStart, Start("set").name)
        BY <3>2 DEF OnEvent
      <3>4. OnStart(SitemapStart, Start("set").name).entries = <<>>
        BY DEF OnStart, SitemapStart
      <3> QED
        BY <3>1, <3>3, <3>4
    <2> QED
      BY <2>1, <2>5, <2>6 DEF SitemapStart
  <1>10. /\ q \in [0..n -> Nat] /\ q[0] = 0 /\ n \in Nat /\ k \in Nat
         /\ \A i \in 1..n : q[i - 1] <= q[i]
    <2>1. n \in Nat /\ k \in Nat /\ 0 \in 0..n
      BY <1>1 DEF n
    <2>2. ASSUME NEW i \in 1..n PROVE q[i - 1] <= q[i]
      <3>1. i \in 0..n /\ i - 1 \in 0..n
        BY <2>1
      <3>2. Len(f[i - 1]) <= Len(f[i]) - 1
        BY <1>3 DEF EntryPlaces
      <3>3. Len(f[i - 1]) \in Nat /\ Len(f[i]) \in Nat
        BY <1>4, <3>1
      <3> QED
        BY <3>1, <3>2, <3>3
    <2> QED
      BY <1>4, <1>5, <2>1, <2>2
  <1>11. PICK m \in 0..n : /\ q[m] <= k
                           /\ m < n => k < q[m + 1]
                           /\ \A i \in 0..n : i <= m <=> q[i] <= k
    <2> HIDE DEF q
    <2>1. q[0] <= k
      BY <1>10
    <2> QED
      BY <1>10, <2>1, Floor
  <1>12. \A i \in 0..n : q[i] = Len(f[i])
    OBVIOUS
  <1> HIDE DEF q
  <1>13. t[q[m]].entries = after(m) /\ q[m] \in 0..Len(whole)
    <2>1. CASE m = 0
      BY <1>1, <1>9, <1>10, <2>1
    <2>2. CASE m # 0
      <3>1. m \in 1..n
        BY <1>10, <2>2
      <3>2. EntryPlaces(t, entries, f, m)
        BY <1>3, <3>1
      <3> QED
        BY <1>12, <3>2 DEF EntryPlaces, after, whole
    <2> QED
      BY <2>1, <2>2
  <1>14. t[k].entries = after(m)
    <2>1. CASE m < n
      <3>1. m + 1 \in 1..n /\ (m + 1) - 1 = m /\ m + 1 \in 0..n
        BY <1>10, <2>1
      <3>2. PICK o : o = m + 1
        OBVIOUS
      <3>3. EntryPlaces(t, entries, f, o) /\ o - 1 = m
        BY <1>3, <3>1, <3>2
      <3>4. t[q[o] - 1].entries = after(m) /\ q[o] - 1 \in 0..Len(whole)
        BY <1>12, <3>1, <3>2, <3>3 DEF EntryPlaces, after, whole
      <3>5. q[o] \in Nat /\ q[m] \in Nat /\ k < q[o] /\ q[m] <= k
        BY <1>10, <1>11, <2>1, <3>1, <3>2
      <3>6. k \in q[m]..(q[o] - 1)
        BY <1>10, <3>5
      <3>7. t[q[m]].entries = t[q[o] - 1].entries
        BY <1>13, <3>4
      <3>8. t[k].entries = t[q[m]].entries
        <4>1. PICK x, y : x = q[m] /\ y = q[o] - 1
          OBVIOUS
        <4>2. x \in 0..Len(whole) /\ y \in 0..Len(whole) /\ t[x].entries = t[y].entries /\ k \in x..y
          BY <1>13, <3>4, <3>6, <3>7, <4>1
        <4>3. t[k].entries = t[x].entries
          BY <1>7, <4>2 DEF Between
        <4> QED
          BY <4>1, <4>3
      <3> QED
        BY <1>13, <3>8
    <2>2. CASE ~(m < n)
      <3>1. m = n
        BY <1>10, <2>2
      <3>2. PICK x, y : x = q[m] /\ y = Len(whole)
        OBVIOUS
      <3>3. t[y].entries = after(m)
        BY <1>1, <1>6, <3>1, <3>2 DEF EntriesAfter
      <3>4. x \in 0..Len(whole) /\ y \in 0..Len(whole) /\ t[x].entries = t[y].entries
        BY <1>1, <1>13, <3>2, <3>3
      <3>5. k \in x..y
        <4>1. k \in 0..y
          BY <3>2 DEF whole
        <4>2. x <= k /\ x \in Nat
          BY <1>10, <1>11, <3>2
        <4> QED
          BY <1>1, <1>10, <4>1, <4>2
      <3>6. t[k].entries = t[x].entries
        BY <1>7, <3>4, <3>5 DEF Between
      <3> QED
        BY <1>13, <3>2, <3>6
    <2> QED
      BY <2>1, <2>2
  <1>15. \A i \in 1..n : i <= m <=> Len(f[i]) <= k
    BY <1>11, <1>12
  <1> QED
    BY <1>6, <1>8, <1>14, <1>15 DEF EntriesAfter, after

\* The items of some elements, and those of the entries found.
ItemsOf(elements) == UNION {ToSet(elements[i]) : i \in DOMAIN elements}

TellItem(parent, text) == Item(text, IF parent = "sitemap" THEN "sitemap" ELSE Untyped)

TellItems(ents) ==
    [i \in DOMAIN ents |-> <<Item(ents[i].url, IF ents[i].kind = "sitemap" THEN "sitemap" ELSE Untyped)>>]

\* One item for each entry.
LEMMA EntryItems ==
    ASSUME NEW ents \in Seq(Found), NEW entries, NEW m, ToSet(ents) = EntrySet(entries, m)
    PROVE  ItemsOf(TellItems(ents))
             = {TellItem(entries[j].parent, MeantText(entries[j].pieces)) : j \in Telling(entries, m)}
PROOF
  <1> DEFINE told(en) == Item(en.url, IF en.kind = "sitemap" THEN "sitemap" ELSE Untyped)
             n == Len(ents)
             meant(j) == Entry(entries[j].parent, MeantText(entries[j].pieces))
             T == Telling(entries, m)
  <1>1. n \in Nat /\ DOMAIN ents = 1..n
    BY AsFunctions
  <1>2. ToSet(ents) = {ents[i] : i \in 1..n} /\ EntrySet(entries, m) = {meant(j) : j \in T}
    BY <1>1 DEF ToSet, EntrySet
  <1>3. ItemsOf(TellItems(ents)) = {told(ents[i]) : i \in 1..n}
    <2>1. DOMAIN TellItems(ents) = 1..n /\ \A i \in 1..n : TellItems(ents)[i] = <<told(ents[i])>>
      BY <1>1 DEF TellItems
    <2>2. \A i \in 1..n : ToSet(TellItems(ents)[i]) = {told(ents[i])}
      <3> SUFFICES ASSUME NEW i \in 1..n PROVE ToSet(TellItems(ents)[i]) = {told(ents[i])}
        OBVIOUS
      <3>1. PICK x : x = told(ents[i])
        OBVIOUS
      <3>2. TellItems(ents)[i] = <<x>>
        BY <2>1, <3>1
      <3>3. ToSet(<<x>>) = {x}
        BY DEF ToSet
      <3> QED
        BY <3>1, <3>2, <3>3
    <2> HIDE DEF told, n
    <2>3. ItemsOf(TellItems(ents)) = UNION {ToSet(TellItems(ents)[i]) : i \in 1..n}
      BY <2>1 DEF ItemsOf
    <2>4. UNION {ToSet(TellItems(ents)[i]) : i \in 1..n} = {told(ents[i]) : i \in 1..n}
      BY <2>2
    <2> QED
      BY <2>3, <2>4
  <1>4. \A j \in T : told(meant(j)) = TellItem(entries[j].parent, MeantText(entries[j].pieces))
    <2> SUFFICES ASSUME NEW j \in T
                 PROVE  told(meant(j)) = TellItem(entries[j].parent, MeantText(entries[j].pieces))
      OBVIOUS
    <2>1. PICK parent, text : parent = entries[j].parent /\ text = MeantText(entries[j].pieces)
      OBVIOUS
    <2>2. /\ Entry(parent, text).url = text
          /\ Entry(parent, text).kind = "sitemap" <=> parent = "sitemap"
      BY DEF Entry
    <2>3. told(Entry(parent, text)) = TellItem(parent, text)
      BY <2>2 DEF TellItem
    <2> QED
      BY <2>1, <2>3
  <1>5. {told(ents[i]) : i \in 1..n} = {told(en) : en \in ToSet(ents)}
    <2> HIDE DEF told
    <2> QED
      BY <1>2
  <1>6. {told(en) : en \in EntrySet(entries, m)} = {told(meant(j)) : j \in T}
    <2> HIDE DEF told, meant, T
    <2> QED
      BY <1>2
  <1>7. {told(meant(j)) : j \in T}
          = {TellItem(entries[j].parent, MeantText(entries[j].pieces)) : j \in T}
    <2> HIDE DEF told, meant, T
    <2> QED
      BY <1>4
  <1> HIDE DEF told, meant, n
  <1> QED
    BY <1>3, <1>5, <1>6, <1>7

LEMMA SitemapAsWhole ==
    ASSUME NEW s, LegalSitemap(s)
    PROVE  /\ Len(s.entries) \in Nat /\ DOMAIN s.entries = 1..Len(s.entries)
           /\ RenderSitemap(s) = CASE s.end = "whole"     -> Whole(s.entries)
                                   [] s.end = "mismatch"  -> Front(Whole(s.entries)) \o <<[kind |-> "bad"]>>
                                   [] s.end = "truncated" -> SubSeq(Whole(s.entries), 1, s.length)
PROOF
  <1>1. Len(s.entries) \in Nat /\ DOMAIN s.entries = 1..Len(s.entries)
    BY AsFunctions DEF LegalSitemap
  <1>2. Whole(s.entries) = Around("set", FlattenSeq([i \in DOMAIN s.entries |-> RenderEntry(s.entries[i])]))
    BY DEF Whole
  <1> QED
    BY <1>1, <1>2 DEF RenderSitemap

\* The entries that are meant are those whose events are there.
LEMMA MeantEntriesAre ==
    ASSUME NEW s, LegalSitemap(s), NEW V, NEW f, ReadInOrder(s.entries, f, V)
    PROVE  MeantEntries(s) = {i \in 1..Len(s.entries) :
              Sought(s.entries[i]) /\ (s.end = "truncated" => Len(f[i]) <= s.length)}
PROOF
  <1> DEFINE n == Len(s.entries)
             before(i) == FlattenSeq([j \in 1..i |-> RenderEntry(s.entries[j])])
  <1>1. n \in Nat /\ DOMAIN s.entries = 1..n
    BY SitemapAsWhole
  <1>2. \A i \in 1..n : before(i) = f[i]
    <2> SUFFICES ASSUME NEW i \in 1..n PROVE before(i) = f[i]
      OBVIOUS
    <2>1. PICK parts : parts = EntryEvents(s.entries)
      OBVIOUS
    <2>2. parts \in [1..n -> Seq(V)] /\ \A j \in 1..n : parts[j] = RenderEntry(s.entries[j])
      BY <2>1 DEF ReadInOrder, EntryEvents
    <2>3. Joined(f, V, parts, n)
      BY <2>1 DEF ReadInOrder
    <2>4. i \in 0..n
      BY <1>1
    <2>5. FlattenSeq([j \in 1..i |-> parts[j]]) = f[i]
      <3> HIDE DEF n
      <3> QED
        BY <1>1, <2>2, <2>3, <2>4, FlattenedPrefix
    <2>6. [j \in 1..i |-> parts[j]] = [j \in 1..i |-> RenderEntry(s.entries[j])]
      <3>1. \A j \in 1..i : j \in 1..n
        BY <1>1
      <3> QED
        BY <2>2, <3>1
    <2> QED
      BY <2>5, <2>6
  <1>3. MeantEntries(s) = {i \in 1..n : Sought(s.entries[i]) /\ (s.end = "truncated" => Len(before(i)) <= s.length)}
    <2>1. MeantEntries(s) = {i \in DOMAIN s.entries :
            /\ s.entries[i].parent \in {"url", "sitemap"}
            /\ s.end = "truncated" => Len(before(i)) <= s.length}
      BY DEF MeantEntries
    <2> HIDE DEF before, n
    <2> QED
      BY <1>1, <2>1 DEF Sought
  <1> HIDE DEF before
  <1> QED
    BY <1>2, <1>3

\* Of a sitemap, whole or broken, the items are those that its author meant.
LEMMA SitemapMeant ==
    ASSUME "image" \in Token, NEW s, LegalSitemap(s)
    PROVE  ItemsOf(Sitemap(RenderSitemap(s))) = MeantSitemap(s)
PROOF
  <1> DEFINE X == {"set", "loc", "b", "image"} \cup {s.entries[i].parent : i \in DOMAIN s.entries}
             n == Len(s.entries)
             final == Loop(SitemapStart, RenderSitemap(s))
             chosen == {s.entries[i] : i \in MeantEntries(s)}
  <1>1. s.entries \in Seq(MapEntry(X)) /\ n \in Nat /\ DOMAIN s.entries = 1..n
    <2>1. n \in Nat /\ DOMAIN s.entries = 1..n
      BY SitemapAsWhole
    <2>2. \A i \in 1..n : s.entries[i] \in MapEntry(X)
      <3>1. \A i \in 1..n : s.entries[i] \in MapEntry({s.entries[j].parent : j \in DOMAIN s.entries})
        BY <2>1, AsFunctions DEF LegalSitemap
      <3> QED
        BY <3>1 DEF MapEntry
    <2>3. PICK es : es = s.entries
      OBVIOUS
    <2>4. es = [i \in 1..n |-> es[i]] /\ \A i \in 1..n : es[i] \in MapEntry(X)
      <3>1. es = [i \in 1..Len(es) |-> es[i]]
        BY <2>3, AsFunctions DEF LegalSitemap
      <3> QED
        BY <2>2, <2>3, <3>1
    <2> HIDE DEF X, n
    <2>5. es \in Seq(MapEntry(X))
      BY <2>1, <2>4, IsASeq
    <2> QED
      BY <2>1, <2>3, <2>5
  <1>2. {"set", "loc", "b", "image"} \subseteq X /\ "set" \in X
    OBVIOUS
  <1> HIDE DEF X
  <1>3. PICK es : es = s.entries
    OBVIOUS
  <1>4. PICK f : ReadInOrder(es, f, Event(X))
    <2>1. es \in Seq(MapEntry(X))
      BY <1>1, <1>3
    <2> QED
      BY <1>2, <2>1, EntriesRead
  <1>5. MeantEntries(s) = {i \in 1..n : Sought(es[i]) /\ (s.end = "truncated" => Len(f[i]) <= s.length)}
    BY <1>3, <1>4, MeantEntriesAre
  <1>6. MeantSitemap(s) =
          IF s.end = "mismatch" \/ \E e \in chosen : HasBad(e.pieces) THEN {ErrorItem}
          ELSE {TellItem(e.parent, MeantText(e.pieces)) : e \in {d \in chosen : MeantText(d.pieces) # <<>>}}
    BY DEF MeantSitemap, HasBad, TellItem
  <1>7. Sitemap(RenderSitemap(s)) = IF final.failed THEN <<<<ErrorItem>>>> ELSE TellItems(final.entries)
    BY DEF Sitemap, TellItems
  <1>8. ItemsOf(<<<<ErrorItem>>>>) = {ErrorItem}
    <2>1. PICK x, y : x = ErrorItem /\ y = <<x>>
      OBVIOUS
    <2>2. ToSet(y) = {x}
      BY <2>1 DEF ToSet
    <2>3. DOMAIN <<y>> = {1} /\ <<y>>[1] = y
      OBVIOUS
    <2>4. ItemsOf(<<y>>) = {x}
      BY <2>2, <2>3 DEF ItemsOf
    <2> QED
      BY <2>1, <2>4
  <1>9. /\ s.end = "whole" => RenderSitemap(s) = Whole(es)
        /\ s.end = "mismatch" => RenderSitemap(s) = Front(Whole(es)) \o <<[kind |-> "bad"]>>
        /\ s.end = "truncated" => RenderSitemap(s) = SubSeq(Whole(es), 1, s.length)
        /\ s.end \in {"whole", "mismatch", "truncated"}
    BY <1>3, SitemapAsWhole DEF LegalSitemap
  <1>10. Len(es) \in Nat /\ n = Len(es)
    BY <1>1, <1>3
  <1>11. \A i \in 0..n : EntriesDone(es, i, SetStart \o f[i])
    BY <1>4, <1>10 DEF ReadInOrder
  <1> HIDE DEF n, chosen
  <1>12. ASSUME NEW m \in 0..n, ~SoughtBad(es, m), MeantEntries(s) = {i \in 1..m : Sought(es[i])},
                s.end # "mismatch", final.failed = FALSE, final.entries = EntriesAfter(SetStart \o f[m])
         PROVE  ItemsOf(Sitemap(RenderSitemap(s))) = MeantSitemap(s)
    <2>1. PICK ents : ents = final.entries
      OBVIOUS
    <2>2. ents \in Seq(Found) /\ ToSet(ents) = EntrySet(es, m)
      BY <1>11, <1>12, <2>1 DEF EntriesDone, EntriesAfter
    <2>3. ItemsOf(TellItems(ents)) = {TellItem(es[j].parent, MeantText(es[j].pieces)) : j \in Telling(es, m)}
      BY <2>2, EntryItems
    <2>4. Sitemap(RenderSitemap(s)) = TellItems(ents)
      BY <1>7, <1>12, <2>1
    <2>5. chosen = {es[i] : i \in {j \in 1..m : Sought(es[j])}}
      BY <1>3, <1>12 DEF chosen
    <2>6. ~ \E e \in chosen : HasBad(e.pieces)
      BY <1>12, <2>5 DEF SoughtBad
    <2>7. {TellItem(e.parent, MeantText(e.pieces)) : e \in {d \in chosen : MeantText(d.pieces) # <<>>}}
            = {TellItem(es[j].parent, MeantText(es[j].pieces)) : j \in Telling(es, m)}
      <3> DEFINE item(e) == TellItem(e.parent, MeantText(e.pieces))
                 tells(e) == MeantText(e.pieces) # <<>>
      <3>1. Telling(es, m) = {j \in 1..m : Sought(es[j]) /\ tells(es[j])}
        BY DEF Telling
      <3>2. {item(e) : e \in {d \in chosen : tells(d)}} = {item(es[j]) : j \in Telling(es, m)}
        <4> HIDE DEF item, tells
        <4> QED
          BY <2>5, <3>1
      <3> QED
        BY <3>2
    <2> QED
      BY <1>6, <1>12, <2>3, <2>4, <2>6, <2>7
  <1>13. CASE s.end = "mismatch"
    <2>1. final.failed
      <3>1. Loop(SitemapStart, Front(Whole(es)) \o <<[kind |-> "bad"]>>).failed
        BY <1>2, <1>4, <1>10, WholeRead
      <3> QED
        BY <1>9, <1>13, <3>1
    <2> QED
      BY <1>6, <1>7, <1>8, <1>13, <2>1
  <1>14. CASE s.end = "whole"
    <2>1. /\ final.failed <=> SoughtBad(es, n)
          /\ ~SoughtBad(es, n) => final.entries = EntriesAfter(SetStart \o f[n])
      <3>1. /\ Loop(SitemapStart, Whole(es)).failed <=> SoughtBad(es, Len(es))
            /\ ~SoughtBad(es, Len(es)) => EntriesAfter(Whole(es)) = EntriesAfter(SetStart \o f[Len(es)])
        BY <1>2, <1>4, <1>10, WholeRead
      <3> QED
        BY <1>9, <1>10, <1>14, <3>1 DEF EntriesAfter
    <2>2. MeantEntries(s) = {i \in 1..n : Sought(es[i])}
      BY <1>5, <1>14
    <2>3. CASE SoughtBad(es, n)
      <3>1. \E e \in chosen : HasBad(e.pieces)
        BY <1>3, <2>2, <2>3 DEF chosen, SoughtBad
      <3> QED
        BY <1>6, <1>7, <1>8, <2>1, <2>3, <3>1
    <2>4. CASE ~SoughtBad(es, n)
      <3>1. n \in 0..n
        BY <1>10
      <3>2. final.failed = FALSE
        <4>1. PICK st : st = final
          OBVIOUS
        <4>2. st.failed \in BOOLEAN
          <5>1. PICK t, w : w = Whole(es) /\ t = Table(SitemapStart, w)
            OBVIOUS
          <5>2. w \in Seq(Event(X))
            BY <1>2, <1>4, <1>10, <5>1, WholeRead
          <5>3. Len(w) \in Nat
            BY <5>2, LenProperties
          <5>4. Tells(t, SitemapStart, w) /\ t[Len(w)] = Loop(SitemapStart, w)
            BY <5>1, <5>3, LoopUnfolds
          <5>5. Sound(t[Len(w)])
            BY <5>2, <5>3, <5>4, TableGrows
          <5> QED
            BY <1>9, <1>14, <4>1, <5>1, <5>4, <5>5 DEF Sound
        <4> QED
          BY <2>1, <2>4, <4>1, <4>2
      <3> QED
        BY <1>12, <1>14, <2>1, <2>2, <2>4, <3>1, <3>2
    <2> QED
      BY <2>3, <2>4
  <1>15. CASE s.end = "truncated"
    <2>1. PICK k : k = s.length
      OBVIOUS
    <2>2. k \in 0..Len(Whole(es)) /\ \A i \in 1..n : ~HasBad(es[i].pieces)
      BY <1>1, <1>3, <1>15, <2>1 DEF LegalSitemap, n
    <2>3. ~SoughtBad(es, n)
      BY <2>2 DEF SoughtBad
    <2>4. ~Loop(SitemapStart, SubSeq(Whole(es), 1, k)).failed
      BY <1>2, <1>4, <1>10, <2>2, <2>3, CutRead
    <2>5. PICK m \in 0..n : /\ \A i \in 1..n : i <= m <=> Len(f[i]) <= k
                            /\ EntriesAfter(SubSeq(Whole(es), 1, k)) = EntriesAfter(SetStart \o f[m])
      BY <1>2, <1>4, <1>10, <2>2, <2>3, CutRead
    <2>6. final.entries = EntriesAfter(SetStart \o f[m]) /\ ~final.failed
      BY <1>9, <1>15, <2>1, <2>4, <2>5 DEF EntriesAfter
    <2>7. MeantEntries(s) = {i \in 1..m : Sought(es[i])}
      <3>1. \A i : i \in 1..m <=> i \in 1..n /\ i <= m
        BY <1>10
      <3> QED
        BY <1>5, <1>15, <2>1, <2>5, <3>1
    <2>8. ~SoughtBad(es, m)
      <3>1. \A i \in 1..m : i \in 1..n
        BY <1>10
      <3> QED
        BY <2>2, <3>1 DEF SoughtBad
    <2>9. final.failed = FALSE
      <3>1. PICK t, w : w = Whole(es) /\ t = Table(SitemapStart, w)
        OBVIOUS
      <3>2. w \in Seq(Event(X))
        BY <1>2, <1>4, <1>10, <3>1, WholeRead
      <3>3. Tells(t, SitemapStart, w) /\ t[k] = Loop(SitemapStart, SubSeq(w, 1, k))
        <4>1. Len(w) \in Nat
          BY <3>2, LenProperties
        <4>2. Tells(t, SitemapStart, w)
          BY <3>1, <4>1, LoopUnfolds
        <4>3. k \in 0..Len(w)
          BY <2>2, <3>1
        <4>4. Loop(SitemapStart, SubSeq(w, 1, k)) = Table(SitemapStart, w)[k]
          BY <3>2, <4>3, LoopPrefix
        <4> QED
          BY <3>1, <4>2, <4>4
      <3>4. Sound(t[k])
        BY <2>2, <3>1, <3>2, <3>3, TableGrows
      <3>5. PICK st : st = final
        OBVIOUS
      <3>6. st.failed \in BOOLEAN
        BY <1>9, <1>15, <2>1, <3>1, <3>3, <3>4, <3>5 DEF Sound
      <3> QED
        BY <2>6, <3>5, <3>6
    <2> QED
      BY <1>12, <1>15, <2>6, <2>7, <2>8, <2>9
  <1> QED
    BY <1>9, <1>13, <1>14, <1>15

-----------------------------------------------------------------------------
\* A srcset, candidate by candidate.

\* A part of a sequence.
LEMMA Slice ==
    ASSUME NEW X, NEW s \in Seq(X), NEW i \in 1..(Len(s) + 1), NEW j \in (i - 1)..Len(s)
    PROVE  /\ SubSeq(s, i, j) \in Seq(X) /\ Len(SubSeq(s, i, j)) = (j - i) + 1
           /\ \A k \in 1..((j - i) + 1) : SubSeq(s, i, j)[k] = s[(i + k) - 1]
PROOF
  <1>1. Len(s) \in Nat /\ \A k \in 1..Len(s) : s[k] \in X
    BY AsFunctions
  <1>2. \A k \in i..j : s[k] \in X
    BY <1>1
  <1>3. i \in Int /\ j \in Int
    BY <1>1
  <1>4. /\ SubSeq(s, i, j) \in Seq(X)
        /\ Len(SubSeq(s, i, j)) = IF i <= j THEN j - i + 1 ELSE 0
        /\ \A k \in 1..(j - i + 1) : SubSeq(s, i, j)[k] = s[i + k - 1]
    BY <1>2, <1>3, SubSeqProperties
  <1>5. (IF i <= j THEN j - i + 1 ELSE 0) = (j - i) + 1
    BY <1>1
  <1> QED
    BY <1>4, <1>5

\* A part of what follows k.
LEMMA SliceOfRest ==
    ASSUME NEW X, NEW s \in Seq(X), NEW k \in 0..Len(s), NEW i \in (k + 1)..(Len(s) + 1), NEW j \in (i - 1)..Len(s)
    PROVE  Same(SubSeq(SubSeq(s, k + 1, Len(s)), i - k, j - k), SubSeq(s, i, j))
PROOF
  <1> DEFINE n == Len(s)
             rest == SubSeq(s, k + 1, n)
             a == i - k
             b == j - k
  <1>1. n \in Nat /\ k + 1 \in 1..(n + 1) /\ n \in k..n /\ i \in 1..(n + 1) /\ i \in Nat /\ j \in Nat
    BY AsFunctions
  <1>2. /\ rest \in Seq(X) /\ Len(rest) = n - k
        /\ \A p \in 1..(n - k) : rest[p] = s[k + p]
    <2>1. k + 1 \in 1..(Len(s) + 1) /\ n \in ((k + 1) - 1)..Len(s)
      BY <1>1
    <2>2. /\ rest \in Seq(X) /\ Len(rest) = (n - (k + 1)) + 1
          /\ \A p \in 1..((n - (k + 1)) + 1) : rest[p] = s[((k + 1) + p) - 1]
      <3> HIDE DEF n
      <3> QED
        BY <2>1, Slice
    <2>3. (n - (k + 1)) + 1 = n - k /\ \A p \in 1..(n - k) : ((k + 1) + p) - 1 = k + p
      BY <1>1
    <2> HIDE DEF rest, n
    <2> QED
      BY <2>2, <2>3
  <1> HIDE DEF rest
  <1>3. a \in 1..(Len(rest) + 1) /\ b \in (a - 1)..Len(rest)
    BY <1>1, <1>2
  <1>4. (b - a) + 1 = (j - i) + 1 /\ (j - i) + 1 \in Nat
    BY <1>1
  <1>5. /\ SubSeq(rest, a, b) \in Seq(X) /\ Len(SubSeq(rest, a, b)) = (b - a) + 1
        /\ \A p \in 1..((b - a) + 1) : SubSeq(rest, a, b)[p] = rest[(a + p) - 1]
    <2> HIDE DEF a, b
    <2> QED
      BY <1>2, <1>3, Slice
  <1>6. /\ SubSeq(s, i, j) \in Seq(X) /\ Len(SubSeq(s, i, j)) = (j - i) + 1
        /\ \A p \in 1..((j - i) + 1) : SubSeq(s, i, j)[p] = s[(i + p) - 1]
    BY <1>1, Slice
  <1>7. ASSUME NEW p \in 1..((j - i) + 1) PROVE SubSeq(rest, a, b)[p] = SubSeq(s, i, j)[p]
    <2>1. (a + p) - 1 \in 1..(n - k) /\ k + ((a + p) - 1) = (i + p) - 1
      BY <1>1
    <2>2. rest[(a + p) - 1] = s[k + ((a + p) - 1)]
      BY <1>2, <2>1
    <2> HIDE DEF a, b
    <2> QED
      BY <1>4, <1>5, <1>6, <2>1, <2>2
  <1> HIDE DEF a, b
  <1>8. PICK u, v : u = SubSeq(rest, a, b) /\ v = SubSeq(s, i, j)
    OBVIOUS
  <1>9. /\ u \in Seq(X) /\ v \in Seq(X) /\ Len(u) = Len(v) /\ Len(u) = (j - i) + 1
        /\ \A p \in 1..Len(u) : u[p] = v[p]
    BY <1>4, <1>5, <1>6, <1>7, <1>8
  <1>10. u = v
    BY <1>9, SeqEqual
  <1> QED
    BY <1>8, <1>10 DEF Same, rest, a, b

\* What is trimmed, and where a token is.
LEMMA TrimmedStart ==
    ASSUME NEW X, NEW s \in Seq(X), NEW set, NEW k \in 0..(Len(s) - 1),
           \A i \in 1..k : s[i] \in set, s[k + 1] \notin set
    PROVE  TrimStart(s, set) = SubSeq(s, k + 1, Len(s))
PROOF
  <1> DEFINE kept == {i \in DOMAIN s : s[i] \notin set}
             n == Len(s)
  <1>1. n \in Nat /\ DOMAIN s = 1..n
    BY AsFunctions
  <1>2. k + 1 \in kept /\ kept # {} /\ kept \in SUBSET (1..n)
    BY <1>1
  <1>3. \A i \in kept : k + 1 <= i
    BY <1>1
  <1>4. PICK e : e = Earliest(kept)
    OBVIOUS
  <1>5. e \in kept /\ e <= k + 1
    <2> HIDE DEF kept, n
    <2> QED
      BY <1>1, <1>2, <1>4, EarliestIs
  <1>6. e = k + 1
    BY <1>1, <1>3, <1>5
  <1> QED
    BY <1>2, <1>4, <1>6 DEF TrimStart

LEMMA TrimmedEnd ==
    ASSUME NEW X, NEW s \in Seq(X), NEW set, NEW k \in 1..Len(s),
           \A i \in (k + 1)..Len(s) : s[i] \in set, s[k] \notin set
    PROVE  TrimEnd(s, set) = SubSeq(s, 1, k)
PROOF
  <1> DEFINE kept == {i \in DOMAIN s : s[i] \notin set}
             n == Len(s)
  <1>1. n \in Nat /\ DOMAIN s = 1..n
    BY AsFunctions
  <1>2. k \in kept /\ kept # {} /\ kept \in SUBSET (1..n)
    BY <1>1
  <1>3. \A i \in kept : i <= k
    BY <1>1
  <1>4. PICK e : e = Latest(kept)
    OBVIOUS
  <1>5. e \in kept /\ k <= e
    <2> HIDE DEF kept, n
    <2> QED
      BY <1>1, <1>2, <1>4, LatestIs
  <1>6. e = k
    BY <1>1, <1>3, <1>5
  <1> QED
    BY <1>2, <1>4, <1>6 DEF TrimEnd

LEMMA FoundAt ==
    ASSUME NEW X, NEW s \in Seq(X), NEW token, NEW k \in 0..Len(s),
           \A i \in 1..k : s[i] # token, k < Len(s) => s[k + 1] = token
    PROVE  Until(s, token) = k
PROOF
  <1> DEFINE places == {i \in DOMAIN s : s[i] = token}
             n == Len(s)
  <1>1. n \in Nat /\ DOMAIN s = 1..n
    BY AsFunctions
  <1>2. CASE k = n
    <2>1. places = {}
      BY <1>1, <1>2
    <2> QED
      BY <1>2, <2>1 DEF Until
  <1>3. CASE k < n
    <2>1. k + 1 \in places /\ places # {} /\ places \in SUBSET (1..n)
      BY <1>1, <1>3
    <2>2. \A i \in places : k + 1 <= i
      BY <1>1
    <2>3. PICK e : e = Earliest(places)
      OBVIOUS
    <2>4. e \in places /\ e <= k + 1
      <3> HIDE DEF places, n
      <3> QED
        BY <1>1, <2>1, <2>3, EarliestIs
    <2>5. e = k + 1
      BY <1>1, <2>2, <2>4
    <2>6. e - 1 = k
      BY <2>5
    <2> QED
      BY <2>1, <2>3, <2>6 DEF Until
  <1>4. \A m \in Nat : \A j \in 0..m : j = m \/ j < m
    OBVIOUS
  <1>5. k = n \/ k < n
    <2> HIDE DEF places
    <2>1. k \in 0..n
      OBVIOUS
    <2> HIDE DEF n
    <2> QED
      BY <1>1, <1>4, <2>1
  <1> QED
    BY <1>2, <1>3, <1>5

\* How long things are.
LEMMA TrimBounds ==
    ASSUME NEW X, NEW s \in Seq(X), NEW set
    PROVE  /\ Len(TrimStart(s, set)) \in 0..Len(s)
           /\ Len(TrimEnd(s, set)) \in 0..Len(s)
PROOF
  <1> DEFINE kept == {i \in DOMAIN s : s[i] \notin set}
             n == Len(s)
  <1>1. n \in Nat /\ kept \in SUBSET (1..n) /\ Len(<<>>) = 0
    BY AsFunctions
  <1>2. CASE kept = {}
    BY <1>1, <1>2 DEF TrimStart, TrimEnd
  <1>3. CASE kept # {}
    <2>1. PICK i, j : i = Earliest(kept) /\ j = Latest(kept)
      OBVIOUS
    <2>2. i \in 1..n /\ j \in 1..n
      <3> HIDE DEF kept, n
      <3> QED
        BY <1>1, <1>3, <2>1, EarliestIs, LatestIs
    <2>3. Len(SubSeq(s, i, n)) = (n - i) + 1
      <3>1. i \in 1..(Len(s) + 1) /\ n \in (i - 1)..Len(s)
        BY <1>1, <2>2
      <3> HIDE DEF n
      <3> QED
        BY <3>1, Slice
    <2>4. Len(SubSeq(s, 1, j)) = (j - 1) + 1
      <3>1. 1 \in 1..(Len(s) + 1) /\ j \in (1 - 1)..Len(s)
        BY <1>1, <2>2
      <3> HIDE DEF n
      <3> QED
        BY <3>1, Slice
    <2>5. (n - i) + 1 \in 0..n /\ (j - 1) + 1 \in 0..n
      BY <1>1, <2>2
    <2>6. TrimStart(s, set) = SubSeq(s, i, n) /\ TrimEnd(s, set) = SubSeq(s, 1, j)
      BY <1>3, <2>1 DEF TrimStart, TrimEnd
    <2> QED
      BY <2>3, <2>4, <2>5, <2>6
  <1> QED
    BY <1>2, <1>3

LEMMA UntilBounds ==
    ASSUME NEW X, NEW s \in Seq(X), NEW token
    PROVE  Until(s, token) \in 0..Len(s)
PROOF
  <1> DEFINE places == {i \in DOMAIN s : s[i] = token}
             n == Len(s)
  <1>1. n \in Nat /\ places \in SUBSET (1..n)
    BY AsFunctions
  <1>2. CASE places = {}
    BY <1>1, <1>2 DEF Until
  <1>3. CASE places # {}
    <2>1. PICK e : e = Earliest(places)
      OBVIOUS
    <2>2. e \in 1..n
      <3> HIDE DEF places, n
      <3> QED
        BY <1>1, <1>3, <2>1, EarliestIs
    <2>3. e - 1 \in 0..n
      BY <1>1, <2>2
    <2> QED
      BY <1>3, <2>1, <2>3 DEF Until
  <1> QED
    BY <1>2, <1>3

\* The parts of ParseSrcset, of the last n tokens of s.
Ending(s, n) == SubSeq(s, Len(s) - n + 1, Len(s))

RestOf(s, n) == TrimStart(Ending(s, n), {Space, Comma})

FirstUrl(s, n) == TrimEnd(SubSeq(RestOf(s, n), 1, Until(RestOf(s, n), Space)), {Comma})

AfterUrl(s, n) == SubSeq(RestOf(s, n), Len(FirstUrl(s, n)) + 1, Len(RestOf(s, n)))

NextUrl(s, n) == Len(AfterUrl(s, n)) - Until(AfterUrl(s, n), Comma)

ParseSteps(f, s) ==
    f = [n \in 0..Len(s) |->
            IF FirstUrl(s, n) = <<>> THEN <<>> ELSE <<FirstUrl(s, n)>> \o f[NextUrl(s, n)]]

\* The parser goes on with less than it had.
LEMMA ParseTypes ==
    ASSUME NEW X, NEW s \in Seq(X), NEW n \in 0..Len(s)
    PROVE  /\ FirstUrl(s, n) \in Seq(X)
           /\ FirstUrl(s, n) # <<>> => NextUrl(s, n) \in 0..(n - 1)
PROOF
  <1>1. Len(s) \in Nat /\ n \in Nat
    BY AsFunctions
  <1>2. Ending(s, n) \in Seq(X) /\ Len(Ending(s, n)) = n
    <2>1. PICK a, b : a = Len(s) - n + 1 /\ b = Len(s)
      OBVIOUS
    <2>2. a \in 1..(Len(s) + 1) /\ b \in (a - 1)..Len(s) /\ (b - a) + 1 = n
      BY <1>1, <2>1
    <2>3. SubSeq(s, a, b) \in Seq(X) /\ Len(SubSeq(s, a, b)) = (b - a) + 1
      BY <2>2, Slice
    <2> QED
      BY <2>1, <2>2, <2>3 DEF Ending
  <1>3. PICK ending, rest : ending = Ending(s, n) /\ rest = RestOf(s, n)
    OBVIOUS
  <1>4. rest \in Seq(X) /\ Len(rest) \in 0..n
    <2>1. rest = TrimStart(ending, {Space, Comma})
      BY <1>3 DEF RestOf
    <2>2. rest \in Seq(X) /\ Len(rest) \in 0..Len(ending)
      BY <1>2, <1>3, <2>1, TrimTypes, TrimBounds
    <2> QED
      BY <1>2, <1>3, <2>2
  <1>5. PICK k : k = Until(rest, Space)
    OBVIOUS
  <1>6. k \in 0..Len(rest)
    BY <1>4, <1>5, UntilBounds
  <1>7. PICK part : part = SubSeq(rest, 1, k)
    OBVIOUS
  <1>8. part \in Seq(X) /\ Len(part) = k
    <2>1. 1 \in 1..(Len(rest) + 1) /\ k \in (1 - 1)..Len(rest) /\ (k - 1) + 1 = k
      BY <1>4, <1>6
    <2> QED
      BY <1>4, <1>7, <2>1, Slice
  <1>9. PICK url : url = FirstUrl(s, n)
    OBVIOUS
  <1>10. url \in Seq(X) /\ Len(url) \in 0..Len(rest)
    <2>1. url = TrimEnd(part, {Comma})
      BY <1>3, <1>5, <1>7, <1>9 DEF FirstUrl
    <2>2. url \in Seq(X) /\ Len(url) \in 0..Len(part)
      BY <1>8, <2>1, TrimTypes, TrimBounds
    <2> QED
      BY <1>4, <1>6, <1>8, <2>2
  <1>11. PICK l : l = Len(url)
    OBVIOUS
  <1>12. PICK after : after = SubSeq(rest, l + 1, Len(rest))
    OBVIOUS
  <1>13. after \in Seq(X) /\ Len(after) = Len(rest) - l
    <2>1. PICK a, b : a = l + 1 /\ b = Len(rest)
      OBVIOUS
    <2>2. a \in 1..(Len(rest) + 1) /\ b \in (a - 1)..Len(rest) /\ (b - a) + 1 = Len(rest) - l
      BY <1>4, <1>10, <1>11, <2>1
    <2>3. SubSeq(rest, a, b) \in Seq(X) /\ Len(SubSeq(rest, a, b)) = (b - a) + 1
      BY <1>4, <2>2, Slice
    <2> QED
      BY <1>12, <2>1, <2>2, <2>3
  <1>14. PICK c : c = Until(after, Comma)
    OBVIOUS
  <1>15. c \in 0..Len(after)
    BY <1>13, <1>14, UntilBounds
  <1>16. NextUrl(s, n) = Len(after) - c
    BY <1>3, <1>9, <1>11, <1>12, <1>14 DEF NextUrl, AfterUrl
  <1>17. ASSUME url # <<>> PROVE l \in 1..n
    <2>1. l # 0
      BY <1>10, <1>11, <1>17, EmptySeq
    <2> QED
      BY <1>1, <1>4, <1>10, <1>11, <2>1
  <1>18. ASSUME url # <<>> PROVE Len(after) - c \in 0..(n - 1)
    BY <1>1, <1>4, <1>13, <1>15, <1>17, <1>18
  <1> QED
    BY <1>9, <1>10, <1>16, <1>18

\* The parts of a srcset up to each place, one after the other.
Parses(f, s) ==
    \A n \in 0..Len(s) :
        f[n] = IF FirstUrl(s, n) = <<>> THEN <<>> ELSE <<FirstUrl(s, n)>> \o f[NextUrl(s, n)]

LEMMA ParseUnfolds ==
    ASSUME NEW X, NEW s \in Seq(X)
    PROVE  \E f : Parses(f, s) /\ ParseSrcset(s) = f[Len(s)]
PROOF
  <1> DEFINE L == Len(s)
             For(f, m) == \A n \in 0..m :
                f[n] = IF FirstUrl(s, n) = <<>> THEN <<>> ELSE <<FirstUrl(s, n)>> \o f[NextUrl(s, n)]
             S == {m \in 0..L : \E f : For(f, m)}
             parsed == CHOOSE f : ParseSteps(f, s)
  <1>1. L \in Nat
    BY AsFunctions
  <1>2. 0 \in S
    <2> DEFINE f == [i \in 0..0 |-> <<>>]
    <2>1. FirstUrl(s, 0) = <<>>
      <3>1. 0 \in 0..Len(s) /\ ~ \E i : i \in 0..(0 - 1)
        BY <1>1
      <3> QED
        BY <3>1, ParseTypes
    <2>2. For(f, 0)
      BY <2>1
    <2>3. 0 \in 0..L
      BY <1>1
    <2> HIDE DEF f, For
    <2> QED
      BY <2>2, <2>3
  <1>3. ASSUME NEW m \in 1..L, m - 1 \in S PROVE m \in S
    <2>1. PICK f : For(f, m - 1)
      BY <1>3
    <2> DEFINE last == IF FirstUrl(s, m) = <<>> THEN <<>> ELSE <<FirstUrl(s, m)>> \o f[NextUrl(s, m)]
               g == [i \in 0..m |-> IF i = m THEN last ELSE f[i]]
    <2>2. ASSUME NEW n \in 0..m
          PROVE  g[n] = IF FirstUrl(s, n) = <<>> THEN <<>> ELSE <<FirstUrl(s, n)>> \o g[NextUrl(s, n)]
      <3>1. FirstUrl(s, n) # <<>> => NextUrl(s, n) \in 0..(n - 1)
        <4>1. n \in 0..Len(s)
          BY <1>1
        <4> QED
          BY <4>1, ParseTypes
      <3>2. PICK k, url : k = NextUrl(s, n) /\ url = FirstUrl(s, n)
        OBVIOUS
      <3>3. url # <<>> => k \in 0..m /\ k # m
        BY <1>1, <3>1, <3>2
      <3>4. url # <<>> => g[k] = f[k]
        <4> HIDE DEF last
        <4> QED
          BY <3>3
      <3>5. CASE n = m
        <4>1. g[n] = last
          <5> HIDE DEF last
          <5> QED
            BY <3>5
        <4>2. last = IF url = <<>> THEN <<>> ELSE <<url>> \o f[k]
          BY <3>2, <3>5
        <4> HIDE DEF g, last
        <4> QED
          BY <3>2, <3>4, <4>1, <4>2
      <3>6. CASE n # m
        <4>1. n \in 0..(m - 1) /\ n \in 0..m
          BY <1>1, <3>6
        <4>2. g[n] = f[n]
          <5> HIDE DEF last
          <5> QED
            BY <3>6, <4>1
        <4>3. f[n] = IF url = <<>> THEN <<>> ELSE <<url>> \o f[k]
          BY <2>1, <3>2, <4>1
        <4> HIDE DEF g
        <4> QED
          BY <3>2, <3>4, <4>2, <4>3
      <3> QED
        BY <3>5, <3>6
    <2> HIDE DEF g
    <2>3. For(g, m)
      BY <2>2
    <2> HIDE DEF For
    <2>4. m \in 0..L
      BY <1>1
    <2> QED
      BY <2>3, <2>4
  <1>4. L \in S
    <2>1. L \in 0..L
      BY <1>1
    <2> HIDE DEF S, L
    <2> QED
      BY <1>1, <1>2, <1>3, <2>1, Upwards
  <1>5. \E f : ParseSteps(f, s)
    <2>1. PICK f : For(f, L)
      <3> HIDE DEF For
      <3> QED
        BY <1>4
    <2> DEFINE g == [i \in 0..L |-> f[i]]
    <2>2. ASSUME NEW n \in 0..L
          PROVE  g[n] = IF FirstUrl(s, n) = <<>> THEN <<>> ELSE <<FirstUrl(s, n)>> \o g[NextUrl(s, n)]
      <3>1. FirstUrl(s, n) # <<>> => NextUrl(s, n) \in 0..(n - 1)
        BY ParseTypes
      <3>2. PICK k, url : k = NextUrl(s, n) /\ url = FirstUrl(s, n)
        OBVIOUS
      <3>3. url # <<>> => k \in 0..L
        BY <1>1, <3>1, <3>2
      <3>4. f[n] = IF url = <<>> THEN <<>> ELSE <<url>> \o f[k]
        BY <2>1, <3>2
      <3>5. url # <<>> => g[k] = f[k]
        BY <3>3
      <3>6. g[n] = f[n]
        OBVIOUS
      <3> HIDE DEF g
      <3> QED
        BY <3>2, <3>4, <3>5, <3>6
    <2>3. g = [n \in 0..L |-> IF FirstUrl(s, n) = <<>> THEN <<>> ELSE <<FirstUrl(s, n)>> \o g[NextUrl(s, n)]]
      <3>1. g = [n \in 0..L |-> g[n]]
        OBVIOUS
      <3> HIDE DEF g
      <3> QED
        BY <2>2, <3>1
    <2> HIDE DEF g
    <2>4. ParseSteps(g, s)
      BY <2>3 DEF ParseSteps
    <2> QED
      BY <2>4
  <1>6. ParseSteps(parsed, s)
    <2> HIDE DEF L, For, S
    <2> QED
      BY <1>5
  <1>7. ParseSrcset(s) = parsed[L]
    BY DEF ParseSrcset, ParseSteps, FirstUrl, NextUrl, AfterUrl, RestOf, Ending
  <1> HIDE DEF parsed
  <1>8. Parses(parsed, s)
    BY <1>6 DEF ParseSteps, Parses
  <1> QED
    BY <1>7, <1>8

\* After m tokens of a srcset a URL begins after a and ends at u; a space is after z, and
\* the next comma after c.
UrlAt(s, m, a, u, z, c) ==
    /\ m \in 0..Len(s) /\ a \in m..(Len(s) - 1) /\ u \in (a + 1)..Len(s)
    /\ z \in u..Len(s) /\ c \in u..Len(s)
    /\ \A i \in (m + 1)..a : s[i] \in {Space, Comma}
    /\ s[a + 1] \notin {Space, Comma} /\ s[u] # Comma
    /\ \A i \in (a + 1)..z : s[i] # Space
    /\ z < Len(s) => s[z + 1] = Space
    /\ \A i \in (u + 1)..z : s[i] = Comma
    /\ \A i \in (u + 1)..c : s[i] # Comma
    /\ c < Len(s) => s[c + 1] = Comma

\* The tokens of what follows k.
LEMMA RestAfter ==
    ASSUME NEW X, NEW s \in Seq(X), NEW k \in 0..Len(s)
    PROVE  /\ SubSeq(s, k + 1, Len(s)) \in Seq(X) /\ Len(SubSeq(s, k + 1, Len(s))) = Len(s) - k
           /\ \A p \in 1..(Len(s) - k) : SubSeq(s, k + 1, Len(s))[p] = s[k + p]
PROOF
  <1> DEFINE n == Len(s)
  <1>1. n \in Nat
    BY AsFunctions
  <1>2. PICK i : i = k + 1
    OBVIOUS
  <1>3. i \in 1..(Len(s) + 1) /\ n \in (i - 1)..Len(s) /\ (n - i) + 1 = n - k
    BY <1>1, <1>2
  <1>4. /\ SubSeq(s, i, n) \in Seq(X) /\ Len(SubSeq(s, i, n)) = (n - i) + 1
        /\ \A p \in 1..((n - i) + 1) : SubSeq(s, i, n)[p] = s[(i + p) - 1]
    <2> HIDE DEF n
    <2> QED
      BY <1>3, Slice
  <1>5. \A p \in 1..(n - k) : (i + p) - 1 = k + p
    BY <1>1, <1>2
  <1>6. PICK t : t = SubSeq(s, i, n)
    OBVIOUS
  <1>7. t \in Seq(X) /\ Len(t) = n - k /\ \A p \in 1..(n - k) : t[p] = s[k + p]
    <2> HIDE DEF n
    <2> QED
      BY <1>3, <1>4, <1>5, <1>6
  <1> QED
    BY <1>2, <1>6, <1>7

\* One step of the parser reads the URL that is there.
LEMMA ParseStep ==
    ASSUME NEW X, NEW s \in Seq(X), NEW m, NEW a, NEW u, NEW z, NEW c, UrlAt(s, m, a, u, z, c)
    PROVE  /\ Len(s) - m \in 0..Len(s)
           /\ Same(FirstUrl(s, Len(s) - m), SubSeq(s, a + 1, u))
           /\ FirstUrl(s, Len(s) - m) # <<>>
           /\ NextUrl(s, Len(s) - m) = Len(s) - c
PROOF
  <1> DEFINE L == Len(s)
  <1>1. /\ L \in Nat /\ m \in 0..L /\ a \in m..(L - 1) /\ u \in (a + 1)..L /\ z \in u..L /\ c \in u..L
        /\ m \in Nat /\ a \in Nat /\ u \in Nat /\ z \in Nat /\ c \in Nat
    <2>1. L \in Nat
      BY AsFunctions
    <2>2. m \in 0..L /\ a \in m..(L - 1) /\ u \in (a + 1)..L /\ z \in u..L /\ c \in u..L
      BY DEF UrlAt
    <2> QED
      BY <2>1, <2>2
  <1>2. PICK n, ending : n = L - m /\ ending = Ending(s, n)
    OBVIOUS
  <1>3. /\ ending \in Seq(X) /\ Len(ending) = L - m
        /\ \A p \in 1..(L - m) : ending[p] = s[m + p]
    <2>1. L - n + 1 = m + 1
      BY <1>1, <1>2
    <2>2. ending = SubSeq(s, m + 1, L)
      BY <1>2, <2>1 DEF Ending
    <2> QED
      BY <1>1, <2>2, RestAfter
  <1>4. PICK rest : rest = SubSeq(s, a + 1, L)
    OBVIOUS
  <1>5. /\ rest \in Seq(X) /\ Len(rest) = L - a
        /\ \A p \in 1..(L - a) : rest[p] = s[a + p]
    <2>1. a \in 0..L
      BY <1>1
    <2> QED
      BY <1>4, <2>1, RestAfter
  <1>6. RestOf(s, n) = rest
    <2>1. PICK k : k = a - m
      OBVIOUS
    <2>2. k \in 0..(Len(ending) - 1) /\ k + 1 \in 1..(L - m) /\ m + (k + 1) = a + 1 /\ k \in Nat
      BY <1>1, <1>3, <2>1
    <2>3. \A i \in 1..k : ending[i] \in {Space, Comma}
      <3>1. \A i \in 1..k : i \in 1..(L - m) /\ m + i \in (m + 1)..a
        BY <1>1, <2>1
      <3> QED
        BY <1>3, <3>1 DEF UrlAt
    <2>4. ending[k + 1] \notin {Space, Comma}
      BY <1>3, <2>2 DEF UrlAt
    <2>5. TrimStart(ending, {Space, Comma}) = SubSeq(ending, k + 1, Len(ending))
      BY <1>3, <2>2, <2>3, <2>4, TrimmedStart
    <2>6. Same(SubSeq(SubSeq(s, m + 1, Len(s)), (a + 1) - m, L - m), SubSeq(s, a + 1, L))
      <3>1. PICK i : i = a + 1
        OBVIOUS
      <3>2. m \in 0..Len(s) /\ i \in (m + 1)..(Len(s) + 1) /\ L \in (i - 1)..Len(s)
        BY <1>1, <3>1
      <3>3. Same(SubSeq(SubSeq(s, m + 1, Len(s)), i - m, L - m), SubSeq(s, i, L))
        <4> HIDE DEF L
        <4> QED
          BY <3>2, SliceOfRest
      <3> QED
        BY <3>1, <3>3
    <2>7. L - n + 1 = m + 1 /\ k + 1 = (a + 1) - m
      BY <1>1, <1>2, <2>1
    <2>8. ending = SubSeq(s, m + 1, Len(s))
      BY <1>2, <2>7 DEF Ending
    <2>9. SubSeq(ending, k + 1, Len(ending)) = rest
      BY <1>3, <1>4, <2>6, <2>7, <2>8 DEF Same
    <2> QED
      BY <1>2, <2>5, <2>9 DEF RestOf
  <1>7. Until(rest, Space) = z - a
    <2>1. PICK k : k = z - a
      OBVIOUS
    <2>2. k \in 0..Len(rest) /\ k \in Nat
      BY <1>1, <1>5, <2>1
    <2>3. \A i \in 1..k : rest[i] # Space
      <3>1. \A i \in 1..k : i \in 1..(L - a) /\ a + i \in (a + 1)..z
        BY <1>1, <2>1
      <3> QED
        BY <1>5, <3>1 DEF UrlAt
    <2>4. k < Len(rest) => rest[k + 1] = Space
      <3>1. k < Len(rest) => z < L /\ k + 1 \in 1..(L - a) /\ a + (k + 1) = z + 1
        BY <1>1, <1>5, <2>1
      <3> QED
        BY <1>5, <3>1 DEF UrlAt
    <2>5. Until(rest, Space) = k
      BY <1>5, <2>2, <2>3, <2>4, FoundAt
    <2> QED
      BY <2>1, <2>5
  <1>8. PICK part : part = SubSeq(rest, 1, z - a)
    OBVIOUS
  <1>9. /\ part \in Seq(X) /\ Len(part) = z - a
        /\ \A p \in 1..(z - a) : part[p] = s[a + p]
    <2>1. PICK k : k = z - a
      OBVIOUS
    <2>2. 1 \in 1..(Len(rest) + 1) /\ k \in (1 - 1)..Len(rest) /\ (k - 1) + 1 = k
      BY <1>1, <1>5, <2>1
    <2>3. /\ SubSeq(rest, 1, k) \in Seq(X) /\ Len(SubSeq(rest, 1, k)) = (k - 1) + 1
          /\ \A p \in 1..((k - 1) + 1) : SubSeq(rest, 1, k)[p] = rest[(1 + p) - 1]
      BY <1>5, <2>2, Slice
    <2>4. \A p \in 1..k : (1 + p) - 1 = p /\ p \in 1..(L - a)
      BY <1>1, <2>1
    <2> QED
      BY <1>5, <1>8, <2>1, <2>2, <2>3, <2>4
  <1>10. PICK url : url = FirstUrl(s, n)
    OBVIOUS
  <1>11. url = TrimEnd(part, {Comma})
    BY <1>6, <1>7, <1>8, <1>10 DEF FirstUrl
  <1>12. url = SubSeq(part, 1, u - a)
    <2>1. PICK k : k = u - a
      OBVIOUS
    <2>2. k \in 1..Len(part) /\ k \in 1..(z - a) /\ a + k = u
      BY <1>1, <1>9, <2>1
    <2>3. \A i \in (k + 1)..Len(part) : part[i] \in {Comma}
      <3>1. \A i \in (k + 1)..Len(part) : i \in 1..(z - a) /\ a + i \in (u + 1)..z
        BY <1>1, <1>9, <2>1
      <3> QED
        BY <1>9, <3>1 DEF UrlAt
    <2>4. part[k] \notin {Comma}
      BY <1>9, <2>2 DEF UrlAt
    <2>5. TrimEnd(part, {Comma}) = SubSeq(part, 1, k)
      BY <1>9, <2>2, <2>3, <2>4, TrimmedEnd
    <2> QED
      BY <1>11, <2>1, <2>5
  <1>13. /\ url \in Seq(X) /\ Len(url) = u - a
         /\ \A p \in 1..(u - a) : url[p] = s[a + p]
    <2>1. PICK k : k = u - a
      OBVIOUS
    <2>2. 1 \in 1..(Len(part) + 1) /\ k \in (1 - 1)..Len(part) /\ (k - 1) + 1 = k
      BY <1>1, <1>9, <2>1
    <2>3. /\ SubSeq(part, 1, k) \in Seq(X) /\ Len(SubSeq(part, 1, k)) = (k - 1) + 1
          /\ \A p \in 1..((k - 1) + 1) : SubSeq(part, 1, k)[p] = part[(1 + p) - 1]
      BY <1>9, <2>2, Slice
    <2>4. \A p \in 1..k : (1 + p) - 1 = p /\ p \in 1..(z - a)
      BY <1>1, <2>1
    <2> QED
      BY <1>9, <1>12, <2>1, <2>2, <2>3, <2>4
  <1>14. url = SubSeq(s, a + 1, u)
    <2>1. PICK i : i = a + 1
      OBVIOUS
    <2>2. i \in 1..(Len(s) + 1) /\ u \in (i - 1)..Len(s) /\ (u - i) + 1 = u - a
      BY <1>1, <2>1
    <2>3. PICK t : t = SubSeq(s, i, u)
      OBVIOUS
    <2>4. /\ t \in Seq(X) /\ Len(t) = (u - i) + 1
          /\ \A p \in 1..((u - i) + 1) : t[p] = s[(i + p) - 1]
      BY <2>2, <2>3, Slice
    <2>5. \A p \in 1..(u - a) : (i + p) - 1 = a + p
      BY <1>1, <2>1
    <2>6. \A p \in 1..Len(url) : url[p] = t[p]
      BY <1>13, <2>2, <2>4, <2>5
    <2>7. Len(url) = Len(t)
      BY <1>13, <2>2, <2>4
    <2>8. url = t
      BY <1>13, <2>4, <2>6, <2>7, SeqEqual
    <2> QED
      BY <2>1, <2>3, <2>8
  <1>15. url # <<>>
    <2>1. Len(url) # 0
      BY <1>1, <1>13
    <2> QED
      BY <2>1, EmptySeq
  <1>16. PICK after : after = SubSeq(rest, (u - a) + 1, Len(rest))
    OBVIOUS
  <1>17. /\ after \in Seq(X) /\ Len(after) = L - u
         /\ \A p \in 1..(L - u) : after[p] = s[u + p]
    <2>1. PICK k : k = u - a
      OBVIOUS
    <2>2. k \in 0..Len(rest) /\ Len(rest) - k = L - u
      BY <1>1, <1>5, <2>1
    <2>3. /\ after \in Seq(X) /\ Len(after) = Len(rest) - k
          /\ \A p \in 1..(Len(rest) - k) : after[p] = rest[k + p]
      BY <1>5, <1>16, <2>1, <2>2, RestAfter
    <2>4. \A p \in 1..(L - u) : k + p \in 1..(L - a) /\ a + (k + p) = u + p
      BY <1>1, <2>1
    <2> QED
      BY <1>5, <2>2, <2>3, <2>4
  <1>18. Until(after, Comma) = c - u
    <2>1. PICK k : k = c - u
      OBVIOUS
    <2>2. k \in 0..Len(after) /\ k \in Nat
      BY <1>1, <1>17, <2>1
    <2>3. \A i \in 1..k : after[i] # Comma
      <3>1. \A i \in 1..k : i \in 1..(L - u) /\ u + i \in (u + 1)..c
        BY <1>1, <2>1
      <3> QED
        BY <1>17, <3>1, SMTT(30) DEF UrlAt
    <2>4. k < Len(after) => after[k + 1] = Comma
      <3>1. k < Len(after) => c < L /\ k + 1 \in 1..(L - u) /\ u + (k + 1) = c + 1
        BY <1>1, <1>17, <2>1
      <3> QED
        BY <1>17, <3>1 DEF UrlAt
    <2>5. Until(after, Comma) = k
      BY <1>17, <2>2, <2>3, <2>4, FoundAt
    <2> QED
      BY <2>1, <2>5
  <1>19. NextUrl(s, n) = Len(after) - (c - u)
    <2>1. AfterUrl(s, n) = after
      BY <1>6, <1>10, <1>13, <1>16 DEF AfterUrl
    <2> QED
      BY <1>18, <2>1 DEF NextUrl
  <1>20. Len(after) - (c - u) = L - c /\ L - m \in 0..L
    BY <1>1, <1>17
  <1> QED
    BY <1>2, <1>10, <1>14, <1>15, <1>19, <1>20 DEF Same

\* A candidate between b and e, after its separator.
CandidateAt(s, c, sep, b, e) ==
    LET a == b + Len(sep)
        u == a + Len(c.url)
    IN  /\ b \in 0..Len(s) /\ e \in u..Len(s)
        /\ \A q \in 1..Len(sep) : s[b + q] = sep[q]
        /\ \A q \in 1..Len(c.url) : s[a + q] = c.url[q]
        /\ c.descriptor = Untyped => e = u
        /\ c.descriptor # Untyped => e = u + 2 /\ s[u + 1] = Space /\ s[u + 2] = c.descriptor

\* What comes after a URL that ends at u: z is before a space, and k before a comma.
Follows(s, u, z, k) ==
    /\ z \in u..Len(s) /\ k \in u..Len(s)
    /\ z < Len(s) => s[z + 1] = Space
    /\ \A i \in (u + 1)..z : s[i] = Comma
    /\ \A i \in (u + 1)..k : s[i] # Comma
    /\ k < Len(s) => s[k + 1] = Comma

LEMMA LegalUrls ==
    ASSUME NEW c, LegalCandidate(c)
    PROVE  /\ Len(c.url) \in Nat \ {0} /\ DOMAIN c.url = 1..Len(c.url)
           /\ \A q \in 1..Len(c.url) : c.url[q] # Space
           /\ c.url[1] \notin {Space, Comma} /\ c.url[Len(c.url)] # Comma
PROOF
  <1>1. c.url \in Seq(Token) /\ c.url # <<>>
    BY DEF LegalCandidate
  <1>2. Len(c.url) \in Nat \ {0} /\ DOMAIN c.url = 1..Len(c.url)
    <2>1. PICK t : t = c.url
      OBVIOUS
    <2>2. Len(t) \in Nat \ {0} /\ DOMAIN t = 1..Len(t)
      BY <1>1, <2>1, EmptySeq, LenProperties
    <2> QED
      BY <2>1, <2>2
  <1>3. 1 \in 1..Len(c.url)
    BY <1>2
  <1> QED
    BY <1>2, <1>3 DEF LegalCandidate

\* A candidate is where UrlAt says.
LEMMA UrlPlaced ==
    ASSUME NEW X, NEW s \in Seq(X), NEW c, LegalCandidate(c), NEW sep \in Seq({Space, Comma}),
           NEW b, NEW e, CandidateAt(s, c, sep, b, e), NEW m \in b..(b + Len(sep)),
           NEW z, NEW k, Follows(s, (b + Len(sep)) + Len(c.url), z, k)
    PROVE  UrlAt(s, m, b + Len(sep), (b + Len(sep)) + Len(c.url), z, k)
PROOF
  <1>1. PICK a, u, l, g, n : a = b + Len(sep) /\ u = a + Len(c.url) /\ l = Len(c.url) /\ g = Len(sep) /\ n = Len(s)
    OBVIOUS
  <1>2. n \in Nat /\ l \in Nat \ {0} /\ g \in Nat /\ \A q \in 1..g : sep[q] \in {Space, Comma}
    BY <1>1, AsFunctions, LegalUrls
  <1>3. /\ b \in 0..n /\ e \in u..n
        /\ \A q \in 1..g : s[b + q] = sep[q]
        /\ \A q \in 1..l : s[a + q] = c.url[q]
    BY <1>1 DEF CandidateAt
  <1>4. /\ z \in u..n /\ k \in u..n
        /\ z < n => s[z + 1] = Space
        /\ \A i \in (u + 1)..z : s[i] = Comma
        /\ \A i \in (u + 1)..k : s[i] # Comma
        /\ k < n => s[k + 1] = Comma
    BY <1>1 DEF Follows
  <1>5. m \in b..(b + g)
    BY <1>1
  <1>6. m \in 0..n /\ a \in m..(n - 1) /\ u \in (a + 1)..n /\ a \in Nat /\ b \in Nat /\ u = a + l /\ a = b + g
    <2>1. u = a + l /\ a = b + g
      BY <1>1
    <2>2. b \in 0..n /\ e \in u..n
      BY <1>3
    <2>3. n \in Nat /\ l \in Nat \ {0} /\ g \in Nat
      BY <1>2
    <2> QED
      BY <1>5, <2>1, <2>2, <2>3
  <1>7. ASSUME NEW i \in (m + 1)..a PROVE s[i] \in {Space, Comma}
    <2>1. PICK q : q = i - b
      OBVIOUS
    <2>2. q \in 1..g /\ b + q = i
      BY <1>2, <1>3, <1>5, <1>6, <2>1
    <2> QED
      BY <1>2, <1>3, <2>2
  <1>8. s[a + 1] \notin {Space, Comma} /\ s[u] # Comma
    <2>1. s[a + 1] = c.url[1] /\ s[u] = c.url[l]
      BY <1>2, <1>3, <1>6
    <2> QED
      BY <1>1, <2>1, LegalUrls
  <1>9. ASSUME NEW i \in (a + 1)..z PROVE s[i] # Space
    <2>1. CASE i <= u
      <3>1. PICK q : q = i - a
        OBVIOUS
      <3>2. q \in 1..l /\ a + q = i
        BY <1>2, <1>4, <1>6, <2>1, <3>1
      <3> QED
        BY <1>1, <1>3, <3>2, LegalUrls, ZenonT(30)
    <2>2. CASE ~(i <= u)
      <3>1. i \in (u + 1)..z
        BY <1>2, <1>4, <1>6, <2>2
      <3>2. s[i] = Comma
        BY <1>4, <3>1
      <3> QED
        BY <3>2 DEF Comma, Space
    <2> QED
      BY <2>1, <2>2
  <1>10. UrlAt(s, m, a, u, z, k)
    BY <1>1, <1>4, <1>6, <1>7, <1>8, <1>9 DEF UrlAt
  <1> QED
    BY <1>1, <1>10

\* What follows a candidate, by the separator of the next one.
LEMMA LastFollows ==
    ASSUME NEW X, NEW s \in Seq(X), NEW c, LegalCandidate(c), NEW sep \in Seq({Space, Comma}),
           NEW b, CandidateAt(s, c, sep, b, Len(s))
    PROVE  \E z : Follows(s, (b + Len(sep)) + Len(c.url), z, Len(s))
PROOF
  <1>1. PICK a, u, l, g, n : a = b + Len(sep) /\ u = a + Len(c.url) /\ l = Len(c.url) /\ g = Len(sep) /\ n = Len(s)
    OBVIOUS
  <1>2. n \in Nat /\ l \in Nat /\ g \in Nat
    BY <1>1, AsFunctions, LegalUrls
  <1>3. /\ b \in 0..n /\ n \in u..n
        /\ c.descriptor = Untyped => n = u
        /\ c.descriptor # Untyped => n = u + 2 /\ s[u + 1] = Space /\ s[u + 2] = c.descriptor
    BY <1>1 DEF CandidateAt
  <1>4. u \in Nat
    <2>1. u = a + l /\ a = b + g
      BY <1>1
    <2>2. b \in 0..n
      BY <1>3
    <2> QED
      BY <1>2, <2>1, <2>2
  <1>5. \A i \in (u + 1)..n : s[i] # Comma
    <2> SUFFICES ASSUME NEW i \in (u + 1)..n PROVE s[i] # Comma
      OBVIOUS
    <2>1. c.descriptor # Untyped /\ (i = u + 1 \/ i = u + 2)
      BY <1>3, <1>4
    <2>2. Space # Comma /\ c.descriptor # Comma
      BY DEF Space, Comma, LegalCandidate
    <2> QED
      BY <1>3, <2>1, <2>2
  <1>6. Follows(s, u, u, n)
    <2>1. u \in u..n /\ n \in u..n /\ ~(n < n) /\ \A i \in (u + 1)..u : FALSE
      BY <1>2, <1>3, <1>4
    <2>2. u < n => s[u + 1] = Space
      BY <1>3, <1>4
    <2> QED
      BY <1>1, <1>5, <2>1, <2>2 DEF Follows
  <1> QED
    BY <1>1, <1>6

\* How much of a separator is before its comma.
Leading(d) == IF d.separator = "wide" THEN 1 ELSE 0

LEMMA RoomBefore ==
    ASSUME NEW n \in Nat, NEW p \in Nat, NEW v \in Nat \ {0}, p + v <= n
    PROVE  p < n
OBVIOUS

LEMMA SeparatorsAre ==
    /\ Separators["plain"] = <<Comma, Space>> /\ Separators["tight"] = <<Comma>>
    /\ Separators["wide"] = <<Space, Comma, Space>>
    /\ \A sort \in {"plain", "tight", "wide"} : Separators[sort] \in Seq({Space, Comma})
PROOF
  <1>1. /\ Separators["plain"] = <<Comma, Space>> /\ Separators["tight"] = <<Comma>>
        /\ Separators["wide"] = <<Space, Comma, Space>>
    BY DEF Separators
  <1>2. <<Comma, Space>> \in Seq({Space, Comma}) /\ <<Comma>> \in Seq({Space, Comma})
        /\ <<Space, Comma, Space>> \in Seq({Space, Comma})
    <2> HIDE DEF Comma, Space
    <2> QED
      OBVIOUS
  <1> QED
    BY <1>1, <1>2

\* A candidate is followed by the separator of the next one.
LEMMA NextFollows ==
    ASSUME NEW X, NEW s \in Seq(X), NEW c, LegalCandidate(c), NEW sep \in Seq({Space, Comma}),
           NEW b, NEW e, CandidateAt(s, c, sep, b, e),
           NEW d, LegalCandidate(d), NEW e2, CandidateAt(s, d, Separators[d.separator], e, e2),
           c.descriptor = Untyped => d.separator # "tight"
    PROVE  /\ \E z : Follows(s, (b + Len(sep)) + Len(c.url), z, e + Leading(d))
           /\ e + Leading(d) \in e..(e + Len(Separators[d.separator]))
PROOF
  <1>1. PICK a, u, l, g, n, t : /\ a = b + Len(sep) /\ u = a + Len(c.url) /\ l = Len(c.url) /\ g = Len(sep)
                                /\ n = Len(s) /\ t = Separators[d.separator]
    OBVIOUS
  <1>2. n \in Nat /\ l \in Nat /\ g \in Nat
    BY <1>1, AsFunctions, LegalUrls
  <1>3. /\ b \in 0..n /\ e \in u..n
        /\ c.descriptor = Untyped => e = u
        /\ c.descriptor # Untyped => e = u + 2 /\ s[u + 1] = Space /\ s[u + 2] = c.descriptor
    BY <1>1 DEF CandidateAt
  <1>4. u \in Nat /\ e \in Nat
    <2>1. u = a + l /\ a = b + g
      BY <1>1
    <2>2. b \in 0..n /\ e \in u..n
      BY <1>3
    <2> QED
      BY <1>2, <2>1, <2>2
  <1>5. /\ e2 \in ((e + Len(t)) + Len(d.url))..n
        /\ \A q \in 1..Len(t) : s[e + q] = t[q]
        /\ Len(d.url) \in Nat \ {0}
    BY <1>1, LegalUrls DEF CandidateAt
  <1>10. \A r \in Nat : r = Len(t) => e + r < n
    <2> SUFFICES ASSUME NEW r \in Nat, r = Len(t) PROVE e + r < n
      OBVIOUS
    <2>1. PICK v \in Nat \ {0} : v = Len(d.url)
      BY <1>5
    <2>2. e2 \in ((e + r) + v)..n
      BY <1>5, <2>1
    <2>3. ((e + r) + v) <= n
      BY <1>2, <1>4, <2>2
    <2>4. e + r \in Nat
      BY <1>4
    <2> QED
      BY <1>2, <2>1, <2>3, <2>4, RoomBefore
  <1>11. e \in u..n
    BY <1>3
  <1>6. Space # Comma /\ c.descriptor # Comma
    BY DEF Space, Comma, LegalCandidate
  <1>7. \A i \in (u + 1)..e : s[i] # Comma
    <2> SUFFICES ASSUME NEW i \in (u + 1)..e PROVE s[i] # Comma
      OBVIOUS
    <2>1. c.descriptor # Untyped /\ (i = u + 1 \/ i = u + 2)
      BY <1>3, <1>4
    <2> QED
      BY <1>3, <1>6, <2>1
  <1>8. CASE d.separator = "wide"
    <2>1. Len(t) = 3 /\ t[1] = Space /\ t[2] = Comma
      <3>1. t = <<Space, Comma, Space>>
        BY <1>1, <1>8, SeparatorsAre
      <3> HIDE DEF Space, Comma
      <3> QED
        BY <3>1
    <2>2. e + 1 \in u..n /\ (e + 1) + 1 = e + 2 /\ e + 1 \in e..(e + 3)
      <3>1. e + 3 < n
        BY <1>10, <2>1
      <3> QED
        BY <1>2, <1>4, <1>11, <3>1
    <2>3. s[e + 1] = Space /\ s[(e + 1) + 1] = Comma
      BY <1>5, <2>1, <2>2
    <2>4. s[u + 1] = Space /\ u \in u..n
      BY <1>2, <1>3, <1>4, <2>3
    <2>5. \A i \in (u + 1)..(e + 1) : s[i] # Comma
      <3>1. \A i \in (u + 1)..(e + 1) : i \in (u + 1)..e \/ i = e + 1
        BY <1>4
      <3> QED
        BY <1>6, <1>7, <2>3, <3>1
    <2>6. \A i \in (u + 1)..u : FALSE
      BY <1>4
    <2>7. Follows(s, u, u, e + 1)
      BY <1>1, <2>2, <2>3, <2>4, <2>5, <2>6 DEF Follows
    <2>8. Leading(d) = 1
      BY <1>8 DEF Leading
    <2> QED
      BY <1>1, <2>1, <2>2, <2>7, <2>8
  <1>9. CASE d.separator # "wide"
    <2>1. Leading(d) = 0 /\ e + 0 = e
      BY <1>4, <1>9 DEF Leading
    <2>2. Len(t) \in Nat \ {0} /\ t[1] = Comma
      <3>1. t = <<Comma, Space>> \/ t = <<Comma>>
        BY <1>1, <1>9, SeparatorsAre DEF LegalCandidate
      <3> HIDE DEF Space, Comma
      <3>2. Len(<<Comma, Space>>) = 2 /\ Len(<<Comma>>) = 1 /\ <<Comma, Space>>[1] = Comma /\ <<Comma>>[1] = Comma
        OBVIOUS
      <3>3. CASE t = <<Comma, Space>>
        BY <3>2, <3>3
      <3>4. CASE t = <<Comma>>
        BY <3>2, <3>4
      <3> QED
        BY <3>1, <3>3, <3>4
    <2>3. e \in u..n /\ s[e + 1] = Comma /\ e < n /\ e \in e..(e + Len(t))
      <3>1. PICK r \in Nat \ {0} : r = Len(t)
        BY <2>2
      <3>2. e + r < n /\ 1 \in 1..Len(t)
        BY <1>10, <3>1
      <3>3. s[e + 1] = t[1]
        BY <1>5, <3>2
      <3>4. e < n /\ e \in e..(e + r)
        BY <1>2, <1>4, <3>1, <3>2
      <3> QED
        BY <1>11, <2>2, <3>1, <3>3, <3>4
    <2>4. CASE c.descriptor # Untyped
      <3>1. s[u + 1] = Space /\ u \in u..n /\ \A i \in (u + 1)..u : FALSE
        BY <1>2, <1>3, <1>4, <2>3, <2>4
      <3>2. Follows(s, u, u, e)
        BY <1>1, <1>7, <2>3, <3>1 DEF Follows
      <3> QED
        BY <1>1, <2>1, <2>3, <3>2
    <2>5. CASE c.descriptor = Untyped
      <3>1. e = u /\ Len(t) = 2 /\ t[2] = Space
        <4>1. t = <<Comma, Space>>
          BY <1>1, <1>9, <2>5, SeparatorsAre DEF LegalCandidate
        <4> HIDE DEF Space, Comma
        <4> QED
          BY <1>3, <2>5, <4>1
      <3>2. u + 1 \in u..n /\ (u + 1) + 1 = e + 2 /\ 2 \in 1..Len(t)
        BY <1>2, <1>4, <1>5, <2>3, <3>1
      <3>3. s[(u + 1) + 1] = Space
        BY <1>5, <3>1, <3>2
      <3>4. \A i \in (u + 1)..(u + 1) : s[i] = Comma
        <4>1. \A i \in (u + 1)..(u + 1) : i = e + 1
          BY <1>4, <3>1
        <4> QED
          BY <2>3, <4>1
      <3>5. Follows(s, u, u + 1, e)
        BY <1>1, <1>7, <2>3, <3>2, <3>3, <3>4 DEF Follows
      <3> QED
        BY <1>1, <2>1, <2>3, <3>5
    <2> QED
      BY <2>4, <2>5
  <1> QED
    BY <1>8, <1>9

\* What a srcset is made of.
SrcsetToken == Token \cup {Space, Comma}

LEMMA WiderSeq ==
    ASSUME NEW X, NEW Y, X \subseteq Y, NEW s \in Seq(X)
    PROVE  s \in Seq(Y)
PROOF
  <1>1. Len(s) \in Nat /\ s = [i \in 1..Len(s) |-> s[i]] /\ \A i \in 1..Len(s) : s[i] \in Y
    BY AsFunctions
  <1> DEFINE n == Len(s)
  <1>2. [i \in 1..n |-> s[i]] \in Seq(Y)
    <2> HIDE DEF n
    <2>1. n \in Nat /\ \A i \in 1..n : s[i] \in Y
      BY <1>1 DEF n
    <2> QED
      BY <2>1, IsASeq
  <1> QED
    BY <1>1, <1>2

DescriptorOf(c) == IF c.descriptor = Untyped THEN <<>> ELSE <<Space, c.descriptor>>

LEMMA CandidateTypes ==
    ASSUME NEW c, LegalCandidate(c)
    PROVE  /\ c.url \in Seq(SrcsetToken) /\ DescriptorOf(c) \in Seq(SrcsetToken)
           /\ Len(DescriptorOf(c)) = IF c.descriptor = Untyped THEN 0 ELSE 2
           /\ c.descriptor # Untyped => DescriptorOf(c)[1] = Space /\ DescriptorOf(c)[2] = c.descriptor
           /\ RenderCandidate(c) = c.url \o DescriptorOf(c)
PROOF
  <1>1. c.url \in Seq(SrcsetToken)
    BY WiderSeq DEF LegalCandidate, SrcsetToken
  <1>2. PICK x : x = c.descriptor
    OBVIOUS
  <1>3. CASE x = Untyped
    <2>1. DescriptorOf(c) = <<>>
      BY <1>2, <1>3 DEF DescriptorOf
    <2>2. <<>> \in Seq(SrcsetToken) /\ Len(<<>>) = 0
      BY EmptySeq
    <2> QED
      BY <1>1, <1>2, <1>3, <2>1, <2>2 DEF RenderCandidate
  <1>4. CASE x # Untyped
    <2>1. DescriptorOf(c) = <<Space, x>>
      BY <1>2, <1>4 DEF DescriptorOf
    <2>2. x \in SrcsetToken /\ Space \in SrcsetToken
      BY <1>2, <1>4 DEF SrcsetToken, LegalCandidate
    <2>3. /\ <<Space, x>> \in Seq(SrcsetToken) /\ Len(<<Space, x>>) = 2
          /\ <<Space, x>>[1] = Space /\ <<Space, x>>[2] = x
      <3> HIDE DEF Space
      <3> QED
        BY <2>2
    <2> QED
      BY <1>1, <1>2, <1>4, <2>1, <2>3 DEF RenderCandidate, DescriptorOf
  <1> QED
    BY <1>3, <1>4

\* A candidate in a srcset.
LEMMA CandidatePlaced ==
    ASSUME NEW c, LegalCandidate(c), NEW sep \in Seq({Space, Comma}),
           NEW pre \in Seq(SrcsetToken), NEW v \in Seq(SrcsetToken),
           NEW s, Same(s, (pre \o (sep \o RenderCandidate(c))) \o v)
    PROVE  /\ sep \o RenderCandidate(c) \in Seq(SrcsetToken)
           /\ CandidateAt(s, c, sep, Len(pre), Len(pre \o (sep \o RenderCandidate(c))))
PROOF
  <1> DEFINE V == SrcsetToken
  <1>1. PICK t, d, l, g, p, k, w : /\ t = c.url /\ d = DescriptorOf(c) /\ l = Len(t) /\ g = Len(sep)
                                   /\ p = Len(pre) /\ k = Len(d) /\ w = Len(v)
    OBVIOUS
  <1>2. t \in Seq(V) /\ d \in Seq(V) /\ sep \in Seq(V) /\ pre \in Seq(V) /\ v \in Seq(V)
    BY <1>1, CandidateTypes, WiderSeq DEF SrcsetToken
  <1>3. /\ k = IF c.descriptor = Untyped THEN 0 ELSE 2
        /\ c.descriptor # Untyped => d[1] = Space /\ d[2] = c.descriptor
        /\ RenderCandidate(c) = t \o d
    BY <1>1, CandidateTypes
  <1> HIDE DEF V
  <1>4. l \in Nat /\ g \in Nat /\ p \in Nat /\ k \in Nat /\ w \in Nat
    BY <1>1, <1>2, LenProperties
  <1>5. /\ t \o d \in Seq(V) /\ Len(t \o d) = l + k
        /\ \A i \in 1..l : (t \o d)[i] = t[i]
        /\ \A i \in 1..k : (t \o d)[l + i] = d[i]
    BY <1>1, <1>2, Joining
  <1>6. PICK td : td = t \o d
    OBVIOUS
  <1>7. /\ sep \o td \in Seq(V) /\ Len(sep \o td) = g + (l + k)
        /\ \A i \in 1..g : (sep \o td)[i] = sep[i]
        /\ \A i \in 1..(l + k) : (sep \o td)[g + i] = td[i]
    BY <1>1, <1>2, <1>5, <1>6, Joining
  <1>8. PICK all : all = sep \o td
    OBVIOUS
  <1>9. /\ pre \o all \in Seq(V) /\ Len(pre \o all) = p + (g + (l + k))
        /\ \A i \in 1..p : (pre \o all)[i] = pre[i]
        /\ \A i \in 1..(g + (l + k)) : (pre \o all)[p + i] = all[i]
    <2>1. PICK r : r = g + (l + k)
      OBVIOUS
    <2>2. all \in Seq(V) /\ Len(all) = r
      BY <1>7, <1>8, <2>1
    <2>3. /\ pre \o all \in Seq(V) /\ Len(pre \o all) = Len(pre) + Len(all)
          /\ \A i \in 1..Len(pre) : (pre \o all)[i] = pre[i]
          /\ \A i \in 1..Len(all) : (pre \o all)[Len(pre) + i] = all[i]
      <3>1. pre \in Seq(V) /\ all \in Seq(V)
        BY <1>2, <2>2
      <3>2. pre \o all \in Seq(V) /\ Len(pre \o all) = Len(pre) + Len(all)
        BY <3>1, Joining
      <3>3. \A i \in 1..Len(pre) : (pre \o all)[i] = pre[i]
        BY <3>1, Joining
      <3>4. \A i \in 1..Len(all) : (pre \o all)[Len(pre) + i] = all[i]
        BY <3>1, Joining
      <3> QED
        BY <3>2, <3>3, <3>4
    <2>4. Len(pre) = p
      BY <1>1
    <2> QED
      BY <2>1, <2>2, <2>3, <2>4
  <1>10. PICK so : so = pre \o all
    OBVIOUS
  <1>11. /\ so \o v \in Seq(V) /\ Len(so \o v) = (p + (g + (l + k))) + w
         /\ \A i \in 1..(p + (g + (l + k))) : (so \o v)[i] = so[i]
    <2>1. PICK r : r = p + (g + (l + k))
      OBVIOUS
    <2>2. so \in Seq(V) /\ Len(so) = r
      BY <1>9, <1>10, <2>1
    <2>3. /\ so \o v \in Seq(V) /\ Len(so \o v) = r + w
          /\ \A i \in 1..r : (so \o v)[i] = so[i]
      BY <1>1, <1>2, <2>2, Joining, ZenonT(30)
    <2> QED
      BY <2>1, <2>3
  <1>12. s = so \o v
    BY <1>3, <1>6, <1>8, <1>10 DEF Same
  <1>13. ASSUME NEW i \in 1..(g + (l + k)) PROVE s[p + i] = all[i]
    <2>1. p + i \in 1..(p + (g + (l + k)))
      BY <1>4
    <2>2. s[p + i] = so[p + i]
      BY <1>11, <1>12, <2>1
    <2> QED
      BY <1>9, <1>10, <2>2
  <1>14. PICK a, u, e : a = p + g /\ u = a + l /\ e = p + (g + (l + k))
    OBVIOUS
  <1>15. \A q \in 1..g : s[p + q] = sep[q]
    <2> SUFFICES ASSUME NEW q \in 1..g PROVE s[p + q] = sep[q]
      OBVIOUS
    <2>1. q \in 1..(g + (l + k))
      BY <1>4
    <2> QED
      BY <1>7, <1>8, <1>13, <2>1
  <1>16. ASSUME NEW i \in 1..(l + k) PROVE s[a + i] = td[i]
    <2>1. g + i \in 1..(g + (l + k)) /\ p + (g + i) = a + i
      BY <1>4, <1>14
    <2>2. s[p + (g + i)] = all[g + i]
      BY <1>13, <2>1
    <2> QED
      BY <1>7, <1>8, <2>1, <2>2
  <1>17. \A q \in 1..l : s[a + q] = t[q]
    <2> SUFFICES ASSUME NEW q \in 1..l PROVE s[a + q] = t[q]
      OBVIOUS
    <2>1. q \in 1..(l + k)
      BY <1>4
    <2> QED
      BY <1>5, <1>6, <1>16, <2>1
  <1>18. ASSUME c.descriptor # Untyped
         PROVE  e = u + 2 /\ s[u + 1] = Space /\ s[u + 2] = c.descriptor
    <2>1. k = 2
      BY <1>3, <1>18
    <2>2. l + 1 \in 1..(l + k) /\ l + 2 \in 1..(l + k) /\ 1 \in 1..k /\ 2 \in 1..k
          /\ a + (l + 1) = u + 1 /\ a + (l + 2) = u + 2 /\ e = u + 2
      BY <1>4, <1>14, <2>1
    <2>3. s[a + (l + 1)] = td[l + 1] /\ s[a + (l + 2)] = td[l + 2]
      BY <1>16, <2>2
    <2>4. td[l + 1] = d[1] /\ td[l + 2] = d[2]
      BY <1>5, <1>6, <2>2
    <2> QED
      BY <1>3, <1>18, <2>2, <2>3, <2>4
  <1>19. c.descriptor = Untyped => e = u
    BY <1>3, <1>4, <1>14
  <1>20. PICK n : n = Len(s)
    OBVIOUS
  <1>21. p \in 0..n /\ e \in u..n
    <2>1. n = (p + (g + (l + k))) + w
      BY <1>11, <1>12, <1>20
    <2> QED
      BY <1>4, <1>14, <2>1
  <1>22. CandidateAt(s, c, sep, p, e)
    BY <1>1, <1>14, <1>15, <1>17, <1>18, <1>19, <1>20, <1>21 DEF CandidateAt
  <1>23. Len(pre \o (sep \o RenderCandidate(c))) = e
    BY <1>3, <1>6, <1>8, <1>9, <1>14
  <1>24. sep \o RenderCandidate(c) \in Seq(SrcsetToken)
    BY <1>3, <1>6, <1>7 DEF V
  <1> QED
    BY <1>1, <1>22, <1>23, <1>24

\* The parts of a srcset.
SeparatorOf(cs, i) == IF i = 1 THEN <<>> ELSE Separators[cs[i].separator]

SrcsetParts(cs) == [i \in 1..Len(cs) |-> SeparatorOf(cs, i) \o RenderCandidate(cs[i])]

\* Each candidate in its place.
AllPlaced(s, cs, q) ==
    /\ q \in [0..Len(cs) -> Nat] /\ q[0] = 0 /\ q[Len(cs)] = Len(s)
    /\ \A i \in 1..Len(cs) : /\ SeparatorOf(cs, i) \in Seq({Space, Comma})
                             /\ LegalCandidate(cs[i])
                             /\ CandidateAt(s, cs[i], SeparatorOf(cs, i), q[i - 1], q[i])

\* All candidates of a srcset, one after the other.
LEMMA CandidatesPlaced ==
    ASSUME NEW cs, LegalSrcset(cs)
    PROVE  /\ Len(cs) \in Nat /\ DOMAIN cs = 1..Len(cs)
           /\ RenderSrcset(cs) \in Seq(SrcsetToken)
           /\ \E q : AllPlaced(RenderSrcset(cs), cs, q)
PROOF
  <1> DEFINE n == Len(cs)
             parts == SrcsetParts(cs)
             V == SrcsetToken
             s == RenderSrcset(cs)
  <1>1. n \in Nat /\ DOMAIN cs = 1..n
    BY AsFunctions DEF LegalSrcset, IsSequence
  <1>2. \A i \in 1..n : LegalCandidate(cs[i])
    BY <1>1 DEF LegalSrcset
  <1>3. ASSUME NEW i \in 1..n PROVE SeparatorOf(cs, i) \in Seq({Space, Comma})
    <2>1. cs[i].separator \in {"plain", "tight", "wide"}
      BY <1>2 DEF LegalCandidate
    <2>2. PICK name : name = cs[i].separator
      OBVIOUS
    <2>3. Separators[name] \in Seq({Space, Comma})
      BY <2>1, <2>2, SeparatorsAre
    <2>4. <<>> \in Seq({Space, Comma})
      BY EmptySeq
    <2> QED
      BY <2>2, <2>3, <2>4 DEF SeparatorOf
  <1>4. <<>> \in Seq(V)
    BY EmptySeq
  <1>5. ASSUME NEW i \in 1..n PROVE SeparatorOf(cs, i) \o RenderCandidate(cs[i]) \in Seq(V)
    <2>1. PICK c, sep : c = cs[i] /\ sep = SeparatorOf(cs, i)
      OBVIOUS
    <2>2. LegalCandidate(c) /\ sep \in Seq({Space, Comma})
      BY <1>2, <1>3, <2>1
    <2>3. PICK w : w = (<<>> \o (sep \o RenderCandidate(c))) \o <<>>
      OBVIOUS
    <2>4. Same(w, (<<>> \o (sep \o RenderCandidate(c))) \o <<>>)
      BY <2>3 DEF Same
    <2>5. sep \o RenderCandidate(c) \in Seq(V)
      BY <1>4, <2>2, <2>4, CandidatePlaced
    <2> QED
      BY <2>1, <2>5
  <1>6. parts \in [1..n -> Seq(V)] /\ \A i \in 1..n : parts[i] = SeparatorOf(cs, i) \o RenderCandidate(cs[i])
    BY <1>5 DEF SrcsetParts
  <1>7. s = FlattenSeq(parts)
    BY <1>1 DEF RenderSrcset, SrcsetParts, SeparatorOf
  <1> HIDE DEF parts
  <1>8. PICK f : Joined(f, V, parts, n) /\ FlattenSeq(parts) = f[n]
    <2> HIDE DEF n, V
    <2> QED
      BY <1>1, <1>6, Flattening
  <1> DEFINE q == [i \in 0..n |-> Len(f[i])]
  <1>9. /\ f \in [0..n -> Seq(V)] /\ f[0] = <<>>
        /\ \A i \in 1..n : f[i] = f[i - 1] \o parts[i]
    BY <1>8 DEF Joined
  <1>10. n \in 0..n /\ 0 \in 0..n /\ \A i \in 1..n : i \in 0..n /\ i - 1 \in 0..n
    BY <1>1
  <1>11. s \in Seq(V) /\ s = f[n]
    BY <1>7, <1>8, <1>9, <1>10
  <1> HIDE DEF s, V
  <1>12. q \in [0..n -> Nat] /\ q[0] = 0 /\ q[n] = Len(s)
    <2>1. \A i \in 0..n : Len(f[i]) \in Nat
      BY <1>9, LenProperties
    <2>2. Len(<<>>) = 0
      BY EmptySeq
    <2> QED
      BY <1>9, <1>10, <1>11, <2>1, <2>2
  <1>13. ASSUME NEW i \in 1..n
         PROVE  CandidateAt(s, cs[i], SeparatorOf(cs, i), q[i - 1], q[i])
    <2>1. PICK c, sep, pre, so : c = cs[i] /\ sep = SeparatorOf(cs, i) /\ pre = f[i - 1] /\ so = f[i]
      OBVIOUS
    <2>2. LegalCandidate(c) /\ sep \in Seq({Space, Comma}) /\ pre \in Seq(V)
      BY <1>2, <1>3, <1>9, <1>10, <2>1
    <2>3. so = pre \o (sep \o RenderCandidate(c))
      BY <1>6, <1>9, <2>1
    <2>4. PICK v \in Seq(V) : Same(f[n], f[i] \o v)
      <3>1. i \in 0..n
        BY <1>10
      <3> HIDE DEF n
      <3> QED
        BY <1>1, <1>6, <1>8, <3>1, JoinedRest
    <2>5. Same(s, (pre \o (sep \o RenderCandidate(c))) \o v)
      BY <1>11, <2>1, <2>3, <2>4 DEF Same
    <2>6. pre \in Seq(SrcsetToken) /\ v \in Seq(SrcsetToken)
      BY <2>2 DEF V
    <2>7. CandidateAt(s, c, sep, Len(pre), Len(pre \o (sep \o RenderCandidate(c))))
      BY <2>2, <2>5, <2>6, CandidatePlaced
    <2>8. q[i - 1] = Len(pre) /\ q[i] = Len(so)
      BY <1>10, <2>1
    <2> HIDE DEF q
    <2> QED
      BY <2>1, <2>3, <2>7, <2>8
  <1> HIDE DEF q
  <1>14. AllPlaced(s, cs, q)
    BY <1>2, <1>3, <1>12, <1>13 DEF AllPlaced
  <1> HIDE DEF n
  <1>15. RenderSrcset(cs) \in Seq(SrcsetToken) /\ AllPlaced(RenderSrcset(cs), cs, q)
    BY <1>11, <1>14 DEF s, V
  <1> QED
    BY <1>1, <1>15 DEF n

\* Where the parser is after the i-th candidate.
ReadUpTo(s, cs, q, i) ==
    IF i = 0 THEN 0 ELSE IF i = Len(cs) THEN Len(s) ELSE q[i] + Leading(cs[i + 1])

LEMMA CandidateNumbers ==
    ASSUME NEW X, NEW s \in Seq(X), NEW c, LegalCandidate(c), NEW sep \in Seq({Space, Comma}),
           NEW b, NEW e, CandidateAt(s, c, sep, b, e)
    PROVE  /\ b \in Nat /\ Len(sep) \in Nat /\ Len(c.url) \in Nat \ {0}
           /\ (b + Len(sep)) + Len(c.url) <= Len(s) /\ Len(s) \in Nat
           /\ b \in b..(b + Len(sep))
           /\ SubSeq(s, (b + Len(sep)) + 1, (b + Len(sep)) + Len(c.url)) = c.url
PROOF
  <1>1. PICK a, u, l, g, n, t : a = b + g /\ u = a + l /\ l = Len(t) /\ t = c.url /\ g = Len(sep) /\ n = Len(s)
    OBVIOUS
  <1>2. n \in Nat /\ l \in Nat \ {0} /\ g \in Nat /\ t \in Seq(Token)
    BY <1>1, AsFunctions, LegalUrls DEF LegalCandidate
  <1>3. b \in 0..n /\ e \in u..n /\ \A p \in 1..l : s[a + p] = t[p]
    BY <1>1 DEF CandidateAt
  <1>4. a = b + g /\ u = a + l
    BY <1>1
  <1>5. b \in Nat /\ a \in Nat /\ u \in Nat /\ u <= n /\ b \in b..(b + g)
    BY <1>2, <1>3, <1>4
  <1>6. PICK i : i = a + 1
    OBVIOUS
  <1>7. i \in 1..(n + 1) /\ u \in (i - 1)..n /\ (u - i) + 1 = l
    BY <1>2, <1>4, <1>5, <1>6
  <1>8. PICK part : part = SubSeq(s, i, u)
    OBVIOUS
  <1>9. /\ part \in Seq(X) /\ Len(part) = (u - i) + 1
        /\ \A p \in 1..((u - i) + 1) : part[p] = s[(i + p) - 1]
    <2>1. i \in 1..(Len(s) + 1) /\ u \in (i - 1)..Len(s)
      BY <1>1, <1>7
    <2>2. SubSeq(s, i, u) \in Seq(X) /\ Len(SubSeq(s, i, u)) = (u - i) + 1
      BY <2>1, Slice
    <2>3. \A p \in 1..((u - i) + 1) : SubSeq(s, i, u)[p] = s[(i + p) - 1]
      BY <2>1, Slice
    <2> QED
      BY <1>8, <2>2, <2>3
  <1>10. ASSUME NEW p \in 1..l PROVE part[p] = t[p]
    <2>1. (i + p) - 1 = a + p
      BY <1>2, <1>5, <1>6
    <2> QED
      BY <1>3, <1>7, <1>9, <2>1
  <1>11. part = t
    <2>1. \A p \in 1..l : t[p] \in Token
      BY <1>1, <1>2, AsFunctions
    <2>2. part = [p \in 1..l |-> part[p]]
      BY <1>7, <1>9, AsFunctions
    <2>3. t = [p \in 1..l |-> t[p]]
      BY <1>1, <1>2, AsFunctions
    <2> QED
      BY <1>10, <2>2, <2>3
  <1>12. SubSeq(s, a + 1, u) = t
    BY <1>6, <1>8, <1>11
  <1> QED
    BY <1>1, <1>2, <1>4, <1>5, <1>12

\* The parser goes from each candidate to the next.
LEMMA UrlsInOrder ==
    ASSUME NEW X, NEW s \in Seq(X), NEW cs, LegalSrcset(cs), Len(cs) \in Nat, DOMAIN cs = 1..Len(cs),
           NEW q, AllPlaced(s, cs, q), NEW i \in 1..Len(cs)
    PROVE  LET a == q[i - 1] + Len(SeparatorOf(cs, i))
               u == a + Len(cs[i].url)
           IN  /\ \E z : UrlAt(s, ReadUpTo(s, cs, q, i - 1), a, u, z, ReadUpTo(s, cs, q, i))
               /\ SubSeq(s, a + 1, u) = cs[i].url
PROOF
  <1> DEFINE n == Len(cs)
  <1>1. PICK c, sep, b, e, a, u, m, k :
            /\ c = cs[i] /\ sep = SeparatorOf(cs, i) /\ b = q[i - 1] /\ e = q[i]
            /\ a = b + Len(sep) /\ u = a + Len(c.url)
            /\ m = ReadUpTo(s, cs, q, i - 1) /\ k = ReadUpTo(s, cs, q, i)
    OBVIOUS
  <1>2. /\ LegalCandidate(c) /\ sep \in Seq({Space, Comma}) /\ CandidateAt(s, c, sep, b, e)
        /\ q[0] = 0 /\ q[n] = Len(s)
    BY <1>1 DEF AllPlaced
  <1>3. n \in Nat /\ i \in Nat
    OBVIOUS
  <1>4. ASSUME NEW j \in 1..(n - 1)
        PROVE  /\ LegalCandidate(cs[j + 1]) /\ SeparatorOf(cs, j + 1) = Separators[cs[j + 1].separator]
               /\ CandidateAt(s, cs[j + 1], Separators[cs[j + 1].separator], q[j], q[j + 1])
               /\ cs[j].descriptor = Untyped => cs[j + 1].separator # "tight"
               /\ LegalCandidate(cs[j]) /\ SeparatorOf(cs, j) \in Seq({Space, Comma})
               /\ CandidateAt(s, cs[j], SeparatorOf(cs, j), q[j - 1], q[j])
    <2>1. PICK j1 : j1 = j + 1
      OBVIOUS
    <2>2. j1 \in 1..n /\ j1 \in DOMAIN cs \ {1} /\ j1 - 1 = j /\ j1 # 1 /\ j \in 1..n
      BY <1>3, <2>1
    <2>3. SeparatorOf(cs, j1) = Separators[cs[j1].separator]
      BY <2>2 DEF SeparatorOf
    <2>4. LegalCandidate(cs[j1]) /\ CandidateAt(s, cs[j1], SeparatorOf(cs, j1), q[j1 - 1], q[j1])
      BY <2>2 DEF AllPlaced
    <2>5. cs[j1 - 1].descriptor = Untyped => cs[j1].separator # "tight"
      BY <2>2 DEF LegalSrcset
    <2>6. /\ LegalCandidate(cs[j]) /\ SeparatorOf(cs, j) \in Seq({Space, Comma})
          /\ CandidateAt(s, cs[j], SeparatorOf(cs, j), q[j - 1], q[j])
      BY <2>2 DEF AllPlaced
    <2> QED
      BY <2>1, <2>2, <2>3, <2>4, <2>5, <2>6
  <1> HIDE DEF n
  <1>5. \E z : Follows(s, (b + Len(sep)) + Len(c.url), z, k)
    <2>1. CASE i = n
      <3>1. k = Len(s) /\ e = Len(s)
        <4>1. i # 0
          OBVIOUS
        <4> QED
          BY <1>1, <1>2, <2>1, <4>1 DEF ReadUpTo, n
      <3> QED
        BY <1>2, <3>1, LastFollows
    <2>2. CASE i # n
      <3>1. i \in 1..(n - 1)
        <4>1. i \in 1..n
          BY DEF n
        <4> QED
          BY <1>3, <2>2, <4>1
      <3>2. PICK d : d = cs[i + 1]
        OBVIOUS
      <3>3. /\ LegalCandidate(d) /\ CandidateAt(s, d, Separators[d.separator], e, q[i + 1])
            /\ c.descriptor = Untyped => d.separator # "tight"
        BY <1>1, <1>4, <3>1, <3>2
      <3>4. \E z : Follows(s, (b + Len(sep)) + Len(c.url), z, e + Leading(d))
        BY <1>2, <3>3, NextFollows
      <3>5. k = e + Leading(d)
        <4>1. i # 0
          OBVIOUS
        <4> QED
          BY <1>1, <2>2, <3>2, <4>1 DEF ReadUpTo, n
      <3> QED
        BY <3>4, <3>5
    <2> QED
      BY <2>1, <2>2
  <1>6. m \in b..(b + Len(sep))
    <2>1. CASE i = 1
      <3>1. m = 0 /\ b = 0
        BY <1>1, <1>2, <2>1 DEF ReadUpTo
      <3> QED
        BY <1>2, <3>1, CandidateNumbers
    <2>2. CASE i # 1
      <3>1. PICK j : j = i - 1
        OBVIOUS
      <3>2. j \in 1..(n - 1) /\ j + 1 = i /\ j # 0 /\ j # n
        BY <1>3, <2>2, <3>1 DEF n
      <3>3. /\ LegalCandidate(c) /\ sep = Separators[c.separator] /\ CandidateAt(s, c, Separators[c.separator], b, e)
            /\ cs[j].descriptor = Untyped => c.separator # "tight"
            /\ LegalCandidate(cs[j]) /\ SeparatorOf(cs, j) \in Seq({Space, Comma})
            /\ CandidateAt(s, cs[j], SeparatorOf(cs, j), q[j - 1], b)
        BY <1>1, <1>4, <3>1, <3>2
      <3>4. PICK p, ps, pb : p = cs[j] /\ ps = SeparatorOf(cs, j) /\ pb = q[j - 1]
        OBVIOUS
      <3>5. b + Leading(c) \in b..(b + Len(Separators[c.separator]))
        <4>1. LegalCandidate(p) /\ ps \in Seq({Space, Comma}) /\ CandidateAt(s, p, ps, pb, b)
          BY <3>3, <3>4
        <4>2. p.descriptor = Untyped => c.separator # "tight"
          BY <3>3, <3>4
        <4>3. LegalCandidate(c) /\ CandidateAt(s, c, Separators[c.separator], b, e)
          BY <3>3
        <4> QED
          BY <4>1, <4>2, <4>3, NextFollows
      <3>6. m = b + Leading(c)
        BY <1>1, <3>1, <3>2 DEF ReadUpTo, n
      <3> QED
        BY <3>3, <3>5, <3>6
    <2> QED
      BY <2>1, <2>2
  <1>7. PICK z : Follows(s, (b + Len(sep)) + Len(c.url), z, k)
    BY <1>5
  <1>8. UrlAt(s, m, b + Len(sep), (b + Len(sep)) + Len(c.url), z, k)
    BY <1>2, <1>6, <1>7, UrlPlaced
  <1>9. SubSeq(s, (b + Len(sep)) + 1, (b + Len(sep)) + Len(c.url)) = c.url
    BY <1>2, CandidateNumbers
  <1> QED
    BY <1>1, <1>8, <1>9

\* The URLs after the i-th candidate.
UrlsFrom(cs, i) == {cs[j].url : j \in {k \in DOMAIN cs : k > i}}

\* A srcset is read as it is written.
LEMMA SrcsetParsed ==
    ASSUME NEW cs, LegalSrcset(cs)
    PROVE  /\ ParseSrcset(RenderSrcset(cs)) \in Seq(Seq(SrcsetToken))
           /\ ToSet(ParseSrcset(RenderSrcset(cs))) = {cs[i].url : i \in DOMAIN cs}
PROOF
  <1>1. PICK s : s = RenderSrcset(cs)
    OBVIOUS
  <1> DEFINE n == Len(cs)
             L == Len(s)
             V == SrcsetToken
  <1>2. n \in Nat /\ DOMAIN cs = 1..n /\ s \in Seq(V)
    BY <1>1, CandidatesPlaced
  <1>3. PICK q : AllPlaced(s, cs, q)
    BY <1>1, CandidatesPlaced
  <1>4. PICK f : Parses(f, s) /\ ParseSrcset(s) = f[L]
    BY <1>2, ParseUnfolds
  <1>5. L \in Nat /\ f[0] = <<>> /\ <<>> \in Seq(Seq(V)) /\ ToSet(<<>>) = {}
    <2>1. L \in Nat
      BY <1>2, LenProperties
    <2>2. FirstUrl(s, 0) = <<>>
      <3>1. 0 \in 0..Len(s) /\ ~ \E i : i \in 0..(0 - 1)
        BY <2>1
      <3> QED
        BY <1>2, <3>1, ParseTypes
    <2>3. f[0] = <<>>
      <3>1. 0 \in 0..Len(s)
        BY <2>1
      <3> QED
        BY <1>4, <2>2, <3>1 DEF Parses
    <2>4. ToSet(<<>>) = {}
      BY DEF ToSet
    <2> QED
      BY <2>1, <2>3, <2>4, EmptySeq
  <1> DEFINE at(i) == L - ReadUpTo(s, cs, q, i)
             D == {k \in 0..n : f[at(n - k)] \in Seq(Seq(V)) /\ ToSet(f[at(n - k)]) = UrlsFrom(cs, n - k)}
  <1>6. 0 \in D
    <2>1. at(n) = 0
      <3>1. n = 0 => L = 0
        BY <1>3 DEF AllPlaced
      <3>2. ReadUpTo(s, cs, q, n) = IF n = 0 THEN 0 ELSE L
        BY DEF ReadUpTo
      <3> QED
        BY <1>5, <3>1, <3>2
    <2>2. UrlsFrom(cs, n) = {}
      BY <1>2 DEF UrlsFrom
    <2>3. n - 0 = n /\ 0 \in 0..n
      BY <1>2
    <2> HIDE DEF at
    <2> QED
      BY <1>5, <2>1, <2>2, <2>3
  <1>7. ASSUME NEW k \in 1..n, k - 1 \in D PROVE k \in D
    <2>1. PICK i, h : i = n - k /\ h = i + 1
      OBVIOUS
    <2>2. i \in 0..(n - 1) /\ h \in 1..n /\ h - 1 = i /\ n - (k - 1) = h /\ k \in 0..n /\ i \in Nat
      BY <1>2, <2>1
    <2>3. f[at(h)] \in Seq(Seq(V)) /\ ToSet(f[at(h)]) = UrlsFrom(cs, h)
      BY <1>7, <2>2
    <2>4. PICK a, u, m, c, url :
            /\ a = q[h - 1] + Len(SeparatorOf(cs, h)) /\ u = a + Len(cs[h].url) /\ url = cs[h].url
            /\ m = ReadUpTo(s, cs, q, h - 1) /\ c = ReadUpTo(s, cs, q, h)
      OBVIOUS
    <2>5. (\E z : UrlAt(s, m, a, u, z, c)) /\ SubSeq(s, a + 1, u) = url
      <3>1. LET a_ == q[h - 1] + Len(SeparatorOf(cs, h))
                u_ == a_ + Len(cs[h].url)
            IN  /\ \E z : UrlAt(s, ReadUpTo(s, cs, q, h - 1), a_, u_, z, ReadUpTo(s, cs, q, h))
                /\ SubSeq(s, a_ + 1, u_) = cs[h].url
        <4> HIDE DEF at, D, V
        <4> QED
          BY <1>2, <1>3, <2>2, UrlsInOrder, SMTT(30)
      <3> QED
        BY <2>4, <3>1
    <2>6. PICK z : UrlAt(s, m, a, u, z, c)
      BY <2>5
    <2>7. /\ L - m \in 0..L /\ Same(FirstUrl(s, L - m), SubSeq(s, a + 1, u))
          /\ FirstUrl(s, L - m) # <<>> /\ NextUrl(s, L - m) = L - c
      BY <1>2, <2>6, ParseStep
    <2>8. FirstUrl(s, L - m) \in Seq(V) /\ FirstUrl(s, L - m) = url
      BY <1>2, <2>5, <2>7, ParseTypes DEF Same
    <2>9. f[L - m] = <<url>> \o f[L - c]
      <3>1. f[L - m] = IF FirstUrl(s, L - m) = <<>> THEN <<>> ELSE <<FirstUrl(s, L - m)>> \o f[NextUrl(s, L - m)]
        BY <1>4, <2>7 DEF Parses
      <3> QED
        BY <2>7, <2>8, <3>1
    <2>10. PICK rest : rest = f[L - c]
      OBVIOUS
    <2>11. rest \in Seq(Seq(V)) /\ ToSet(rest) = UrlsFrom(cs, h)
      BY <2>3, <2>4, <2>10
    <2>12. <<url>> \in Seq(Seq(V)) /\ ToSet(<<url>>) = {url}
      BY <2>8 DEF ToSet
    <2>13. <<url>> \o rest \in Seq(Seq(V)) /\ ToSet(<<url>> \o rest) = {url} \cup UrlsFrom(cs, h)
      <3>1. PICK one : one = <<url>>
        OBVIOUS
      <3>2. one \in Seq(Seq(V)) /\ ToSet(one) = {url}
        BY <2>12, <3>1
      <3>3. one \o rest \in Seq(Seq(V))
        BY <2>11, <3>2, Joining
      <3>4. ToSet(one \o rest) = ToSet(one) \cup ToSet(rest)
        BY <2>11, <3>2, Joining
      <3> QED
        BY <2>11, <3>1, <3>2, <3>3, <3>4
    <2>14. UrlsFrom(cs, i) = {url} \cup UrlsFrom(cs, h)
      <3>1. {j \in 1..n : j > i} = {h} \cup {j \in 1..n : j > h}
        BY <1>2, <2>1, <2>2
      <3> QED
        BY <1>2, <2>4, <3>1 DEF UrlsFrom
    <2>15. f[at(i)] \in Seq(Seq(V)) /\ ToSet(f[at(i)]) = UrlsFrom(cs, i)
      BY <2>2, <2>4, <2>9, <2>10, <2>13, <2>14
    <2> HIDE DEF at
    <2> QED
      BY <2>1, <2>2, <2>15
  <1>8. n \in D
    <2>1. n \in 0..n
      BY <1>2
    <2> HIDE DEF D, n, at
    <2> QED
      BY <1>2, <1>6, <1>7, <2>1, Upwards
  <1>9. at(0) = L /\ n - n = 0 /\ UrlsFrom(cs, 0) = {cs[i].url : i \in DOMAIN cs}
    <2>1. ReadUpTo(s, cs, q, 0) = 0
      BY DEF ReadUpTo
    <2>2. {k \in DOMAIN cs : k > 0} = DOMAIN cs
      BY <1>2
    <2> QED
      BY <1>2, <1>5, <2>1, <2>2 DEF UrlsFrom
  <1> HIDE DEF at
  <1>10. f[L] \in Seq(Seq(V)) /\ ToSet(f[L]) = UrlsFrom(cs, 0)
    BY <1>8, <1>9
  <1> QED
    BY <1>1, <1>4, <1>9, <1>10

-----------------------------------------------------------------------------
\* The items of elements.

\* Sequences of whatever type.
LEMMA AnySequence ==
    ASSUME NEW X, NEW s \in Seq(X)
    PROVE  IsSequence(s)
PROOF
  <1> DEFINE n == Len(s)
  <1>1. n \in Nat /\ DOMAIN s = 1..n /\ s = [i \in 1..n |-> s[i]]
    BY AsFunctions
  <1>2. \A i \in 1..n : s[i] \in ToSet(s)
    BY <1>1 DEF ToSet
  <1>3. [i \in 1..n |-> s[i]] \in Seq(ToSet(s))
    <2> HIDE DEF n
    <2> QED
      BY <1>1, <1>2, IsASeq
  <1> QED
    BY <1>1, <1>3 DEF IsSequence

LEMMA Tabled ==
    ASSUME NEW n \in Nat, NEW t, t = [i \in 1..n |-> t[i]]
    PROVE  /\ IsSequence(t) /\ DOMAIN t = 1..n
           /\ ToSet(t) = {t[i] : i \in 1..n}
PROOF
  <1>1. DOMAIN t = 1..n
    OBVIOUS
  <1>2. ToSet(t) = {t[i] : i \in 1..n}
    BY <1>1 DEF ToSet
  <1>3. \A i \in 1..n : t[i] \in ToSet(t)
    BY <1>2
  <1>4. [i \in 1..n |-> t[i]] \in Seq(ToSet(t))
    BY <1>3, IsASeq
  <1> QED
    BY <1>1, <1>2, <1>4 DEF IsSequence

LEMMA OneOrNone ==
    ASSUME NEW x
    PROVE  /\ IsSequence(<<x>>) /\ ToSet(<<x>>) = {x}
           /\ IsSequence(<<>>) /\ ToSet(<<>>) = {}
PROOF
  <1>1. ToSet(<<x>>) = {x} /\ ToSet(<<>>) = {}
    BY DEF ToSet
  <1>2. <<x>> \in Seq({x}) /\ <<>> \in Seq({})
    OBVIOUS
  <1> QED
    BY <1>1, <1>2 DEF IsSequence

LEMMA SequencesJoin ==
    ASSUME NEW s, IsSequence(s), NEW t, IsSequence(t)
    PROVE  IsSequence(s \o t) /\ ToSet(s \o t) = ToSet(s) \cup ToSet(t)
PROOF
  <1>1. PICK X : X = ToSet(s) \cup ToSet(t)
    OBVIOUS
  <1>2. s \in Seq(X)
    BY <1>1, WiderSeq DEF IsSequence
  <1>3. t \in Seq(X)
    BY <1>1, WiderSeq DEF IsSequence
  <1>4. s \o t \in Seq(X)
    BY <1>2, <1>3, Joining
  <1>5. ToSet(s \o t) = ToSet(s) \cup ToSet(t)
    BY <1>2, <1>3, Joining
  <1> QED
    BY <1>4, <1>5, AnySequence

LEMMA SequencesFlatten ==
    ASSUME NEW n \in Nat, NEW parts, parts = [i \in 1..n |-> parts[i]],
           \A i \in 1..n : IsSequence(parts[i])
    PROVE  /\ IsSequence(FlattenSeq(parts))
           /\ ToSet(FlattenSeq(parts)) = SetOf(parts, n)
           /\ parts \in [1..n -> Seq(SetOf(parts, n))]
PROOF
  <1>1. PICK X : X = SetOf(parts, n)
    OBVIOUS
  <1>2. ASSUME NEW i \in 1..n PROVE parts[i] \in Seq(X)
    <2>1. ToSet(parts[i]) \subseteq X
      BY <1>1 DEF SetOf
    <2>2. PICK s : s = parts[i]
      OBVIOUS
    <2>3. s \in Seq(ToSet(s)) /\ ToSet(s) \subseteq X
      BY <2>1, <2>2 DEF IsSequence
    <2>4. s \in Seq(X)
      BY <2>3, WiderSeq
    <2> QED
      BY <2>2, <2>4
  <1>3. parts \in [1..n -> Seq(X)]
    BY <1>2
  <1>4. FlattenSeq(parts) \in Seq(X) /\ ToSet(FlattenSeq(parts)) = SetOf(parts, n)
    BY <1>3, FlattenedSet
  <1> QED
    BY <1>1, <1>3, <1>4, AnySequence

\* The items of elements are those of the sequences that are not empty.
LEMMA ItemsOfSet ==
    ASSUME NEW s
    PROVE  ItemsOf(s) = UNION {ToSet(x) : x \in ToSet(s)}
PROOF
  <1> DEFINE set(x) == ToSet(x)
  <1>1. ToSet(s) = {s[i] : i \in DOMAIN s}
    BY DEF ToSet
  <1>2. ItemsOf(s) = UNION {set(s[i]) : i \in DOMAIN s}
    BY DEF ItemsOf
  <1>3. {set(s[i]) : i \in DOMAIN s} = {set(x) : x \in ToSet(s)}
    <2> HIDE DEF set
    <2> QED
      BY <1>1
  <1> QED
    BY <1>2, <1>3

LEMMA NonEmptyItems ==
    ASSUME NEW s, IsSequence(s)
    PROVE  IsSequence(NonEmpty(s)) /\ ItemsOf(NonEmpty(s)) = ItemsOf(s)
PROOF
  <1> DEFINE kept == ToSet(s) \ {<<>>}
  <1>1. Those(s, kept) \in Seq(ToSet(s)) /\ ToSet(Those(s, kept)) = ToSet(s) \cap kept
    BY ThoseKept DEF IsSequence
  <1>2. NonEmpty(s) = Those(s, kept)
    BY DEF NonEmpty
  <1>3. ToSet(NonEmpty(s)) = ToSet(s) \ {<<>>}
    BY <1>1, <1>2
  <1>4. ToSet(<<>>) = {}
    BY OneOrNone
  <1>5. PICK S, T : S = ToSet(s) /\ T = ToSet(NonEmpty(s))
    OBVIOUS
  <1>6. UNION {ToSet(x) : x \in T} = UNION {ToSet(x) : x \in S}
    <2> DEFINE set(x) == ToSet(x)
    <2>1. set(<<>>) = {} /\ T = S \ {<<>>}
      BY <1>3, <1>4, <1>5
    <2> HIDE DEF set
    <2>2. UNION {set(x) : x \in T} = UNION {set(x) : x \in S}
      BY <2>1
    <2> QED
      BY <2>2 DEF set
  <1> QED
    BY <1>1, <1>2, <1>5, <1>6, ItemsOfSet, AnySequence

LEMMA ItemsJoin ==
    ASSUME NEW s, IsSequence(s), NEW t, IsSequence(t)
    PROVE  ItemsOf(s \o t) = ItemsOf(s) \cup ItemsOf(t)
PROOF
  <1>1. ToSet(s \o t) = ToSet(s) \cup ToSet(t)
    BY SequencesJoin
  <1> DEFINE set(x) == ToSet(x)
  <1>2. PICK S, T : S = ToSet(s) /\ T = ToSet(t)
    OBVIOUS
  <1>3. UNION {set(x) : x \in S \cup T} = (UNION {set(x) : x \in S}) \cup (UNION {set(x) : x \in T})
    <2> HIDE DEF set
    <2> QED
      OBVIOUS
  <1> QED
    BY <1>1, <1>2, <1>3, ItemsOfSet

LEMMA Repeated ==
    ASSUME NEW n \in Nat, NEW x
    PROVE  /\ IsSequence([i \in 1..n |-> x])
           /\ ToSet([i \in 1..n |-> x]) = IF n = 0 THEN {} ELSE {x}
PROOF
  <1>1. PICK t : t = [i \in 1..n |-> x]
    OBVIOUS
  <1>2. t = [i \in 1..n |-> t[i]] /\ \A i \in 1..n : t[i] = x
    BY <1>1
  <1>3. IsSequence(t) /\ ToSet(t) = {t[i] : i \in 1..n}
    BY <1>2, Tabled
  <1>4. {t[i] : i \in 1..n} = IF n = 0 THEN {} ELSE {x}
    <2>1. CASE n = 0
      BY <2>1
    <2>2. CASE n # 0
      <3>1. 1 \in 1..n
        BY <2>2
      <3> QED
        BY <1>2, <2>2, <3>1
    <2> QED
      BY <2>1, <2>2
  <1> QED
    BY <1>1, <1>3, <1>4

LEMMA Names ==
    ASSUME NEW pairs, IsFiniteSet(pairs)
    PROVE  /\ Cardinality({p[1] : p \in pairs}) \in Nat
           /\ Cardinality({p[1] : p \in pairs}) = 0 <=> pairs = {}
PROOF
  <1> DEFINE names == {p[1] : p \in pairs}
  <1>1. IsFiniteSet(names)
    <2> DEFINE g == [p \in pairs |-> p[1]]
    <2>1. g \in Surjection(pairs, names)
      BY DEF Surjection
    <2> HIDE DEF g, names
    <2> QED
      BY <2>1, FS_Surjection
  <1>2. names = {} <=> pairs = {}
    OBVIOUS
  <1> HIDE DEF names
  <1>3. Cardinality(names) \in Nat /\ (Cardinality(names) = 0 <=> names = {})
    BY <1>1, FS_CardinalityType, FS_EmptySet
  <1> QED
    BY <1>2, <1>3 DEF names

\* There is an item for an element in error.
LEMMA ErrorsTold ==
    ASSUME NEW errors, LegalErrors(errors)
    PROVE  /\ IsSequence(MarkupItems(errors))
           /\ ToSet(MarkupItems(errors)) = ErrorIf(errors # NoErrors)
PROOF
  <1>1. CASE errors = NoErrors
    <2>1. errors.kind = "ok"
      BY <1>1 DEF NoErrors
    <2>2. MarkupItems(errors) = [i \in 1..0 |-> ErrorItem]
      BY <2>1 DEF MarkupItems
    <2>3. IsSequence([i \in 1..0 |-> ErrorItem]) /\ ToSet([i \in 1..0 |-> ErrorItem]) = {}
      BY Repeated
    <2>4. ErrorIf(errors # NoErrors) = {}
      BY <1>1 DEF ErrorIf
    <2> QED
      BY <2>2, <2>3, <2>4
  <1>2. CASE errors.kind = "unknownTag"
    <2>1. errors # NoErrors
      <3>1. NoErrors.kind = "ok"
        BY DEF NoErrors
      <3> QED
        BY <1>2, <3>1
    <2>2. MarkupItems(errors) = [i \in 1..1 |-> ErrorItem]
      BY <1>2 DEF MarkupItems
    <2>3. IsSequence([i \in 1..1 |-> ErrorItem]) /\ ToSet([i \in 1..1 |-> ErrorItem]) = {ErrorItem}
      <3>1. PICK k \in Nat : k = 1
        OBVIOUS
      <3>2. IsSequence([i \in 1..k |-> ErrorItem])
            /\ ToSet([i \in 1..k |-> ErrorItem]) = IF k = 0 THEN {} ELSE {ErrorItem}
        BY Repeated
      <3> QED
        BY <3>1, <3>2
    <2>4. ErrorIf(errors # NoErrors) = {ErrorItem}
      BY <2>1 DEF ErrorIf
    <2> QED
      BY <2>2, <2>3, <2>4
  <1>3. CASE errors.kind = "invalid" /\ errors # NoErrors
    <2>1. /\ IsFiniteSet(errors.attributes) /\ IsFiniteSet(errors.children)
          /\ \/ errors.attributes # {} \/ errors.children # {}
             \/ errors.missingAttributes # {} \/ errors.missingChildren # {}
      BY <1>3 DEF LegalErrors
    <2>2. PICK a, b, c, d : /\ a = Cardinality({p[1] : p \in errors.attributes})
                            /\ b = Cardinality({p[1] : p \in errors.children})
                            /\ c = (IF errors.missingAttributes = {} THEN 0 ELSE 1)
                            /\ d = (IF errors.missingChildren = {} THEN 0 ELSE 1)
      OBVIOUS
    <2>3. a \in Nat /\ (a = 0 <=> errors.attributes = {})
      BY <2>1, <2>2, Names
    <2>4. b \in Nat /\ (b = 0 <=> errors.children = {})
      BY <2>1, <2>2, Names
    <2>5. MarkupItems(errors) = [i \in 1..(a + b + c + d) |-> ErrorItem]
      BY <1>3, <2>2 DEF MarkupItems
    <2>6. a + b + c + d \in Nat /\ a + b + c + d # 0
      <3>1. c \in Nat /\ d \in Nat
        BY <2>2
      <3>2. a # 0 \/ b # 0 \/ c # 0 \/ d # 0
        BY <2>1, <2>2, <2>3, <2>4
      <3> QED
        BY <2>3, <2>4, <3>1, <3>2
    <2>7. PICK n : n = a + b + c + d
      OBVIOUS
    <2>8. /\ IsSequence([i \in 1..n |-> ErrorItem])
          /\ ToSet([i \in 1..n |-> ErrorItem]) = {ErrorItem}
      BY <2>6, <2>7, Repeated
    <2> QED
      BY <1>3, <2>5, <2>7, <2>8 DEF ErrorIf
  <1> QED
    BY <1>1, <1>2, <1>3 DEF LegalErrors

\* The attributes and the node of an element.
AttributesOf(e) ==
    IF e.candidates = <<>> THEN e.attributes
    ELSE [key \in DOMAIN e.attributes \cup {"srcset"} |->
            IF key = "srcset" THEN RenderSrcset(e.candidates) ELSE e.attributes[key]]

NodeOf(e) == Node(e.depth, e.name, AttributesOf(e), e.errors)

LEMMA NodeIs ==
    ASSUME NEW e
    PROVE  /\ NodeOf(e).kind = "element" /\ NodeOf(e).depth = e.depth /\ NodeOf(e).name = e.name
           /\ NodeOf(e).namespace = SvgNamespace /\ NodeOf(e).attributes = AttributesOf(e)
           /\ NodeOf(e).errors = e.errors
BY DEF NodeOf, Node

LEMMA AttributesKept ==
    ASSUME NEW e, LegalElement(e)
    PROVE  /\ \A key : key # "srcset" => (key \in DOMAIN AttributesOf(e) <=> key \in DOMAIN e.attributes)
           /\ \A key \in DOMAIN e.attributes : AttributesOf(e)[key] = e.attributes[key]
           /\ "srcset" \in DOMAIN AttributesOf(e) <=> e.candidates # <<>>
           /\ e.candidates # <<>> => AttributesOf(e)["srcset"] = RenderSrcset(e.candidates)
PROOF
  <1>1. "srcset" \notin DOMAIN e.attributes
    BY DEF LegalElement
  <1>2. CASE e.candidates = <<>>
    <2>1. AttributesOf(e) = e.attributes
      BY <1>2 DEF AttributesOf
    <2> QED
      BY <1>1, <1>2, <2>1
  <1>3. CASE e.candidates # <<>>
    <2>1. PICK g, D : D = DOMAIN e.attributes /\ g = AttributesOf(e)
      OBVIOUS
    <2>2. g = [key \in D \cup {"srcset"} |->
            IF key = "srcset" THEN RenderSrcset(e.candidates) ELSE e.attributes[key]]
      BY <1>3, <2>1 DEF AttributesOf
    <2>3. /\ DOMAIN g = D \cup {"srcset"}
          /\ g["srcset"] = RenderSrcset(e.candidates)
          /\ \A key \in D : key # "srcset" => g[key] = e.attributes[key]
      BY <2>2
    <2> QED
      BY <1>1, <1>3, <2>1, <2>3
  <1> QED
    BY <1>2, <1>3

LEMMA ValuesOf ==
    ASSUME NEW e, NEW key
    PROVE  Values(e, {key}) = IF key \in DOMAIN e.attributes THEN {e.attributes[key]} ELSE {}
PROOF
  <1>1. PICK D, g : D = DOMAIN e.attributes /\ g = e.attributes
    OBVIOUS
  <1>2. {g[n] : n \in D \cap {key}} = IF key \in D THEN {g[key]} ELSE {}
    OBVIOUS
  <1> QED
    BY <1>1, <1>2 DEF Values

\* The links of an element's href attributes.
LEMMA HrefsTold ==
    ASSUME NEW e, LegalElement(e), NEW base
    PROVE  /\ IsSequence(HrefItems(NodeOf(e), base))
           /\ ToSet(HrefItems(NodeOf(e), base))
                = {Item(Join(base, v), Untyped) : v \in Values(e, {"href", "xlink:href"})}
PROOF
  <1> DEFINE g == AttributesOf(e)
             keys == Those(HrefAttributes, DOMAIN g)
             n == Len(keys)
             item(v) == Item(Join(base, v), Untyped)
             names == {"href", "xlink:href"}
  <1>1. HrefAttributes \in Seq(names) /\ ToSet(HrefAttributes) = names
    BY DEF HrefAttributes, ToSet
  <1>2. keys \in Seq(names) /\ ToSet(keys) = names \cap DOMAIN g
    <2> HIDE DEF names
    <2> QED
      BY <1>1, ThoseKept
  <1>3. n \in Nat /\ DOMAIN keys = 1..n
    BY <1>2, AsFunctions
  <1>4. PICK t : t = HrefItems(NodeOf(e), base)
    OBVIOUS
  <1>5. t = [i \in 1..n |-> item(g[keys[i]])]
    <2>1. HrefItems(NodeOf(e), base) = [i \in DOMAIN keys |-> item(NodeOf(e).attributes[keys[i]])]
      BY NodeIs DEF HrefItems
    <2> HIDE DEF keys
    <2> QED
      BY <1>3, <1>4, <2>1, NodeIs
  <1> HIDE DEF keys, n, g, item
  <1>6. t = [i \in 1..n |-> t[i]] /\ \A i \in 1..n : t[i] = item(g[keys[i]])
    BY <1>5
  <1>7. IsSequence(t) /\ ToSet(t) = {t[i] : i \in 1..n}
    BY <1>3, <1>6, Tabled
  <1>8. {t[i] : i \in 1..n} = {item(g[key]) : key \in names \cap DOMAIN g}
    <2>1. {keys[i] : i \in 1..n} = names \cap DOMAIN g
      BY <1>2, <1>3 DEF ToSet
    <2>2. {item(g[keys[i]]) : i \in 1..n} = {item(g[key]) : key \in {keys[i] : i \in 1..n}}
      OBVIOUS
    <2> HIDE DEF names
    <2> QED
      BY <1>6, <2>1, <2>2
  <1>9. /\ names \cap DOMAIN g = names \cap DOMAIN e.attributes
        /\ \A key \in names \cap DOMAIN g : g[key] = e.attributes[key]
    <2>1. "srcset" \notin names
      OBVIOUS
    <2> HIDE DEF names
    <2> QED
      BY <2>1, AttributesKept DEF g
  <1>10. {item(g[key]) : key \in names \cap DOMAIN g} = {item(v) : v \in Values(e, names)}
    <2>1. Values(e, names) = {e.attributes[k] : k \in names \cap DOMAIN e.attributes}
      BY DEF Values
    <2> HIDE DEF names
    <2> QED
      BY <1>9, <2>1
  <1> QED
    BY <1>4, <1>7, <1>8, <1>10 DEF item

\* The items of links that are meant.
Told(base, links) == {Item(Join(base, l[1]), l[2]) : l \in links}

LEMMA ToldOf ==
    ASSUME NEW base, NEW S, NEW type
    PROVE  Told(base, S \X {type}) = {Item(Join(base, v), type) : v \in S}
PROOF
  <1> DEFINE item(v) == Item(Join(base, v), type)
  <1>1. \A l \in S \X {type} : l[1] \in S /\ l[2] = type
    OBVIOUS
  <1>2. \A v \in S : <<v, type>> \in S \X {type} /\ <<v, type>>[1] = v /\ <<v, type>>[2] = type
    OBVIOUS
  <1>3. \A l \in S \X {type} : Item(Join(base, l[1]), l[2]) = item(l[1])
    BY <1>1
  <1>4. Told(base, S \X {type}) = {item(l[1]) : l \in S \X {type}}
    BY <1>3 DEF Told
  <1>5. {l[1] : l \in S \X {type}} = S
    BY <1>1, <1>2
  <1>6. {item(l[1]) : l \in S \X {type}} = {item(v) : v \in {l[1] : l \in S \X {type}}}
    <2> HIDE DEF item
    <2> QED
      OBVIOUS
  <1> HIDE DEF item
  <1>7. Told(base, S \X {type}) = {item(v) : v \in S}
    BY <1>4, <1>5, <1>6
  <1> QED
    BY <1>7 DEF item

LEMMA UnknownTexts ==
    ASSUME NEW value
    PROVE  /\ value = <<"sitemap">> => value # <<"stylesheet">>
PROOF
  <1>1. <<"sitemap">>[1] = "sitemap" /\ <<"stylesheet">>[1] = "stylesheet"
    OBVIOUS
  <1> QED
    BY <1>1

\* Elements of each kind tell the links that they are meant to.
LEMMA LinkElementTold ==
    ASSUME NEW e, LegalElement(e), NEW base, e.name = "link"
    PROVE  /\ IsSequence(HtmlLinks(NodeOf(e), base))
           /\ ToSet(HtmlLinks(NodeOf(e), base)) = Told(base, MeantLinks(e))
PROOF
  <1>1. PICK D, g, x : D = DOMAIN e.attributes /\ g = e.attributes /\ x = NodeOf(e)
    OBVIOUS
  <1>2. /\ x.name = "link" /\ x.attributes = AttributesOf(e)
        /\ Has(x, "rel") <=> "rel" \in D
        /\ Has(x, "href") <=> "href" \in D
        /\ "rel" \in D => x.attributes["rel"] = g["rel"]
        /\ "href" \in D => x.attributes["href"] = g["href"]
    BY <1>1, NodeIs, AttributesKept DEF Has
  <1> DEFINE relations == Values(e, {"rel"})
             meant == IF <<"stylesheet">> \in relations THEN "css"
                      ELSE IF <<"sitemap">> \in relations THEN "sitemap" ELSE Untyped
             S == IF relations \cap OriginRelations # {} THEN {} ELSE Values(e, {"href"})
  <1>3. relations = IF "rel" \in D THEN {g["rel"]} ELSE {}
    BY <1>1, ValuesOf
  <1>4. Values(e, {"href"}) = IF "href" \in D THEN {g["href"]} ELSE {}
    BY <1>1, ValuesOf
  <1>5. RelationType(x) = meant
    <2>1. RelationType(x) = IF "rel" \in D
                            THEN IF g["rel"] = <<"sitemap">> THEN "sitemap"
                                 ELSE IF g["rel"] = <<"stylesheet">> THEN "css" ELSE Untyped
                            ELSE Untyped
      BY <1>2 DEF RelationType
    <2>2. PICK r : r = g["rel"]
      OBVIOUS
    <2>3. r = <<"sitemap">> => r # <<"stylesheet">>
      BY UnknownTexts
    <2>4. PICK a, b : a = <<"sitemap">> /\ b = <<"stylesheet">>
      OBVIOUS
    <2> HIDE DEF relations
    <2> QED
      BY <1>3, <2>1, <2>2, <2>3, <2>4
  <1>6. MeantLinks(e) = S \X {meant}
    BY DEF MeantLinks
  <1>7. Told(base, MeantLinks(e)) = {Item(Join(base, v), meant) : v \in S}
    <2> HIDE DEF S, meant
    <2> QED
      BY <1>6, ToldOf
  <1>8. HtmlLinks(x, base) =
            IF "href" \in D /\ ~("rel" \in D /\ g["rel"] \in OriginRelations)
            THEN <<Item(Join(base, g["href"]), RelationType(x))>> ELSE <<>>
    BY <1>2 DEF HtmlLinks
  <1>9. S = IF "href" \in D /\ ~("rel" \in D /\ g["rel"] \in OriginRelations) THEN {g["href"]} ELSE {}
    <2> HIDE DEF relations
    <2> QED
      BY <1>3, <1>4
  <1> HIDE DEF S, meant, relations
  <1>10. CASE "href" \in D /\ ~("rel" \in D /\ g["rel"] \in OriginRelations)
    <2>1. PICK item : item = Item(Join(base, g["href"]), meant)
      OBVIOUS
    <2>2. HtmlLinks(x, base) = <<item>>
      BY <1>5, <1>8, <1>10, <2>1
    <2>3. Told(base, MeantLinks(e)) = {item}
      BY <1>7, <1>9, <1>10, <2>1
    <2> QED
      BY <1>1, <2>2, <2>3, OneOrNone
  <1>11. CASE ~("href" \in D /\ ~("rel" \in D /\ g["rel"] \in OriginRelations))
    <2>1. HtmlLinks(x, base) = <<>>
      BY <1>8, <1>11
    <2>2. Told(base, MeantLinks(e)) = {}
      BY <1>7, <1>9, <1>11
    <2> QED
      BY <1>1, <2>1, <2>2, OneOrNone
  <1> QED
    BY <1>10, <1>11

LEMMA MetaElementTold ==
    ASSUME NEW e, LegalElement(e), NEW base, e.name = "meta"
    PROVE  /\ IsSequence(HtmlLinks(NodeOf(e), base))
           /\ ToSet(HtmlLinks(NodeOf(e), base)) = Told(base, MeantLinks(e))
PROOF
  <1>1. PICK D, g, x : D = DOMAIN e.attributes /\ g = e.attributes /\ x = NodeOf(e)
    OBVIOUS
  <1>2. /\ x.name = "meta" /\ x.attributes = AttributesOf(e)
        /\ Has(x, "property") <=> "property" \in D
        /\ Has(x, "content") <=> "content" \in D
        /\ "property" \in D => x.attributes["property"] = g["property"]
        /\ "content" \in D => x.attributes["content"] = g["content"]
    BY <1>1, NodeIs, AttributesKept DEF Has
  <1> DEFINE S == IF Values(e, {"property"}) \cap LinkProperties = {} THEN {} ELSE Values(e, {"content"})
             told == "content" \in D /\ "property" \in D /\ g["property"] \in LinkProperties
  <1>3. Values(e, {"property"}) = IF "property" \in D THEN {g["property"]} ELSE {}
    BY <1>1, ValuesOf
  <1>4. Values(e, {"content"}) = IF "content" \in D THEN {g["content"]} ELSE {}
    BY <1>1, ValuesOf
  <1>5. MeantLinks(e) = S \X {Untyped}
    BY DEF MeantLinks
  <1>6. Told(base, MeantLinks(e)) = {Item(Join(base, v), Untyped) : v \in S}
    <2> HIDE DEF S
    <2> QED
      BY <1>5, ToldOf
  <1>7. HtmlLinks(x, base) = IF told THEN <<Item(Join(base, g["content"]), Untyped)>> ELSE <<>>
    BY <1>2 DEF HtmlLinks
  <1>8. S = IF told THEN {g["content"]} ELSE {}
    BY <1>3, <1>4
  <1> HIDE DEF S, told
  <1>9. CASE told
    <2>1. PICK item : item = Item(Join(base, g["content"]), Untyped)
      OBVIOUS
    <2>2. HtmlLinks(x, base) = <<item>>
      BY <1>7, <1>9, <2>1
    <2>3. Told(base, MeantLinks(e)) = {item}
      BY <1>6, <1>8, <1>9, <2>1
    <2> QED
      BY <1>1, <2>2, <2>3, OneOrNone
  <1>10. CASE ~told
    <2>1. HtmlLinks(x, base) = <<>>
      BY <1>7, <1>10
    <2>2. Told(base, MeantLinks(e)) = {}
      BY <1>6, <1>8, <1>10
    <2> QED
      BY <1>1, <2>1, <2>2, OneOrNone
  <1> QED
    BY <1>9, <1>10

LEMMA BaseElementTold ==
    ASSUME NEW e, NEW base, e.name = "base"
    PROVE  /\ IsSequence(HtmlLinks(NodeOf(e), base))
           /\ ToSet(HtmlLinks(NodeOf(e), base)) = Told(base, MeantLinks(e))
PROOF
  <1>1. HtmlLinks(NodeOf(e), base) = <<>>
    BY NodeIs DEF HtmlLinks
  <1>2. MeantLinks(e) = {}
    BY DEF MeantLinks
  <1>3. Told(base, {}) = {}
    BY DEF Told
  <1> QED
    BY <1>1, <1>2, <1>3, OneOrNone

\* The items of the URLs of a srcset.
LEMMA UrlItems ==
    ASSUME NEW urls, IsSequence(urls), NEW base
    PROVE  LET items == [i \in DOMAIN urls |-> Item(Join(base, urls[i]), Untyped)]
           IN  /\ IsSequence(items)
               /\ ToSet(items) = {Item(Join(base, v), Untyped) : v \in ToSet(urls)}
PROOF
  <1> DEFINE n == Len(urls)
             item(v) == Item(Join(base, v), Untyped)
  <1>1. n \in Nat /\ DOMAIN urls = 1..n
    BY AsFunctions DEF IsSequence
  <1>2. PICK t : t = [i \in DOMAIN urls |-> Item(Join(base, urls[i]), Untyped)]
    OBVIOUS
  <1>3. t = [i \in 1..n |-> item(urls[i])]
    BY <1>1, <1>2
  <1> HIDE DEF n, item
  <1>4. t = [i \in 1..n |-> t[i]] /\ \A i \in 1..n : t[i] = item(urls[i])
    BY <1>3
  <1>5. IsSequence(t) /\ ToSet(t) = {t[i] : i \in 1..n}
    BY <1>1, <1>4, Tabled
  <1>6. ToSet(urls) = {urls[i] : i \in 1..n}
    BY <1>1 DEF ToSet
  <1>7. {t[i] : i \in 1..n} = {item(v) : v \in {urls[i] : i \in 1..n}}
    BY <1>4
  <1> QED
    BY <1>2, <1>5, <1>6, <1>7 DEF item

LEMMA SrcsetUrls ==
    ASSUME NEW e, LegalElement(e)
    PROVE  LET x == NodeOf(e)
               urls == IF Has(x, "srcset") THEN ParseSrcset(x.attributes["srcset"]) ELSE <<>>
           IN  IsSequence(urls) /\ ToSet(urls) = {e.candidates[i].url : i \in DOMAIN e.candidates}
PROOF
  <1>1. PICK x : x = NodeOf(e)
    OBVIOUS
  <1>2. /\ x.attributes = AttributesOf(e)
        /\ Has(x, "srcset") <=> e.candidates # <<>>
        /\ e.candidates # <<>> => x.attributes["srcset"] = RenderSrcset(e.candidates)
    BY <1>1, NodeIs, AttributesKept DEF Has
  <1>3. CASE e.candidates = <<>>
    <2>1. {e.candidates[i].url : i \in DOMAIN e.candidates} = {}
      <3>1. DOMAIN <<>> = {}
        OBVIOUS
      <3> QED
        BY <1>3, <3>1
    <2> QED
      BY <1>1, <1>2, <1>3, <2>1, OneOrNone
  <1>4. CASE e.candidates # <<>>
    <2>1. PICK urls : urls = ParseSrcset(RenderSrcset(e.candidates))
      OBVIOUS
    <2>2. urls \in Seq(Seq(SrcsetToken)) /\ ToSet(urls) = {e.candidates[i].url : i \in DOMAIN e.candidates}
      BY <2>1, SrcsetParsed DEF LegalElement
    <2>3. IsSequence(urls)
      BY <2>2, AnySequence
    <2> QED
      BY <1>1, <1>2, <1>4, <2>1, <2>2, <2>3
  <1> QED
    BY <1>3, <1>4

LEMMA OtherElementTold ==
    ASSUME NEW e, LegalElement(e), NEW base, e.name \notin {"base", "link", "meta"}
    PROVE  /\ IsSequence(HtmlLinks(NodeOf(e), base))
           /\ ToSet(HtmlLinks(NodeOf(e), base)) = Told(base, MeantLinks(e))
PROOF
  <1>1. PICK D, g, x : D = DOMAIN e.attributes /\ g = e.attributes /\ x = NodeOf(e)
    OBVIOUS
  <1>2. /\ x.name = e.name /\ x.attributes = AttributesOf(e)
        /\ Has(x, "src") <=> "src" \in D
        /\ "src" \in D => x.attributes["src"] = g["src"]
    BY <1>1, NodeIs, AttributesKept DEF Has
  <1> DEFINE item(v) == Item(Join(base, v), Untyped)
  <1>3. PICK hrefs, source, urls, items :
            /\ hrefs = HrefItems(x, base)
            /\ source = IF Has(x, "src") THEN <<item(x.attributes["src"])>> ELSE <<>>
            /\ urls = IF Has(x, "srcset") THEN ParseSrcset(x.attributes["srcset"]) ELSE <<>>
            /\ items = [i \in DOMAIN urls |-> Item(Join(base, urls[i]), Untyped)]
    OBVIOUS
  <1>4. HtmlLinks(x, base) = (hrefs \o source) \o items
    <2>1. x.name \notin {"base", "link", "meta"}
      BY <1>2
    <2>2. HtmlLinks(x, base) = HrefItems(x, base)
            \o (IF Has(x, "src") THEN <<item(x.attributes["src"])>> ELSE <<>>)
            \o [i \in DOMAIN urls |-> Item(Join(base, urls[i]), Untyped)]
      BY <1>3, <2>1 DEF HtmlLinks
    <2> HIDE DEF item
    <2> QED
      BY <1>3, <2>2
  <1>5. IsSequence(hrefs) /\ ToSet(hrefs) = {item(v) : v \in Values(e, {"href", "xlink:href"})}
    BY <1>1, <1>3, HrefsTold
  <1>6. IsSequence(source) /\ ToSet(source) = {item(v) : v \in Values(e, {"src"})}
    <2>1. Values(e, {"src"}) = IF "src" \in D THEN {g["src"]} ELSE {}
      BY <1>1, ValuesOf
    <2>2. CASE "src" \in D
      <3>1. PICK y : y = item(g["src"])
        OBVIOUS
      <3>2. source = <<y>>
        BY <1>2, <1>3, <2>2, <3>1
      <3>3. {item(v) : v \in Values(e, {"src"})} = {y}
        BY <2>1, <2>2, <3>1
      <3> QED
        BY <3>2, <3>3, OneOrNone
    <2>3. CASE "src" \notin D
      <3>1. source = <<>>
        BY <1>2, <1>3, <2>3
      <3>2. {item(v) : v \in Values(e, {"src"})} = {}
        BY <2>1, <2>3
      <3> QED
        BY <3>1, <3>2, OneOrNone
    <2> QED
      BY <2>2, <2>3
  <1> DEFINE C == {e.candidates[i].url : i \in DOMAIN e.candidates}
  <1>7. IsSequence(urls) /\ ToSet(urls) = C
    BY <1>1, <1>3, SrcsetUrls
  <1>8. IsSequence(items) /\ ToSet(items) = {item(v) : v \in C}
    <2> HIDE DEF C
    <2>1. LET t == [i \in DOMAIN urls |-> Item(Join(base, urls[i]), Untyped)]
          IN  IsSequence(t) /\ ToSet(t) = {Item(Join(base, v), Untyped) : v \in ToSet(urls)}
      BY <1>7, UrlItems
    <2> QED
      BY <1>3, <1>7, <2>1
  <1>9. PICK hs : hs = hrefs \o source
    OBVIOUS
  <1>10. IsSequence(hs) /\ ToSet(hs) = ToSet(hrefs) \cup ToSet(source)
    BY <1>5, <1>6, <1>9, SequencesJoin
  <1>11. IsSequence(hs \o items) /\ ToSet(hs \o items) = ToSet(hs) \cup ToSet(items)
    BY <1>8, <1>10, SequencesJoin
  <1> DEFINE All == Values(e, {"href", "xlink:href", "src"}) \cup C
  <1>12. MeantLinks(e) = All \X {Untyped}
    BY DEF MeantLinks
  <1>13. Values(e, {"href", "xlink:href", "src"}) = Values(e, {"href", "xlink:href"}) \cup Values(e, {"src"})
    BY <1>1 DEF Values
  <1>14. Told(base, MeantLinks(e)) = {item(v) : v \in All}
    <2> HIDE DEF All
    <2> QED
      BY <1>12, ToldOf
  <1>15. ToSet(hs \o items) = {item(v) : v \in All}
    <2>1. PICK H, S : H = Values(e, {"href", "xlink:href"}) /\ S = Values(e, {"src"})
      OBVIOUS
    <2>2. All = (H \cup S) \cup C
      BY <1>13, <2>1
    <2> HIDE DEF All, C, item
    <2> QED
      BY <1>5, <1>6, <1>8, <1>10, <1>11, <2>1, <2>2
  <1> QED
    BY <1>1, <1>4, <1>9, <1>11, <1>14, <1>15

\* The links of an element are those that its author meant.
LEMMA ElementTold ==
    ASSUME NEW e, LegalElement(e), NEW base
    PROVE  /\ IsSequence(HtmlLinks(NodeOf(e), base))
           /\ ToSet(HtmlLinks(NodeOf(e), base)) = Told(base, MeantLinks(e))
BY LinkElementTold, MetaElementTold, BaseElementTold, OtherElementTold

-----------------------------------------------------------------------------
\* Pages: the nodes that are written for elements, and what they tell.

\* The elements and the texts around the elements of a page tell nothing.
IsFiller(x) == \E d \in Nat : x \in {TextNode(d), Node(d, "p", <<>>, NoErrors)}

WrapperAt(n) == <<Node(n - 1, "p", <<>>, NoErrors), TextNode(n)>>

WrappersOf(e) == FlattenSeq([n \in 1..e.depth |-> WrapperAt(n)])

LEMMA FillerIs ==
    ASSUME NEW x, IsFiller(x)
    PROVE  /\ x.depth \in Nat
           /\ \/ x.kind = "text"
              \/ x.kind = "element" /\ x.name = "p" /\ x.attributes = <<>> /\ x.errors = NoErrors
PROOF
  <1>1. PICK d \in Nat : x = TextNode(d) \/ x = Node(d, "p", <<>>, NoErrors)
    BY DEF IsFiller
  <1>2. CASE x = TextNode(d)
    <2>1. x.depth = d /\ x.kind = "text"
      BY <1>2 DEF TextNode
    <2> QED
      BY <2>1
  <1>3. CASE x = Node(d, "p", <<>>, NoErrors)
    <2>1. /\ x.depth = d /\ x.kind = "element" /\ x.name = "p" /\ x.attributes = <<>>
          /\ x.errors = NoErrors
      BY <1>3 DEF Node
    <2> QED
      BY <2>1
  <1> QED
    BY <1>1, <1>2, <1>3

\* An element is written in others that tell nothing.
LEMMA Wrappers ==
    ASSUME NEW e, LegalElement(e)
    PROVE  /\ IsSequence(WrappersOf(e))
           /\ \A x \in ToSet(WrappersOf(e)) : IsFiller(x)
           /\ RenderElement(e) = WrappersOf(e) \o <<NodeOf(e)>>
PROOF
  <1> DEFINE parts == [n \in 1..e.depth |-> WrapperAt(n)]
  <1>1. e.depth \in Nat
    BY DEF LegalElement
  <1>2. ASSUME NEW n \in 1..e.depth
        PROVE  IsSequence(WrapperAt(n)) /\ \A x \in ToSet(WrapperAt(n)) : IsFiller(x)
    <2>1. PICK a, b : a = Node(n - 1, "p", <<>>, NoErrors) /\ b = TextNode(n)
      OBVIOUS
    <2>2. n - 1 \in Nat /\ n \in Nat
      BY <1>1
    <2>3. IsFiller(a)
      BY <2>1, <2>2 DEF IsFiller
    <2>4. IsFiller(b)
      BY <2>1, <2>2 DEF IsFiller
    <2>5. WrapperAt(n) = <<a, b>> /\ <<a, b>> \in Seq({a, b}) /\ ToSet(<<a, b>>) = {a, b}
      BY <2>1 DEF WrapperAt, ToSet
    <2>6. IsSequence(WrapperAt(n))
      BY <2>5, AnySequence
    <2> QED
      BY <2>3, <2>4, <2>5, <2>6
  <1>3. parts = [n \in 1..e.depth |-> parts[n]] /\ \A n \in 1..e.depth : parts[n] = WrapperAt(n)
    OBVIOUS
  <1> HIDE DEF parts
  <1>4. IsSequence(FlattenSeq(parts)) /\ ToSet(FlattenSeq(parts)) = SetOf(parts, e.depth)
    <2>1. PICK m \in Nat : m = e.depth
      BY <1>1
    <2>2. parts = [n \in 1..m |-> parts[n]] /\ \A n \in 1..m : IsSequence(parts[n])
      BY <1>2, <1>3, <2>1
    <2>3. IsSequence(FlattenSeq(parts)) /\ ToSet(FlattenSeq(parts)) = SetOf(parts, m)
      BY <2>2, SequencesFlatten
    <2> QED
      BY <2>1, <2>3
  <1>5. \A x \in SetOf(parts, e.depth) : IsFiller(x)
    BY <1>2, <1>3 DEF SetOf
  <1>6. WrappersOf(e) = FlattenSeq(parts)
    BY DEF WrappersOf, parts
  <1>7. RenderElement(e) = WrappersOf(e) \o <<NodeOf(e)>>
    BY DEF RenderElement, WrappersOf, WrapperAt, NodeOf, AttributesOf
  <1> QED
    BY <1>4, <1>5, <1>6, <1>7

LEMMA ElementNodes ==
    ASSUME NEW e, LegalElement(e)
    PROVE  LET es == RenderElement(e)
           IN  /\ IsSequence(es) /\ Len(es) \in Nat \ {0} /\ DOMAIN es = 1..Len(es)
               /\ es[Len(es)] = NodeOf(e)
               /\ \A i \in 1..(Len(es) - 1) : IsFiller(es[i])
PROOF
  <1>1. PICK w, x, es, k : w = WrappersOf(e) /\ x = NodeOf(e) /\ es = RenderElement(e) /\ k = Len(w)
    OBVIOUS
  <1>2. IsSequence(w) /\ (\A y \in ToSet(w) : IsFiller(y)) /\ es = w \o <<x>>
    BY <1>1, Wrappers
  <1>3. PICK X : X = ToSet(w) \cup {x}
    OBVIOUS
  <1>4. w \in Seq(X) /\ <<x>> \in Seq(X) /\ Len(<<x>>) = 1 /\ <<x>>[1] = x
    <2>1. w \in Seq(X)
      BY <1>2, <1>3, WiderSeq DEF IsSequence
    <2> QED
      BY <1>3, <2>1
  <1>5. PICK one : one = <<x>>
    OBVIOUS
  <1>6. one \in Seq(X) /\ Len(one) = 1 /\ one[1] = x
    BY <1>4, <1>5
  <1>7. w \o one \in Seq(X) /\ Len(w \o one) = Len(w) + Len(one)
    BY <1>4, <1>6, Joining
  <1>8. \A i \in 1..Len(w) : (w \o one)[i] = w[i]
    BY <1>4, <1>6, Joining
  <1>9. \A i \in 1..Len(one) : (w \o one)[Len(w) + i] = one[i]
    <2>1. w \in Seq(X) /\ one \in Seq(X)
      BY <1>4, <1>6
    <2> QED
      BY <2>1, Joining
  <1>10. k \in Nat /\ Len(es) = k + 1 /\ es \in Seq(X)
    BY <1>1, <1>2, <1>4, <1>5, <1>6, <1>7, LenProperties
  <1>11. es[k + 1] = x
    BY <1>1, <1>2, <1>5, <1>6, <1>9
  <1>12. \A i \in 1..k : IsFiller(es[i])
    <2>1. \A i \in 1..k : w[i] \in ToSet(w)
      BY <1>1, <1>4, LenProperties DEF ToSet
    <2> QED
      BY <1>1, <1>2, <1>5, <1>8, <2>1
  <1>13. Len(es) - 1 = k /\ Len(es) \in Nat \ {0} /\ DOMAIN es = 1..Len(es)
    BY <1>10, LenProperties
  <1> QED
    BY <1>1, <1>10, <1>11, <1>12, <1>13, AnySequence

\* The nodes of some elements of a page.
NodesUpTo(elements, i, nodes) ==
    \A j \in 1..Len(nodes) : IsFiller(nodes[j]) \/ \E k \in 1..i : nodes[j] = NodeOf(elements[k])

\* The nodes of a page up to each element.
PageInOrder(elements, f, V) ==
    /\ Joined(f, V, [i \in DOMAIN elements |-> RenderElement(elements[i])], Len(elements))
    /\ RenderPage(elements) = f[Len(elements)]
    /\ \A i \in 0..Len(elements) : NodesUpTo(elements, i, f[i])
    /\ \A i \in 1..Len(elements) : /\ Len(f[i]) \in Nat \ {0}
                                   /\ f[i][Len(f[i])] = NodeOf(elements[i])
                                   /\ \A j \in 1..(Len(f[i]) - 1) :
                                        IsFiller(f[i][j]) \/ \E k \in 1..(i - 1) : f[i][j] = NodeOf(elements[k])

\* Every page has its nodes in the order of its elements.
LEMMA PageOrdered ==
    ASSUME NEW elements, LegalPage(elements)
    PROVE  /\ Len(elements) \in Nat /\ DOMAIN elements = 1..Len(elements)
           /\ \E f, V : /\ PageInOrder(elements, f, V)
                        /\ [i \in DOMAIN elements |-> RenderElement(elements[i])] \in [1..Len(elements) -> Seq(V)]
PROOF
  <1>1. PICK n, parts : n = Len(elements) /\ parts = [i \in DOMAIN elements |-> RenderElement(elements[i])]
    OBVIOUS
  <1>2. n \in Nat /\ DOMAIN elements = 1..n
    BY <1>1, AsFunctions DEF LegalPage, IsSequence
  <1>3. \A i \in 1..n : LegalElement(elements[i])
    BY <1>2 DEF LegalPage
  <1>4. parts = [i \in 1..n |-> parts[i]] /\ \A i \in 1..n : parts[i] = RenderElement(elements[i])
    BY <1>1, <1>2
  <1>5. \A i \in 1..n : IsSequence(parts[i])
    BY <1>3, <1>4, ElementNodes
  <1>6. PICK V : V = SetOf(parts, n)
    OBVIOUS
  <1>7. parts \in [1..n -> Seq(V)]
    BY <1>2, <1>4, <1>5, <1>6, SequencesFlatten
  <1>8. PICK f : Joined(f, V, parts, n) /\ FlattenSeq(parts) = f[n]
    BY <1>2, <1>7, Flattening
  <1>9. /\ f \in [0..n -> Seq(V)] /\ f[0] = <<>>
        /\ \A i \in 1..n : f[i] = f[i - 1] \o parts[i]
    BY <1>8 DEF Joined
  <1> DEFINE Ends(i) == /\ Len(f[i]) \in Nat \ {0}
                        /\ f[i][Len(f[i])] = NodeOf(elements[i])
                        /\ \A j \in 1..(Len(f[i]) - 1) :
                              IsFiller(f[i][j]) \/ \E k \in 1..(i - 1) : f[i][j] = NodeOf(elements[k])
             S == {i \in 0..n : NodesUpTo(elements, i, f[i])}
  <1>10. 0 \in S
    <2>1. Len(<<>>) = 0 /\ 0 \in 0..n
      BY <1>2
    <2>2. NodesUpTo(elements, 0, f[0])
      BY <1>9, <2>1 DEF NodesUpTo
    <2> QED
      BY <2>1, <2>2
  <1>11. ASSUME NEW i \in 1..n, i - 1 \in S PROVE Ends(i) /\ NodesUpTo(elements, i, f[i])
    <2>1. PICK u, es, so, e : u = f[i - 1] /\ es = parts[i] /\ so = f[i] /\ e = elements[i]
      OBVIOUS
    <2>2. i - 1 \in 0..n /\ i \in 0..n /\ i \in Nat
      BY <1>2
    <2>3. u \in Seq(V) /\ es \in Seq(V) /\ so = u \o es
      BY <1>7, <1>9, <2>1, <2>2
    <2>4. /\ Len(es) \in Nat \ {0} /\ es[Len(es)] = NodeOf(e)
          /\ \A j \in 1..(Len(es) - 1) : IsFiller(es[j])
      BY <1>3, <1>4, <2>1, ElementNodes
    <2>5. NodesUpTo(elements, i - 1, u)
      BY <1>11, <2>1
    <2>6. u \o es \in Seq(V) /\ Len(u \o es) = Len(u) + Len(es)
      BY <2>3, Joining
    <2>7. \A j \in 1..Len(u) : (u \o es)[j] = u[j]
      BY <2>3, Joining
    <2>8. \A j \in 1..Len(es) : (u \o es)[Len(u) + j] = es[j]
      BY <2>3, Joining
    <2>9. PICK p, m : p = Len(u) /\ m = Len(es)
      OBVIOUS
    <2>10. p \in Nat /\ m \in Nat \ {0} /\ Len(so) = p + m
      BY <2>3, <2>4, <2>6, <2>9, LenProperties
    <2>11. so[p + m] = NodeOf(e)
      <3>1. m \in 1..m
        BY <2>10
      <3> QED
        BY <2>3, <2>4, <2>8, <2>9, <3>1
    <2>12. ASSUME NEW j \in 1..((p + m) - 1)
           PROVE  IsFiller(so[j]) \/ \E k \in 1..(i - 1) : so[j] = NodeOf(elements[k])
      <3>1. CASE j <= p
        <4>1. j \in 1..p
          BY <2>10, <3>1
        <4>2. so[j] = u[j]
          BY <2>3, <2>7, <2>9, <4>1
        <4> QED
          BY <2>5, <2>9, <4>1, <4>2 DEF NodesUpTo
      <3>2. CASE ~(j <= p)
        <4>1. PICK h : h = j - p
          OBVIOUS
        <4>2. h \in 1..m /\ h \in 1..(m - 1) /\ p + h = j
          BY <2>10, <3>2, <4>1
        <4>3. so[j] = es[h]
          BY <2>3, <2>8, <2>9, <4>2
        <4> QED
          BY <2>4, <2>9, <4>2, <4>3
      <3> QED
        BY <3>1, <3>2
    <2>13. p + m \in Nat \ {0}
      BY <2>10
    <2>14. Ends(i)
      BY <2>1, <2>10, <2>11, <2>12, <2>13
    <2>15. ASSUME NEW j \in 1..(p + m)
           PROVE  IsFiller(so[j]) \/ \E k \in 1..i : so[j] = NodeOf(elements[k])
      <3>1. j = p + m \/ j \in 1..((p + m) - 1)
        BY <2>10
      <3>2. i \in 1..i /\ \A k \in 1..(i - 1) : k \in 1..i
        BY <2>2
      <3> QED
        BY <2>1, <2>11, <2>12, <3>1, <3>2
    <2>16. NodesUpTo(elements, i, f[i])
      BY <2>1, <2>10, <2>15 DEF NodesUpTo
    <2> QED
      BY <2>14, <2>16
  <1>12. \A i \in 0..n : i \in S
    <2>1. \A i \in 1..n : i - 1 \in S => i \in S
      <3> SUFFICES ASSUME NEW i \in 1..n, i - 1 \in S PROVE i \in S
        OBVIOUS
      <3>1. NodesUpTo(elements, i, f[i]) /\ i \in 0..n
        BY <1>2, <1>11
      <3> QED
        BY <3>1
    <2> HIDE DEF S
    <2> QED
      BY <1>2, <1>10, <2>1, Upwards
  <1>13. \A i \in 1..n : Ends(i)
    <2> SUFFICES ASSUME NEW i \in 1..n PROVE Ends(i)
      OBVIOUS
    <2>1. i - 1 \in 0..n
      BY <1>2
    <2>2. i - 1 \in S
      BY <1>12, <2>1
    <2> HIDE DEF S, Ends
    <2> QED
      BY <1>11, <2>2
  <1>14. RenderPage(elements) = f[n]
    BY <1>1, <1>8 DEF RenderPage
  <1>15. PageInOrder(elements, f, V)
    BY <1>1, <1>8, <1>12, <1>13, <1>14 DEF PageInOrder
  <1> QED
    BY <1>1, <1>2, <1>7, <1>15

\* Each element at its place in the page.
ElementsAt(elements, nodes, at) ==
    /\ at \in [1..Len(elements) -> 1..Len(nodes)]
    /\ \A i \in 1..Len(elements) :
          /\ nodes[at[i]] = NodeOf(elements[i])
          /\ \A j \in 1..(at[i] - 1) :
                IsFiller(nodes[j]) \/ \E k \in 1..(i - 1) : nodes[j] = NodeOf(elements[k])
    /\ \A j \in 1..Len(nodes) : IsFiller(nodes[j]) \/ \E k \in 1..Len(elements) : nodes[j] = NodeOf(elements[k])

LEMMA PagePlaces ==
    ASSUME NEW elements, LegalPage(elements)
    PROVE  /\ Len(elements) \in Nat /\ DOMAIN elements = 1..Len(elements)
           /\ IsSequence(RenderPage(elements))
           /\ Len(RenderPage(elements)) \in Nat /\ DOMAIN RenderPage(elements) = 1..Len(RenderPage(elements))
           /\ \E at : ElementsAt(elements, RenderPage(elements), at)
PROOF
  <1>1. PICK n : n = Len(elements)
    OBVIOUS
  <1>2. n \in Nat /\ DOMAIN elements = 1..n
    BY <1>1, PageOrdered
  <1>3. PICK parts : parts = [i \in DOMAIN elements |-> RenderElement(elements[i])]
    OBVIOUS
  <1>4. PICK f, V : PageInOrder(elements, f, V) /\ parts \in [1..n -> Seq(V)]
    BY <1>1, <1>3, PageOrdered
  <1>5. PICK nodes : nodes = RenderPage(elements)
    OBVIOUS
  <1>6. Joined(f, V, parts, n) /\ nodes = f[n]
    BY <1>1, <1>3, <1>4, <1>5 DEF PageInOrder
  <1>7. \A i \in 0..n : f[i] \in Seq(V)
    BY <1>6 DEF Joined
  <1>8. n \in 0..n /\ \A i \in 1..n : i \in 0..n
    BY <1>2
  <1>9. nodes \in Seq(V)
    BY <1>6, <1>7, <1>8
  <1>10. Len(nodes) \in Nat /\ DOMAIN nodes = 1..Len(nodes)
    BY <1>9, LenProperties
  <1>11. ASSUME NEW i \in 1..n
         PROVE  /\ Len(f[i]) \in 1..Len(nodes)
                /\ \A j \in 1..Len(f[i]) : nodes[j] = f[i][j]
    <2>1. PICK rest \in Seq(V) : Same(f[n], f[i] \o rest)
      BY <1>2, <1>4, <1>6, <1>8, JoinedRest
    <2>2. PICK u : u = f[i]
      OBVIOUS
    <2>3. u \in Seq(V) /\ nodes = u \o rest /\ Len(u) \in Nat \ {0} /\ Len(rest) \in Nat
      BY <1>1, <1>4, <1>6, <1>7, <1>8, <2>1, <2>2, LenProperties DEF Same, PageInOrder
    <2>4. Len(u \o rest) = Len(u) + Len(rest) /\ \A j \in 1..Len(u) : (u \o rest)[j] = u[j]
      BY <2>3, Joining
    <2>5. Len(u) \in 1..Len(nodes)
      BY <2>3, <2>4
    <2> QED
      BY <2>2, <2>3, <2>4, <2>5
  <1> DEFINE at == [i \in 1..n |-> Len(f[i])]
  <1>12. at \in [1..n -> 1..Len(nodes)]
    BY <1>11
  <1>13. ASSUME NEW i \in 1..n
         PROVE  /\ nodes[at[i]] = NodeOf(elements[i])
                /\ \A j \in 1..(at[i] - 1) :
                      IsFiller(nodes[j]) \/ \E k \in 1..(i - 1) : nodes[j] = NodeOf(elements[k])
    <2>1. PICK p, u : p = Len(f[i]) /\ u = f[i]
      OBVIOUS
    <2>2. /\ p \in Nat \ {0} /\ u[p] = NodeOf(elements[i])
          /\ \A j \in 1..(p - 1) :
                IsFiller(u[j]) \/ \E k \in 1..(i - 1) : u[j] = NodeOf(elements[k])
      BY <1>1, <1>4, <2>1 DEF PageInOrder
    <2>3. p \in 1..p /\ \A j \in 1..(p - 1) : j \in 1..p
      BY <2>2
    <2>4. \A j \in 1..p : nodes[j] = u[j]
      BY <1>11, <2>1
    <2>5. at[i] = p
      BY <2>1
    <2> HIDE DEF at
    <2> QED
      BY <2>2, <2>3, <2>4, <2>5
  <1>14. \A j \in 1..Len(nodes) : IsFiller(nodes[j]) \/ \E k \in 1..n : nodes[j] = NodeOf(elements[k])
    <2>1. NodesUpTo(elements, n, f[n])
      BY <1>1, <1>4, <1>8 DEF PageInOrder
    <2> QED
      BY <1>6, <2>1 DEF NodesUpTo
  <1> HIDE DEF at
  <1>15. ElementsAt(elements, nodes, at)
    BY <1>1, <1>12, <1>13, <1>14 DEF ElementsAt
  <1>16. IsSequence(nodes)
    BY <1>9, AnySequence
  <1> QED
    BY <1>1, <1>2, <1>5, <1>10, <1>15, <1>16

\* The nodes of a page, in whatever order.
LEMMA PageNodes ==
    ASSUME NEW elements, LegalPage(elements)
    PROVE  /\ \A x \in ToSet(RenderPage(elements)) :
                 IsFiller(x) \/ \E e \in ToSet(elements) : x = NodeOf(e)
           /\ \A e \in ToSet(elements) : LegalElement(e) /\ NodeOf(e) \in ToSet(RenderPage(elements))
PROOF
  <1>1. PICK n, nodes : n = Len(elements) /\ nodes = RenderPage(elements)
    OBVIOUS
  <1>2. n \in Nat /\ DOMAIN elements = 1..n /\ Len(nodes) \in Nat /\ DOMAIN nodes = 1..Len(nodes)
    BY <1>1, PagePlaces
  <1>3. PICK at : ElementsAt(elements, nodes, at)
    BY <1>1, PagePlaces
  <1>4. /\ at \in [1..n -> 1..Len(nodes)]
        /\ \A i \in 1..n : nodes[at[i]] = NodeOf(elements[i])
        /\ \A j \in 1..Len(nodes) : IsFiller(nodes[j]) \/ \E k \in 1..n : nodes[j] = NodeOf(elements[k])
    BY <1>1, <1>3 DEF ElementsAt
  <1>5. ToSet(elements) = {elements[i] : i \in 1..n} /\ ToSet(nodes) = {nodes[j] : j \in 1..Len(nodes)}
    BY <1>2 DEF ToSet
  <1>6. \A i \in 1..n : LegalElement(elements[i])
    BY <1>2 DEF LegalPage
  <1>7. ASSUME NEW x \in ToSet(nodes) PROVE IsFiller(x) \/ \E e \in ToSet(elements) : x = NodeOf(e)
    BY <1>4, <1>5
  <1>8. ASSUME NEW e \in ToSet(elements) PROVE LegalElement(e) /\ NodeOf(e) \in ToSet(nodes)
    <2>1. PICK i \in 1..n : e = elements[i]
      BY <1>5
    <2>2. at[i] \in 1..Len(nodes) /\ nodes[at[i]] = NodeOf(e)
      BY <1>4, <2>1
    <2> QED
      BY <1>5, <1>6, <2>1, <2>2
  <1> QED
    BY <1>1, <1>7, <1>8

\* The base of a page is that of its first base element.
LEMMA PageBase ==
    ASSUME NEW elements, LegalPage(elements)
    PROVE  BaseOf(Directory, RenderPage(elements)) = MeantBase(elements)
PROOF
  <1>1. PICK n, nodes : n = Len(elements) /\ nodes = RenderPage(elements)
    OBVIOUS
  <1>2. n \in Nat /\ DOMAIN elements = 1..n /\ Len(nodes) \in Nat /\ DOMAIN nodes = 1..Len(nodes)
    BY <1>1, PagePlaces
  <1>3. PICK at : ElementsAt(elements, nodes, at)
    BY <1>1, PagePlaces
  <1>4. /\ at \in [1..n -> 1..Len(nodes)]
        /\ \A i \in 1..n :
              /\ nodes[at[i]] = NodeOf(elements[i])
              /\ \A j \in 1..(at[i] - 1) :
                    IsFiller(nodes[j]) \/ \E k \in 1..(i - 1) : nodes[j] = NodeOf(elements[k])
        /\ \A j \in 1..Len(nodes) : IsFiller(nodes[j]) \/ \E k \in 1..n : nodes[j] = NodeOf(elements[k])
    BY <1>1, <1>3 DEF ElementsAt
  <1> DEFINE based == {i \in DOMAIN elements : elements[i].name = "base"}
             bases == {j \in Elements(nodes) : nodes[j].name = "base"}
  <1>5. Elements(nodes) = {j \in 1..Len(nodes) : nodes[j].kind = "element"}
    BY <1>2 DEF Elements, IsElement
  <1>6. ASSUME NEW j \in bases PROVE ~IsFiller(nodes[j]) /\ j \in 1..Len(nodes)
    BY <1>5, FillerIs
  <1>7. \A i \in 1..n : NodeOf(elements[i]).name = elements[i].name /\ NodeOf(elements[i]).kind = "element"
    BY NodeIs
  <1>8. CASE based = {}
    <2>1. bases = {}
      <3> SUFFICES ASSUME NEW j \in bases PROVE FALSE
        OBVIOUS
      <3>1. PICK k \in 1..n : nodes[j] = NodeOf(elements[k])
        BY <1>4, <1>6
      <3>2. elements[k].name = "base"
        BY <1>7, <3>1
      <3> QED
        BY <1>2, <1>8, <3>2
    <2> QED
      BY <1>1, <1>8, <2>1 DEF BaseOf, MeantBase
  <1>9. CASE based # {}
    <2>1. based \in SUBSET (1..n)
      BY <1>2
    <2>2. PICK i : i = Earliest(based)
      OBVIOUS
    <2>3. i \in based /\ \A k \in based : i <= k
      <3> HIDE DEF based
      <3> QED
        BY <1>2, <1>9, <2>1, <2>2, EarliestIs
    <2>4. i \in 1..n /\ elements[i].name = "base" /\ i \in DOMAIN elements
      BY <1>2, <2>3
    <2>5. PICK p : p = at[i]
      OBVIOUS
    <2>6. p \in 1..Len(nodes) /\ nodes[p] = NodeOf(elements[i])
      BY <1>4, <2>4, <2>5
    <2>7. p \in bases
      BY <1>5, <1>7, <2>4, <2>6
    <2>8. ASSUME NEW j \in bases PROVE p <= j
      <3>1. ASSUME j < p PROVE FALSE
        <4>1. j \in 1..(p - 1)
          BY <1>2, <1>6, <2>6, <3>1
        <4>2. PICK k \in 1..(i - 1) : nodes[j] = NodeOf(elements[k])
          BY <1>4, <1>6, <2>4, <2>5, <4>1
        <4>3. k \in 1..n /\ ~(i <= k)
          BY <1>2, <2>4
        <4>4. elements[k].name = "base"
          BY <1>7, <4>2, <4>3
        <4> QED
          BY <1>2, <2>3, <4>3, <4>4
      <3> QED
        BY <1>2, <1>6, <2>6, <3>1
    <2>9. Earliest(bases) = p
      <3>1. bases # {} /\ bases \in SUBSET (1..Len(nodes))
        BY <1>6, <2>7
      <3>2. PICK b : b = Earliest(bases)
        OBVIOUS
      <3>3. b \in bases /\ b <= p
        <4> HIDE DEF bases
        <4> QED
          BY <1>2, <2>7, <3>1, <3>2, EarliestIs
      <3>4. p <= b /\ b \in Nat /\ p \in Nat
        BY <1>2, <1>6, <2>6, <2>8, <3>3
      <3> QED
        BY <3>2, <3>3, <3>4
    <2>10. PICK x, e : x = nodes[p] /\ e = elements[i]
      OBVIOUS
    <2>11. LegalElement(e) /\ x = NodeOf(e)
      BY <2>4, <2>6, <2>10 DEF LegalPage
    <2>12. /\ Has(x, "href") <=> "href" \in DOMAIN e.attributes
           /\ "href" \in DOMAIN e.attributes => x.attributes["href"] = e.attributes["href"]
      BY <2>11, NodeIs, AttributesKept DEF Has
    <2>13. MeantBase(elements) = IF "href" \in DOMAIN e.attributes THEN Join(Directory, e.attributes["href"])
                                 ELSE Directory
      BY <1>9, <2>2, <2>10 DEF MeantBase
    <2>14. BaseOf(Directory, nodes) = IF Has(x, "href") THEN Join(Directory, x.attributes["href"]) ELSE Directory
      <3>1. bases # {}
        BY <2>7
      <3> QED
        BY <2>9, <2>10, <3>1 DEF BaseOf
    <2> QED
      BY <1>1, <2>12, <2>13, <2>14
  <1> QED
    BY <1>8, <1>9

\* What a node of a page adds to its output.
NodeItems(x, base, on) ==
    IF IsElement(x) THEN HtmlLinks(x, base) \o (IF on THEN MarkupItems(x.errors) ELSE <<>>) ELSE <<>>

\* What an element of a page is meant to add.
ElementItems(e, base, on) ==
    Told(base, MeantLinks(e)) \cup ErrorIf(on /\ e.errors # NoErrors)

LEMMA BarelyLegal ==
    ASSUME NEW d \in Nat
    PROVE  LET e == Written("p", <<>>, <<>>, NoErrors, d)
           IN  LegalElement(e) /\ NodeOf(e).name = "p" /\ NodeOf(e).attributes = <<>> /\ MeantLinks(e) = {}
PROOF
  <1>1. PICK e : e = Written("p", <<>>, <<>>, NoErrors, d)
    OBVIOUS
  <1>2. /\ e.name = "p" /\ e.attributes = <<>> /\ e.candidates = <<>> /\ e.errors = NoErrors
        /\ e.depth = d
    BY <1>1 DEF Written
  <1>3. IsSequence(<<>>) /\ DOMAIN <<>> = {}
    <2>1. IsSequence(<<>>)
      BY DEF IsSequence, ToSet
    <2> QED
      BY <2>1
  <1>4. PICK cs : cs = e.candidates
    OBVIOUS
  <1>5. LegalSrcset(cs)
    <2>1. IsSequence(cs) /\ DOMAIN cs = {} /\ cs = <<>>
      BY <1>2, <1>3, <1>4
    <2> QED
      BY <2>1 DEF LegalSrcset
  <1>6. LegalElement(e)
    BY <1>2, <1>3, <1>4, <1>5 DEF LegalElement, LegalErrors
  <1>7. AttributesOf(e) = <<>>
    BY <1>2 DEF AttributesOf
  <1>8. MeantLinks(e) = {}
    <2>1. \A names : Values(e, names) = {}
      BY <1>2 DEF Values
    <2>2. {cs[i].url : i \in DOMAIN cs} = {}
      BY <1>2, <1>3, <1>4
    <2>3. MeantLinks(e) = (Values(e, {"href", "xlink:href", "src"}) \cup {cs[i].url : i \in DOMAIN cs}) \X {Untyped}
      BY <1>2, <1>4 DEF MeantLinks
    <2> QED
      BY <2>1, <2>2, <2>3
  <1> QED
    BY <1>1, <1>2, <1>6, <1>7, <1>8, NodeIs

LEMMA FillerTold ==
    ASSUME NEW x, IsFiller(x), NEW base, NEW on \in BOOLEAN
    PROVE  IsSequence(NodeItems(x, base, on)) /\ ToSet(NodeItems(x, base, on)) = {}
PROOF
  <1>1. CASE x.kind = "text"
    <2>1. NodeItems(x, base, on) = <<>>
      BY <1>1 DEF NodeItems, IsElement
    <2> QED
      BY <2>1, OneOrNone
  <1>2. CASE x.kind = "element" /\ x.name = "p" /\ x.attributes = <<>> /\ x.errors = NoErrors
    <2>1. PICK d \in Nat : d = x.depth
      BY FillerIs
    <2>2. PICK e : e = Written("p", <<>>, <<>>, NoErrors, d)
      OBVIOUS
    <2>3. LegalElement(e) /\ NodeOf(e).name = "p" /\ NodeOf(e).attributes = <<>> /\ MeantLinks(e) = {}
      BY <2>2, BarelyLegal
    <2>4. IsSequence(HtmlLinks(NodeOf(e), base)) /\ ToSet(HtmlLinks(NodeOf(e), base)) = Told(base, MeantLinks(e))
      BY <2>3, ElementTold
    <2>5. PICK y : y = NodeOf(e)
      OBVIOUS
    <2>6. HtmlLinks(x, base) = HtmlLinks(y, base)
      <3>1. x.name = y.name /\ x.attributes = y.attributes
        BY <1>2, <2>3, <2>5
      <3> QED
        BY <3>1 DEF HtmlLinks, HrefItems, Has, RelationType
    <2>7. Told(base, {}) = {}
      BY DEF Told
    <2>8. PICK links : links = HtmlLinks(x, base)
      OBVIOUS
    <2>9. IsSequence(links) /\ ToSet(links) = {}
      BY <2>3, <2>4, <2>5, <2>6, <2>7, <2>8
    <2>10. PICK errors : errors = (IF on THEN MarkupItems(x.errors) ELSE <<>>)
      OBVIOUS
    <2>11. IsSequence(errors) /\ ToSet(errors) = {}
      <3>1. LegalErrors(NoErrors)
        BY DEF LegalErrors
      <3>2. IsSequence(MarkupItems(NoErrors)) /\ ToSet(MarkupItems(NoErrors)) = ErrorIf(NoErrors # NoErrors)
        BY <3>1, ErrorsTold
      <3>3. ErrorIf(NoErrors # NoErrors) = {}
        BY DEF ErrorIf
      <3> QED
        BY <1>2, <2>10, <3>2, <3>3, OneOrNone
    <2>12. NodeItems(x, base, on) = links \o errors
      BY <1>2, <2>8, <2>10 DEF NodeItems, IsElement
    <2>13. IsSequence(links \o errors) /\ ToSet(links \o errors) = ToSet(links) \cup ToSet(errors)
      BY <2>9, <2>11, SequencesJoin
    <2> QED
      BY <2>9, <2>11, <2>12, <2>13
  <1> QED
    BY <1>1, <1>2, FillerIs

LEMMA NodeTold ==
    ASSUME NEW e, LegalElement(e), NEW base, NEW on \in BOOLEAN
    PROVE  /\ IsSequence(NodeItems(NodeOf(e), base, on))
           /\ ToSet(NodeItems(NodeOf(e), base, on)) = ElementItems(e, base, on)
PROOF
  <1>1. PICK x, links, errors : /\ x = NodeOf(e) /\ links = HtmlLinks(x, base)
                                /\ errors = IF on THEN MarkupItems(x.errors) ELSE <<>>
    OBVIOUS
  <1>2. IsSequence(links) /\ ToSet(links) = Told(base, MeantLinks(e))
    BY <1>1, ElementTold
  <1>3. IsSequence(errors) /\ ToSet(errors) = ErrorIf(on /\ e.errors # NoErrors)
    <2>1. PICK said : said = e.errors
      OBVIOUS
    <2>2. LegalErrors(said) /\ x.errors = said
      BY <1>1, <2>1, NodeIs DEF LegalElement
    <2>3. IsSequence(MarkupItems(said)) /\ ToSet(MarkupItems(said)) = ErrorIf(said # NoErrors)
      BY <2>2, ErrorsTold
    <2>4. CASE on
      <3>1. ErrorIf(on /\ said # NoErrors) = ErrorIf(said # NoErrors)
        BY <2>4 DEF ErrorIf
      <3> QED
        BY <1>1, <2>1, <2>2, <2>3, <2>4, <3>1
    <2>5. CASE ~on
      <3>1. ErrorIf(on /\ said # NoErrors) = {}
        BY <2>5 DEF ErrorIf
      <3> QED
        BY <1>1, <2>1, <2>5, <3>1, OneOrNone
    <2> QED
      BY <2>4, <2>5
  <1>4. NodeItems(x, base, on) = links \o errors
    <2>1. IsElement(x)
      BY <1>1, NodeIs DEF IsElement
    <2> QED
      BY <1>1, <2>1 DEF NodeItems
  <1>5. IsSequence(links \o errors) /\ ToSet(links \o errors) = ToSet(links) \cup ToSet(errors)
    BY <1>2, <1>3, SequencesJoin
  <1> QED
    BY <1>1, <1>2, <1>3, <1>4, <1>5 DEF ElementItems

\* The items of a page's nodes are those of its elements.
LEMMA PageTold ==
    ASSUME NEW elements, LegalPage(elements), NEW base, NEW on \in BOOLEAN
    PROVE  LET nodes == RenderPage(elements)
               t == [i \in DOMAIN nodes |-> NodeItems(nodes[i], base, on)]
           IN  IsSequence(t) /\ ItemsOf(t) = UNION {ElementItems(e, base, on) : e \in ToSet(elements)}
PROOF
  <1>1. PICK nodes, m, t : /\ nodes = RenderPage(elements) /\ m = Len(nodes)
                           /\ t = [i \in DOMAIN nodes |-> NodeItems(nodes[i], base, on)]
    OBVIOUS
  <1>2. m \in Nat /\ DOMAIN nodes = 1..m
    BY <1>1, PagePlaces
  <1>3. t = [i \in 1..m |-> t[i]] /\ \A i \in 1..m : t[i] = NodeItems(nodes[i], base, on)
    BY <1>1, <1>2
  <1>4. IsSequence(t) /\ DOMAIN t = 1..m
    BY <1>2, <1>3, Tabled
  <1> DEFINE told(x) == ToSet(NodeItems(x, base, on))
             meant(e) == ElementItems(e, base, on)
  <1>5. ItemsOf(t) = UNION {told(nodes[i]) : i \in 1..m}
    <2>1. ItemsOf(t) = UNION {ToSet(t[i]) : i \in 1..m}
      BY <1>4 DEF ItemsOf
    <2>2. \A i \in 1..m : ToSet(t[i]) = told(nodes[i])
      BY <1>3
    <2> HIDE DEF told
    <2> QED
      BY <2>1, <2>2
  <1>6. ToSet(nodes) = {nodes[i] : i \in 1..m}
    BY <1>2 DEF ToSet
  <1>7. \A x \in ToSet(nodes) : IsFiller(x) \/ \E e \in ToSet(elements) : x = NodeOf(e)
    BY <1>1, PageNodes
  <1>8. \A e \in ToSet(elements) : LegalElement(e) /\ NodeOf(e) \in ToSet(nodes)
    BY <1>1, PageNodes
  <1>9. \A x : IsFiller(x) => told(x) = {}
    BY FillerTold
  <1>10. \A e : LegalElement(e) => told(NodeOf(e)) = meant(e)
    BY NodeTold
  <1> HIDE DEF told, meant
  <1>11. PICK N, E : N = ToSet(nodes) /\ E = ToSet(elements)
    OBVIOUS
  <1>12. UNION {told(nodes[i]) : i \in 1..m} = UNION {told(x) : x \in N}
    BY <1>6, <1>11
  <1>13. UNION {told(x) : x \in N} = UNION {meant(e) : e \in E}
    <2>1. ASSUME NEW x \in N, NEW v \in told(x) PROVE \E e \in E : v \in meant(e)
      <3>1. PICK e \in E : x = NodeOf(e)
        BY <1>7, <1>9, <1>11, <2>1
      <3>2. LegalElement(e) /\ told(x) = meant(e)
        BY <1>8, <1>10, <1>11, <3>1
      <3> QED
        BY <2>1, <3>2
    <2>2. ASSUME NEW e \in E, NEW v \in meant(e) PROVE \E x \in N : v \in told(x)
      <3>1. LegalElement(e) /\ NodeOf(e) \in N
        BY <1>8, <1>11
      <3>2. v \in told(NodeOf(e))
        BY <1>10, <2>2, <3>1
      <3> QED
        BY <3>1, <3>2
    <2> QED
      BY <2>1, <2>2
  <1>14. ItemsOf(t) = UNION {meant(e) : e \in ToSet(elements)}
    BY <1>5, <1>11, <1>12, <1>13
  <1> QED
    BY <1>1, <1>4, <1>14 DEF meant

LEMMA ElementsMean ==
    ASSUME NEW E, NEW base, NEW on \in BOOLEAN
    PROVE  UNION {ElementItems(e, base, on) : e \in E}
             = {Item(Join(base, l[1]), l[2]) : l \in UNION {MeantLinks(e) : e \in E}}
                 \cup ErrorIf(on /\ \E e \in E : e.errors # NoErrors)
PROOF
  <1> DEFINE item(l) == Item(Join(base, l[1]), l[2])
             links(e) == MeantLinks(e)
             wrong(e) == e.errors # NoErrors
             meant(e) == ElementItems(e, base, on)
  <1>1. \A e : meant(e) = {item(l) : l \in links(e)} \cup (IF on /\ wrong(e) THEN {ErrorItem} ELSE {})
    BY DEF ElementItems, Told, ErrorIf
  <1> HIDE DEF item, links, wrong, meant
  <1>2. UNION {meant(e) : e \in E}
          = {item(l) : l \in UNION {links(e) : e \in E}}
              \cup (IF on /\ \E e \in E : wrong(e) THEN {ErrorItem} ELSE {})
    <2>1. ASSUME NEW e \in E, NEW v \in meant(e)
          PROVE  v \in {item(l) : l \in UNION {links(f) : f \in E}}
                         \cup (IF on /\ \E f \in E : wrong(f) THEN {ErrorItem} ELSE {})
      <3>1. v \in {item(l) : l \in links(e)} \/ (on /\ wrong(e) /\ v = ErrorItem)
        BY <1>1, <2>1
      <3> QED
        BY <3>1
    <2>2. ASSUME NEW e \in E, NEW l \in links(e) PROVE item(l) \in meant(e)
      BY <1>1, <2>2
    <2>3. ASSUME NEW e \in E, on, wrong(e) PROVE ErrorItem \in meant(e)
      BY <1>1, <2>3
    <2> QED
      BY <2>1, <2>2, <2>3
  <1> QED
    BY <1>2 DEF item, links, wrong, meant, ErrorIf

\* Of a page the items are those that its author meant.
LEMMA HtmlMeant ==
    ASSUME NEW elements, LegalPage(elements), NEW validation, validation.on \in BOOLEAN
    PROVE  ItemsOf(Html(Directory, RenderPage(elements), validation)) = Meant("html", elements, validation)
PROOF
  <1>1. PICK nodes, base, on : /\ nodes = RenderPage(elements)
                               /\ base = MeantBase(elements) /\ on = validation.on
    OBVIOUS
  <1>2. PICK t : t = [i \in DOMAIN nodes |-> NodeItems(nodes[i], base, on)]
    OBVIOUS
  <1>3. BaseOf(Directory, nodes) = base
    BY <1>1, PageBase
  <1>4. Html(Directory, nodes, validation) = NonEmpty(t)
    <2> DEFINE items(x) == HtmlLinks(x, base) \o (IF on THEN MarkupItems(x.errors) ELSE <<>>)
    <2>1. Html(Directory, nodes, validation)
            = NonEmpty([i \in DOMAIN nodes |-> IF i \in Elements(nodes) THEN items(nodes[i]) ELSE <<>>])
      BY <1>1, <1>3 DEF Html
    <2>2. \A i \in DOMAIN nodes :
             (IF i \in Elements(nodes) THEN items(nodes[i]) ELSE <<>>) = NodeItems(nodes[i], base, on)
      BY DEF Elements, NodeItems
    <2> HIDE DEF items
    <2>3. t = [i \in DOMAIN nodes |-> IF i \in Elements(nodes) THEN items(nodes[i]) ELSE <<>>]
      BY <1>2, <2>2
    <2> QED
      BY <2>1, <2>3
  <1>5. IsSequence(t) /\ ItemsOf(t) = UNION {ElementItems(e, base, on) : e \in ToSet(elements)}
    BY <1>1, <1>2, PageTold
  <1>6. ItemsOf(NonEmpty(t)) = ItemsOf(t)
    BY <1>5, NonEmptyItems
  <1>7. PICK E : E = ToSet(elements)
    OBVIOUS
  <1>8. UNION {ElementItems(e, base, on) : e \in E}
             = {Item(Join(base, l[1]), l[2]) : l \in UNION {MeantLinks(e) : e \in E}}
                 \cup ErrorIf(on /\ \E e \in E : e.errors # NoErrors)
    BY <1>1, ElementsMean
  <1>9. Meant("html", elements, validation)
             = {Item(Join(base, l[1]), l[2]) : l \in UNION {MeantLinks(e) : e \in E}}
                 \cup ErrorIf(on /\ \E e \in E : e.errors # NoErrors)
    BY <1>1, <1>7 DEF Meant
  <1> QED
    BY <1>1, <1>4, <1>5, <1>6, <1>7, <1>8, <1>9

-----------------------------------------------------------------------------
\* Style sheets and robots.txt files.

\* An item for each error.
LEMMA ErrorRows ==
    ASSUME NEW errors, IsFiniteSet(errors)
    PROVE  LET t == [i \in 1..Cardinality(errors) |-> <<ErrorItem>>]
           IN  IsSequence(t) /\ ItemsOf(t) = ErrorIf(errors # {})
PROOF
  <1>1. PICK n, x, t : n = Cardinality(errors) /\ x = <<ErrorItem>> /\ t = [i \in 1..n |-> x]
    OBVIOUS
  <1>2. n \in Nat /\ (n = 0 <=> errors = {})
    BY <1>1, FS_CardinalityType, FS_EmptySet
  <1>3. IsSequence(t) /\ ToSet(t) = IF n = 0 THEN {} ELSE {x}
    BY <1>1, <1>2, Repeated
  <1>4. ToSet(x) = {ErrorItem}
    BY <1>1, OneOrNone
  <1>5. ItemsOf(t) = UNION {ToSet(y) : y \in ToSet(t)}
    BY ItemsOfSet
  <1>6. ItemsOf(t) = IF n = 0 THEN {} ELSE {ErrorItem}
    BY <1>3, <1>4, <1>5
  <1> QED
    BY <1>1, <1>2, <1>3, <1>6 DEF ErrorIf

\* Of a robots.txt the items are its sitemaps.
LEMMA RobotsMeant ==
    ASSUME NEW sitemaps, IsSequence(sitemaps), NEW validation
    PROVE  ItemsOf(Robots(sitemaps)) = Meant("robots", sitemaps, validation)
PROOF
  <1> DEFINE item(url) == Item(url, "sitemap")
  <1>1. PICK t : t = Robots(sitemaps)
    OBVIOUS
  <1>2. t = [i \in DOMAIN sitemaps |-> <<item(sitemaps[i])>>]
    BY <1>1 DEF Robots
  <1>3. ToSet(sitemaps) = {sitemaps[i] : i \in DOMAIN sitemaps}
    BY DEF ToSet
  <1>4. Meant("robots", sitemaps, validation) = {item(url) : url \in ToSet(sitemaps)}
    BY DEF Meant
  <1> HIDE DEF item
  <1>5. \A i \in DOMAIN sitemaps : ToSet(t[i]) = {item(sitemaps[i])}
    <2> SUFFICES ASSUME NEW i \in DOMAIN sitemaps PROVE ToSet(t[i]) = {item(sitemaps[i])}
      OBVIOUS
    <2>1. PICK x : x = item(sitemaps[i])
      OBVIOUS
    <2>2. t[i] = <<x>> /\ ToSet(<<x>>) = {x}
      BY <1>2, <2>1, OneOrNone
    <2> QED
      BY <2>1, <2>2
  <1>6. ItemsOf(t) = UNION {ToSet(t[i]) : i \in DOMAIN sitemaps}
    BY <1>2 DEF ItemsOf
  <1>7. ItemsOf(t) = {item(sitemaps[i]) : i \in DOMAIN sitemaps}
    BY <1>5, <1>6
  <1>8. {item(sitemaps[i]) : i \in DOMAIN sitemaps} = {item(url) : url \in ToSet(sitemaps)}
    BY <1>3
  <1> QED
    BY <1>1, <1>4, <1>7, <1>8

\* Of a style sheet the items are those that its author meant.
LEMMA CssMeant ==
    ASSUME NEW sheet, LegalSheet(sheet), NEW validation
    PROVE  ItemsOf(Css(Directory, sheet)) = Meant("css", sheet, validation)
PROOF
  <1> DEFINE item(e) == Item(Join(Directory, e.url), IF e.kind = "import" THEN "css" ELSE Untyped)
             told == {e \in ToSet(sheet.entries) : e.url # <<>> /\ e.url[1] # "#"}
  <1>1. CASE sheet.failed
    <2>1. PICK x, t : x = <<ErrorItem>> /\ t = <<x>>
      OBVIOUS
    <2>2. ToSet(x) = {ErrorItem} /\ ToSet(t) = {x}
      BY <2>1, OneOrNone
    <2>3. ItemsOf(t) = UNION {ToSet(y) : y \in ToSet(t)}
      BY ItemsOfSet
    <2>4. ItemsOf(t) = {ErrorItem}
      BY <2>2, <2>3
    <2>5. Css(Directory, sheet) = t
      BY <1>1, <2>1 DEF Css
    <2>6. Meant("css", sheet, validation) = {ErrorItem}
      BY <1>1 DEF Meant
    <2> QED
      BY <2>4, <2>5, <2>6
  <1>2. CASE ~sheet.failed
    <2>1. PICK entries, all : entries = CssEntries(sheet) /\ all = sheet.entries
      OBVIOUS
    <2>2. all \in Seq(ToSet(all))
      BY <2>1 DEF LegalSheet, IsSequence
    <2>3. entries = Those(all, told)
      BY <2>1 DEF CssEntries
    <2>4. entries \in Seq(ToSet(all)) /\ ToSet(entries) = ToSet(all) \cap told
      <3> HIDE DEF told
      <3> QED
        BY <2>2, <2>3, ThoseKept
    <2>5. ToSet(entries) = told
      BY <2>1, <2>4
    <2>6. PICK n : n = Len(entries)
      OBVIOUS
    <2>7. n \in Nat /\ DOMAIN entries = 1..n
      BY <2>4, <2>6, LenProperties
    <2>8. PICK t : t = [i \in DOMAIN entries |-> <<item(entries[i])>>]
      OBVIOUS
    <2>9. PICK s : s = [i \in 1..Cardinality(sheet.errors) |-> <<ErrorItem>>]
      OBVIOUS
    <2>10. Css(Directory, sheet) = s \o t
      BY <1>2, <2>1, <2>8, <2>9 DEF Css
    <2>11. Meant("css", sheet, validation) = {item(e) : e \in told} \cup ErrorIf(sheet.errors # {})
      BY <1>2 DEF Meant
    <2> HIDE DEF item, told
    <2>12. t = [i \in 1..n |-> t[i]] /\ \A i \in 1..n : t[i] = <<item(entries[i])>>
      BY <2>7, <2>8
    <2>13. IsSequence(t) /\ DOMAIN t = 1..n
      BY <2>7, <2>12, Tabled
    <2>14. \A i \in 1..n : ToSet(t[i]) = {item(entries[i])}
      <3> SUFFICES ASSUME NEW i \in 1..n PROVE ToSet(t[i]) = {item(entries[i])}
        OBVIOUS
      <3>1. PICK x : x = item(entries[i])
        OBVIOUS
      <3>2. t[i] = <<x>> /\ ToSet(<<x>>) = {x}
        BY <2>12, <3>1, OneOrNone
      <3> QED
        BY <3>1, <3>2
    <2>15. ItemsOf(t) = UNION {ToSet(t[i]) : i \in 1..n}
      BY <2>13 DEF ItemsOf
    <2>16. told = {entries[i] : i \in 1..n}
      BY <2>5, <2>7 DEF ToSet
    <2>17. ItemsOf(t) = {item(e) : e \in told}
      BY <2>14, <2>15, <2>16
    <2>18. IsSequence(s) /\ ItemsOf(s) = ErrorIf(sheet.errors # {})
      <3>1. PICK errors : errors = sheet.errors
        OBVIOUS
      <3>2. IsFiniteSet(errors)
        BY <3>1 DEF LegalSheet
      <3> QED
        BY <2>9, <3>1, <3>2, ErrorRows
    <2>19. ItemsOf(s \o t) = ItemsOf(s) \cup ItemsOf(t)
      BY <2>13, <2>18, ItemsJoin
    <2> QED
      BY <2>10, <2>11, <2>17, <2>18, <2>19
  <1> QED
    BY <1>1, <1>2 DEF LegalSheet

-----------------------------------------------------------------------------
\* Images.

\* A node in the root, the root with a namespace, and what a node adds to the output.
Inside(x) == [x EXCEPT !.depth = @ + 1]

RootOf(image) == [NodeOf(image.root) EXCEPT !.namespace = image.namespace]

SvgItems(x, validation) ==
    IF IsElement(x)
    THEN ((IF x.depth = 0 THEN RootItems(x, validation) ELSE <<>>) \o HrefItems(x, Directory))
           \o (IF validation.on THEN MarkupItems(x.errors) ELSE <<>>)
    ELSE <<>>

\* The links of an element of an image.
HrefSet(e) == {Item(Join(Directory, v), Untyped) : v \in Values(e, {"href", "xlink:href"})}

LEMMA InsideIs ==
    ASSUME NEW x, IsFiller(x) \/ \E e : LegalElement(e) /\ x = NodeOf(e)
    PROVE  /\ Inside(x).depth # 0 /\ Inside(x).kind = x.kind
           /\ x.kind = "element" => /\ Inside(x).name = x.name
                                    /\ Inside(x).attributes = x.attributes
                                    /\ Inside(x).errors = x.errors
PROOF
  <1>1. CASE \E d \in Nat : x = TextNode(d)
    <2>1. PICK d \in Nat : x = [kind |-> "text", depth |-> d]
      BY <1>1 DEF TextNode
    <2>2. Inside(x).depth = d + 1 /\ Inside(x).kind = "text" /\ x.kind = "text"
      BY <2>1 DEF Inside
    <2>3. d + 1 # 0
      OBVIOUS
    <2> QED
      BY <2>2, <2>3
  <1>2. CASE \E d \in Nat : \E name, attributes, errors : x = Node(d, name, attributes, errors)
    <2>1. PICK d \in Nat, name \in {x.name}, attributes \in {x.attributes}, errors \in {x.errors} :
             x = Node(d, name, attributes, errors)
      <3>1. PICK d, name, attributes, errors : d \in Nat /\ x = Node(d, name, attributes, errors)
        BY <1>2
      <3>2. x.name = name /\ x.attributes = attributes /\ x.errors = errors
        BY <3>1 DEF Node
      <3> QED
        BY <3>1, <3>2
    <2>2. /\ Inside(x).depth = d + 1 /\ Inside(x).kind = "element" /\ x.kind = "element"
          /\ Inside(x).name = name /\ Inside(x).attributes = attributes /\ Inside(x).errors = errors
      BY <2>1 DEF Inside, Node
    <2>3. d + 1 # 0
      OBVIOUS
    <2> QED
      BY <2>1, <2>2, <2>3
  <1> QED
    <2>1. CASE IsFiller(x)
      BY <1>1, <1>2, <2>1 DEF IsFiller
    <2>2. CASE \E e : LegalElement(e) /\ x = NodeOf(e)
      <3>1. PICK e : LegalElement(e) /\ x = Node(e.depth, e.name, AttributesOf(e), e.errors)
        BY <2>2 DEF NodeOf
      <3>2. e.depth \in Nat
        BY <3>1 DEF LegalElement
      <3> QED
        BY <1>2, <3>1, <3>2
    <2> QED
      BY <2>1, <2>2

\* The items of a node that are the same for a root and for others.
LEMMA PlainItems ==
    ASSUME NEW x, NEW e, LegalElement(e), NEW on \in BOOLEAN,
           x.attributes = AttributesOf(e), x.errors = e.errors
    PROVE  LET hrefs == HrefItems(x, Directory)
               errors == IF on THEN MarkupItems(x.errors) ELSE <<>>
           IN  /\ IsSequence(hrefs) /\ ToSet(hrefs) = HrefSet(e)
               /\ IsSequence(errors) /\ ToSet(errors) = ErrorIf(on /\ e.errors # NoErrors)
PROOF
  <1>1. PICK y : y = NodeOf(e)
    OBVIOUS
  <1>2. x.attributes = y.attributes
    BY <1>1, NodeIs
  <1>3. HrefItems(x, Directory) = HrefItems(y, Directory)
    BY <1>2 DEF HrefItems
  <1>4. PICK base : base = Directory
    OBVIOUS
  <1>5. IsSequence(HrefItems(y, base)) /\ ToSet(HrefItems(y, base)) = HrefSet(e)
    BY <1>1, <1>4, HrefsTold DEF HrefSet
  <1>6. PICK said, errors : said = e.errors /\ errors = IF on THEN MarkupItems(said) ELSE <<>>
    OBVIOUS
  <1>7. IsSequence(errors) /\ ToSet(errors) = ErrorIf(on /\ said # NoErrors)
    <2>1. LegalErrors(said)
      BY <1>6 DEF LegalElement
    <2>2. IsSequence(MarkupItems(said)) /\ ToSet(MarkupItems(said)) = ErrorIf(said # NoErrors)
      BY <2>1, ErrorsTold
    <2>3. CASE on
      <3>1. ErrorIf(on /\ said # NoErrors) = ErrorIf(said # NoErrors)
        BY <2>3 DEF ErrorIf
      <3> QED
        BY <1>6, <2>2, <2>3, <3>1
    <2>4. CASE ~on
      <3>1. ErrorIf(on /\ said # NoErrors) = {}
        BY <2>4 DEF ErrorIf
      <3> QED
        BY <1>6, <2>4, <3>1, OneOrNone
    <2> QED
      BY <2>3, <2>4
  <1> QED
    BY <1>3, <1>4, <1>5, <1>6, <1>7

LEMMA InsideTold ==
    ASSUME NEW e, LegalElement(e), NEW x, x.kind = "element", x.depth # 0,
           x.attributes = AttributesOf(e), x.errors = e.errors,
           NEW validation, validation.on \in BOOLEAN
    PROVE  /\ IsSequence(SvgItems(x, validation))
           /\ ToSet(SvgItems(x, validation)) = HrefSet(e) \cup ErrorIf(validation.on /\ e.errors # NoErrors)
PROOF
  <1>1. PICK on, hrefs, errors : /\ on = validation.on /\ hrefs = HrefItems(x, Directory)
                                 /\ errors = IF on THEN MarkupItems(x.errors) ELSE <<>>
    OBVIOUS
  <1>2. on \in BOOLEAN
    BY <1>1
  <1>3. /\ IsSequence(hrefs) /\ ToSet(hrefs) = HrefSet(e)
        /\ IsSequence(errors) /\ ToSet(errors) = ErrorIf(on /\ e.errors # NoErrors)
    BY <1>1, <1>2, PlainItems
  <1>4. PICK none : none = <<>>
    OBVIOUS
  <1>5. IsSequence(none) /\ ToSet(none) = {}
    BY <1>4, OneOrNone
  <1>6. SvgItems(x, validation) = (none \o hrefs) \o errors
    BY <1>1, <1>4 DEF SvgItems, IsElement
  <1>7. PICK start : start = none \o hrefs
    OBVIOUS
  <1>8. IsSequence(start) /\ ToSet(start) = ToSet(none) \cup ToSet(hrefs)
    BY <1>3, <1>5, <1>7, SequencesJoin
  <1>9. IsSequence(start \o errors) /\ ToSet(start \o errors) = ToSet(start) \cup ToSet(errors)
    BY <1>3, <1>8, SequencesJoin
  <1> QED
    BY <1>1, <1>3, <1>5, <1>6, <1>7, <1>8, <1>9

\* The items of the root, with those that its name may exempt it from.
RootError(image, validation) ==
    /\ validation.on /\ image.root.name \notin validation.ignored
    /\ image.root.name # SvgRoot \/ image.namespace # SvgNamespace

LEMMA RootIs ==
    ASSUME NEW image
    PROVE  LET r == RootOf(image)
           IN  /\ r.kind = "element" /\ r.depth = image.root.depth /\ r.name = image.root.name
               /\ r.namespace = image.namespace /\ r.attributes = AttributesOf(image.root)
               /\ r.errors = image.root.errors
BY DEF RootOf, NodeOf, Node

\* The items of the root.
LEMMA RootTold ==
    ASSUME NEW image, LegalImage(image), NEW validation, validation.on \in BOOLEAN
    PROVE  LET t == SvgItems(RootOf(image), validation)
           IN  /\ IsSequence(t)
               /\ ToSet(t) = ErrorIf(RootError(image, validation)) \cup HrefSet(image.root)
                               \cup ErrorIf(validation.on /\ image.root.errors # NoErrors)
PROOF
  <1>1. PICK x, e, on : x = RootOf(image) /\ e = image.root /\ on = validation.on
    OBVIOUS
  <1>2. LegalElement(e) /\ e.depth = 0 /\ on \in BOOLEAN
    BY <1>1 DEF LegalImage
  <1>3. /\ x.kind = "element" /\ x.depth = 0 /\ x.name = e.name /\ x.namespace = image.namespace
        /\ x.attributes = AttributesOf(e) /\ x.errors = e.errors
    BY <1>1, <1>2, RootIs
  <1>4. PICK a, b, roots, hrefs, errors :
           /\ a = (IF x.namespace # SvgNamespace THEN <<ErrorItem>> ELSE <<>>)
           /\ b = (IF x.name # SvgRoot THEN <<ErrorItem>> ELSE <<>>)
           /\ roots = RootItems(x, validation)
           /\ hrefs = HrefItems(x, Directory)
           /\ errors = (IF on THEN MarkupItems(x.errors) ELSE <<>>)
    OBVIOUS
  <1>5. /\ IsSequence(hrefs) /\ ToSet(hrefs) = HrefSet(e)
        /\ IsSequence(errors) /\ ToSet(errors) = ErrorIf(on /\ e.errors # NoErrors)
    BY <1>2, <1>3, <1>4, PlainItems
  <1>6. IsSequence(roots) /\ ToSet(roots) = ErrorIf(RootError(image, validation))
    <2>1. CASE ~on \/ x.name \in validation.ignored
      <3>1. roots = <<>>
        BY <1>1, <1>4, <2>1 DEF RootItems
      <3>2. ErrorIf(RootError(image, validation)) = {}
        BY <1>1, <1>3, <2>1 DEF ErrorIf, RootError
      <3> QED
        BY <3>1, <3>2, OneOrNone
    <2>2. CASE on /\ x.name \notin validation.ignored
      <3>1. roots = a \o b
        BY <1>1, <1>4, <2>2 DEF RootItems
      <3>2. IsSequence(a) /\ ToSet(a) = ErrorIf(x.namespace # SvgNamespace)
        BY <1>4, OneOrNone DEF ErrorIf
      <3>3. IsSequence(b) /\ ToSet(b) = ErrorIf(x.name # SvgRoot)
        BY <1>4, OneOrNone DEF ErrorIf
      <3>4. IsSequence(a \o b) /\ ToSet(a \o b) = ToSet(a) \cup ToSet(b)
        BY <3>2, <3>3, SequencesJoin
      <3>5. RootError(image, validation) <=> (x.namespace # SvgNamespace \/ x.name # SvgRoot)
        BY <1>1, <1>3, <2>2 DEF RootError
      <3>6. ErrorIf(x.namespace # SvgNamespace) \cup ErrorIf(x.name # SvgRoot)
              = ErrorIf(RootError(image, validation))
        BY <3>5 DEF ErrorIf
      <3> QED
        BY <3>1, <3>2, <3>3, <3>4, <3>6
    <2> QED
      BY <1>2, <2>1, <2>2
  <1>7. SvgItems(x, validation) = (roots \o hrefs) \o errors
    BY <1>1, <1>3, <1>4 DEF SvgItems, IsElement
  <1>8. PICK start : start = roots \o hrefs
    OBVIOUS
  <1>9. IsSequence(start) /\ ToSet(start) = ToSet(roots) \cup ToSet(hrefs)
    BY <1>5, <1>6, <1>8, SequencesJoin
  <1>10. IsSequence(start \o errors) /\ ToSet(start \o errors) = ToSet(start) \cup ToSet(errors)
    BY <1>5, <1>9, SequencesJoin
  <1> QED
    BY <1>1, <1>5, <1>6, <1>7, <1>8, <1>9, <1>10

\* What an element of an image is meant to add.
ImageItems(e, on) == HrefSet(e) \cup ErrorIf(on /\ e.errors # NoErrors)

LEMMA FillerInside ==
    ASSUME NEW x, IsFiller(x), NEW validation, validation.on \in BOOLEAN
    PROVE  /\ IsSequence(SvgItems(Inside(x), validation))
           /\ ToSet(SvgItems(Inside(x), validation)) = {}
PROOF
  <1>1. PICK y : y = Inside(x)
    OBVIOUS
  <1>2. /\ y.depth # 0 /\ y.kind = x.kind
        /\ x.kind = "element" => y.name = x.name /\ y.attributes = x.attributes /\ y.errors = x.errors
    BY <1>1, InsideIs
  <1>3. CASE x.kind = "text"
    <2>1. SvgItems(y, validation) = <<>>
      BY <1>2, <1>3 DEF SvgItems, IsElement
    <2> QED
      BY <1>1, <2>1, OneOrNone
  <1>4. CASE x.kind = "element" /\ x.attributes = <<>> /\ x.errors = NoErrors
    <2>1. PICK d \in Nat : d = x.depth
      BY FillerIs
    <2>2. PICK e : e = Written("p", <<>>, <<>>, NoErrors, d)
      OBVIOUS
    <2>3. LegalElement(e) /\ NodeOf(e).attributes = <<>>
      BY <2>2, BarelyLegal
    <2>4. e.attributes = <<>> /\ e.errors = NoErrors
      BY <2>2 DEF Written
    <2>5. y.attributes = AttributesOf(e) /\ y.errors = e.errors /\ y.kind = "element"
      BY <1>2, <1>4, <2>3, <2>4, NodeIs
    <2>6. /\ IsSequence(SvgItems(y, validation))
          /\ ToSet(SvgItems(y, validation)) = HrefSet(e) \cup ErrorIf(validation.on /\ e.errors # NoErrors)
      BY <1>2, <2>3, <2>5, InsideTold
    <2>7. Values(e, {"href", "xlink:href"}) = {}
      BY <2>4 DEF Values
    <2>8. HrefSet(e) = {} /\ ErrorIf(validation.on /\ e.errors # NoErrors) = {}
      BY <2>4, <2>7 DEF HrefSet, ErrorIf
    <2> QED
      BY <1>1, <2>6, <2>8
  <1> QED
    BY <1>3, <1>4, FillerIs

LEMMA NodeInside ==
    ASSUME NEW e, LegalElement(e), NEW validation, validation.on \in BOOLEAN
    PROVE  /\ IsSequence(SvgItems(Inside(NodeOf(e)), validation))
           /\ ToSet(SvgItems(Inside(NodeOf(e)), validation)) = ImageItems(e, validation.on)
PROOF
  <1>1. PICK x, y : x = NodeOf(e) /\ y = Inside(x)
    OBVIOUS
  <1>2. x.kind = "element" /\ x.attributes = AttributesOf(e) /\ x.errors = e.errors
    BY <1>1, NodeIs
  <1>3. \E f : LegalElement(f) /\ x = NodeOf(f)
    BY <1>1
  <1>4. /\ y.depth # 0 /\ y.kind = "element" /\ y.attributes = AttributesOf(e) /\ y.errors = e.errors
    BY <1>1, <1>2, <1>3, InsideIs
  <1>5. /\ IsSequence(SvgItems(y, validation))
        /\ ToSet(SvgItems(y, validation)) = HrefSet(e) \cup ErrorIf(validation.on /\ e.errors # NoErrors)
    BY <1>4, InsideTold
  <1> QED
    BY <1>1, <1>5 DEF ImageItems

\* A root of no depth is written alone.
LEMMA RootAlone ==
    ASSUME NEW e, LegalElement(e), e.depth = 0
    PROVE  RenderElement(e)[1] = NodeOf(e)
PROOF
  <1>1. PICK w, x : w = WrappersOf(e) /\ x = NodeOf(e)
    OBVIOUS
  <1>2. RenderElement(e) = w \o <<x>>
    BY <1>1, Wrappers
  <1>3. PICK parts : parts = [n \in 1..0 |-> WrapperAt(n)]
    OBVIOUS
  <1>4. w = FlattenSeq(parts)
    BY <1>1, <1>3 DEF WrappersOf
  <1>5. parts = [n \in 1..0 |-> parts[n]] /\ \A n \in 1..0 : IsSequence(parts[n])
    <2>1. \A n \in 1..0 : FALSE
      OBVIOUS
    <2> QED
      BY <1>3, <2>1
  <1>6. IsSequence(w) /\ ToSet(w) = {}
    <2>1. PICK m \in Nat : m = 0
      OBVIOUS
    <2>2. IsSequence(FlattenSeq(parts)) /\ ToSet(FlattenSeq(parts)) = SetOf(parts, m)
      BY <1>5, <2>1, SequencesFlatten
    <2>3. SetOf(parts, m) = {}
      BY <2>1 DEF SetOf
    <2> QED
      BY <1>4, <2>2, <2>3
  <1>7. w = <<>>
    <2>1. w \in Seq({})
      BY <1>6 DEF IsSequence
    <2> QED
      BY <2>1
  <1>8. (<<>> \o <<x>>)[1] = x
    OBVIOUS
  <1> QED
    BY <1>1, <1>2, <1>7, <1>8

\* The nodes of an image, of which the root is the first.
NodesOf(image) ==
    <<RootOf(image)>> \o [n \in DOMAIN RenderPage(image.elements) |-> Inside(RenderPage(image.elements)[n])]

LEMMA NodesAre ==
    ASSUME NEW image, LegalImage(image)
    PROVE  LET nodes == NodesOf(image)
               page == RenderPage(image.elements)
           IN  /\ Len(page) \in Nat /\ DOMAIN nodes = 1..(Len(page) + 1)
               /\ nodes[1] = RootOf(image)
               /\ \A j \in 1..Len(page) : nodes[j + 1] = Inside(page[j])
PROOF
  <1>1. PICK page, m, r, one, rest, nodes :
          /\ page = RenderPage(image.elements) /\ m = Len(page) /\ r = RootOf(image)
          /\ one = <<r>> /\ rest = [n \in DOMAIN page |-> Inside(page[n])]
          /\ nodes = NodesOf(image)
    OBVIOUS
  <1>2. m \in Nat /\ DOMAIN page = 1..m
    <2>1. PICK elements : elements = image.elements
      OBVIOUS
    <2>2. LegalPage(elements)
      BY <2>1 DEF LegalImage
    <2> QED
      BY <1>1, <2>1, <2>2, PagePlaces
  <1>3. rest = [n \in 1..m |-> rest[n]] /\ \A n \in 1..m : rest[n] = Inside(page[n])
    BY <1>1, <1>2
  <1>4. IsSequence(rest) /\ DOMAIN rest = 1..m
    BY <1>2, <1>3, Tabled
  <1>5. PICK X : X = ToSet(rest) \cup {r}
    OBVIOUS
  <1>6. rest \in Seq(X)
    BY <1>4, <1>5, WiderSeq DEF IsSequence
  <1>7. Len(rest) = m
    BY <1>2, <1>4, <1>6, LenProperties
  <1>8. one \in Seq(X) /\ Len(one) = 1 /\ one[1] = r
    BY <1>1, <1>5
  <1>9. nodes = one \o rest
    BY <1>1 DEF NodesOf
  <1>10. one \o rest \in Seq(X) /\ Len(one \o rest) = Len(one) + Len(rest)
    BY <1>6, <1>8, Joining
  <1>11. \A i \in 1..Len(one) : (one \o rest)[i] = one[i]
    BY <1>6, <1>8, Joining
  <1>12. \A i \in 1..Len(rest) : (one \o rest)[Len(one) + i] = rest[i]
    <2>1. one \in Seq(X) /\ rest \in Seq(X)
      BY <1>6, <1>8
    <2> QED
      BY <2>1, Joining
  <1>13. DOMAIN nodes = 1..(m + 1)
    <2>1. nodes \in Seq(X) /\ Len(nodes) = m + 1
      BY <1>2, <1>7, <1>8, <1>9, <1>10
    <2> QED
      BY <2>1, LenProperties
  <1>14. nodes[1] = r
    <2>1. 1 \in 1..Len(one)
      BY <1>8
    <2>2. (one \o rest)[1] = one[1]
      BY <1>11, <2>1
    <2> QED
      BY <1>8, <1>9, <2>2
  <1>15. \A j \in 1..m : nodes[j + 1] = Inside(page[j])
    <2> SUFFICES ASSUME NEW j \in 1..m PROVE nodes[j + 1] = Inside(page[j])
      OBVIOUS
    <2>1. 1 + j = j + 1
      BY <1>2
    <2>2. nodes[1 + j] = rest[j]
      BY <1>7, <1>8, <1>9, <1>12
    <2> QED
      BY <1>3, <2>1, <2>2
  <1> QED
    BY <1>1, <1>2, <1>13, <1>14, <1>15

\* The items of an image's nodes are those of its elements.
LEMMA ImageTold ==
    ASSUME NEW image, LegalImage(image), NEW validation, validation.on \in BOOLEAN
    PROVE  LET nodes == NodesOf(image)
               t == [i \in DOMAIN nodes |-> SvgItems(nodes[i], validation)]
           IN  /\ IsSequence(t)
               /\ ItemsOf(t) = ToSet(SvgItems(RootOf(image), validation))
                                 \cup UNION {ImageItems(e, validation.on) : e \in ToSet(image.elements)}
PROOF
  <1>1. PICK nodes, page, m, t, E :
          /\ nodes = NodesOf(image) /\ page = RenderPage(image.elements) /\ m = Len(page)
          /\ t = [i \in DOMAIN nodes |-> SvgItems(nodes[i], validation)]
          /\ E = ToSet(image.elements)
    OBVIOUS
  <1>2. /\ m \in Nat /\ DOMAIN nodes = 1..(m + 1) /\ nodes[1] = RootOf(image)
        /\ \A j \in 1..m : nodes[j + 1] = Inside(page[j])
    BY <1>1, NodesAre
  <1>3. PICK elements : elements = image.elements
    OBVIOUS
  <1>4. LegalPage(elements) /\ page = RenderPage(elements) /\ E = ToSet(elements)
    BY <1>1, <1>3 DEF LegalImage
  <1>5. DOMAIN page = 1..m
    BY <1>1, <1>4, PagePlaces
  <1> DEFINE told(x) == ToSet(SvgItems(x, validation))
             deep(x) == ToSet(SvgItems(Inside(x), validation))
             meant(e) == ImageItems(e, validation.on)
  <1>6. \A x : IsFiller(x) => IsSequence(SvgItems(Inside(x), validation)) /\ deep(x) = {}
    BY FillerInside
  <1>7. \A e : LegalElement(e) => /\ IsSequence(SvgItems(Inside(NodeOf(e)), validation))
                                  /\ deep(NodeOf(e)) = meant(e)
    BY NodeInside
  <1>8. ToSet(page) = {page[j] : j \in 1..m}
    BY <1>5 DEF ToSet
  <1>9. \A x \in ToSet(page) : IsFiller(x) \/ \E e \in E : x = NodeOf(e)
    BY <1>4, PageNodes
  <1>10. \A e \in E : LegalElement(e) /\ NodeOf(e) \in ToSet(page)
    BY <1>4, PageNodes
  <1>11. t = [i \in 1..(m + 1) |-> t[i]] /\ \A i \in 1..(m + 1) : t[i] = SvgItems(nodes[i], validation)
    BY <1>1, <1>2
  <1>12. IsSequence(t) /\ DOMAIN t = 1..(m + 1)
    <2>1. PICK k \in Nat : k = m + 1
      BY <1>2
    <2>2. t = [i \in 1..k |-> t[i]]
      BY <1>11, <2>1
    <2> QED
      BY <2>1, <2>2, Tabled
  <1>13. ItemsOf(t) = UNION {told(nodes[i]) : i \in 1..(m + 1)}
    <2>1. ItemsOf(t) = UNION {ToSet(t[i]) : i \in 1..(m + 1)}
      BY <1>12 DEF ItemsOf
    <2>2. \A i \in 1..(m + 1) : ToSet(t[i]) = told(nodes[i])
      BY <1>11
    <2> HIDE DEF told
    <2> QED
      BY <2>1, <2>2
  <1>14. \A j \in 1..m : told(nodes[j + 1]) = deep(page[j])
    BY <1>2
  <1> HIDE DEF told, deep, meant
  <1>15. UNION {told(nodes[i]) : i \in 1..(m + 1)} = told(RootOf(image)) \cup UNION {deep(page[j]) : j \in 1..m}
    <2>1. ASSUME NEW i \in 1..(m + 1), i # 1 PROVE \E j \in 1..m : told(nodes[i]) = deep(page[j])
      <3>1. i - 1 \in 1..m /\ (i - 1) + 1 = i
        BY <1>2, <2>1
      <3> QED
        BY <1>14, <3>1
    <2>2. ASSUME NEW j \in 1..m PROVE \E i \in 1..(m + 1) : told(nodes[i]) = deep(page[j])
      <3>1. j + 1 \in 1..(m + 1)
        BY <1>2
      <3> QED
        BY <1>14, <3>1
    <2>3. 1 \in 1..(m + 1) /\ told(nodes[1]) = told(RootOf(image))
      BY <1>2
    <2>4. ASSUME NEW v \in UNION {told(nodes[i]) : i \in 1..(m + 1)}
          PROVE  v \in told(RootOf(image)) \cup UNION {deep(page[j]) : j \in 1..m}
      BY <2>1, <2>3
    <2>5. ASSUME NEW v \in told(RootOf(image)) \cup UNION {deep(page[j]) : j \in 1..m}
          PROVE  v \in UNION {told(nodes[i]) : i \in 1..(m + 1)}
      BY <2>2, <2>3
    <2> QED
      BY <2>4, <2>5
  <1>16. UNION {deep(page[j]) : j \in 1..m} = UNION {meant(e) : e \in E}
    <2>1. ASSUME NEW j \in 1..m, NEW v \in deep(page[j]) PROVE \E e \in E : v \in meant(e)
      <3>1. page[j] \in ToSet(page)
        BY <1>8
      <3>2. PICK e \in E : page[j] = NodeOf(e)
        BY <1>6, <1>9, <2>1, <3>1
      <3> QED
        BY <1>7, <1>10, <2>1, <3>2
    <2>2. ASSUME NEW e \in E, NEW v \in meant(e) PROVE \E j \in 1..m : v \in deep(page[j])
      <3>1. PICK j \in 1..m : page[j] = NodeOf(e)
        BY <1>8, <1>10
      <3> QED
        BY <1>7, <1>10, <2>2, <3>1
    <2> QED
      BY <2>1, <2>2
  <1>17. ItemsOf(t) = told(RootOf(image)) \cup UNION {meant(e) : e \in E}
    BY <1>13, <1>15, <1>16
  <1> QED
    BY <1>1, <1>12, <1>17 DEF told, meant

ImageLinks(A) == {Item(Join(Directory, v), Untyped) : v \in UNION {Values(e, {"href", "xlink:href"}) : e \in A}}

InsideItems(E, on) == UNION {ImageItems(e, on) : e \in E}

ImageErrors(A, on) == ErrorIf(on /\ \E e \in A : e.errors # NoErrors)

LEMMA ImageMeans ==
    ASSUME NEW root, NEW E, NEW on \in BOOLEAN
    PROVE  ImageItems(root, on) \cup InsideItems(E, on)
             = ImageLinks({root} \cup E) \cup ImageErrors({root} \cup E, on)
PROOF
  <1> DEFINE item(v) == Item(Join(Directory, v), Untyped)
             values(e) == Values(e, {"href", "xlink:href"})
             wrong(e) == e.errors # NoErrors
             meant(e) == ImageItems(e, on)
  <1>1. \A e : meant(e) = {item(v) : v \in values(e)} \cup (IF on /\ wrong(e) THEN {ErrorItem} ELSE {})
    BY DEF ImageItems, HrefSet, ErrorIf
  <1>2. ImageItems(root, on) = meant(root)
    OBVIOUS
  <1> HIDE DEF item, values, wrong, meant
  <1>3. PICK A : A = {root} \cup E
    OBVIOUS
  <1>4. meant(root) \cup UNION {meant(e) : e \in E} = UNION {meant(e) : e \in A}
    BY <1>3
  <1>5. UNION {meant(e) : e \in A}
          = {item(v) : v \in UNION {values(e) : e \in A}}
              \cup (IF on /\ \E e \in A : wrong(e) THEN {ErrorItem} ELSE {})
    <2>1. ASSUME NEW e \in A, NEW v \in meant(e)
          PROVE  v \in {item(u) : u \in UNION {values(f) : f \in A}}
                         \cup (IF on /\ \E f \in A : wrong(f) THEN {ErrorItem} ELSE {})
      <3>1. v \in {item(u) : u \in values(e)} \/ (on /\ wrong(e) /\ v = ErrorItem)
        BY <1>1, <2>1
      <3> QED
        BY <3>1
    <2>2. ASSUME NEW e \in A, NEW u \in values(e) PROVE item(u) \in meant(e)
      BY <1>1, <2>2
    <2>3. ASSUME NEW e \in A, on, wrong(e) PROVE ErrorItem \in meant(e)
      BY <1>1, <2>3
    <2> QED
      BY <2>1, <2>2, <2>3
  <1> QED
    BY <1>2, <1>3, <1>4, <1>5 DEF item, values, wrong, meant, ErrorIf, InsideItems, ImageLinks, ImageErrors

LEMMA ImageMeant ==
    ASSUME NEW image, NEW validation, validation.on \in BOOLEAN
    PROVE  Meant("svg", image, validation)
             = ErrorIf(image.syntax # {}) \cup ErrorIf(RootError(image, validation))
                 \cup ImageItems(image.root, validation.on)
                 \cup InsideItems(ToSet(image.elements), validation.on)
PROOF
  <1>1. PICK on, root, E : on = validation.on /\ root = image.root /\ E = ToSet(image.elements)
    OBVIOUS
  <1>2. on \in BOOLEAN
    BY <1>1
  <1>3. ImageItems(root, on) \cup InsideItems(E, on)
          = ImageLinks({root} \cup E) \cup ImageErrors({root} \cup E, on)
    BY <1>2, ImageMeans
  <1>4. PICK y, w : y = ErrorIf(image.syntax # {}) /\ w = ErrorIf(RootError(image, validation))
    OBVIOUS
  <1>5. Meant("svg", image, validation)
          = ImageLinks({root} \cup E) \cup y \cup ImageErrors({root} \cup E, on) \cup w
    BY <1>1, <1>4 DEF Meant, RootError, ImageLinks, ImageErrors
  <1>6. Meant("svg", image, validation) = y \cup w \cup ImageItems(root, on) \cup InsideItems(E, on)
    BY <1>3, <1>5
  <1> QED
    BY <1>1, <1>4, <1>6

\* Of an image the items are those that its author meant.
LEMMA SvgMeant ==
    ASSUME NEW image, LegalImage(image), NEW validation, validation.on \in BOOLEAN
    PROVE  ItemsOf(Rendered("svg", image, validation)) = Meant("svg", image, validation)
PROOF
  <1>1. PICK nodes, on, root, syntax, page, E :
          /\ nodes = NodesOf(image) /\ on = validation.on /\ root = image.root
          /\ syntax = [i \in 1..Cardinality(image.syntax) |-> <<ErrorItem>>]
          /\ page = RenderPage(image.elements)
          /\ E = ToSet(image.elements)
    OBVIOUS
  <1>2. PICK t : t = [i \in DOMAIN nodes |-> SvgItems(nodes[i], validation)]
    OBVIOUS
  <1>3. Rendered("svg", image, validation) = Svg(Directory, image.syntax, nodes, validation)
    <2>1. RenderElement(root)[1] = NodeOf(root)
      <3>1. LegalElement(root) /\ root.depth = 0
        BY <1>1 DEF LegalImage
      <3> QED
        BY <3>1, RootAlone
    <2>2. nodes = <<[RenderElement(root)[1] EXCEPT !.namespace = image.namespace]>>
                    \o [n \in DOMAIN page |-> [page[n] EXCEPT !.depth = @ + 1]]
      BY <1>1, <2>1 DEF NodesOf, RootOf, Inside
    <2> QED
      BY <1>1, <2>2 DEF Rendered
  <1>4. Svg(Directory, image.syntax, nodes, validation) = syntax \o NonEmpty(t)
    <2> DEFINE items(x) == ((IF x.depth = 0 THEN RootItems(x, validation) ELSE <<>>) \o HrefItems(x, Directory))
                             \o (IF validation.on THEN MarkupItems(x.errors) ELSE <<>>)
    <2>1. Svg(Directory, image.syntax, nodes, validation)
            = syntax \o NonEmpty([i \in DOMAIN nodes |-> IF i \in Elements(nodes) THEN items(nodes[i]) ELSE <<>>])
      BY <1>1 DEF Svg
    <2>2. \A i \in DOMAIN nodes :
             (IF i \in Elements(nodes) THEN items(nodes[i]) ELSE <<>>) = SvgItems(nodes[i], validation)
      BY DEF Elements, SvgItems
    <2> HIDE DEF items
    <2>3. t = [i \in DOMAIN nodes |-> IF i \in Elements(nodes) THEN items(nodes[i]) ELSE <<>>]
      BY <1>2, <2>2
    <2> QED
      BY <2>1, <2>3
  <1>5. IsSequence(syntax) /\ ItemsOf(syntax) = ErrorIf(image.syntax # {})
    <2>1. PICK errors : errors = image.syntax
      OBVIOUS
    <2>2. IsFiniteSet(errors)
      BY <2>1 DEF LegalImage
    <2> QED
      BY <1>1, <2>1, <2>2, ErrorRows
  <1>6. PICK roots : roots = ToSet(SvgItems(RootOf(image), validation))
    OBVIOUS
  <1>7. /\ IsSequence(t)
        /\ ItemsOf(t) = roots \cup UNION {ImageItems(e, on) : e \in E}
    BY <1>1, <1>2, <1>6, ImageTold
  <1>8. roots = ErrorIf(RootError(image, validation)) \cup HrefSet(root) \cup ErrorIf(on /\ root.errors # NoErrors)
    BY <1>1, <1>6, RootTold
  <1>9. PICK kept : kept = NonEmpty(t)
    OBVIOUS
  <1>10. IsSequence(kept) /\ ItemsOf(kept) = ItemsOf(t)
    BY <1>7, <1>9, NonEmptyItems
  <1>11. ItemsOf(syntax \o kept) = ItemsOf(syntax) \cup ItemsOf(kept)
    BY <1>5, <1>10, ItemsJoin
  <1>12. Meant("svg", image, validation)
           = ErrorIf(image.syntax # {}) \cup ErrorIf(RootError(image, validation))
               \cup ImageItems(root, on) \cup InsideItems(E, on)
    BY <1>1, ImageMeant
  <1>13. ItemsOf(t) = roots \cup InsideItems(E, on)
    BY <1>7 DEF InsideItems
  <1>14. roots = ErrorIf(RootError(image, validation)) \cup ImageItems(root, on)
    BY <1>8 DEF ImageItems
  <1>15. ItemsOf(syntax \o kept) = Meant("svg", image, validation)
    BY <1>5, <1>10, <1>11, <1>12, <1>13, <1>14
  <1> QED
    BY <1>3, <1>4, <1>9, <1>15

-----------------------------------------------------------------------------
\* The crawl.

\* Of documents of every type, whatever is written in them, the items are those meant.
LEMMA DocumentMeant ==
    ASSUME NEW type \in Type, NEW written, Legal(type, written),
           NEW validation, validation.on \in BOOLEAN
    PROVE  ItemsOf(Rendered(type, written, validation)) = Meant(type, written, validation)
PROOF
  <1>1. CASE type = "css"
    <2>1. LegalSheet(written) /\ Rendered(type, written, validation) = Css(Directory, written)
      BY <1>1 DEF Legal, Rendered
    <2> QED
      BY <1>1, <2>1, CssMeant
  <1>2. CASE type = "html"
    <2>1. /\ LegalPage(written)
          /\ Rendered(type, written, validation) = Html(Directory, RenderPage(written), validation)
      BY <1>2 DEF Legal, Rendered
    <2> QED
      BY <1>2, <2>1, HtmlMeant
  <1>3. CASE type = "robots"
    <2>1. IsSequence(written) /\ Rendered(type, written, validation) = Robots(written)
      BY <1>3 DEF Legal, Rendered
    <2> QED
      BY <1>3, <2>1, RobotsMeant
  <1>4. CASE type = "sitemap"
    <2>1. LegalSitemap(written) /\ Rendered(type, written, validation) = Sitemap(RenderSitemap(written))
      BY <1>4 DEF Legal, Rendered
    <2>2. ItemsOf(Sitemap(RenderSitemap(written))) = MeantSitemap(written)
      BY <2>1, SitemapMeant, TokenAssumption
    <2>3. Meant(type, written, validation) = MeantSitemap(written)
      BY <1>4 DEF Meant
    <2> QED
      BY <2>1, <2>2, <2>3
  <1>5. CASE type = "svg"
    <2>1. LegalImage(written)
      BY <1>5 DEF Legal
    <2> QED
      BY <1>5, <2>1, SvgMeant
  <1> QED
    BY <1>1, <1>2, <1>3, <1>4, <1>5 DEF Type

\* What the crawl reports of a document is what is in its elements.
LEMMA ItemsAre ==
    ASSUME NEW d, NEW type
    PROVE  Items(d, type) = ItemsOf(web.elements[d][type])
PROOF
  <1>1. PICK es : es = web.elements[d][type]
    OBVIOUS
  <1>2. Items(d, type) = {es[p[1]][p[2]] : p \in UNION {{i} \X DOMAIN es[i] : i \in DOMAIN es}}
    BY <1>1 DEF Items, ItemAt, Places
  <1>3. ItemsOf(es) = UNION {{es[i][j] : j \in DOMAIN es[i]} : i \in DOMAIN es}
    BY DEF ItemsOf, ToSet
  <1>4. ASSUME NEW i \in DOMAIN es, NEW p \in {i} \X DOMAIN es[i]
        PROVE  es[p[1]][p[2]] \in {es[i][j] : j \in DOMAIN es[i]}
    <2>1. p[1] = i /\ p[2] \in DOMAIN es[i]
      OBVIOUS
    <2> QED
      BY <2>1
  <1>5. ASSUME NEW i \in DOMAIN es, NEW j \in DOMAIN es[i]
        PROVE  \E p \in {i} \X DOMAIN es[i] : es[p[1]][p[2]] = es[i][j]
    <2>1. PICK p : p = <<i, j>>
      OBVIOUS
    <2>2. p \in {i} \X DOMAIN es[i] /\ p[1] = i /\ p[2] = j
      BY <2>1
    <2> QED
      BY <2>2
  <1>6. {es[p[1]][p[2]] : p \in UNION {{i} \X DOMAIN es[i] : i \in DOMAIN es}}
          = UNION {{es[i][j] : j \in DOMAIN es[i]} : i \in DOMAIN es}
    <2> DEFINE at(p) == es[p[1]][p[2]]
               places(i) == {i} \X DOMAIN es[i]
               row(i) == {es[i][j] : j \in DOMAIN es[i]}
    <2>1. \A i \in DOMAIN es : \A p \in places(i) : at(p) \in row(i)
      BY <1>4
    <2>2. \A i \in DOMAIN es : \A v \in row(i) : \E p \in places(i) : at(p) = v
      <3> SUFFICES ASSUME NEW i \in DOMAIN es, NEW v \in row(i) PROVE \E p \in places(i) : at(p) = v
        OBVIOUS
      <3>1. PICK j \in DOMAIN es[i] : v = es[i][j]
        OBVIOUS
      <3> QED
        BY <1>5, <3>1
    <2> HIDE DEF at, places, row
    <2>3. {at(p) : p \in UNION {places(i) : i \in DOMAIN es}} = UNION {row(i) : i \in DOMAIN es}
      BY <2>1, <2>2
    <2> QED
      BY <2>3 DEF at, places, row
  <1> QED
    BY <1>1, <1>2, <1>3, <1>6

\* In a run that ended by itself each document was reported with the links that its author
\* wrote, with their types, and with an error of its own if and only if the author made one:
\* for every web, and for documents of every size.
THEOREM ReportsTheWritten == Spec => []ReportsWhatIsWritten
PROOF
  <1>1. IInv => ReportsWhatIsWritten
    <2> SUFFICES ASSUME IInv, NEW d \in Reported
                 PROVE  Items(d, kind[d])
                          = Meant(kind[d], web.site.written[d][kind[d]], web.site.validation)
      BY DEF ReportsWhatIsWritten
    <2>1. web \in Webs /\ d \in Doc /\ kind[d] \in Type
      BY DEF IInv, TypeOK, OnlyFinished, Inserted, Reported
    <2>2. PICK site, type, written, validation :
             /\ site = web.site /\ type = kind[d]
             /\ written = site.written[d][type] /\ validation = site.validation
      OBVIOUS
    <2>3. IsOf(web, site) /\ type \in Type
      BY <2>1, <2>2, SiteAssumption
    <2>4. /\ validation.on \in BOOLEAN
          /\ Legal(type, written)
          /\ web.elements[d][type] = Rendered(type, written, validation)
      BY <2>1, <2>2, <2>3 DEF IsOf
    <2>5. ItemsOf(Rendered(type, written, validation)) = Meant(type, written, validation)
      BY <2>3, <2>4, DocumentMeant
    <2>6. Items(d, type) = ItemsOf(web.elements[d][type])
      BY ItemsAre
    <2> QED
      BY <2>2, <2>4, <2>5, <2>6
  <1> QED
    BY <1>1, Invariance, PTL

=============================================================================
