---------------------------- MODULE WebValidator -----------------------------
(***************************************************************************)
(* The crawl: muffy/src/web_validator.rs, its context and the consumer of  *)
(* its stream in muffy/src/main.rs.                                        *)
(*                                                                         *)
(* Link tasks get links; the first to come to a document of a site to      *)
(* crawl settles its type, spawns its task and sends its job over a        *)
(* bounded channel.  A document task spawns a link task for each link of   *)
(* its document and waits for them all.  The consumer moves jobs from the  *)
(* channel to a bounded buffer and reports the ones whose document task    *)
(* ended, in whatever order.  It starts only after all the root links were *)
(* validated, since `validate` awaits them before it returns the stream.   *)
(*                                                                         *)
(* WebGraph tells what links lead to; Crawl is what all of this amounts to *)
(* without tasks and queues.                                               *)
(***************************************************************************)
EXTENDS WebGraph, FiniteSets, FiniteSetsExt

CONSTANTS
    JobCapacity,    \* JOB_CAPACITY.
    Buffer,         \* JOB_COMPLETION_BUFFER.
    Verbose         \* The option --verbose.

ASSUME CapacityAssumption == JobCapacity \in Nat \ {0} /\ Buffer \in Nat \ {0}

Task == ({Root} \X Roots) \cup (Doc \X Link)

VARIABLES
    phase,      \* What the consumer does: wait for the roots, stream, or end.
    documents,  \* Context::documents.
    kind,       \* The type that each of them is validated as, or Nothing.
    doc,        \* The task of each document.
    task,       \* What each link task spawned so far does next.
    sending,    \* The link tasks that send the job of the document they came to.
    channel,    \* The jobs in the channel.
    buffer,     \* The jobs that buffer_unordered polls.
    reported,   \* How often each document was rendered.
    metrics,    \* document_metrics and element_metrics of run_config.
    exit        \* What the program tells at its end.

vars == <<web, phase, documents, kind, doc, task, sending, channel, buffer, reported, metrics, exit>>

\* The run ended by itself, or was given up for a root link, for a document that cannot
\* be read or for its output.
Phase == {"roots", "stream", "ended", "failed", "aborted", "unwritten"}

Init ==
    /\ web \in Webs
    /\ phase = "roots"
    /\ documents = {}
    /\ kind = [d \in Doc |-> Nothing]
    /\ doc = [d \in Doc |-> "none"]
    /\ task = [t \in {Root} \X Roots |-> "before"]
    /\ sending = {}
    /\ channel = <<>>
    /\ buffer = {}
    /\ reported = [d \in Doc |-> 0]
    /\ metrics = [documents |-> [success |-> 0, error |-> 0],
                  elements |-> [success |-> 0, error |-> 0]]
    /\ exit = Nothing

\* The program runs; otherwise main returned and all tasks are gone.
Running == phase \in {"roots", "stream"}

-----------------------------------------------------------------------------
\* The link that task t is at: its own one, or the robots.txt before it.
At(t) == IF task[t] = "before" THEN Before[t[2]] ELSE t[2]

\* Faulty: a link is over with its robots.txt.
AfterRobots(t) == "done"

After(t) == IF task[t] = "before" THEN "own" ELSE "done"

\* Faulty: whether the document was inserted by another task is not asked.
SpawnsAgain(t) == At(t) # Nothing /\ Crawls(At(t))

\* The link of task t leads to a document to crawl that no task inserted yet.
Spawns(t) == At(t) # Nothing /\ Crawls(At(t)) /\ web.target[At(t)] \notin documents

\* validate_link up to insert_document and spawn.
Visit(t) ==
    /\ Running
    /\ t \in DOMAIN task \ sending /\ task[t] # "done"
    /\ \/ /\ Spawns(t)
          /\ documents' = documents \cup {web.target[At(t)]}
          /\ kind' = [kind EXCEPT ![web.target[At(t)]] = TypeOf(At(t))]
          /\ doc' = [doc EXCEPT ![web.target[At(t)]] = "spawned"]
          /\ sending' = sending \cup {t}
          /\ UNCHANGED task
       \/ /\ ~Spawns(t)
          /\ task' = [task EXCEPT ![t] = After(t)]
          /\ UNCHANGED <<documents, kind, doc, sending>>
    /\ UNCHANGED <<web, phase, channel, buffer, reported, metrics, exit>>

\* The job of the inserted document is sent, once the channel has room.
Send(t) ==
    /\ Running
    /\ t \in sending
    /\ Len(channel) < JobCapacity
    /\ channel' = Append(channel, web.target[At(t)])
    /\ sending' = sending \ {t}
    /\ task' = [task EXCEPT ![t] = After(t)]
    /\ UNCHANGED <<web, phase, documents, kind, doc, buffer, reported, metrics, exit>>

\* validate_document spawns the link tasks of the document, or fails.  Two items with
\* one link go alike and are one task here.
Expand(d) ==
    /\ Running
    /\ doc[d] = "spawned"
    /\ \/ /\ <<d, kind[d]>> \in web.broken
          /\ doc' = [doc EXCEPT ![d] = "broken"]
          /\ UNCHANGED task
       \/ /\ <<d, kind[d]>> \notin web.broken
          /\ doc' = [doc EXCEPT ![d] = "waiting"]
          /\ task' = [t \in DOMAIN task \cup ({d} \X LinksOf(d, kind[d])) |->
                        IF t \in DOMAIN task THEN task[t] ELSE "before"]
    /\ UNCHANGED <<web, phase, documents, kind, sending, channel, buffer, reported, metrics, exit>>

\* Faulty: the link tasks are not waited for.
FinishEarly(d) ==
    /\ Running
    /\ doc[d] = "waiting"
    /\ doc' = [doc EXCEPT ![d] = "finished"]
    /\ UNCHANGED <<web, phase, documents, kind, task, sending, channel, buffer, reported, metrics, exit>>

\* All link tasks of the document ended.
Finish(d) ==
    /\ Running
    /\ doc[d] = "waiting"
    /\ \A l \in LinksOf(d, kind[d]) : task[<<d, l>>] = "done"
    /\ doc' = [doc EXCEPT ![d] = "finished"]
    /\ UNCHANGED <<web, phase, documents, kind, task, sending, channel, buffer, reported, metrics, exit>>

-----------------------------------------------------------------------------
\* Faulty: an error of any link ends the run.
FailOnAny ==
    /\ phase = "roots"
    /\ \E t \in DOMAIN task : task[t] = "done" /\ Fails(t[2])
    /\ phase' = "failed"
    /\ exit' = "failure"
    /\ UNCHANGED <<web, documents, kind, doc, task, sending, channel, buffer, reported, metrics>>

\* An error of a root link ends the run.
Fail ==
    /\ phase = "roots"
    /\ \E l \in Roots : task[<<Root, l>>] = "done" /\ Fails(l)
    /\ phase' = "failed"
    /\ exit' = "failure"
    /\ UNCHANGED <<web, documents, kind, doc, task, sending, channel, buffer, reported, metrics>>

\* Faulty: errors of root links are dropped.
StreamAnyway ==
    /\ phase = "roots"
    /\ \A l \in Roots : task[<<Root, l>>] = "done"
    /\ phase' = "stream"
    /\ UNCHANGED <<web, documents, kind, doc, task, sending, channel, buffer, reported, metrics, exit>>

\* All root links are validated and the stream is returned.
Stream ==
    /\ phase = "roots"
    /\ \A l \in Roots : task[<<Root, l>>] = "done" /\ ~Fails(l)
    /\ phase' = "stream"
    /\ UNCHANGED <<web, documents, kind, doc, task, sending, channel, buffer, reported, metrics, exit>>

\* Faulty: the buffer has no bound.
PullAll ==
    /\ phase = "stream"
    /\ channel # <<>>
    /\ buffer' = buffer \cup {Head(channel)}
    /\ channel' = Tail(channel)
    /\ UNCHANGED <<web, phase, documents, kind, doc, task, sending, reported, metrics, exit>>

\* buffer_unordered takes the next job.
Pull ==
    /\ phase = "stream"
    /\ Cardinality(buffer) < Buffer
    /\ channel # <<>>
    /\ buffer' = buffer \cup {Head(channel)}
    /\ channel' = Tail(channel)
    /\ UNCHANGED <<web, phase, documents, kind, doc, task, sending, reported, metrics, exit>>

\* The counts of a document's results, given the places of its errors.
Counts(d, type, errors) ==
    [success |-> Cardinality(Places(d, type) \ errors), error |-> Cardinality(errors)]

\* Faulty: only items in error by themselves count.
OwnMetrics(d) ==
    Counts(d, kind[d], {p \in Places(d, kind[d]) : ItemAt(d, kind[d], p) = Wrong})

\* DocumentOutput::new
DocumentMetrics(d) == Counts(d, kind[d], Errors(d, kind[d]))

\* Metrics::add and merge.
AddDocument(total, own) ==
    IF own.error > 0 THEN [total EXCEPT !.error = @ + 1] ELSE [total EXCEPT !.success = @ + 1]
MergeMetrics(total, own) ==
    [success |-> total.success + own.success, error |-> total.error + own.error]

MetricsWith(d) ==
    [documents |-> AddDocument(metrics.documents, DocumentMetrics(d)),
     elements |-> MergeMetrics(metrics.elements, DocumentMetrics(d))]

\* A job in the buffer completes and its document is rendered; the error of a document
\* aborts the run.
Report(d) ==
    /\ phase = "stream"
    /\ d \in buffer
    /\ buffer' = buffer \ {d}
    /\ \/ /\ doc[d] = "finished"
          /\ reported' = [reported EXCEPT ![d] = @ + 1]
          /\ metrics' = MetricsWith(d)
          /\ UNCHANGED <<phase, exit>>
       \/ /\ doc[d] = "broken"
          /\ phase' = "aborted"
          /\ exit' = "failure"
          /\ UNCHANGED <<reported, metrics>>
    /\ UNCHANGED <<web, documents, kind, doc, task, sending, channel>>

\* Faulty: every document is printed.
PrintsAll(d) == TRUE

\* Rendering a document without errors prints nothing unless it is verbose.
Prints(d) == Verbose \/ DocumentMetrics(d).error > 0

\* What a document prints cannot be written; it was counted before.
FailToPrint(d) ==
    /\ phase = "stream"
    /\ d \in buffer /\ doc[d] = "finished" /\ Prints(d)
    /\ buffer' = buffer \ {d}
    /\ metrics' = MetricsWith(d)
    /\ phase' = "unwritten"
    /\ exit' = "failure"
    /\ UNCHANGED <<web, documents, kind, doc, task, sending, channel, reported>>

\* Faulty: the validator keeps a sender.
SenderKept == FALSE

\* Every task that holds the context, and with it a sender, is gone.
SendersDropped ==
    /\ \A t \in DOMAIN task : task[t] = "done"
    /\ \A d \in Doc : doc[d] \notin {"spawned", "waiting"}

\* The stream is over, and the metrics decide.
End ==
    /\ phase = "stream"
    /\ channel = <<>> /\ buffer = {} /\ SendersDropped
    /\ phase' = "ended"
    /\ exit' = IF metrics.documents.error > 0 THEN "failure" ELSE "success"
    /\ UNCHANGED <<web, documents, kind, doc, task, sending, channel, buffer, reported, metrics>>

\* The stream is over, and what was printed cannot be flushed.
FailToFlush ==
    /\ phase = "stream"
    /\ channel = <<>> /\ buffer = {} /\ SendersDropped
    /\ \E d \in Doc : reported[d] > 0 /\ Prints(d)
    /\ phase' = "unwritten"
    /\ exit' = "failure"
    /\ UNCHANGED <<web, documents, kind, doc, task, sending, channel, buffer, reported, metrics>>

FailToWrite == (\E d \in Doc : FailToPrint(d)) \/ FailToFlush

Consume == Fail \/ Stream \/ Pull \/ (\E d \in Doc : Report(d)) \/ FailToWrite \/ End

Step ==
    \/ \E t \in DOMAIN task : Visit(t) \/ Send(t)
    \/ \E d \in Doc : Expand(d) \/ Finish(d)
    \/ Consume

Next == Step \/ (~Running /\ UNCHANGED vars)

Spec == Init /\ [][Next]_vars

\* As long as a task or the consumer can run, one of them does.
FairSpec == Spec /\ WF_vars(Step)

-----------------------------------------------------------------------------
\* The ranges of the variables, and the bounds of the channel and the buffer.
TypeOK ==
    /\ phase \in Phase
    /\ documents \subseteq Doc
    /\ kind \in [Doc -> Type \cup {Nothing}]
    /\ doc \in [Doc -> {"none", "spawned", "waiting", "finished", "broken"}]
    /\ DOMAIN task \subseteq Task /\ task \in [DOMAIN task -> {"before", "own", "done"}]
    /\ sending \subseteq DOMAIN task
    /\ channel \in Seq(Doc) /\ Len(channel) <= JobCapacity
    /\ buffer \subseteq Doc /\ Cardinality(buffer) <= Buffer
    /\ reported \in [Doc -> Nat]
    /\ metrics \in [{"documents", "elements"} -> [{"success", "error"} -> Nat]]
    /\ exit \in Outcome \cup {Nothing}

Coming(t) == web.target[At(t)]
Sent == {Coming(t) : t \in sending}
Queued == {channel[i] : i \in DOMAIN channel}
Reported == {d \in Doc : reported[d] > 0}

\* An inserted document is in one place: its job is being sent by one task, or once in
\* the channel, or in the buffer, or reported once.  However many tasks come to a
\* document at once, it is neither lost nor reported twice, unless the run is given up in
\* the middle of its report.
SentOnce == \A t, u \in sending : Coming(t) = Coming(u) => t = u
QueuedOnce == \A i, j \in DOMAIN channel : channel[i] = channel[j] => i = j
ReportedOnce == \A d \in Doc : reported[d] <= 1
Apart ==
    /\ Sent \cap Queued = {} /\ Sent \cap buffer = {} /\ Sent \cap Reported = {}
    /\ Queued \cap buffer = {} /\ Queued \cap Reported = {} /\ buffer \cap Reported = {}
Somewhere == documents = Sent \cup Queued \cup buffer \cup Reported
OnePlace ==
    phase \notin {"aborted", "unwritten"} => SentOnce /\ QueuedOnce /\ ReportedOnce /\ Apart /\ Somewhere

\* The type of a document with a content type is the only one that its crawled links
\* can have; without one it is the type that the first of them declares.
SettledType(d) ==
    CASE web.media[d] = Nothing           -> kind[d]
      [] web.media[d] = "text/plain"      -> "robots"
      [] web.media[d] = "application/xml" -> "sitemap"
      [] OTHER                            -> OwnType(web.media[d])

\* The documents that can be reached: the least set that holds those of the roots and,
\* with each document that can be read, those of its links.
Closed(docs) ==
    /\ Crawled(Roots) \subseteq docs
    /\ \A d \in docs : <<d, SettledType(d)>> \notin web.broken =>
            Crawled(LinksOf(d, SettledType(d))) \subseteq docs
Reachable ==
    LET closed == {docs \in SUBSET Doc : Closed(docs)}
    IN  {d \in Doc : \A docs \in closed : d \in docs}

\* A run that ends by itself reported the documents that can be reached from the
\* roots, all of them and no others, whatever order the tasks ran in.  The order
\* settles the type of documents without a content type, and nothing else here (see
\* IsWeb for the site of images in data URLs).
Complete == phase = "ended" => Reported = Reachable

\* A run is given up only for a root link in error, for a document that can be reached
\* and not be read, or for output that cannot be written, of which there is none at a
\* site without errors unless it is verbose.
GivesUpForCause ==
    /\ phase = "failed" => \E l \in Roots : Fails(l)
    /\ phase = "aborted" => \E d \in Reachable : <<d, SettledType(d)>> \in web.broken
    /\ phase = "unwritten" => \E d \in Reachable : Verbose \/ Errors(d, SettledType(d)) # {}

\* A document is reported after the link tasks it waited for, never before.
ReportedWhole ==
    \A d \in Reported : \A l \in LinksOf(d, kind[d]) :
        <<d, l>> \in DOMAIN task /\ task[<<d, l>>] = "done"

\* A run that ends by itself tells success if and only if nothing is wrong with any
\* document that can be reached, and its table counts every document and every result
\* once.
ExitHonest ==
    phase = "ended" =>
        /\ exit = "success" <=> \A d \in Reachable : Errors(d, SettledType(d)) = {}
        /\ metrics.documents.success + metrics.documents.error = Cardinality(Reachable)
ResultsCounted ==
    LET errors(d) == Cardinality(Errors(d, SettledType(d)))
        items(d) == Cardinality(Places(d, SettledType(d)))
    IN  phase = "ended" =>
          /\ metrics.elements.error = MapThenSumSet(errors, Reachable)
          /\ metrics.elements.success + metrics.elements.error = MapThenSumSet(items, Reachable)
ExitTells == ExitHonest /\ ResultsCounted

\* The links still to follow: those of the roots and of every inserted document, but for
\* the ones whose tasks ended.
Open ==
    (({Root} \X Roots) \cup UNION {{d} \X LinksOf(d, kind[d]) : d \in documents})
        \ {t \in DOMAIN task : task[t] = "done"}

\* The tasks, the channel and the buffer do what the sequential crawl of Crawl does: each
\* inserted document is one that a followed link leads to, no link is given up before all
\* that it leads to is inserted, no document is reported before its links are over or
\* while the roots are not, and the end tells what was reported.
Search == INSTANCE Crawl WITH
    found <- documents, open <- Open, reported <- Reported, outcome <- exit

ImplementsCrawl == Search!Spec

\* Every run ends: no job is waited for by tasks that wait for the job's place in
\* the channel, as long as the channel has room for the documents.  It ends in failure if
\* a root link is in error, which the other roots never mask, and for no other link.
Terminates == <>(~Running /\ (phase = "failed" <=> \E l \in Roots : Fails(l)))

==============================================================================
