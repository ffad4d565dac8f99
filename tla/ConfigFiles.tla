---------------------------- MODULE ConfigFiles ------------------------------
(***************************************************************************)
(* How a configuration is found and read: `run` of muffy/src/main.rs goes  *)
(* by the command line, `read_config` of muffy/src/config/toml.rs follows  *)
(* the files that extend each other, and the `merge`s of                   *)
(* muffy/src/config/serde.rs put each on top of the one it extends.        *)
(*                                                                         *)
(* An option of a site or a file is Unset or a value.  One option stands   *)
(* for all that merge alike: `timeout` for the plain ones of a site,       *)
(* `concurrency` for those of a file, `elements` for patterns of markup.   *)
(***************************************************************************)
EXTENDS Naturals, Sequences, FiniteSets, TLC

CONSTANTS
    Value,      \* What plain options may be set to, with names of files and sites.
    Header,     \* Names of headers.
    Unset,      \* None
    Garbage,    \* The content of a file that is not a configuration.
    Written,    \* default_config.toml
    Target,     \* [paths -> [spellings -> paths]]: the file that a spelling in one means.
    Cases       \* Command lines, each with contents the files may have then.

\* The structures of configuration files.
Opt(values) == values \cup {Unset}
RetryDurationConfig == [initial : Opt(Value), cap : Opt(Value)]
RetryConfig == [count : Opt(Value), interval : Opt(RetryDurationConfig)]
MarkupConfig == [elements : Opt(SUBSET Value)]
Url == [host : Value, path : Seq(Nat)]
SiteOptions ==
    [extend : Opt(Value), roots : Opt(SUBSET Url), ignore : Opt(BOOLEAN), recurse : Opt(BOOLEAN),
     timeout : Opt(Value), headers : Opt(UNION {[names -> Value] : names \in SUBSET Header}),
     fragments : Opt(SUBSET Value), retry : Opt(RetryConfig), html : Opt(MarkupConfig),
     limit : Opt(Value)]
IsConfig(content) ==
    /\ content \in [extend : Opt(Value), concurrency : Opt(Value), sites : {content.sites}]
    /\ content.sites \in [DOMAIN content.sites -> SiteOptions]
    /\ DOMAIN content.sites \subseteq Value
    /\ IsFiniteSet(DOMAIN content.sites)
    /\ \A name \in DOMAIN content.sites :
         content.sites[name].roots = Unset \/ IsFiniteSet(content.sites[name].roots)

ASSUME CasesAssumption ==
    \A case \in Cases : \A contents \in case.contents : \A path \in DOMAIN contents :
        contents[path] # Garbage => IsConfig(contents[path])
ASSUME UnsetAssumption ==
    /\ Unset \notin Value
    /\ Unset \notin BOOLEAN
    /\ \A patterns \in SUBSET Value : patterns # Unset
    /\ Unset \notin RetryDurationConfig
    /\ Unset \notin RetryConfig
    /\ Unset \notin MarkupConfig

VARIABLES
    command,    \* The command line.
    files,      \* The content of each file that exists.
    pc,         \* What the program does next.
    entry,      \* The configuration file that the command line means.
    config,     \* The SerializableConfig read so far.
    previous,   \* previous_path
    paths,      \* The files read to extend the first one, in order.
    outcome     \* The error the program ends with, or what it does instead.

fileVars == <<command, files, entry, config, previous, paths>>

Running == [kind |-> "running", names |-> {}]

Stop(kind, names) == pc' = "done" /\ outcome' = [kind |-> kind, names |-> names]

\* A table over another one: what both have is the first one's.
Over(one, other) ==
    [x \in DOMAIN one \cup DOMAIN other |-> IF x \in DOMAIN one THEN one[x] ELSE other[x]]

FilesInit ==
    /\ \E case \in Cases : command \in case.commands /\ files \in case.contents
    /\ pc = "command"
    /\ entry = Unset
    /\ config = Unset
    /\ previous = Unset
    /\ paths = <<>>
    /\ outcome = Running

-----------------------------------------------------------------------------
\* `muffy check`: without a file on the command line, the first muffy.toml in the
\* current directory and the ones above it.
FindConfig ==
    /\ pc = "command"
    /\ command.kind = "check"
    /\ LET found == {i \in DOMAIN command.places : command.places[i] \in DOMAIN files}
       IN  \/ /\ command.file # Unset
              /\ entry' = command.file
              /\ pc' = "open"
              /\ UNCHANGED outcome
           \/ /\ command.file = Unset
              /\ \E i \in found :
                   /\ \A j \in found : i <= j
                   /\ entry' = command.places[i]
              /\ pc' = "open"
              /\ UNCHANGED outcome
           \/ /\ command.file = Unset
              /\ found = {}
              /\ Stop("unfound", {})
              /\ UNCHANGED entry
    /\ UNCHANGED <<command, files, config, previous, paths>>

\* `muffy init`: a muffy.toml in the current directory, unless there is one.
Initialize ==
    /\ pc = "command"
    /\ command.kind = "init"
    /\ \/ /\ command.places[1] \in DOMAIN files
          /\ Stop("exists", {})
          /\ UNCHANGED files
       \/ /\ command.places[1] \notin DOMAIN files
          /\ files' = Over([place \in {command.places[1]} |-> Written], files)
          /\ Stop("initialized", {})
    /\ UNCHANGED <<command, entry, config, previous, paths>>

-----------------------------------------------------------------------------
\* An option set in the other configuration replaces one's own.
Or(other, self) == IF other # Unset THEN other ELSE self

\* What becomes of a group of options that the two sides merge into `both` when
\* both have it.
Merge(self, other, both) ==
    CASE other = Unset -> self
      [] self = Unset -> other
      [] OTHER -> both

\* Lists of patterns are joined and not replaced.
MergePatterns(self, other) == Merge(self, other, self \cup other)

\* MarkupConfig::merge
MergeMarkup(self, other) ==
    Merge(self, other, [elements |-> MergePatterns(self.elements, other.elements)])

\* RetryDurationConfig::merge
MergeInterval(self, other) ==
    Merge(self, other, [initial |-> Or(other.initial, self.initial), cap |-> Or(other.cap, self.cap)])

\* Faulty: the interval is replaced.
ReplaceInterval(self, other) ==
    Merge(self, other, [count |-> Or(other.count, self.count),
                        interval |-> Or(other.interval, self.interval)])

\* RetryConfig::merge
MergeRetry(self, other) ==
    Merge(self, other, [count |-> Or(other.count, self.count),
                        interval |-> MergeInterval(self.interval, other.interval)])

\* SiteConfig::merge, where tables of headers are joined
MergeSite(self, other) ==
    [option \in DOMAIN self |->
        CASE option = "headers" -> Merge(self.headers, other.headers, Over(other.headers, self.headers))
          [] option = "fragments" -> MergePatterns(self.fragments, other.fragments)
          [] option = "retry" -> MergeRetry(self.retry, other.retry)
          [] option = "html" -> MergeMarkup(self.html, other.html)
          [] OTHER -> Or(other[option], self[option])]

\* SerializableConfig::merge, which leaves `extend` alone
MergeConfig(self, other) ==
    [extend |-> self.extend,
     concurrency |-> Or(other.concurrency, self.concurrency),
     sites |-> [name \in DOMAIN self.sites \cup DOMAIN other.sites |->
                    CASE name \notin DOMAIN other.sites -> self.sites[name]
                      [] name \notin DOMAIN self.sites -> other.sites[name]
                      [] OTHER -> MergeSite(self.sites[name], other.sites[name])]]

-----------------------------------------------------------------------------
\* A file that does not exist or is not a configuration ends the program.
Readable(path) == path \in DOMAIN files /\ files[path] # Garbage

Open ==
    /\ pc = "open"
    /\ \/ /\ Readable(entry)
          /\ config' = files[entry]
          /\ previous' = entry
          /\ pc' = "extend"
          /\ UNCHANGED <<command, files, entry, paths, outcome>>
       \/ /\ ~Readable(entry)
          /\ Stop("io", {})
          /\ UNCHANGED fileVars

\* Faulty: the files read are not recorded.
ExtendUnrecorded ==
    /\ pc = "extend"
    /\ config.extend # Unset
    /\ LET path == Target[previous][config.extend]
       IN  \/ /\ ~Readable(path)
              /\ Stop("io", {})
              /\ UNCHANGED fileVars
           \/ /\ Readable(path)
              /\ config' = MergeConfig(files[path], config)
              /\ previous' = path
              /\ UNCHANGED <<command, files, entry, paths, pc, outcome>>

\* A path is relative to the file that it stands in.
Extend ==
    /\ pc = "extend"
    /\ config.extend # Unset
    /\ LET path == Target[previous][config.extend]
       IN  \/ \E index \in DOMAIN paths :
                /\ paths[index] = path
                /\ Stop("files", {paths[i] : i \in index..Len(paths)})
                /\ UNCHANGED fileVars
           \/ /\ ~Readable(path)
              /\ Stop("io", {})
              /\ UNCHANGED fileVars
           \/ /\ Readable(path)
              /\ path \notin {paths[i] : i \in DOMAIN paths}
              /\ paths' = Append(paths, path)
              /\ config' = MergeConfig(files[path], config)
              /\ previous' = path
              /\ UNCHANGED <<command, files, entry, pc, outcome>>

Read ==
    /\ pc = "extend"
    /\ config.extend = Unset
    /\ pc' = "sort"
    /\ UNCHANGED <<fileVars, outcome>>

ReadConfig == FindConfig \/ Open \/ Extend \/ Read

=============================================================================
