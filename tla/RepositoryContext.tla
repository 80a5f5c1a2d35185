-------------------------- MODULE RepositoryContext --------------------------
(***************************************************************************)
(* The context of a prompt: context/selector.py chooses seeds from the     *)
(* evidence of the tests, repository/service.py and cache.py provide the   *)
(* import graph of the present sources, context/repository.py walks it and *)
(* fits everything into a budget. Between requests the workspace is        *)
(* edited, the process may be restarted, and cache files be damaged.       *)
(* A line is its number of characters, the end of line included.           *)
(***************************************************************************)
EXTENDS RepositoryIndexer

CONSTANTS
  Workspaces,    \* the workspaces that edits lead to
  Evidence,      \* [tests, frames]: failing test files, traceback frames [path, line]
  MaxSeeds,      \* max_files of the context
  LineWindow, MaxDepth, MaxRelated, MaxChars,
  MaxSnippet,    \* max_snippet_lines
  CacheInside,   \* the cache directory lies inside the workspace
  NoIndex,
  NotAnObject,   \* a cache file with a JSON value that is no object
  MaxEvents      \* bound on edits, restarts and damages

VARIABLES
  pc, workspace, evidence, level,
  memory,        \* _memory: the indexes of this process
  disk,          \* cache files: an index, NoIndex (unreadable) or NotAnObject
  index,         \* the index of this request
  seeds,         \* snippets of the traceback
  queue, depth,  \* _rank_neighbors: paths to visit with their depth, best_depth
  candidates,    \* candidates by path
  fitted,        \* the snippets of the prompt
  truncated,
  events

requestVars == <<index, seeds, queue, depth, candidates, fitted, truncated>>
vars == <<pc, workspace, evidence, level, memory, disk, requestVars, events>>

(* Failing tests and frames outside the workspace are not evidence, no     *)
(* path is listed twice, and symbols have a first and a last line.         *)
ASSUME ContextAssumption ==
  /\ Order \in Seq(Files)
  /\ \A m, n \in DOMAIN Order : Order[m] = Order[n] => m = n
  /\ \A e \in Evidence : e.tests \in Seq(Files) /\ e.frames \in Seq([path : Files, line : Nat])
  /\ \A w \in Workspaces : \A f \in Files : w[f] \notin {Absent, Unreadable} =>
       w[f].lines \in Seq(Nat) /\ w[f].symbols \subseteq Nat \X Nat
  /\ MaxSeeds \in Nat \ {0} /\ MaxDepth \in Nat /\ MaxRelated \in Nat
  /\ LineWindow \in Nat /\ MaxChars \in Nat /\ MaxSnippet \in Nat

NoneOf == [f \in {} |-> 0]

Init ==
  /\ pc = "select" /\ workspace \in Workspaces /\ evidence \in Evidence /\ level \in 0..2
  /\ memory = NoneOf /\ disk = NoneOf
  /\ index = NoIndex /\ seeds = <<>> /\ queue = <<>> /\ depth = NoneOf /\ candidates = NoneOf
  /\ fitted = <<>> /\ truncated = FALSE /\ events = 0

Opens(f) == workspace[f] \notin {Absent, Unreadable}
Readable(f) == Opens(f) /\ workspace[f].decodes
Lines(f) == workspace[f].lines
Least(a, b) == IF a < b THEN a ELSE b
Most(a, b) == IF a > b THEN a ELSE b

AtMost(s, n) == SubSeq(s, 1, Least(Len(s), n))

(* Some files, in the order of their paths. *)
Listed(files) ==
  LET list[n \in 0..Len(Order)] ==
        IF n = 0 THEN <<>>
        ELSE IF Order[n] \in files THEN Append(list[n - 1], Order[n]) ELSE list[n - 1]
  IN  list[Len(Order)]

(* Lines from a first to a last one, as far as the file has them. *)
Excerpt(f, first, last) == SubSeq(Lines(f), first, Least(last, Len(Lines(f))))

Snippet(f, first, last, seed) ==
  [path |-> f, start |-> first, end |-> last, lines |-> Excerpt(f, first, last), seed |-> seed]

-----------------------------------------------------------------------------
(* select_context() under ContextExpansionPolicy.plan()                    *)

Widened == IF level >= 1 THEN 2 ELSE 1

FrameLines(f) == {evidence.frames[n].line : n \in {n \in DOMAIN evidence.frames : evidence.frames[n].path = f}}

(* read_code_window(): of an empty file, it reports a line 1. *)
Window(f, lines, margin) ==
  IF Lines(f) = <<>> THEN Snippet(f, 1, 1, TRUE)
  ELSE IF lines = {} THEN Snippet(f, 1, Len(Lines(f)), TRUE)
  ELSE Snippet(f, Most(1, Min(lines) - margin), Least(Len(Lines(f)), Max(lines) + margin), TRUE)

(* Modules that a failing test names in absolute imports, as files. *)
TestImports(f) ==
  IF ~Readable(f) \/ ~workspace[f].parses THEN <<>>
  ELSE Listed({g \in Files \ {f} : Opens(g) /\
                \E import \in workspace[f].imports :
                  import.level = 0 /\ ModuleOf[g] \in ImportedModules(f, import)})

(* Failing tests, then traceback files, then imports of failing tests. *)
SeedFiles ==
  LET frames == [n \in DOMAIN evidence.frames |-> evidence.frames[n].path]
      imports == FlattenSeq([n \in DOMAIN evidence.tests |-> TestImports(evidence.tests[n])])
      all == evidence.tests \o frames \o imports
      distinct[n \in 0..Len(all)] ==
        IF n = 0 THEN <<>>
        ELSE IF Opens(all[n]) /\ \A m \in 1..(n - 1) : all[m] # all[n]
        THEN Append(distinct[n - 1], all[n]) ELSE distinct[n - 1]
  IN  AtMost(distinct[Len(all)], MaxSeeds * Widened)

WholeFiles ==
  LET readable == Listed({f \in Files : Readable(f)})
  IN  [n \in DOMAIN readable |-> Window(readable[n], {}, 0)]

NeedsAll == level >= 2 \/ SeedFiles = <<>>

(* A failing test or a seed that cannot be opened is skipped, but one that *)
(* does not decode is an error; the whole workspace is read without any    *)
(* handler.                                                                *)
SelectionRaises ==
  \/ NeedsAll /\ \E f \in Files : workspace[f] # Absent /\ ~Readable(f)
  \/ ~(level >= 2) /\ \E f \in ToSet(evidence.tests \o SeedFiles) : Opens(f) /\ ~Readable(f)

SelectionFails ==
  /\ pc = "select" /\ SelectionRaises
  /\ pc' = "raised"
  /\ UNCHANGED <<workspace, evidence, level, memory, disk, requestVars, events>>

SelectSeeds ==
  /\ pc = "select" /\ ~SelectionRaises
  /\ seeds' = IF NeedsAll THEN WholeFiles
              ELSE [n \in DOMAIN SeedFiles |-> Window(SeedFiles[n], FrameLines(SeedFiles[n]), LineWindow * Widened)]
  /\ pc' = "index"
  /\ UNCHANGED <<workspace, evidence, level, memory, disk, index, queue, depth, candidates,
                 fitted, truncated, events>>

-----------------------------------------------------------------------------
(* RepositoryIndexService.get()                                            *)

Put(map, key, value) == [k \in DOMAIN map \cup {key} |-> IF k = key THEN value ELSE map[k]]

(* Mutant: the entry under the name is taken as it is. *)
LoadUnchecked(key) ==
  IF CacheInside \/ key \notin DOMAIN disk \/ disk[key] = NoIndex THEN NoIndex ELSE disk[key]

(* RepositoryIndexStore.load(); RepositoryIndex.from_dict() takes missing  *)
(* lists for empty ones, and knows objects only.                           *)
Load(key) ==
  IF CacheInside \/ key \notin DOMAIN disk \/ disk[key] = NoIndex THEN NoIndex
  ELSE IF disk[key] = NotAnObject THEN NotAnObject
  ELSE IF disk[key].fingerprint = key THEN disk[key] ELSE NoIndex

Walk(found) ==
  /\ index' = found
  /\ memory' = Put(memory, found.fingerprint, found)
  /\ queue' = [n \in DOMAIN seeds |-> [path |-> seeds[n].path, depth |-> 0]]
  /\ depth' = [f \in {seeds[n].path : n \in DOMAIN seeds} |-> 0]
  /\ pc' = "rank"
  /\ UNCHANGED <<workspace, evidence, level, seeds, candidates, fitted, truncated, events>>

Cached == LET key == Fingerprint(workspace)
          IN  IF key \in DOMAIN memory THEN memory[key] ELSE Load(key)

FindIndex ==
  /\ pc = "index" /\ Cached \notin {NoIndex, NotAnObject}
  /\ Walk(Cached)
  /\ UNCHANGED disk

BuildIndex ==
  /\ pc = "index" /\ Cached = NoIndex
  /\ Walk(Build(workspace))
  /\ disk' = IF CacheInside THEN disk ELSE Put(disk, Fingerprint(workspace), Build(workspace))

(* The AttributeError of a value that is no object is not handled. *)
LoadRaises ==
  /\ pc = "index" /\ Cached = NotAnObject
  /\ pc' = "raised"
  /\ UNCHANGED <<workspace, evidence, level, memory, disk, requestVars, events>>

(* An OSError of store.save() leaves get() before _memory is updated. *)
SaveFails ==
  /\ pc = "index" /\ Cached = NoIndex /\ ~CacheInside
  /\ pc' = "raised"
  /\ UNCHANGED <<workspace, evidence, level, memory, disk, requestVars, events>>

-----------------------------------------------------------------------------
(* _rank_neighbors(): one file of the queue after another.                 *)

Imported(f) == {g \in Files : <<f, g>> \in index.edges}
Importing(f) == {g \in Files : <<g, f>> \in index.edges}

(* _record_candidate() keeps the best (score, -depth, reason). *)
Better(a, b) ==
  IF a.score # b.score THEN a.score > b.score
  ELSE IF a.depth # b.depth THEN a.depth < b.depth
  ELSE a.reason = "importer" /\ b.reason = "dependency"

Offers(f, d) ==
  {<<g, [score |-> 800 - 100 * d, depth |-> d, reason |-> "dependency"]>> : g \in Imported(f)}
    \cup {<<g, [score |-> 600 - 100 * d, depth |-> d, reason |-> "importer"]>> : g \in Importing(f)}

Recorded(offers) ==
  LET all == offers \cup {<<g, candidates[g]>> : g \in DOMAIN candidates}
      of(g) == {o[2] : o \in {o \in all : o[1] = g}}
  IN  [g \in {o[1] : o \in all} |-> CHOOSE a \in of(g) : \A b \in of(g) \ {a} : Better(a, b)]

(* Of the files near the one visited, those that are nearer than known. *)
Nearer(near, d) == {g \in near : g \in DOMAIN depth => d < depth[g]}

Queued(files, d) == [n \in DOMAIN Listed(files) |-> [path |-> Listed(files)[n], depth |-> d]]

(* Mutant: importers are found but not visited. *)
VisitImports ==
  /\ pc = "rank" /\ queue # <<>>
  /\ LET f == Head(queue).path
         d == Head(queue).depth + 1
         found == Nearer(Imported(f), d)
     IN  IF d > MaxDepth
         THEN queue' = Tail(queue) /\ UNCHANGED <<depth, candidates>>
         ELSE /\ candidates' = Recorded(Offers(f, d))
              /\ queue' = Tail(queue) \o Queued(found, d)
              /\ depth' = [g \in DOMAIN depth \cup found |-> IF g \in found THEN d ELSE depth[g]]
  /\ UNCHANGED <<pc, workspace, evidence, level, memory, disk, index, seeds, fitted, truncated, events>>

Visit ==
  /\ pc = "rank" /\ queue # <<>>
  /\ LET f == Head(queue).path
         d == Head(queue).depth + 1
         targets == Nearer(Imported(f), d)
         sources == Nearer(Importing(f) \ Imported(f), d)
         found == targets \cup sources
     IN  IF d > MaxDepth
         THEN queue' = Tail(queue) /\ UNCHANGED <<depth, candidates>>
         ELSE /\ candidates' = Recorded(Offers(f, d))
              /\ queue' = Tail(queue) \o Queued(targets, d) \o Queued(sources, d)
              /\ depth' = [g \in DOMAIN depth \cup found |-> IF g \in found THEN d ELSE depth[g]]
  /\ UNCHANGED <<pc, workspace, evidence, level, memory, disk, index, seeds, fitted, truncated, events>>

-----------------------------------------------------------------------------
(* expand(): the best related files, then the budget.                      *)

SeedPaths == {seeds[n].path : n \in DOMAIN seeds}

IsBefore(f, g) == \E m \in DOMAIN Order, n \in DOMAIN Order : Order[m] = f /\ Order[n] = g /\ m < n

(* Better scores first, then earlier paths. *)
Precedes(f, g) ==
  \/ candidates[f].score > candidates[g].score
  \/ candidates[f].score = candidates[g].score /\ IsBefore(f, g)

Useful == {f \in DOMAIN candidates \ SeedPaths : Readable(f) /\ Lines(f) # <<>>}

Place(f) == Cardinality({g \in Useful : Precedes(g, f)}) + 1

Related == [n \in 1..Least(Cardinality(Useful), MaxRelated) |-> CHOOSE f \in Useful : Place(f) = n]

(* _read_candidate(): around the best symbol, or the head of the file.     *)
RelatedSnippet(f, symbol) ==
  IF symbol = <<>> THEN Snippet(f, 1, Least(Len(Lines(f)), MaxSnippet), FALSE)
  ELSE Snippet(f, Most(1, symbol[1] - 2), Least(Len(Lines(f)), symbol[2] + 2), FALSE)

Size(lines) ==
  LET sum[n \in 0..Len(lines)] == IF n = 0 THEN 0 ELSE sum[n - 1] + lines[n]
  IN  sum[Len(lines)]

(* Mutant: the range of a clipped snippet is left as it was. *)
ClippedKeepingRange(snippet, room) ==
  LET whole == {n \in 1..Len(snippet.lines) : Size(SubSeq(snippet.lines, 1, n)) <= room}
      kept == IF whole = {} THEN <<room>> ELSE SubSeq(snippet.lines, 1, Cardinality(whole))
  IN  [snippet EXCEPT !.lines = kept]

(* A snippet that is too long: its whole lines, or a part of the first.    *)
Clipped(snippet, room) ==
  LET whole == {n \in 1..Len(snippet.lines) : Size(SubSeq(snippet.lines, 1, n)) <= room}
      kept == IF whole = {} THEN <<room>> ELSE SubSeq(snippet.lines, 1, Cardinality(whole))
  IN  [snippet EXCEPT !.lines = kept, !.end = Most(snippet.start, snippet.start + Len(kept) - 1)]

(* _fit_budget() *)
Fit(snippets) ==
  LET after[n \in 0..Len(snippets)] ==
        IF n = 0 THEN [fitted |-> <<>>, room |-> MaxChars, cut |-> FALSE]
        ELSE LET done == after[n - 1]
                 snippet == snippets[n]
             IN  IF done.cut THEN done
                 ELSE IF done.room = 0 THEN [done EXCEPT !.cut = TRUE]
                 ELSE IF Size(snippet.lines) <= done.room
                 THEN [done EXCEPT !.fitted = Append(@, snippet), !.room = @ - Size(snippet.lines)]
                 ELSE [fitted |-> Append(done.fitted, Clipped(snippet, done.room)),
                       room |-> done.room - Size(Clipped(snippet, done.room).lines), cut |-> TRUE]
  IN  after[Len(snippets)]

Expand ==
  /\ pc = "rank" /\ queue = <<>>
  /\ \E symbol \in [ToSet(Related) -> UNION {workspace[f].symbols : f \in ToSet(Related)} \cup {<<>>}] :
       /\ \A f \in ToSet(Related) : symbol[f] \in workspace[f].symbols \cup {<<>>}
       /\ LET all == seeds \o [n \in DOMAIN Related |-> RelatedSnippet(Related[n], symbol[Related[n]])]
          IN  fitted' = Fit(all).fitted /\ truncated' = Fit(all).cut
  /\ pc' = "context"
  /\ UNCHANGED <<workspace, evidence, level, memory, disk, index, seeds, queue, depth, candidates, events>>

-----------------------------------------------------------------------------
(* Between requests                                                        *)

Event == events < MaxEvents /\ events' = events + 1 /\ pc \in {"context", "raised"}

(* The next request comes from this process, or from a new one. *)
EditAndAsk ==
  /\ Event
  /\ memory' \in {memory, NoneOf}
  /\ workspace' \in Workspaces /\ evidence' \in Evidence /\ level' \in level..2
  /\ pc' = "select"
  /\ index' = NoIndex /\ seeds' = <<>> /\ queue' = <<>> /\ depth' = NoneOf /\ candidates' = NoneOf
  /\ fitted' = <<>> /\ truncated' = FALSE
  /\ UNCHANGED disk

(* An entry without its list of edges. *)
Emptied(entry) == [fingerprint |-> entry.fingerprint, edges |-> {}, complete |-> FALSE]

(* A file becomes unreadable, another value or that of another snapshot    *)
(* takes its place, or its list of edges is lost.                          *)
Damage ==
  /\ Event
  /\ \E key, k \in DOMAIN disk :
       disk' \in {[disk EXCEPT ![key] = entry] : entry \in
                    {NoIndex, NotAnObject, disk[k]}
                      \cup {Emptied(e) : e \in {disk[key]} \ {NoIndex, NotAnObject}}}
  /\ UNCHANGED <<pc, workspace, evidence, level, memory, requestVars>>

Next ==
  \/ SelectionFails \/ SelectSeeds \/ FindIndex \/ LoadRaises \/ BuildIndex \/ SaveFails
  \/ Visit \/ Expand
  \/ EditAndAsk \/ Damage

Spec == Init /\ [][Next]_vars

-----------------------------------------------------------------------------
(* Properties                                                              *)

(* docs/design.md:130: whatever was edited, cached, damaged or forgotten   *)
(* before, the context rests on the graph of the present sources. Only the *)
(* loss of a list in a file that is otherwise intact goes unnoticed: then  *)
(* the index is that of the present sources without that list.             *)
IndexIsCurrent ==
  index # NoIndex => index \in {Build(workspace), Emptied(Build(workspace))}

(* Whatever the order in which edges are found: every file within MaxDepth *)
(* imports of a seed, in either direction, is a candidate, and no other,   *)
(* and each is recorded as the best that any path to it makes of it. (A    *)
(* dependency at the end of a longer path can beat a near importer.)       *)
Reach ==
  LET within[d \in 0..MaxDepth] ==
        IF d = 0 THEN SeedPaths
        ELSE within[d - 1] \cup UNION {Imported(f) \cup Importing(f) : f \in within[d - 1]}
  IN  within

Options(f) ==
  {o[2] : o \in {o \in UNION {UNION {Offers(g, d) : g \in Reach[d - 1]} : d \in 1..MaxDepth} : o[1] = f}}

CandidatesAreNeighbours ==
  pc = "rank" /\ queue = <<>> =>
    /\ DOMAIN candidates \ SeedPaths = Reach[MaxDepth] \ SeedPaths
    /\ \A f \in DOMAIN candidates :
         /\ candidates[f] \in Options(f)
         /\ \A a \in Options(f) \ {candidates[f]} : Better(candidates[f], a)

(* The prompt keeps within the budget, a related file never takes the      *)
(* place of a seed, no file appears twice, and every snippet shows the     *)
(* lines its range names, if the budget cuts it in its first line a part   *)
(* of that; what is missing is reported.                                   *)
ContextIsFaithful ==
  pc = "context" =>
    LET paths == [n \in DOMAIN fitted |-> fitted[n].path]
    IN  /\ Size([n \in DOMAIN fitted |-> Size(fitted[n].lines)]) <= MaxChars
        /\ IsInjective(paths)
        /\ \A n \in DOMAIN fitted :
             /\ Lines(paths[n]) # <<>> =>
                  Len(fitted[n].lines) = Most(fitted[n].end - fitted[n].start + 1, 0)
             /\ ~fitted[n].seed => \A m \in DOMAIN seeds : m < n /\ fitted[m] = seeds[m]
             /\ \/ fitted[n].lines = Excerpt(paths[n], fitted[n].start, fitted[n].end)
                \/ /\ n = Len(fitted) /\ truncated
                   /\ Len(fitted[n].lines) = 1
                   /\ fitted[n].lines[1] < Lines(paths[n])[fitted[n].start]
        /\ ~truncated => Len(fitted) = Len(seeds) + Len(Related)
=============================================================================
