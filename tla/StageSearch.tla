---------------------------- MODULE StageSearch ----------------------------
(***************************************************************************)
(* Looking through the stage (goal_native/sandbox.py: Sandbox.discover,    *)
(* search and regex_search over _snapshot_scope).                          *)
(*                                                                         *)
(* A search first walks the scope and opens the files it finds, within     *)
(* limits on entries, files and bytes, and then reads the opened files and *)
(* collects their matching lines up to a limit.  What it leaves out is     *)
(* counted by reason, and `truncated' says that a limit was met.  Between  *)
(* any two system calls a script or the human may change the tree.         *)
(*                                                                         *)
(* Counters of exclusions are kept as the set of those that are not zero.  *)
(* A file is a size and whether its text matches; at most one line does.   *)
(***************************************************************************)
EXTENDS Naturals, Sequences, FiniteSets, SequencesExt

CONSTANTS
    Root,           \* the root of the stage, a member of Directories
    Directories,    \* names that can be directories, by their path
    Children,       \* Children[d]: the paths in d, in the order of their names
    BlockedPaths,   \* paths with a credential or controller name
    InitialTrees,   \* trees that a search may begin with
    MaxFiles, MaxEntries, MaxScanBytes, MaxFileBytes, MaxResults, MaxDepth,
    MaxChanges      \* bound on the changes of the tree

TreePaths == UNION {ToSet(Children[d]) : d \in Directories}

\* The root is in no directory, and what is called a directory can be one.
ASSUME SearchAssumption ==
    /\ Root \in Directories \ TreePaths
    /\ Children \in [Directories -> Seq(TreePaths)]
    /\ InitialTrees \subseteq
            [TreePaths -> [kind: {"absent", "file", "binary", "link", "directory"},
                           size: Nat, hit: BOOLEAN]]
    /\ \A t \in InitialTrees, p \in TreePaths : t[p].kind = "directory" => p \in Directories
    /\ {MaxFiles, MaxEntries, MaxScanBytes, MaxFileBytes, MaxResults, MaxDepth, MaxChanges}
            \subseteq Nat

VARIABLES
    tree,           \* tree[p]: what is at path p
    search,         \* the call in progress or its result
    steady,         \* observer: the paths unchanged since the search began
    changes         \* how many changes there have been

searchVars == <<tree, search, steady, changes>>

-----------------------------------------------------------------------------

Nothing == [kind |-> "absent", size |-> 0, hit |-> FALSE]
Other(kind) == [Nothing EXCEPT !.kind = kind]
File(size, hit) == [kind |-> "file", size |-> size, hit |-> hit]
Binary == [kind |-> "binary", size |-> 1, hit |-> FALSE]
IsFile(entry) == entry.kind \in {"file", "binary"}

\* What is at and below a path, three levels deep, if dirs are the directories.
Down(dirs, paths) == paths \cup UNION {ToSet(Children[d]) : d \in paths \cap dirs}
Below(dirs, p) == Down(dirs, Down(dirs, Down(dirs, {p})))
IsDirectory(p) == p = Root \/ tree[p].kind = "directory"

NoSearch == [at |-> "none"]

-----------------------------------------------------------------------------
(* The walk (_snapshot_scope, _snapshot_directory, _snapshot_file).        *)

Step(step, p, depth) == [step |-> step, path |-> p, depth |-> depth]
Now == Head(search.todo)
Walking(step) == search.at = "walk" /\ search.todo # <<>> /\ Now.step = step

\* The call: the scope is the root, a directory or a file, never a link.
BeginSearch(tool, p) ==
    /\ search = NoSearch
    /\ p \notin BlockedPaths
    /\ p # Root => tree[p].kind \in {"directory", "file", "binary"}
    /\ search' = [at |-> "walk", tool |-> tool, scope |-> p, entries |-> 0, bytes |-> 0,
                  todo |-> <<Step(IF IsDirectory(p) THEN "scan" ELSE "stat", p, 0)>>,
                  opened |-> <<>>, unread |-> <<>>, matches |-> {}, excluded |-> {}, truncated |-> FALSE]
    /\ steady' = TreePaths
    /\ UNCHANGED <<tree, changes>>

\* What is left out is counted and the walk goes on, or a limit ends it.
Excluded(reason) ==
    search' = [search EXCEPT !.excluded = @ \cup {reason}, !.todo = Tail(@)]
Truncated(reason) ==
    search' = [search EXCEPT !.excluded = @ \cup {reason}, !.truncated = TRUE, !.todo = <<>>]

\* Mutant of BeyondEntries: the names beyond the limit are dropped in silence.
DropNames(names) ==
    search' = [search EXCEPT !.entries = MaxEntries,
        !.todo = [i \in 1 .. MaxEntries - search.entries |->
                    Step("stat", names[i], Now.depth)] \o Tail(@)]

BeyondEntries(names) == Truncated("entry_limit")

\* The names that the directory has now, in their order.
Names(directory) ==
    LET children == Children[directory]
        upTo[k \in 0 .. Len(children)] ==
            IF k = 0 THEN <<>>
            ELSE IF tree[children[k]].kind = "absent" THEN upTo[k - 1]
            ELSE Append(upTo[k - 1], children[k])
    IN  upTo[Len(children)]

ScanDirectory ==
    LET names == Names(Now.path)
    IN  /\ Walking("scan")
        /\ IF ~IsDirectory(Now.path)
           THEN IF Now.path = search.scope THEN search' = NoSearch
                ELSE Excluded(IF tree[Now.path].kind = "absent" THEN "races" ELSE "errors")
           ELSE IF search.entries + Len(names) > MaxEntries THEN BeyondEntries(names)
           ELSE search' = [search EXCEPT !.entries = @ + Len(names),
                    !.todo = [i \in DOMAIN names |-> Step("stat", names[i], Now.depth)]
                                \o Tail(@)]
        /\ UNCHANGED <<tree, steady, changes>>

\* The limits on files and bytes, by the size that was just seen.
LimitMet(size) ==
    CASE Len(search.opened) >= MaxFiles     -> {"file_limit"}
      [] size > MaxFileBytes                -> {"file_size_limit"}
      [] search.bytes + size > MaxScanBytes -> {"scan_bytes_limit"}
      [] OTHER                              -> {}

StatEntry ==
    LET entry == tree[Now.path] IN
    /\ Walking("stat")
    /\ CASE Now.path \in BlockedPaths   -> Excluded("blocked")
         [] entry.kind = "absent"       -> Excluded("races")
         [] entry.kind = "link"         -> Excluded("symlinks")
         [] entry.kind = "directory"    ->
                IF Now.depth >= MaxDepth THEN Truncated("depth")
                ELSE search' = [search EXCEPT !.todo =
                        <<Step("scan", Now.path, Now.depth + 1)>> \o Tail(@)]
         [] IsFile(entry)               ->
                IF LimitMet(entry.size) # {}
                THEN \E reason \in LimitMet(entry.size) : Truncated(reason)
                ELSE search' = [search EXCEPT !.todo[1].step = "open"]
    /\ UNCHANGED <<tree, steady, changes>>

\* The size is looked at again once the file is open.
OpenFile ==
    LET entry == tree[Now.path] IN
    /\ Walking("open")
    /\ CASE entry.kind = "absent" -> Excluded("races")
         [] entry.kind \in {"link", "directory"} -> Excluded("errors")
         [] IsFile(entry) ->
                IF LimitMet(entry.size) # {}
                THEN \E reason \in LimitMet(entry.size) : Truncated(reason)
                ELSE search' = [search EXCEPT !.todo = Tail(@), !.bytes = @ + entry.size,
                                              !.opened = Append(@, [path |-> Now.path, entry |-> entry])]
    /\ UNCHANGED <<tree, steady, changes>>

EndWalk ==
    /\ search.at = "walk" /\ search.todo = <<>>
    /\ search' = [search EXCEPT !.at = IF search.tool = "discover" THEN "done" ELSE "read",
                                 !.unread = search.opened]
    /\ UNCHANGED <<tree, steady, changes>>

-----------------------------------------------------------------------------
(* Reading and matching (search; regex_search hands the texts to a helper  *)
(* that stops at the same limit).                                          *)

\* A file that was written in place is read as it is now, one that was
\* replaced as it was opened; one that grew over its limit is not read.
ReadFile ==
    LET next == Head(search.unread)
        skipped(reason) == search' = [search EXCEPT !.unread = Tail(@),
                                                    !.excluded = @ \cup {reason}]
    IN  /\ search.at = "read" /\ search.unread # <<>>
        /\ \E entry \in {next.entry} \cup {e \in {tree[next.path]} : IsFile(e)} :
            CASE entry.size > MaxFileBytes -> skipped("races")
              [] entry.kind = "binary"     -> skipped("invalid_utf8")
              [] OTHER ->
                LET found == search.matches \cup {p \in {next.path} : entry.hit} IN
                IF entry.hit /\ Cardinality(found) >= MaxResults
                THEN search' = [search EXCEPT !.matches = found, !.unread = <<>>, !.truncated = TRUE,
                                              !.excluded = @ \cup {"result_limit"}]
                ELSE search' = [search EXCEPT !.matches = found, !.unread = Tail(@)]
        /\ UNCHANGED <<tree, steady, changes>>

EndSearch ==
    /\ search.at = "read" /\ search.unread = <<>>
    /\ search' = [search EXCEPT !.at = "done"]
    /\ UNCHANGED <<tree, steady, changes>>

ChangeTree(p, entry) ==
    /\ changes < MaxChanges /\ tree[p] # entry
    /\ tree' = [tree EXCEPT ![p] = entry]
    /\ steady' = steady \ Below(Directories, p)
    /\ changes' = changes + 1
    /\ UNCHANGED search

-----------------------------------------------------------------------------

NewEntries == {Nothing, Other("link"), Other("directory"), Binary}
                \cup {File(size, TRUE) : size \in 1 .. 3}

SearchInit ==
    /\ tree \in InitialTrees
    /\ search = NoSearch
    /\ steady = TreePaths
    /\ changes = 0

SearchNext ==
    \/ \E p \in TreePaths \cup {Root}, tool \in {"discover", "search"} : BeginSearch(tool, p)
    \/ ScanDirectory \/ StatEntry \/ OpenFile \/ EndWalk \/ ReadFile \/ EndSearch
    \/ \E p \in TreePaths, entry \in NewEntries :
            (entry.kind = "directory" => p \in Directories) /\ ChangeTree(p, entry)

SearchSpec == SearchInit /\ [][SearchNext]_searchVars

-----------------------------------------------------------------------------
(* Properties.                                                             *)

\* docs/API.md:61, a listing comes "with bounded scope, snapshot identity,
\* exclusions and truncation" (line 62: a search goes over the same manifest of
\* opened files): a result that is not truncated and
\* excludes nothing has every file of the scope that was there all the time
\* (and a search every match in one); and no change between the look at a size
\* and the opening of the file takes the walk over its limits.
SearchTellsWhatItMissed ==
    search.at = "done" =>
        LET listed == {f.path : f \in ToSet(search.opened)} IN
        /\ Len(search.opened) <= MaxFiles /\ search.bytes <= MaxScanBytes
        /\ (~search.truncated /\ search.excluded = {}) =>
            \A p \in steady \cap Below({d \in Directories : IsDirectory(d)}, search.scope) :
                tree[p].kind = "file" =>
                    /\ p \in listed
                    /\ search.tool = "search" /\ tree[p].hit => p \in search.matches
=============================================================================
