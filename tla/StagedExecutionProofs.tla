------------------------ MODULE StagedExecutionProofs ------------------------
(***************************************************************************)
(* Proofs about StagedExecution, for any number of tool calls and any set   *)
(* of cancellers.                                                           *)
(*                                                                          *)
(* The first part is about trees: what writing or removing one file does to *)
(* a tree and to its selection, and that a publication which has reached    *)
(* the middle of its list (Due, Halfway) can take its next step, unless an  *)
(* ignored file holds the directory, and is then one file further.          *)
(*                                                                          *)
(* The inductive invariant has six parts. Places says which slot, kind of   *)
(* call and supervisor there can be, by where the call is; Flags, who knows *)
(* of a cancellation; Processes, whose process it is: a canceller about to  *)
(* kill has met the slot of the call whose process it knows, or of an       *)
(* earlier one; Receipts, that what the last receipt says is still true;    *)
(* Publishing, that a foreign change shows in the selection until it is     *)
(* compared, and how far the publication is after that. One lemma per       *)
(* action shows that it keeps all six.                                      *)
(***************************************************************************)
EXTENDS StagedExecution, SequenceTheorems, TLAPS

-----------------------------------------------------------------------------
(* Trees and selections.                                                   *)

Selections == {Selection(t) : t \in Trees}

\* What membership in Trees says of each path.
LEMMA TreeShape ==
    ASSUME NEW t \in Trees
    PROVE  /\ DOMAIN t = {"d", "f", "g", "x"}
           /\ t["d"] \in {"none", "old", "new", "dir"}
           /\ t["f"] \in {"none", "old", "new"}
           /\ t["g"] \in {"none", "old"} /\ t["x"] \in {"none", "old"}
           /\ t["d"] = "dir" <=> t["f"] # "none" \/ t["g"] # "none" \/ t["x"] # "none"
  BY DEF Trees, Inside, Contents

\* And what is enough for it.
LEMMA TreeOf ==
    ASSUME NEW u \in [{"d", "f", "g", "x"} -> {"none", "old", "new", "dir"}],
           u["f"] \in {"none", "old", "new"},
           u["g"] \in {"none", "old"}, u["x"] \in {"none", "old"},
           u["d"] = "dir" <=> u["f"] # "none" \/ u["g"] # "none" \/ u["x"] # "none"
    PROVE  u \in Trees
  BY DEF Trees, Inside, Contents

\* A selection is a function of its paths; d as a file excludes files in d.
LEMMA SelectionShape ==
    ASSUME NEW s \in Selections
    PROVE  /\ s = [p \in Selected |-> s[p]]
           /\ s["d"] \in {"none", "old", "new"} /\ s["f"] \in {"none", "old", "new"}
           /\ s["g"] \in {"none", "old"}
           /\ s["d"] # "none" => s["f"] = "none" /\ s["g"] = "none"
  BY TreeShape DEF Selections, Selection, Selected

\* The empty selection is the selection of the empty tree.
LEMMA NothingSelected == Nothing \in Selections
  <1> DEFINE empty == [p \in {"d", "f", "g", "x"} |-> "none"]
  <1>1. empty \in Trees
    BY TreeOf
  <1>2. Selection(empty) = Nothing
    BY DEF Selection, Nothing, Selected
  <1> QED
    BY <1>1, <1>2 DEF Selections

\* A file written where one can be written leaves a tree, and changes the
\* selection at that path only.
LEMMA WrittenTree ==
    ASSUME NEW t \in Trees, NEW p \in {"d", "f", "g", "x"},
           NEW content \in Contents(p) \ {"none"}, CanWrite(t, p)
    PROVE  /\ Written(t, p, content) \in Trees
           /\ \A q \in Selected : Selection(Written(t, p, content))[q]
                                    = IF q = p THEN content ELSE Selection(t)[q]
           /\ p # "x" => Written(t, p, content)["x"] = t["x"]
  <1> DEFINE u == Written(t, p, content)
  <1>1. u \in [{"d", "f", "g", "x"} -> {"none", "old", "new", "dir"}]
    BY TreeShape DEF Written, Contents, Trees, Inside
  <1>2. u \in Trees
    BY <1>1, TreeShape, TreeOf DEF Written, CanWrite, Contents
  <1>3. \A q \in Selected : Selection(u)[q] = IF q = p THEN content ELSE Selection(t)[q]
    BY TreeShape DEF Written, CanWrite, Contents, Selection, Selected
  <1> QED
    BY <1>2, <1>3, TreeShape DEF Written

\* So does the removal of a file.
LEMMA RemovedTree ==
    ASSUME NEW t \in Trees, NEW p \in Selected, CanRemove(t, p)
    PROVE  /\ Removed(t, p) \in Trees
           /\ \A q \in Selected : Selection(Removed(t, p))[q]
                                    = IF q = p THEN "none" ELSE Selection(t)[q]
           /\ Removed(t, p)["x"] = t["x"]
  <1> DEFINE u == Removed(t, p)
  <1>1. u \in [{"d", "f", "g", "x"} -> {"none", "old", "new", "dir"}]
    BY TreeShape DEF Removed, Trees, Inside, Selected
  <1>2. u \in Trees
    BY <1>1, TreeShape, TreeOf DEF Removed, CanRemove, Inside, Selected
  <1>3. \A q \in Selected : Selection(u)[q] = IF q = p THEN "none" ELSE Selection(t)[q]
    BY TreeShape DEF Removed, CanRemove, Selection, Selected, Inside
  <1> QED
    BY <1>2, <1>3, TreeShape DEF Removed, Selected, Inside

-----------------------------------------------------------------------------
(* The list of what is left to publish.                                    *)

\* A list of selected paths, each once.
Listing(list, paths) ==
    /\ list \in Seq(Selected)
    /\ \A p \in Selected : p \in paths <=> \E i \in 1..Len(list) : list[i] = p
    /\ \A i, j \in 1..Len(list) : list[i] = list[j] => i = j

\* Listings of disjoint sets, one after the other.
LEMMA JoinedListing ==
    ASSUME NEW s, NEW t, NEW S, NEW T, Listing(s, S), Listing(t, T),
           \A p \in Selected : p \notin S \/ p \notin T
    PROVE  /\ Listing(s \o t, S \cup T)
           /\ Len(s \o t) = Len(s) + Len(t) /\ Len(s) \in Nat /\ Len(t) \in Nat
           /\ \A i \in 1..Len(s \o t) :
                 (s \o t)[i] = IF i <= Len(s) THEN s[i] ELSE t[i - Len(s)]
           /\ \A i \in 1..Len(s \o t) : i > Len(s) => i - Len(s) \in 1..Len(t)
  <1>1. s \in Seq(Selected) /\ t \in Seq(Selected)
    BY DEF Listing
  <1>2. /\ s \o t \in Seq(Selected) /\ Len(s \o t) = Len(s) + Len(t)
        /\ Len(s) \in Nat /\ Len(t) \in Nat
        /\ \A i \in 1..Len(s \o t) :
              (s \o t)[i] = IF i <= Len(s) THEN s[i] ELSE t[i - Len(s)]
    BY <1>1, ConcatProperties, LenProperties
  <1>3. /\ \A i \in 1..Len(s) : i \in 1..Len(s \o t) /\ (s \o t)[i] = s[i]
        /\ \A j \in 1..Len(t) : Len(s) + j \in 1..Len(s \o t)
                                /\ (s \o t)[Len(s) + j] = t[j]
        /\ \A i \in 1..Len(s \o t) : i > Len(s) => i - Len(s) \in 1..Len(t)
    BY <1>2
  <1>4. ASSUME NEW p \in Selected
        PROVE  p \in S \cup T <=> \E i \in 1..Len(s \o t) : (s \o t)[i] = p
    <2>1. ASSUME p \in S
          PROVE  \E i \in 1..Len(s \o t) : (s \o t)[i] = p
      BY <1>3, <2>1 DEF Listing
    <2>2. ASSUME p \in T
          PROVE  \E i \in 1..Len(s \o t) : (s \o t)[i] = p
      <3>1. PICK j \in 1..Len(t) : t[j] = p
        BY <2>2 DEF Listing
      <3> QED
        BY <1>3, <3>1
    <2>3. ASSUME NEW i \in 1..Len(s \o t), (s \o t)[i] = p
          PROVE  p \in S \cup T
      <3>1. CASE i <= Len(s)
        BY <1>2, <2>3, <3>1 DEF Listing
      <3>2. CASE i > Len(s)
        BY <1>2, <1>3, <2>3, <3>2 DEF Listing
      <3> QED
        BY <1>2, <3>1, <3>2
    <2> QED
      BY <2>1, <2>2, <2>3
  <1>5. ASSUME NEW i \in 1..Len(s \o t), NEW j \in 1..Len(s \o t), (s \o t)[i] = (s \o t)[j]
        PROVE  i = j
    <2>1. CASE i <= Len(s) /\ j <= Len(s)
      BY <1>2, <1>5, <2>1 DEF Listing
    <2>2. CASE i > Len(s) /\ j > Len(s)
      <3>1. i - Len(s) = j - Len(s)
        BY <1>2, <1>3, <1>5, <2>2 DEF Listing
      <3> QED
        BY <1>2, <3>1
    <2>3. ASSUME NEW k \in 1..Len(s \o t), NEW l \in 1..Len(s \o t), k <= Len(s), l > Len(s),
                 (s \o t)[k] = (s \o t)[l]
          PROVE  FALSE
      <3>1. s[k] = t[l - Len(s)] /\ k \in 1..Len(s) /\ l - Len(s) \in 1..Len(t)
        BY <1>2, <1>3, <2>3
      <3>2. s[k] \in Selected
        BY <1>1, <3>1, ElementOfSeq
      <3> QED
        BY <3>1, <3>2 DEF Listing
    <2> QED
      BY <1>2, <1>5, <2>1, <2>2, <2>3
  <1> QED
    BY <1>2, <1>3, <1>4, <1>5 DEF Listing

\* Sorted lists its paths.
LEMMA SortedListing ==
    ASSUME NEW paths \in SUBSET Selected
    PROVE  Listing(Sorted(paths), paths)
  <1>1. ASSUME NEW p \in Selected
        PROVE  Listing(Only(p, paths), paths \cap {p})
    <2>1. CASE p \in paths
      BY <2>1 DEF Only, Listing
    <2>2. CASE p \notin paths
      BY <2>2 DEF Only, Listing
    <2> QED
      BY <2>1, <2>2
  <1>2. {"d", "f", "g"} \subseteq Selected
    BY DEF Selected
  <1>3. Listing(Only("d", paths) \o Only("f", paths), (paths \cap {"d"}) \cup (paths \cap {"f"}))
    BY <1>1, <1>2, JoinedListing
  <1>4. Listing((Only("d", paths) \o Only("f", paths)) \o Only("g", paths),
                ((paths \cap {"d"}) \cup (paths \cap {"f"})) \cup (paths \cap {"g"}))
    BY <1>1, <1>2, <1>3, JoinedListing
  <1>5. ((paths \cap {"d"}) \cup (paths \cap {"f"})) \cup (paths \cap {"g"}) = paths
    BY DEF Selected
  <1> QED
    BY <1>4, <1>5 DEF Sorted

\* What is left of a publication from old to new: changes that are due, each
\* once, removals first.
Due(list, old, new) ==
    /\ list \in Seq(Selected)
    /\ \A i \in 1..Len(list) :
          /\ old[list[i]] # new[list[i]]
          /\ \A j \in 1..Len(list) : list[i] = list[j] => i = j
          /\ \A j \in 1..Len(list) : i < j /\ new[list[j]] = "none" => new[list[i]] = "none"

\* The stage halfway: the new contents, and the old ones where they are due.
Halfway(s, list, old, new) ==
    \A p \in Selected :
        IF \E i \in 1..Len(list) : list[i] = p THEN s[p] = old[p] ELSE s[p] = new[p]

\* The publication of a candidate starts halfway at the selection it replaces.
LEMMA PublicationDue ==
    ASSUME NEW old \in Selections, NEW new \in Selections
    PROVE  /\ Due(Publication(old, new), old, new)
           /\ Halfway(old, Publication(old, new), old, new)
  <1> DEFINE gone == {p \in Selected : old[p] # "none" /\ new[p] = "none"}
             put == {p \in Selected : new[p] # "none" /\ new[p] # old[p]}
             list == Publication(old, new)
  <1>1. Listing(Gone(old, new), gone) /\ Listing(Put(old, new), put)
    BY SortedListing DEF Gone, Put
  <1>2. list = Gone(old, new) \o Put(old, new)
    BY DEF Publication
  <1>3. /\ Listing(list, gone \cup put)
        /\ Len(list) = Len(Gone(old, new)) + Len(Put(old, new))
        /\ Len(Gone(old, new)) \in Nat /\ Len(Put(old, new)) \in Nat
        /\ \A i \in 1..Len(list) :
              list[i] = IF i <= Len(Gone(old, new)) THEN Gone(old, new)[i]
                        ELSE Put(old, new)[i - Len(Gone(old, new))]
        /\ \A i \in 1..Len(list) : i > Len(Gone(old, new)) =>
                                     i - Len(Gone(old, new)) \in 1..Len(Put(old, new))
    BY <1>1, <1>2, JoinedListing
  <1>4. \A i \in 1..Len(list) : list[i] \in Selected /\ list[i] \in gone \cup put
    <2>1. \A i \in 1..Len(list) : list[i] \in Selected
      BY <1>3, ElementOfSeq DEF Listing
    <2> QED
      BY <1>3, <2>1 DEF Listing
  <1>5. ASSUME NEW i \in 1..Len(list), NEW j \in 1..Len(list), i < j, new[list[j]] = "none"
        PROVE  new[list[i]] = "none"
    <2>1. list[j] \notin put
      BY <1>5
    <2>2. j <= Len(Gone(old, new))
      BY <1>1, <1>3, <1>4, <2>1 DEF Listing
    <2>3. list[i] = Gone(old, new)[i] /\ i \in 1..Len(Gone(old, new))
      BY <1>3, <1>5, <2>2
    <2>4. list[i] \in gone
      BY <1>1, <1>4, <2>3 DEF Listing
    <2> QED
      BY <2>4
  <1>6. \A i \in 1..Len(list) : old[list[i]] # new[list[i]]
    BY <1>4
  <1>7. Due(list, old, new)
    BY <1>3, <1>5, <1>6 DEF Due, Listing
  <1>8. \A p \in Selected : p \notin gone \cup put => old[p] = new[p]
    OBVIOUS
  <1>9. Halfway(old, list, old, new)
    BY <1>3, <1>8 DEF Halfway, Listing
  <1> QED
    BY <1>7, <1>9

\* One file of a publication: it can be removed, or written unless a path
\* outside the selection keeps its directory; and the rest is still due.
LEMMA PublicationStep ==
    ASSUME NEW t \in Trees, NEW old \in Selections, NEW new \in Selections, NEW list,
           Due(list, old, new), Halfway(Selection(t), list, old, new), list # <<>>
    PROVE  /\ Head(list) \in Selected /\ Due(Tail(list), old, new)
           /\ new[Head(list)] = "none" =>
                 /\ CanRemove(t, Head(list)) /\ Removed(t, Head(list)) \in Trees
                 /\ Halfway(Selection(Removed(t, Head(list))), Tail(list), old, new)
           /\ new[Head(list)] # "none" /\ CanWrite(t, Head(list)) =>
                 /\ Written(t, Head(list), new[Head(list)]) \in Trees
                 /\ Halfway(Selection(Written(t, Head(list), new[Head(list)])),
                            Tail(list), old, new)
           /\ new[Head(list)] # "none" /\ ~CanWrite(t, Head(list)) => t["x"] # "none"
  <1> DEFINE n == Len(list)
  <1>1. /\ n \in Nat /\ n >= 1 /\ list \in Seq(Selected)
        /\ \A i \in 1..n : list[i] \in Selected
    BY EmptySeq, LenProperties, ElementOfSeq DEF Due
  <1>2. PICK p \in Selected : p = Head(list) /\ p = list[1]
    BY <1>1, HeadTailProperties
  <1>3. /\ Tail(list) \in Seq(Selected) /\ Len(Tail(list)) = n - 1
        /\ \A i \in 1..(n - 1) : Tail(list)[i] = list[i + 1] /\ i + 1 \in 1..n
    BY <1>1, HeadTailProperties
  <1>4. Due(Tail(list), old, new)
    BY <1>1, <1>3 DEF Due
  <1>5. \A q \in Selected : (\E i \in 1..(n - 1) : Tail(list)[i] = q)
                            <=> q # p /\ \E i \in 1..n : list[i] = q
    <2>1. ASSUME NEW i \in 1..(n - 1)
          PROVE  Tail(list)[i] # p /\ \E j \in 1..n : list[j] = Tail(list)[i]
      BY <1>1, <1>2, <1>3, <2>1 DEF Due
    <2>2. ASSUME NEW i \in 1..n, list[i] # p
          PROVE  i - 1 \in 1..(n - 1) /\ Tail(list)[i - 1] = list[i]
      BY <1>1, <1>2, <1>3, <2>2
    <2> QED
      BY <2>1, <2>2
  <1>6. ASSUME NEW s, \A q \in Selected : s[q] = IF q = p THEN new[p] ELSE Selection(t)[q]
        PROVE  Halfway(s, Tail(list), old, new)
    BY <1>1, <1>3, <1>5, <1>6 DEF Halfway
  <1>7. Selection(t)[p] = old[p] /\ old[p] # new[p]
    BY <1>1, <1>2 DEF Halfway, Due
  <1>8. ASSUME new[p] = "none"
        PROVE  CanRemove(t, p)
    BY <1>7, <1>8, TreeShape DEF Selection, Selected, CanRemove
  <1>9. new[p] \in Contents(p) /\ p \in {"d", "f", "g", "x"}
    BY SelectionShape DEF Contents, Selected
  <1>10. ASSUME new[p] # "none", ~CanWrite(t, p)
         PROVE  t["x"] # "none"
    <2>1. \A q \in Selected : Selection(t)[q] = new[q] \/ new[q] # "none"
      BY <1>1, <1>2, <1>10 DEF Halfway, Due
    <2> QED
      BY <1>10, <2>1, TreeShape, SelectionShape DEF CanWrite, Selection, Selected
  <1>11. new[p] = "none" => /\ Removed(t, p) \in Trees
                            /\ Halfway(Selection(Removed(t, p)), Tail(list), old, new)
    BY <1>6, <1>8, RemovedTree
  <1>12. new[p] # "none" /\ CanWrite(t, p) =>
            /\ Written(t, p, new[p]) \in Trees
            /\ Halfway(Selection(Written(t, p, new[p])), Tail(list), old, new)
    BY <1>6, <1>9, WrittenTree
  <1> QED
    BY <1>2, <1>4, <1>8, <1>10, <1>11, <1>12

-----------------------------------------------------------------------------
(* The inductive invariant.                                                *)

CallRow ==
    [at: Ats, kind: {"none", "run", "regex", "command", "language"}, n: 0..MaxCalls,
     cancelled: BOOLEAN]
ReceiptRow ==
    [kind: {"none", "refused", "error", "ran", "no_candidate"},
     why: {"none", "cancelled", "busy", "spawn", "killed", "runtime", "receipt", "diverged",
           "publication"},
     cancelled: BOOLEAN, published: BOOLEAN, of: Nat]
SlotRow == [busy: BOOLEAN, active: BOOLEAN, cancelled: BOOLEAN]
BoxRow == [busy: BOOLEAN, active: BOOLEAN, cancelled: BOOLEAN, closed: BOOLEAN]
CancellerRow == [at: {"off", "sandbox", "kill", "runtime", "done"}, victim: Nat]
TaskRow == [state: {"none", "running", "dead"}, by: {"none", "cancel", "limit"}, of: Nat]
SupervisorRow ==
    [at: {"none", "input", "running", "finished", "gone"}, stdin: BOOLEAN, lost: BOOLEAN,
     out: {"none", "part", "error", "ok"}]
CandidateRow == [before: Selections, after: Selections, todo: Seq(Selected)]

Shapes ==
    /\ profile \in {"python", "docker"}
    /\ call \in CallRow /\ receipt \in ReceiptRow
    /\ slot \in SlotRow /\ box \in BoxRow
    /\ cancel \in BOOLEAN /\ interrupted \in BOOLEAN /\ canceller \in CancellerRow
    /\ task \in TaskRow /\ sup \in SupervisorRow
    /\ stage \in Trees /\ candidate \in CandidateRow /\ foreign \in BOOLEAN

InSandbox == {"spawn", "record", "collect", "reap", "release"}
InBox == {"start", "read", "decode", "compare", "publish", "done"}

\* Which slot is taken, and which kind of call and supervisor there is, by
\* where the call is.
Places ==
    /\ slot.busy <=> call.at \in InSandbox
    /\ slot.active => call.at \in {"collect", "reap", "release"}
    /\ call.at \in {"collect", "reap"} => slot.active
    /\ box.busy <=> call.at \in InBox
    /\ box.active => call.at \in InBox
    /\ box.closed => call.at = "over"
    /\ call.at \in {"reserve"} \cup InSandbox => call.kind \in {"run", "regex"}
    /\ call.at \in {"admit"} \cup InBox => call.kind \in {"command", "language"}
    /\ call.kind \in {"command", "language"} => profile = "docker"
    /\ call.at = "check" => call.kind # "none"
    /\ call.at = "publish" => call.kind = "command"
    /\ call.at = "done" => call.kind = "language"
    /\ call.at \notin {"idle", "unwound", "closing", "over"} => call.n # 0
    /\ sup.at # "none" => /\ call.kind \in {"command", "language"}
                          /\ call.at \notin {"check", "admit", "start"}
    /\ sup.out = "ok" => sup.at = "gone"
    /\ call.at \in {"compare", "publish", "done"} => sup.out = "ok"

\* Who knows of the cancellation: nobody without one, the runtime when its
\* canceller is done, the call before its supervisor is given up.
Flags ==
    /\ call.cancelled \/ slot.cancelled \/ receipt.cancelled \/ canceller.at # "off" => cancel
    /\ box.cancelled => cancel \/ call.at = "over"
    /\ canceller.at = "done" /\ profile = "docker" => box.cancelled
    /\ call.at = "read" /\ (~sup.stdin \/ sup.lost) => call.cancelled
    /\ call.at \in InBox /\ sup.out = "ok" /\ sup.lost => call.cancelled

\* The process belongs to the call, and only a canceller that met the slot of
\* this very call is about to kill it.
Processes ==
    /\ call.at \in {"check", "reserve", "spawn", "admit", "start"} => task = NoTask
    /\ task.of <= call.n
    /\ call.at = "record" => task.by # "cancel"
    /\ call.at \in {"record", "collect", "reap"} => task.state # "none" /\ task.of = call.n
    /\ slot.active => task.state # "none" /\ task.of = call.n
    /\ call.at \in {"reap", "release"} => task.state # "running"
    /\ call.at = "idle" /\ call.kind \in {"run", "regex"} => task.state # "running"
    /\ canceller.at = "kill" =>
          /\ canceller.victim \in 1..call.n
          /\ canceller.victim = call.n =>
                /\ call.kind \in {"run", "regex"}
                /\ call.at \notin {"check", "reserve", "spawn", "record"}
                /\ call.at = "collect" => slot.cancelled
          /\ slot.cancelled => call.at \notin {"spawn", "record"}
          /\ slot.cancelled /\ call.at = "collect" => canceller.victim = call.n
    /\ CancelReachesTask
    /\ task.by = "cancel" /\ task.of = call.n =>
          /\ call.at \in {"collect", "reap"} => slot.cancelled
          /\ call.at \notin {"collect", "reap", "unwound", "closing", "over"} => call.cancelled

\* What the last receipt says is about this call and still true.
Receipts ==
    /\ receipt.why # "busy"
    /\ call.at = "idle" =>
          /\ receipt.kind # "none" => receipt.of = call.n
          /\ receipt.kind \in {"ran", "no_candidate"} /\ call.cancelled => receipt.cancelled
          /\ receipt.published \/ receipt.why = "publication" => call.kind = "command"
          /\ receipt.published => Selection(stage) = candidate.after /\ ~foreign
          /\ receipt.why = "publication" => stage["x"] # "none"

\* A foreign change shows in the selection until it is compared; after that
\* the stage is halfway between the selection read first and the candidate.
Publishing ==
    /\ call.at \in {"check", "admit"} => ~foreign
    /\ call.at \in {"start", "read", "decode", "compare"} =>
          (foreign <=> Selection(stage) # candidate.before)
    /\ call.at = "publish" =>
          /\ ~foreign
          /\ Due(candidate.todo, candidate.before, candidate.after)
          /\ Halfway(Selection(stage), candidate.todo, candidate.before, candidate.after)

StagedInv ==
    Shapes /\ Places /\ Flags /\ Processes /\ Receipts /\ Publishing

\* The fields that arithmetic and Boolean steps are about.
LEMMA Fields ==
    ASSUME Shapes
    PROVE  /\ call.at \in Ats /\ call.cancelled \in BOOLEAN /\ call.n \in 0..MaxCalls
           /\ call.n \in Nat
           /\ receipt.cancelled \in BOOLEAN /\ receipt.published \in BOOLEAN
           /\ slot.busy \in BOOLEAN /\ slot.active \in BOOLEAN /\ slot.cancelled \in BOOLEAN
           /\ box.busy \in BOOLEAN /\ box.active \in BOOLEAN
           /\ box.cancelled \in BOOLEAN /\ box.closed \in BOOLEAN
           /\ task.of \in Nat /\ canceller.victim \in Nat
           /\ sup.stdin \in BOOLEAN /\ sup.lost \in BOOLEAN
  BY StagedAssumption DEF Shapes, CallRow, ReceiptRow, SlotRow, BoxRow, TaskRow,
     CancellerRow, SupervisorRow

\* A kill changes a running process only.
LEMMA KilledTask ==
    ASSUME Shapes, NEW by \in {"cancel", "limit"}
    PROVE  /\ Killed(by) \in TaskRow /\ Killed(by).of = task.of
           /\ Killed(by).state = IF task.state = "running" THEN "dead" ELSE task.state
           /\ Killed(by).by = IF task.state = "running" THEN by ELSE task.by
  BY DEF Shapes, TaskRow, Killed

\* Where the call goes next, with a receipt or without.
CallAt(at) ==
    /\ call' \in CallRow /\ call'.at = at /\ call'.kind = call.kind
    /\ call'.n = call.n /\ call'.cancelled = call.cancelled

LEMMA CallGoes ==
    ASSUME Shapes, NEW at \in Ats, Go(at)
    PROVE  CallAt(at)
  BY DEF Shapes, CallRow, Go, CallAt

\* A call that returns gives up its slot; what else has to hold of its receipt.
LEMMA ReturnInv ==
    ASSUME StagedInv, NEW kind \in {"none", "refused", "error", "ran", "no_candidate"},
           NEW why \in {"none", "cancelled", "spawn", "killed", "runtime", "receipt",
                        "diverged", "publication"},
           NEW cancelled \in BOOLEAN, NEW published \in BOOLEAN,
           Return(kind, why, cancelled, published),
           call.at \in {"check", "release", "admit"} \cup InBox,
           slot' \in SlotRow, ~slot'.busy, ~slot'.active, slot'.cancelled => slot.cancelled,
           box' \in BoxRow, ~box'.busy, ~box'.active,
           box'.cancelled <=> box.cancelled, box'.closed <=> box.closed,
           UNCHANGED <<profile, cancelVars, task, sup, fileVars>>,
           cancelled => cancel,
           kind \in {"ran", "no_candidate"} /\ call.cancelled => cancelled,
           published => /\ call.kind = "command" /\ ~foreign
                        /\ Selection(stage) = candidate.after,
           why = "publication" => call.kind = "command" /\ stage["x"] # "none"
    PROVE  StagedInv'
  <1>0. Shapes /\ Places /\ Flags /\ Processes /\ Receipts /\ Publishing
    BY DEF StagedInv
  <1>1. /\ call' \in CallRow /\ call'.at = "idle" /\ call'.kind = call.kind
        /\ call'.n = call.n /\ call'.cancelled = call.cancelled
    BY <1>0, CallGoes DEF Return, Ats, CallAt
  <1>2. /\ receipt' \in ReceiptRow /\ receipt'.kind = kind /\ receipt'.why = why
        /\ receipt'.cancelled = cancelled /\ receipt'.published = published
        /\ receipt'.of = call.n
    BY <1>0, Fields DEF Return, ReceiptRow
  <1>3. Shapes'
    BY <1>0, <1>1, <1>2 DEF Shapes, cancelVars, fileVars
  <1>4. Places'
    BY <1>0, <1>1 DEF Places, InSandbox, InBox
  <1>5. Flags'
    BY <1>0, <1>1, <1>2 DEF Flags, cancelVars, InBox
  <1>6. Processes'
    BY <1>0, <1>1 DEF Processes, CancelReachesTask, NoTask, Places, cancelVars,
       InBox, InSandbox
  <1>7. Receipts'
    BY <1>0, <1>1, <1>2 DEF Receipts, fileVars
  <1>8. Publishing'
    BY <1>1 DEF Publishing
  <1> QED
    BY <1>3, <1>4, <1>5, <1>6, <1>7, <1>8 DEF StagedInv

\* The same for a call that gives up the container.
LEMMA ReturnBoxInv ==
    ASSUME StagedInv, NEW kind \in {"error", "ran", "no_candidate"},
           NEW why \in {"none", "spawn", "receipt", "diverged", "publication"},
           NEW cancelled \in BOOLEAN, NEW published \in BOOLEAN,
           ReturnBox(kind, why, cancelled, published), call.at \in InBox,
           UNCHANGED <<profile, slot, cancelVars, task, sup, fileVars>>,
           cancelled => cancel,
           kind \in {"ran", "no_candidate"} /\ call.cancelled => cancelled,
           published => /\ call.kind = "command" /\ ~foreign
                        /\ Selection(stage) = candidate.after,
           why = "publication" => call.kind = "command" /\ stage["x"] # "none"
    PROVE  StagedInv'
  <1>1. slot \in SlotRow /\ box \in BoxRow /\ ~slot.busy /\ ~slot.active
    BY DEF StagedInv, Shapes, Places, InSandbox, InBox
  <1>2. box' = [box EXCEPT !.busy = FALSE, !.active = FALSE]
    BY DEF ReturnBox
  <1>3. /\ box' \in BoxRow /\ ~box'.busy /\ ~box'.active
        /\ box'.cancelled = box.cancelled /\ box'.closed = box.closed
    BY <1>1, <1>2 DEF BoxRow
  <1> QED
    BY <1>1, <1>3, ReturnInv DEF ReturnBox

-----------------------------------------------------------------------------
(* Sandbox.run and the regex helper.                                       *)

LEMMA BeginInv ==
    ASSUME StagedInv, Begin
    PROVE  StagedInv'
  <1>0. Shapes /\ Places /\ Flags /\ Processes /\ Receipts /\ Publishing
    BY DEF StagedInv
  <1>1. PICK kind \in Kinds :
            call' = [at |-> "check", kind |-> kind, n |-> call.n + 1, cancelled |-> FALSE]
    BY DEF Begin
  <1>2. /\ call' \in CallRow /\ call'.at = "check" /\ call'.kind = kind
        /\ call'.n = call.n + 1 /\ call'.cancelled = FALSE /\ call.n \in Nat
        /\ kind \in {"run", "regex", "command", "language"}
        /\ kind \in {"command", "language"} => profile = "docker"
    <2>1. kind \in {"run", "regex", "command", "language"}
      BY DEF Kinds
    <2>2. call.n \in Nat /\ call.n + 1 \in 0..MaxCalls
      BY <1>0, Fields, StagedAssumption DEF Begin
    <2>3. [at |-> "check", kind |-> kind, n |-> call.n + 1, cancelled |-> FALSE] \in CallRow
      BY <2>1, <2>2 DEF CallRow, Ats
    <2>4. kind \in {"command", "language"} => profile = "docker"
      BY <1>0 DEF Kinds, Shapes
    <2> QED
      BY <1>1, <2>1, <2>2, <2>3, <2>4
  <1>3. candidate' \in CandidateRow
    BY NothingSelected, EmptySeq DEF Begin, CandidateRow
  <1>4. /\ task' = NoTask /\ sup' = NoSupervisor /\ receipt' = NoReceipt /\ foreign' = FALSE
        /\ UNCHANGED <<profile, slot, box, cancelVars, stage>> /\ call.at = "idle"
    BY DEF Begin
  <1>5. NoTask \in TaskRow /\ NoSupervisor \in SupervisorRow /\ NoReceipt \in ReceiptRow
    BY DEF NoTask, NoSupervisor, NoReceipt, TaskRow, SupervisorRow, ReceiptRow
  <1>6. Shapes'
    BY <1>0, <1>2, <1>3, <1>4, <1>5 DEF Shapes, cancelVars
  <1>7. Places'
    BY <1>0, <1>2, <1>4 DEF Places, InSandbox, InBox, NoSupervisor
  <1>8. Flags'
    BY <1>0, <1>2, <1>4 DEF Flags, cancelVars, InBox, NoReceipt
  <1>9. Processes'
    BY <1>0, <1>2, <1>4, Fields
       DEF Processes, CancelReachesTask, NoTask, cancelVars, Places, InSandbox
  <1>10. Receipts' /\ Publishing'
    BY <1>2, <1>4 DEF Receipts, Publishing, NoReceipt
  <1> QED
    BY <1>6, <1>7, <1>8, <1>9, <1>10 DEF StagedInv

LEMMA CheckCancelledInv ==
    ASSUME StagedInv, CheckCancelled
    PROVE  StagedInv'
  <1>0. Shapes /\ Places /\ Flags /\ Processes /\ Receipts /\ Publishing
    BY DEF StagedInv
  <1>1. CASE Return("refused", "cancelled", FALSE, FALSE)
    <2>1. /\ slot \in SlotRow /\ box \in BoxRow /\ ~slot.busy /\ ~slot.active
          /\ ~box.busy /\ ~box.active
      BY <1>0 DEF Shapes, Places, InSandbox, InBox, CheckCancelled
    <2> QED
      BY <1>1, <2>1, ReturnInv DEF CheckCancelled
  <1>2. CASE Go(IF call.kind \in {"run", "regex"} THEN "reserve" ELSE "admit")
             /\ UNCHANGED receipt
    <2>1. PICK at \in {"reserve", "admit"} :
              /\ CallAt(at)
              /\ at = "reserve" => call.kind \in {"run", "regex"}
              /\ at = "admit" => call.kind \in {"command", "language"}
      <3>1. call.at = "check"
        BY DEF CheckCancelled
      <3>2. call.kind \in {"run", "regex", "command", "language"}
        BY <1>0, <3>1 DEF Places, Shapes, CallRow
      <3>3. {"reserve", "admit"} \subseteq Ats
        BY DEF Ats
      <3> QED
        BY <1>0, <1>2, <3>2, <3>3, CallGoes
    <2>2. /\ call.at = "check"
          /\ UNCHANGED <<profile, receipt, slot, box, cancelVars, task, sup, fileVars>>
      BY <1>2 DEF CheckCancelled
    <2>3. Shapes'
      BY <1>0, <2>1, <2>2 DEF Shapes, cancelVars, fileVars, CallAt
    <2>4. Places'
      BY <1>0, <2>1, <2>2 DEF Places, InSandbox, InBox, CallAt
    <2>5. Flags'
      BY <1>0, <2>1, <2>2 DEF Flags, InBox, cancelVars, CallAt
    <2>6. Processes'
      BY <1>0, <2>1, <2>2 DEF Processes, CancelReachesTask, NoTask, cancelVars, CallAt
    <2>7. Receipts' /\ Publishing'
      BY <1>0, <2>1, <2>2 DEF Receipts, Publishing, cancelVars, fileVars, CallAt
    <2> QED
      BY <2>3, <2>4, <2>5, <2>6, <2>7 DEF StagedInv
  <1> QED
    BY <1>1, <1>2 DEF CheckCancelled

LEMMA ReserveInv ==
    ASSUME StagedInv, Reserve
    PROVE  StagedInv'
  <1>0. Shapes /\ Places /\ Flags /\ Processes /\ Receipts /\ Publishing
    BY DEF StagedInv
  <1>1. /\ call.at = "reserve" /\ ~slot.busy /\ ~slot.active
    BY <1>0 DEF Reserve, Places, InSandbox
  <1>2. CallAt("spawn")
    BY <1>0, <1>1, CallGoes DEF Reserve, Ats
  <1>3. slot' = [busy |-> TRUE, active |-> FALSE, cancelled |-> FALSE]
    BY <1>0, <1>1, Fields DEF Reserve
  <1>4. slot' \in SlotRow /\ slot'.busy /\ ~slot'.active /\ ~slot'.cancelled
    BY <1>3 DEF SlotRow
  <1>5. UNCHANGED <<profile, receipt, box, cancelVars, task, sup, fileVars>>
    BY <1>1 DEF Reserve
  <1>6. Shapes'
    BY <1>0, <1>1, <1>2, <1>3, <1>4, <1>5 DEF Shapes, cancelVars, fileVars, CallAt
  <1>7. Places'
    BY <1>0, <1>1, <1>2, <1>3, <1>4, <1>5 DEF Places, InSandbox, InBox, CallAt
  <1>8. Flags'
    BY <1>0, <1>1, <1>2, <1>3, <1>4, <1>5 DEF Flags, InBox, cancelVars, CallAt
  <1>9. Processes'
    BY <1>0, <1>1, <1>2, <1>3, <1>4, <1>5 DEF Processes, CancelReachesTask, NoTask,
       cancelVars, CallAt
  <1>10. Receipts' /\ Publishing'
    BY <1>0, <1>1, <1>2, <1>3, <1>4, <1>5 DEF Receipts, Publishing, cancelVars,
       fileVars, CallAt
  <1> QED
    BY <1>6, <1>7, <1>8, <1>9, <1>10 DEF StagedInv

LEMMA SpawnInv ==
    ASSUME StagedInv, Spawn
    PROVE  StagedInv'
  <1>0. Shapes /\ Places /\ Flags /\ Processes /\ Receipts /\ Publishing
    BY DEF StagedInv
  <1>1. PICK at \in {"record", "release"} :
            /\ CallAt(at) /\ task' \in TaskRow
            /\ at = "record" => task'.state = "running" /\ task'.by = "none" /\ task'.of = call.n
            /\ at = "release" => task' = task
    <2>1. {"record", "release"} \subseteq Ats /\ call.n \in Nat
      BY <1>0, Fields DEF Ats
    <2>2. [state |-> "running", by |-> "none", of |-> call.n] \in TaskRow /\ task \in TaskRow
      BY <1>0, <2>1 DEF TaskRow, Shapes
    <2> QED
      BY <1>0, <2>1, <2>2, CallGoes DEF Spawn
  <1>2. /\ call.at = "spawn"
        /\ UNCHANGED <<profile, receipt, slot, box, cancelVars, sup, fileVars>>
    BY DEF Spawn
  <1>3. Shapes'
    BY <1>0, <1>1, <1>2 DEF Shapes, cancelVars, fileVars, CallAt
  <1>4. Places'
    BY <1>0, <1>1, <1>2 DEF Places, InSandbox, InBox, CallAt
  <1>5. Flags'
    BY <1>0, <1>1, <1>2 DEF Flags, InBox, cancelVars, CallAt
  <1>6. Processes'
    BY <1>0, <1>1, <1>2, Fields DEF Processes, CancelReachesTask, NoTask, cancelVars,
       CallAt
  <1>7. Receipts' /\ Publishing'
    BY <1>0, <1>1, <1>2 DEF Receipts, Publishing, cancelVars, fileVars, CallAt
  <1> QED
    BY <1>3, <1>4, <1>5, <1>6, <1>7 DEF StagedInv

LEMMA RecordInv ==
    ASSUME StagedInv, Record
    PROVE  StagedInv'
  <1>0. Shapes /\ Places /\ Flags /\ Processes /\ Receipts /\ Publishing
    BY DEF StagedInv
  <1>1. CallAt("collect") /\ call.at = "record"
    BY <1>0, CallGoes DEF Record, Ats
  <1>2. /\ slot' \in SlotRow /\ slot'.busy = slot.busy /\ slot'.active
        /\ slot'.cancelled = slot.cancelled
    BY <1>0 DEF Record, SlotRow, Shapes
  <1>3. /\ task' \in TaskRow /\ task'.of = task.of /\ task'.state # "none"
        /\ slot.cancelled => task'.state # "running"
        /\ ~slot.cancelled => task' = task
    BY <1>0, <1>1, KilledTask DEF Record, Shapes, Processes
  <1>4. UNCHANGED <<profile, receipt, box, cancelVars, sup, fileVars>>
    BY DEF Record
  <1>5. Shapes'
    BY <1>0, <1>1, <1>2, <1>3, <1>4 DEF Shapes, cancelVars, fileVars, CallAt
  <1>6. Places'
    BY <1>0, <1>1, <1>2, <1>3, <1>4 DEF Places, InSandbox, InBox, CallAt
  <1>7. Flags'
    BY <1>0, <1>1, <1>2, <1>3, <1>4 DEF Flags, InBox, cancelVars, CallAt
  <1>8. Processes'
    BY <1>0, <1>1, <1>2, <1>3, <1>4 DEF Processes, CancelReachesTask, NoTask,
       cancelVars, CallAt
  <1>9. Receipts' /\ Publishing'
    BY <1>0, <1>1, <1>2, <1>3, <1>4 DEF Receipts, Publishing, cancelVars, fileVars,
       CallAt
  <1> QED
    BY <1>5, <1>6, <1>7, <1>8, <1>9 DEF StagedInv

LEMMA CollectInv ==
    ASSUME StagedInv, Collect
    PROVE  StagedInv'
  <1>0. Shapes /\ Places /\ Flags /\ Processes /\ Receipts /\ Publishing
    BY DEF StagedInv
  <1>1. CallAt("reap") /\ call.at = "collect"
    BY <1>0, CallGoes DEF Collect, Ats
  <1>2. /\ task' \in TaskRow /\ task'.of = task.of /\ task'.state = "dead"
        /\ task'.by = "cancel" => task.by = "cancel"
    BY <1>0, <1>1, KilledTask DEF Collect, Shapes, Processes, TaskRow
  <1>3. UNCHANGED <<profile, receipt, slot, box, cancelVars, sup, fileVars>>
    BY DEF Collect
  <1>4. Shapes'
    BY <1>0, <1>1, <1>2, <1>3 DEF Shapes, cancelVars, fileVars, CallAt
  <1>5. Places'
    BY <1>0, <1>1, <1>2, <1>3 DEF Places, InSandbox, InBox, CallAt
  <1>6. Flags'
    BY <1>0, <1>1, <1>2, <1>3 DEF Flags, InBox, cancelVars, CallAt
  <1>7. Processes'
    BY <1>0, <1>1, <1>2, <1>3 DEF Processes, CancelReachesTask, NoTask, cancelVars,
       CallAt
  <1>8. Receipts' /\ Publishing'
    BY <1>0, <1>1, <1>2, <1>3 DEF Receipts, Publishing, cancelVars, fileVars, CallAt
  <1> QED
    BY <1>4, <1>5, <1>6, <1>7, <1>8 DEF StagedInv

LEMMA ReapInv ==
    ASSUME StagedInv, Reap
    PROVE  StagedInv'
  <1>0. Shapes /\ Places /\ Flags /\ Processes /\ Receipts /\ Publishing
    BY DEF StagedInv
  <1>1. /\ call.at = "reap" /\ call' \in CallRow /\ call'.at = "release"
        /\ call'.kind = call.kind /\ call'.n = call.n /\ call'.cancelled = slot.cancelled
    BY <1>0, Fields DEF Reap, Shapes, CallRow, Ats
  <1>2. UNCHANGED <<profile, receipt, slot, box, cancelVars, task, sup, fileVars>>
    BY DEF Reap
  <1>3. Shapes'
    BY <1>0, <1>1, <1>2 DEF Shapes, cancelVars, fileVars, CallAt
  <1>4. Places'
    BY <1>0, <1>1, <1>2 DEF Places, InSandbox, InBox, CallAt
  <1>5. Flags'
    BY <1>0, <1>1, <1>2 DEF Flags, InBox, cancelVars, CallAt
  <1>6. Processes'
    BY <1>0, <1>1, <1>2 DEF Processes, CancelReachesTask, NoTask, cancelVars, CallAt
  <1>7. Receipts' /\ Publishing'
    BY <1>0, <1>1, <1>2 DEF Receipts, Publishing, cancelVars, fileVars, CallAt
  <1> QED
    BY <1>3, <1>4, <1>5, <1>6, <1>7 DEF StagedInv

LEMMA ReleaseInv ==
    ASSUME StagedInv, Release
    PROVE  StagedInv'
  <1>0. Shapes /\ Places /\ Flags /\ Processes /\ Receipts /\ Publishing
    BY DEF StagedInv
  <1>1. call.at = "release" /\ UNCHANGED <<profile, box, cancelVars, task, sup, fileVars>>
    BY DEF Release
  <1>2. /\ slot' \in SlotRow /\ ~slot'.busy /\ ~slot'.active
        /\ slot'.cancelled => slot.cancelled
    BY <1>0, Fields DEF Release, SlotRow
  <1>3. box \in BoxRow /\ ~box.busy /\ ~box.active
    BY <1>0, <1>1 DEF Shapes, Places, InBox
  <1>4. call.cancelled \in BOOLEAN /\ (call.cancelled => cancel)
    BY <1>0, Fields DEF Flags
  <1>5. CASE Return("error", "spawn", FALSE, FALSE)
    BY <1>1, <1>2, <1>3, <1>5, ReturnInv
  <1>6. CASE Return("error", "killed", call.cancelled, FALSE)
    BY <1>1, <1>2, <1>3, <1>4, <1>6, ReturnInv
  <1>7. CASE Return("ran", "none", call.cancelled, FALSE)
    BY <1>1, <1>2, <1>3, <1>4, <1>7, ReturnInv
  <1> QED
    BY <1>5, <1>6, <1>7 DEF Release

LEMMA TaskEndsInv ==
    ASSUME StagedInv, TaskEnds
    PROVE  StagedInv'
  <1>0. Shapes /\ Places /\ Flags /\ Processes /\ Receipts /\ Publishing
    BY DEF StagedInv
  <1>1. /\ task.state = "running" /\ task' \in TaskRow /\ task'.state = "dead"
        /\ task'.by = task.by /\ task'.of = task.of
    BY <1>0 DEF TaskEnds, Shapes, TaskRow
  <1>2. UNCHANGED <<profile, call, receipt, slot, box, cancelVars, sup, fileVars>>
    BY DEF TaskEnds
  <1>3. Shapes'
    BY <1>0, <1>1, <1>2 DEF Shapes, cancelVars, fileVars, CallAt
  <1>4. Places'
    BY <1>0, <1>1, <1>2 DEF Places, InSandbox, InBox, CallAt
  <1>5. Flags'
    BY <1>0, <1>1, <1>2 DEF Flags, InBox, cancelVars, CallAt
  <1>6. Processes'
    BY <1>0, <1>1, <1>2 DEF Processes, CancelReachesTask, NoTask, cancelVars, CallAt
  <1>7. Receipts' /\ Publishing'
    BY <1>0, <1>1, <1>2 DEF Receipts, Publishing, cancelVars, fileVars, CallAt
  <1> QED
    BY <1>3, <1>4, <1>5, <1>6, <1>7 DEF StagedInv

LEMMA ScriptWritesInv ==
    ASSUME StagedInv, ScriptWrites
    PROVE  StagedInv'
  <1>0. Shapes /\ Places /\ Flags /\ Processes /\ Receipts /\ Publishing
    BY DEF StagedInv
  <1>1. /\ call.kind = "run" /\ stage' \in Trees
        /\ UNCHANGED <<profile, call, receipt, slot, box, cancelVars, task, sup, candidate, foreign>>
    <2>1. DOMAIN stage = {"d", "f", "g", "x"} /\ stage \in Trees
      BY <1>0, TreeShape DEF Shapes
    <2> QED
      BY <2>1, WrittenTree DEF ScriptWrites
  <1>2. Shapes'
    BY <1>0, <1>1 DEF Shapes, cancelVars, fileVars, CallAt
  <1>3. Places'
    BY <1>0, <1>1 DEF Places, InSandbox, InBox, CallAt
  <1>4. Flags'
    BY <1>0, <1>1 DEF Flags, InBox, cancelVars, CallAt
  <1>5. Processes'
    BY <1>0, <1>1 DEF Processes, CancelReachesTask, NoTask, cancelVars, CallAt
  <1>6. Receipts' /\ Publishing'
    BY <1>0, <1>1 DEF Receipts, Publishing, cancelVars, fileVars, CallAt, Places,
       InBox
  <1> QED
    BY <1>2, <1>3, <1>4, <1>5, <1>6 DEF StagedInv

LEMMA WriteFileInv ==
    ASSUME StagedInv, WriteFile
    PROVE  StagedInv'
  <1>0. Shapes /\ Places /\ Flags /\ Processes /\ Receipts /\ Publishing
    BY DEF StagedInv
  <1>1. stage' \in Trees
    <2>1. DOMAIN stage = {"d", "f", "g", "x"} /\ stage \in Trees
      BY <1>0, TreeShape DEF Shapes
    <2> QED
      BY <2>1, WrittenTree DEF WriteFile
  <1>2. /\ call.at = "idle" /\ receipt' = NoReceipt
        /\ UNCHANGED <<profile, slot, box, cancelVars, task, sup, candidate, foreign>>
    BY DEF WriteFile
  <1>3. /\ call' \in CallRow /\ call'.at = "idle" /\ call'.kind = call.kind
        /\ call'.n = call.n + 1 /\ call'.cancelled = call.cancelled
    <2>1. call.n + 1 \in 0..MaxCalls /\ call' = [call EXCEPT !.n = call.n + 1]
      BY <1>0, Fields, StagedAssumption DEF WriteFile
    <2> QED
      BY <1>0, <1>2, <2>1 DEF Shapes, CallRow
  <1>4. NoReceipt \in ReceiptRow
    BY DEF NoReceipt, ReceiptRow
  <1>5. Shapes'
    BY <1>0, <1>1, <1>2, <1>3, <1>4 DEF Shapes, cancelVars, fileVars, CallAt
  <1>6. Places'
    BY <1>0, <1>1, <1>2, <1>3, <1>4 DEF Places, InSandbox, InBox, CallAt
  <1>7. Flags'
    BY <1>0, <1>1, <1>2, <1>3, <1>4 DEF Flags, InBox, cancelVars, CallAt, NoReceipt
  <1>8. Processes'
    BY <1>0, <1>1, <1>2, <1>3, <1>4, Fields DEF Processes, CancelReachesTask, NoTask,
       cancelVars, CallAt, Places, InSandbox
  <1>9. Receipts' /\ Publishing'
    BY <1>0, <1>1, <1>2, <1>3, <1>4 DEF Receipts, Publishing, cancelVars, fileVars,
       CallAt, NoReceipt
  <1> QED
    BY <1>5, <1>6, <1>7, <1>8, <1>9 DEF StagedInv

-----------------------------------------------------------------------------
(* ContainerRuntime.command.                                               *)

LEMMA AdmitInv ==
    ASSUME StagedInv, Admit
    PROVE  StagedInv'
  <1>0. Shapes /\ Places /\ Flags /\ Processes /\ Receipts /\ Publishing
    BY DEF StagedInv
  <1>1. /\ call.at = "admit" /\ slot \in SlotRow /\ ~slot.busy /\ ~slot.active
        /\ box \in BoxRow /\ ~box.busy /\ ~box.active
        /\ UNCHANGED <<profile, slot, cancelVars, task, sup, stage, foreign>>
    BY <1>0 DEF Admit, Shapes, Places, InSandbox, InBox
  <1>2. CASE Return("refused", "runtime", FALSE, FALSE) /\ UNCHANGED <<box, candidate>>
    BY <1>1, <1>2, ReturnInv DEF fileVars
  <1>3. CASE /\ box' = [box EXCEPT !.busy = TRUE]
             /\ candidate' = [candidate EXCEPT !.before = Selection(stage)]
             /\ Go("start") /\ UNCHANGED receipt
    <2>1. CallAt("start") /\ UNCHANGED receipt
      BY <1>0, <1>3, CallGoes DEF Ats
    <2>2. /\ box' \in BoxRow /\ box'.busy /\ ~box'.active
          /\ box'.cancelled = box.cancelled /\ box'.closed = box.closed
      BY <1>1, <1>3 DEF BoxRow
    <2>3. candidate' \in CandidateRow /\ candidate'.before = Selection(stage)
      BY <1>0, <1>3 DEF CandidateRow, Shapes, Selections
    <2>4. Shapes'
      BY <1>0, <1>1, <2>1, <2>2, <2>3 DEF Shapes, cancelVars, fileVars, CallAt
    <2>5. Places'
      BY <1>0, <1>1, <2>1, <2>2, <2>3 DEF Places, InSandbox, InBox, CallAt
    <2>6. Flags'
      BY <1>0, <1>1, <2>1, <2>2, <2>3 DEF Flags, InBox, cancelVars, CallAt, Places
    <2>7. Processes'
      BY <1>0, <1>1, <2>1, <2>2, <2>3 DEF Processes, CancelReachesTask, NoTask,
         cancelVars, CallAt
    <2>8. Receipts' /\ Publishing'
      BY <1>0, <1>1, <2>1, <2>2, <2>3 DEF Receipts, Publishing, cancelVars,
         fileVars, CallAt
    <2> QED
      BY <2>4, <2>5, <2>6, <2>7, <2>8 DEF StagedInv
  <1> QED
    BY <1>2, <1>3 DEF Admit

LEMMA StartInv ==
    ASSUME StagedInv, Start
    PROVE  StagedInv'
  <1>0. Shapes /\ Places /\ Flags /\ Processes /\ Receipts /\ Publishing
    BY DEF StagedInv
  <1>1. call.at = "start" /\ UNCHANGED <<profile, slot, cancelVars, task, fileVars>>
    BY DEF Start
  <1>2. CASE /\ box.closed \/ box.cancelled
             /\ ReturnBox("no_candidate", "none", TRUE, FALSE) /\ UNCHANGED sup
    BY <1>0, <1>1, <1>2, ReturnBoxInv DEF Places, Flags, InBox
  <1>3. CASE ReturnBox("error", "spawn", FALSE, FALSE) /\ UNCHANGED sup
    BY <1>1, <1>3, ReturnBoxInv DEF InBox
  <1>4. CASE /\ ~box.closed /\ ~box.cancelled
             /\ sup' = [NoSupervisor EXCEPT !.at = "input"]
             /\ box' = [box EXCEPT !.active = TRUE]
             /\ Go("read") /\ UNCHANGED receipt
    <2>1. CallAt("read") /\ UNCHANGED receipt
      BY <1>0, <1>4, CallGoes DEF Ats
    <2>2. /\ sup' \in SupervisorRow /\ sup'.at = "input" /\ sup'.stdin
          /\ ~sup'.lost /\ sup'.out = "none"
      BY <1>4 DEF NoSupervisor, SupervisorRow
    <2>3. /\ box' \in BoxRow /\ box'.busy = box.busy /\ box'.active
          /\ box'.cancelled = box.cancelled /\ box'.closed = box.closed
      BY <1>0, <1>4 DEF BoxRow, Shapes
    <2>4. Shapes'
      BY <1>0, <1>1, <2>1, <2>2, <2>3 DEF Shapes, cancelVars, fileVars, CallAt
    <2>5. Places'
      BY <1>0, <1>1, <2>1, <2>2, <2>3 DEF Places, InSandbox, InBox, CallAt
    <2>6. Flags'
      BY <1>0, <1>1, <2>1, <2>2, <2>3 DEF Flags, InBox, cancelVars, CallAt
    <2>7. Processes'
      BY <1>0, <1>1, <2>1, <2>2, <2>3 DEF Processes, CancelReachesTask, NoTask,
         cancelVars, CallAt
    <2>8. Receipts' /\ Publishing'
      BY <1>0, <1>1, <2>1, <2>2, <2>3 DEF Receipts, Publishing, cancelVars,
         fileVars, CallAt
    <2> QED
      BY <2>4, <2>5, <2>6, <2>7, <2>8 DEF StagedInv
  <1> QED
    BY <1>2, <1>3, <1>4 DEF Start

LEMMA NoticeCancelInv ==
    ASSUME StagedInv, NoticeCancel
    PROVE  StagedInv'
  <1>0. Shapes /\ Places /\ Flags /\ Processes /\ Receipts /\ Publishing
    BY DEF StagedInv
  <1>1. /\ call.at = "read" /\ box.cancelled
        /\ call' \in CallRow /\ call'.at = "read" /\ call'.kind = call.kind
        /\ call'.n = call.n /\ call'.cancelled
    BY <1>0 DEF NoticeCancel, Shapes, CallRow
  <1>2. /\ sup' \in SupervisorRow /\ sup'.at = sup.at /\ sup'.out = sup.out
        /\ UNCHANGED <<profile, receipt, slot, box, cancelVars, task, fileVars>>
    BY <1>0 DEF NoticeCancel, Shapes, SupervisorRow
  <1>3. Shapes'
    BY <1>0, <1>1, <1>2 DEF Shapes, cancelVars, fileVars, CallAt
  <1>4. Places'
    BY <1>0, <1>1, <1>2 DEF Places, InSandbox, InBox, CallAt
  <1>5. Flags'
    BY <1>0, <1>1, <1>2 DEF Flags, InBox, cancelVars, CallAt
  <1>6. Processes'
    BY <1>0, <1>1, <1>2 DEF Processes, CancelReachesTask, NoTask, cancelVars, CallAt
  <1>7. Receipts' /\ Publishing'
    BY <1>0, <1>1, <1>2 DEF Receipts, Publishing, cancelVars, fileVars, CallAt
  <1> QED
    BY <1>3, <1>4, <1>5, <1>6, <1>7 DEF StagedInv

\* The client goes; the engine may have killed the task or not.
LEMMA ForceKillEffect ==
    ASSUME Shapes, NEW out \in {"none", "part"}, ForceKill(out)
    PROVE  /\ sup' \in SupervisorRow /\ sup'.at \in {sup.at, "gone"} /\ sup'.out = out
           /\ task' \in TaskRow /\ task'.of = task.of
           /\ task.state # "running" => task'.state = task.state
           /\ task'.state \in {task.state, "dead"}
           /\ task'.by = "cancel" => task.by = "cancel"
  BY KilledTask DEF ForceKill, Shapes, SupervisorRow

LEMMA HardDeadlineInv ==
    ASSUME StagedInv, HardDeadline
    PROVE  StagedInv'
  <1>0. Shapes /\ Places /\ Flags /\ Processes /\ Receipts /\ Publishing
    BY DEF StagedInv
  <1>1. CallAt("decode") /\ call.at = "read"
    BY <1>0, CallGoes DEF HardDeadline, Ats
  <1>2. PICK out \in {"none", "part"} : ForceKill(out)
    BY DEF HardDeadline
  <1>3. UNCHANGED <<profile, receipt, slot, box, cancelVars, fileVars>>
    BY DEF HardDeadline
  <1>4. Shapes'
    BY <1>0, <1>1, <1>2, <1>3, ForceKillEffect DEF Shapes, cancelVars, fileVars,
       CallAt
  <1>5. Places'
    BY <1>0, <1>1, <1>2, <1>3, ForceKillEffect DEF Places, InSandbox, InBox, CallAt
  <1>6. Flags'
    BY <1>0, <1>1, <1>2, <1>3, ForceKillEffect DEF Flags, InBox, cancelVars, CallAt
  <1>7. Processes'
    BY <1>0, <1>1, <1>2, <1>3, ForceKillEffect DEF Processes, CancelReachesTask,
       NoTask, cancelVars, CallAt
  <1>8. Receipts' /\ Publishing'
    BY <1>0, <1>1, <1>2, <1>3 DEF Receipts, Publishing, cancelVars, fileVars, CallAt
  <1> QED
    BY <1>4, <1>5, <1>6, <1>7, <1>8 DEF StagedInv

LEMMA ReadToEndInv ==
    ASSUME StagedInv, ReadToEnd
    PROVE  StagedInv'
  <1>0. Shapes /\ Places /\ Flags /\ Processes /\ Receipts /\ Publishing
    BY DEF StagedInv
  <1>1. /\ CallAt("decode") /\ call.at = "read"
        /\ UNCHANGED <<profile, receipt, slot, box, cancelVars, task, sup, fileVars>>
    BY <1>0, CallGoes DEF ReadToEnd, Ats
  <1>2. Shapes'
    BY <1>0, <1>1 DEF Shapes, cancelVars, fileVars, CallAt
  <1>3. Places'
    BY <1>0, <1>1 DEF Places, InSandbox, InBox, CallAt
  <1>4. Flags'
    BY <1>0, <1>1 DEF Flags, InBox, cancelVars, CallAt
  <1>5. Processes'
    BY <1>0, <1>1 DEF Processes, CancelReachesTask, NoTask, cancelVars, CallAt
  <1>6. Receipts' /\ Publishing'
    BY <1>0, <1>1 DEF Receipts, Publishing, cancelVars, fileVars, CallAt
  <1> QED
    BY <1>2, <1>3, <1>4, <1>5, <1>6 DEF StagedInv

LEMMA DecodeInv ==
    ASSUME StagedInv, Decode
    PROVE  StagedInv'
  <1>0. Shapes /\ Places /\ Flags /\ Processes /\ Receipts /\ Publishing
    BY DEF StagedInv
  <1>1. call.at = "decode" /\ UNCHANGED <<profile, slot, cancelVars, task, sup, fileVars>>
    BY DEF Decode
  <1>2. call.at \in InBox /\ call.cancelled \in BOOLEAN /\ (call.cancelled => cancel)
    BY <1>0, <1>1, Fields DEF Flags, InBox
  <1>3. CASE ReturnBox("no_candidate", "none", call.cancelled, FALSE)
    BY <1>1, <1>2, <1>3, ReturnBoxInv
  <1>4. CASE ReturnBox("error", "receipt", call.cancelled, FALSE)
    BY <1>1, <1>2, <1>4, ReturnBoxInv
  <1>5. CASE sup.out = "ok" /\ Go("compare") /\ UNCHANGED <<box, receipt>>
    <2>1. CallAt("compare") /\ UNCHANGED <<box, receipt>> /\ sup.out = "ok"
      BY <1>0, <1>5, CallGoes DEF Ats
    <2>2. Shapes'
      BY <1>0, <1>1, <2>1 DEF Shapes, cancelVars, fileVars, CallAt
    <2>3. Places'
      BY <1>0, <1>1, <2>1 DEF Places, InSandbox, InBox, CallAt
    <2>4. Flags'
      BY <1>0, <1>1, <2>1 DEF Flags, InBox, cancelVars, CallAt
    <2>5. Processes'
      BY <1>0, <1>1, <2>1 DEF Processes, CancelReachesTask, NoTask, cancelVars, CallAt
    <2>6. Receipts' /\ Publishing'
      BY <1>0, <1>1, <2>1 DEF Receipts, Publishing, cancelVars, fileVars, CallAt
    <2> QED
      BY <2>2, <2>3, <2>4, <2>5, <2>6 DEF StagedInv
  <1>6. sup.out \in {"none", "part", "error", "ok"}
    BY <1>0 DEF Shapes, SupervisorRow
  <1> QED
    BY <1>3, <1>4, <1>5, <1>6 DEF Decode

LEMMA CompareInv ==
    ASSUME StagedInv, Compare
    PROVE  StagedInv'
  <1>0. Shapes /\ Places /\ Flags /\ Processes /\ Receipts /\ Publishing
    BY DEF StagedInv
  <1>1. /\ call.at = "compare"
        /\ UNCHANGED <<profile, slot, cancelVars, task, sup, stage, foreign>>
    BY DEF Compare
  <1>2. CASE ReturnBox("error", "diverged", FALSE, FALSE) /\ UNCHANGED candidate
    BY <1>1, <1>2, ReturnBoxInv DEF InBox, fileVars
  <1>3. CASE /\ Selection(stage) = candidate.before /\ call.kind = "command"
             /\ candidate' = [candidate EXCEPT
                                !.todo = Publication(candidate.before, candidate.after)]
             /\ Go("publish") /\ UNCHANGED <<receipt, box>>
    <2>1. CallAt("publish") /\ UNCHANGED <<receipt, box>>
      BY <1>0, <1>3, CallGoes DEF Ats
    <2>2. /\ candidate.before \in Selections /\ candidate.after \in Selections
          /\ Due(Publication(candidate.before, candidate.after), candidate.before, candidate.after)
          /\ Halfway(Selection(stage), Publication(candidate.before, candidate.after),
                     candidate.before, candidate.after)
      BY <1>0, <1>3, PublicationDue DEF Shapes, CandidateRow
    <2>3. PICK list \in Seq(Selected) :
             /\ list = Publication(candidate.before, candidate.after)
             /\ Due(list, candidate.before, candidate.after)
      BY <2>2 DEF Due
    <2>4. /\ candidate' \in CandidateRow /\ candidate'.todo = list
          /\ candidate'.before = candidate.before /\ candidate'.after = candidate.after
      BY <1>0, <1>3, <2>3 DEF CandidateRow, Shapes
    <2>5. ~foreign /\ stage' = stage
      BY <1>0, <1>1, <1>3 DEF Publishing
    <2>6. /\ Due(candidate'.todo, candidate'.before, candidate'.after)
          /\ Halfway(Selection(stage), candidate'.todo, candidate'.before, candidate'.after)
      BY <2>2, <2>3, <2>4
    <2>7. Publishing'
      BY <1>1, <2>1, <2>5, <2>6 DEF Publishing, CallAt
    <2>8. Shapes'
      BY <1>0, <1>1, <1>3, <2>1, <2>4 DEF Shapes, cancelVars,
         fileVars, CallAt
    <2>9. Places'
      BY <1>0, <1>1, <1>3, <2>1, <2>4 DEF Places, InSandbox, InBox,
         CallAt
    <2>10. Flags'
      BY <1>0, <1>1, <1>3, <2>1, <2>4 DEF Flags, InBox, cancelVars,
         CallAt
    <2>11. Processes'
      BY <1>0, <1>1, <1>3, <2>1, <2>4 DEF Processes,
         CancelReachesTask, NoTask, cancelVars, CallAt
    <2>12. Receipts'
      BY <1>0, <1>1, <1>3, <2>1, <2>4 DEF Receipts,
         cancelVars, fileVars, CallAt
    <2> QED
      BY <2>7, <2>8, <2>9, <2>10, <2>11, <2>12 DEF StagedInv
  <1>4. CASE /\ Selection(stage) = candidate.before /\ call.kind # "command"
             /\ UNCHANGED candidate /\ Go("done") /\ UNCHANGED <<receipt, box>>
    <2>1. CallAt("done") /\ UNCHANGED <<receipt, box, candidate>> /\ call.kind = "language"
      BY <1>0, <1>1, <1>4, CallGoes DEF Ats, Places, InBox
    <2>2. Shapes'
      BY <1>0, <1>1, <2>1 DEF Shapes, cancelVars, fileVars, CallAt
    <2>3. Places'
      BY <1>0, <1>1, <2>1 DEF Places, InSandbox, InBox, CallAt
    <2>4. Flags'
      BY <1>0, <1>1, <2>1 DEF Flags, InBox, cancelVars, CallAt
    <2>5. Processes'
      BY <1>0, <1>1, <2>1 DEF Processes, CancelReachesTask, NoTask, cancelVars, CallAt
    <2>6. Receipts' /\ Publishing'
      BY <1>0, <1>1, <2>1 DEF Receipts, Publishing, cancelVars, fileVars, CallAt
    <2> QED
      BY <2>2, <2>3, <2>4, <2>5, <2>6 DEF StagedInv
  <1> QED
    BY <1>2, <1>3, <1>4 DEF Compare

LEMMA PublishFileInv ==
    ASSUME StagedInv, PublishFile
    PROVE  StagedInv'
  <1>0. Shapes /\ Places /\ Flags /\ Processes /\ Receipts /\ Publishing
    BY DEF StagedInv
  <1> DEFINE p == Head(candidate.todo)
  <1>1. /\ call.at = "publish" /\ call.kind = "command" /\ candidate.todo # <<>> /\ ~foreign
        /\ UNCHANGED <<profile, slot, cancelVars, task, sup, foreign>>
    BY <1>0 DEF PublishFile, Places, Publishing
  <1>2. /\ stage \in Trees /\ candidate \in CandidateRow
        /\ candidate.before \in Selections /\ candidate.after \in Selections
        /\ Due(candidate.todo, candidate.before, candidate.after)
        /\ Halfway(Selection(stage), candidate.todo, candidate.before, candidate.after)
    BY <1>0, <1>1 DEF Shapes, CandidateRow, Publishing
  <1>3. /\ Due(Tail(candidate.todo), candidate.before, candidate.after)
        /\ candidate.after[p] = "none" =>
              /\ CanRemove(stage, p) /\ Removed(stage, p) \in Trees
              /\ Halfway(Selection(Removed(stage, p)), Tail(candidate.todo),
                         candidate.before, candidate.after)
        /\ candidate.after[p] # "none" /\ CanWrite(stage, p) =>
              /\ Written(stage, p, candidate.after[p]) \in Trees
              /\ Halfway(Selection(Written(stage, p, candidate.after[p])),
                         Tail(candidate.todo), candidate.before, candidate.after)
        /\ candidate.after[p] # "none" /\ ~CanWrite(stage, p) => stage["x"] # "none"
    BY <1>1, <1>2, PublicationStep
  <1>4. CASE /\ ReturnBox("error", "publication", FALSE, FALSE)
             /\ UNCHANGED <<stage, candidate>> /\ stage["x"] # "none"
    BY <1>1, <1>4, ReturnBoxInv DEF InBox, fileVars
  <1>5. ASSUME NEW t \in Trees, stage' = t, UNCHANGED <<call, receipt, box>>,
               candidate' = [candidate EXCEPT !.todo = Tail(candidate.todo)],
               Halfway(Selection(t), Tail(candidate.todo), candidate.before, candidate.after)
        PROVE  StagedInv'
    <2>1. Tail(candidate.todo) \in Seq(Selected)
      BY <1>3 DEF Due
    <2>2. /\ candidate' \in CandidateRow /\ candidate'.todo = Tail(candidate.todo)
          /\ candidate'.before = candidate.before /\ candidate'.after = candidate.after
      BY <1>2, <1>5, <2>1 DEF CandidateRow
    <2>3. /\ Due(candidate'.todo, candidate'.before, candidate'.after)
          /\ Halfway(Selection(stage'), candidate'.todo, candidate'.before, candidate'.after)
      BY <1>3, <1>5, <2>2
    <2>4. Publishing'
      BY <1>1, <1>5, <2>3 DEF Publishing
    <2>5. Shapes'
      BY <1>0, <1>1, <1>5, <2>2 DEF Shapes, cancelVars
    <2>6. Places' /\ Flags'
      BY <1>0, <1>1, <1>5 DEF Places, Flags, cancelVars
    <2>7. Processes'
      BY <1>0, <1>1, <1>5 DEF Processes, CancelReachesTask, cancelVars
    <2>8. Receipts'
      BY <1>0, <1>1, <1>5 DEF Receipts
    <2> QED
      BY <2>4, <2>5, <2>6, <2>7, <2>8 DEF StagedInv
  <1>6. CASE /\ candidate.after[p] = "none" /\ stage' = Removed(stage, p)
             /\ candidate' = [candidate EXCEPT !.todo = Tail(candidate.todo)]
             /\ UNCHANGED <<call, receipt, box>>
    BY <1>3, <1>5, <1>6
  <1>7. CASE /\ candidate.after[p] # "none" /\ CanWrite(stage, p)
             /\ stage' = Written(stage, p, candidate.after[p])
             /\ candidate' = [candidate EXCEPT !.todo = Tail(candidate.todo)]
             /\ UNCHANGED <<call, receipt, box>>
    BY <1>3, <1>5, <1>7
  <1> QED
    BY <1>3, <1>4, <1>6, <1>7 DEF PublishFile

LEMMA FinishInv ==
    ASSUME StagedInv, Finish
    PROVE  StagedInv'
  <1>0. Shapes /\ Places /\ Flags /\ Processes /\ Receipts /\ Publishing
    BY DEF StagedInv
  <1>1. /\ call.at \in {"done", "publish"} /\ candidate.todo = <<>>
        /\ UNCHANGED <<profile, slot, cancelVars, task, sup, fileVars>>
    BY DEF Finish
  <1>2. PICK cancelled \in BOOLEAN, published \in BOOLEAN :
            /\ ReturnBox("ran", "none", cancelled, published)
            /\ cancelled <=> call.cancelled \/ sup.lost
            /\ published <=> call.kind = "command"
    BY DEF Finish
  <1>3. call.cancelled => cancelled
    BY <1>2
  <1>4. cancelled => cancel
    BY <1>0, <1>1, <1>2 DEF Flags, Places, InBox
  <1>5. published => call.kind = "command" /\ ~foreign /\ Selection(stage) = candidate.after
    <2>1. ASSUME call.at = "publish"
          PROVE  Selection(stage) = candidate.after
      <3>1. candidate.after \in Selections /\ Selection(stage) \in Selections
        BY <1>0 DEF Shapes, CandidateRow, Selections
      <3>2. Halfway(Selection(stage), <<>>, candidate.before, candidate.after)
        BY <1>0, <1>1, <2>1 DEF Publishing
      <3>3. \A p \in Selected : Selection(stage)[p] = candidate.after[p]
        BY <3>2 DEF Halfway
      <3> QED
        BY <3>1, <3>3, SelectionShape
    <2> QED
      BY <1>0, <1>1, <1>2, <2>1 DEF Places, Publishing
  <1> QED
    BY <1>1, <1>2, <1>3, <1>4, <1>5, ReturnBoxInv DEF InBox

LEMMA TamperInv ==
    ASSUME StagedInv, Tamper
    PROVE  StagedInv'
  <1>0. Shapes /\ Places /\ Flags /\ Processes /\ Receipts /\ Publishing
    BY DEF StagedInv
  <1>1. /\ ~foreign /\ foreign' = TRUE /\ call.at \in {"start", "read", "decode"}
        /\ UNCHANGED <<profile, call, receipt, slot, box, cancelVars, task, sup, candidate>>
    BY DEF Tamper
  <1>2. /\ stage' \in Trees /\ Selection(stage') # Selection(stage)
    <2>0. PICK p \in Selected : \E content \in Contents(p) \ {"none"} :
              CanWrite(stage, p) /\ stage[p] # content /\ stage' = Written(stage, p, content)
      BY DEF Tamper
    <2>1. PICK content \in Contents(p) \ {"none"} :
              CanWrite(stage, p) /\ stage[p] # content /\ stage' = Written(stage, p, content)
      BY <2>0
    <2>2. stage \in Trees /\ p \in {"d", "f", "g", "x"}
      BY <1>0 DEF Shapes, Selected
    <2>3. stage' \in Trees /\ Selection(stage')[p] = content
      BY <2>1, <2>2, WrittenTree
    <2>4. Selection(stage)[p] # content
      BY <2>1 DEF Selection
    <2> QED
      BY <2>3, <2>4
  <1>3. Publishing'
    BY <1>0, <1>1, <1>2 DEF Publishing
  <1>4. Receipts'
    BY <1>0, <1>1, <1>2 DEF Receipts
  <1>5. Shapes'
    BY <1>0, <1>1, <1>2 DEF Shapes, cancelVars
  <1>6. Places' /\ Flags'
    BY <1>0, <1>1 DEF Places, Flags, cancelVars
  <1>7. Processes'
    BY <1>0, <1>1 DEF Processes, CancelReachesTask, cancelVars
  <1> QED
    BY <1>3, <1>4, <1>5, <1>6, <1>7 DEF StagedInv

-----------------------------------------------------------------------------
(* The supervisor.                                                         *)

LEMMA TakeInputInv ==
    ASSUME StagedInv, TakeInput
    PROVE  StagedInv'
  <1>0. Shapes /\ Places /\ Flags /\ Processes /\ Receipts /\ Publishing
    BY DEF StagedInv
  <1>1. /\ sup.at = "input" /\ sup' \in SupervisorRow /\ sup'.at = "running" /\ sup'.lost = sup.lost
        /\ sup'.out = sup.out /\ sup'.stdin = sup.stdin
        /\ UNCHANGED <<profile, call, receipt, slot, box, cancelVars, fileVars>>
    BY <1>0 DEF TakeInput, InContainer, SupervisorRow, Shapes, fileVars
  <1>2. /\ call.kind \in {"command", "language"}
        /\ call.at \notin {"check", "admit", "start", "reserve", "spawn", "record", "collect", "reap",
                           "release"}
    BY <1>0, <1>1 DEF Places, InSandbox
  <1>3. task' \in TaskRow /\ task'.state = "running" /\ task'.by = "none" /\ task'.of = call.n
    <2>1. task' = [state |-> "running", by |-> "none", of |-> call.n] /\ call.n \in Nat
      BY <1>0, Fields DEF TakeInput
    <2> QED
      BY <2>1 DEF TaskRow
  <1>4. Shapes'
    BY <1>0, <1>1, <1>2, <1>3 DEF Shapes, cancelVars, fileVars, CallAt
  <1>5. Places'
    BY <1>0, <1>1, <1>2, <1>3 DEF Places, InSandbox, InBox, CallAt
  <1>6. Flags'
    BY <1>0, <1>1, <1>2, <1>3 DEF Flags, InBox, cancelVars, CallAt
  <1>7. Processes'
    BY <1>0, <1>1, <1>2, <1>3, Fields DEF Processes, CancelReachesTask, NoTask,
       cancelVars, CallAt
  <1>8. Receipts' /\ Publishing'
    BY <1>0, <1>1, <1>2, <1>3 DEF Receipts, Publishing, cancelVars, fileVars, CallAt
  <1> QED
    BY <1>4, <1>5, <1>6, <1>7, <1>8 DEF StagedInv

LEMMA InputLostInv ==
    ASSUME StagedInv, InputLost
    PROVE  StagedInv'
  <1>0. Shapes /\ Places /\ Flags /\ Processes /\ Receipts /\ Publishing
    BY DEF StagedInv
  <1>1. /\ sup.at = "input" /\ sup' \in SupervisorRow /\ sup'.at = "gone" /\ sup'.lost = sup.lost
        /\ sup'.out = sup.out /\ sup'.stdin = sup.stdin
        /\ UNCHANGED <<profile, call, receipt, slot, box, cancelVars, fileVars>>
    BY <1>0 DEF InputLost, InContainer, SupervisorRow, Shapes, fileVars
  <1>2. /\ call.kind \in {"command", "language"}
        /\ call.at \notin {"check", "admit", "start", "reserve", "spawn", "record", "collect", "reap",
                           "release"}
    BY <1>0, <1>1 DEF Places, InSandbox
  <1>3. task' = task
    BY DEF InputLost
  <1>4. Shapes'
    BY <1>0, <1>1, <1>2, <1>3 DEF Shapes, cancelVars, fileVars, CallAt
  <1>5. Places'
    BY <1>0, <1>1, <1>2, <1>3 DEF Places, InSandbox, InBox, CallAt
  <1>6. Flags'
    BY <1>0, <1>1, <1>2, <1>3 DEF Flags, InBox, cancelVars, CallAt
  <1>7. Processes'
    BY <1>0, <1>1, <1>2, <1>3 DEF Processes, CancelReachesTask, NoTask, cancelVars,
       CallAt
  <1>8. Receipts' /\ Publishing'
    BY <1>0, <1>1, <1>2, <1>3 DEF Receipts, Publishing, cancelVars, fileVars, CallAt
  <1> QED
    BY <1>4, <1>5, <1>6, <1>7, <1>8 DEF StagedInv

LEMMA GuardianInv ==
    ASSUME StagedInv, Guardian
    PROVE  StagedInv'
  <1>0. Shapes /\ Places /\ Flags /\ Processes /\ Receipts /\ Publishing
    BY DEF StagedInv
  <1>1. /\ sup.at = "running" /\ ~sup.stdin /\ sup' \in SupervisorRow /\ sup'.at = "running" /\ sup'.lost
        /\ sup'.out = sup.out /\ sup'.stdin = sup.stdin
        /\ UNCHANGED <<profile, call, receipt, slot, box, cancelVars, fileVars>>
    BY <1>0 DEF Guardian, InContainer, SupervisorRow, Shapes, fileVars
  <1>2. /\ call.kind \in {"command", "language"}
        /\ call.at \notin {"check", "admit", "start", "reserve", "spawn", "record", "collect", "reap",
                           "release"}
    BY <1>0, <1>1 DEF Places, InSandbox
  <1>3. /\ task' \in TaskRow /\ task'.of = task.of
        /\ task'.state \in {task.state, "dead"}
        /\ task.state # "running" => task' = task
        /\ task'.by = "cancel" => task.by = "cancel" \/ call.cancelled
    <2>1. PICK by \in {"cancel", "limit"} :
              task' = Killed(by) /\ (by = "cancel" => call.cancelled)
      BY DEF Guardian
    <2> QED
      BY <1>0, <2>1, KilledTask DEF Killed
  <1>4. Shapes'
    BY <1>0, <1>1, <1>2, <1>3 DEF Shapes, cancelVars, fileVars, CallAt
  <1>5. Places'
    BY <1>0, <1>1, <1>2, <1>3 DEF Places, InSandbox, InBox, CallAt
  <1>6. Flags'
    BY <1>0, <1>1, <1>2, <1>3 DEF Flags, InBox, cancelVars, CallAt, Places
  <1>7. Processes'
    BY <1>0, <1>1, <1>2, <1>3 DEF Processes, CancelReachesTask, NoTask, cancelVars,
       CallAt
  <1>8. Receipts' /\ Publishing'
    BY <1>0, <1>1, <1>2, <1>3 DEF Receipts, Publishing, cancelVars, fileVars, CallAt
  <1> QED
    BY <1>4, <1>5, <1>6, <1>7, <1>8 DEF StagedInv

LEMMA LimitInv ==
    ASSUME StagedInv, Limit
    PROVE  StagedInv'
  <1>0. Shapes /\ Places /\ Flags /\ Processes /\ Receipts /\ Publishing
    BY DEF StagedInv
  <1>1. /\ sup.at = "running" /\ sup' \in SupervisorRow /\ sup' = sup
        /\ sup'.out = sup.out /\ sup'.stdin = sup.stdin
        /\ UNCHANGED <<profile, call, receipt, slot, box, cancelVars, fileVars>>
    BY <1>0 DEF Limit, InContainer, SupervisorRow, Shapes, fileVars
  <1>2. /\ call.kind \in {"command", "language"}
        /\ call.at \notin {"check", "admit", "start", "reserve", "spawn", "record", "collect", "reap",
                           "release"}
    BY <1>0, <1>1 DEF Places, InSandbox
  <1>3. /\ task' \in TaskRow /\ task'.of = task.of
        /\ task.state # "running" => task' = task
        /\ task.state = "running" => task'.state = "dead" /\ task'.by = "limit"
    BY <1>0, KilledTask DEF Limit, Killed
  <1>4. Shapes'
    BY <1>0, <1>1, <1>2, <1>3 DEF Shapes, cancelVars, fileVars, CallAt
  <1>5. Places'
    BY <1>0, <1>1, <1>2, <1>3 DEF Places, InSandbox, InBox, CallAt
  <1>6. Flags'
    BY <1>0, <1>1, <1>2, <1>3 DEF Flags, InBox, cancelVars, CallAt
  <1>7. Processes'
    BY <1>0, <1>1, <1>2, <1>3 DEF Processes, CancelReachesTask, NoTask, cancelVars,
       CallAt
  <1>8. Receipts' /\ Publishing'
    BY <1>0, <1>1, <1>2, <1>3 DEF Receipts, Publishing, cancelVars, fileVars, CallAt
  <1> QED
    BY <1>4, <1>5, <1>6, <1>7, <1>8 DEF StagedInv

LEMMA FinishedInv ==
    ASSUME StagedInv, Finished
    PROVE  StagedInv'
  <1>0. Shapes /\ Places /\ Flags /\ Processes /\ Receipts /\ Publishing
    BY DEF StagedInv
  <1>1. /\ sup.at = "running" /\ sup' \in SupervisorRow /\ sup'.at = "finished" /\ sup'.lost = sup.lost
        /\ sup'.out = sup.out /\ sup'.stdin = sup.stdin
        /\ UNCHANGED <<profile, call, receipt, slot, box, cancelVars, fileVars>>
    BY <1>0 DEF Finished, InContainer, SupervisorRow, Shapes, fileVars
  <1>2. /\ call.kind \in {"command", "language"}
        /\ call.at \notin {"check", "admit", "start", "reserve", "spawn", "record", "collect", "reap",
                           "release"}
    BY <1>0, <1>1 DEF Places, InSandbox
  <1>3. task' = task
    BY DEF Finished
  <1>4. Shapes'
    BY <1>0, <1>1, <1>2, <1>3 DEF Shapes, cancelVars, fileVars, CallAt
  <1>5. Places'
    BY <1>0, <1>1, <1>2, <1>3 DEF Places, InSandbox, InBox, CallAt
  <1>6. Flags'
    BY <1>0, <1>1, <1>2, <1>3 DEF Flags, InBox, cancelVars, CallAt
  <1>7. Processes'
    BY <1>0, <1>1, <1>2, <1>3 DEF Processes, CancelReachesTask, NoTask, cancelVars,
       CallAt
  <1>8. Receipts' /\ Publishing'
    BY <1>0, <1>1, <1>2, <1>3 DEF Receipts, Publishing, cancelVars, fileVars, CallAt
  <1> QED
    BY <1>4, <1>5, <1>6, <1>7, <1>8 DEF StagedInv

LEMMA EmitInv ==
    ASSUME StagedInv, Emit
    PROVE  StagedInv'
  <1>0. Shapes /\ Places /\ Flags /\ Processes /\ Receipts /\ Publishing
    BY DEF StagedInv
  <1>1. /\ sup.at = "finished" /\ task' = task
        /\ UNCHANGED <<profile, call, receipt, slot, box, cancelVars, stage, foreign>>
    BY DEF Emit, InContainer
  <1>2. /\ call.kind \in {"command", "language"}
        /\ call.at \notin {"check", "admit", "start", "reserve", "spawn", "record", "collect", "reap",
                           "release"}
    BY <1>0, <1>1 DEF Places, InSandbox
  <1>3. /\ sup' \in SupervisorRow /\ sup'.at = "gone" /\ sup'.lost = sup.lost
        /\ sup'.stdin = sup.stdin
        /\ call.at # "read" => sup'.out = sup.out
    BY <1>0 DEF Emit, InContainer, SupervisorRow, Shapes
  <1>4. /\ candidate' \in CandidateRow /\ candidate'.before = candidate.before
        /\ call.at # "read" => candidate' = candidate
    BY <1>0 DEF Emit, CandidateRow, Shapes, Selections
  <1>5. Shapes'
    BY <1>0, <1>1, <1>2, <1>3, <1>4 DEF Shapes, cancelVars, fileVars, CallAt
  <1>6. Places'
    BY <1>0, <1>1, <1>2, <1>3, <1>4 DEF Places, InSandbox, InBox, CallAt
  <1>7. Flags'
    BY <1>0, <1>1, <1>2, <1>3, <1>4 DEF Flags, InBox, cancelVars, CallAt
  <1>8. Processes'
    BY <1>0, <1>1, <1>2, <1>3, <1>4 DEF Processes, CancelReachesTask, NoTask,
       cancelVars, CallAt
  <1>9. Receipts' /\ Publishing'
    BY <1>0, <1>1, <1>2, <1>3, <1>4 DEF Receipts, Publishing, cancelVars, fileVars,
       CallAt, Places
  <1> QED
    BY <1>5, <1>6, <1>7, <1>8, <1>9 DEF StagedInv

LEMMA HardAlarmInv ==
    ASSUME StagedInv, HardAlarm
    PROVE  StagedInv'
  <1>0. Shapes /\ Places /\ Flags /\ Processes /\ Receipts /\ Publishing
    BY DEF StagedInv
  <1>1. /\ sup.at \in {"input", "running", "finished"} /\ sup' \in SupervisorRow /\ sup'.at = "gone" /\ sup'.lost = sup.lost
        /\ sup'.out = sup.out /\ sup'.stdin = sup.stdin
        /\ UNCHANGED <<profile, call, receipt, slot, box, cancelVars, fileVars>>
    BY <1>0 DEF HardAlarm, InContainer, SupervisorRow, Shapes, fileVars
  <1>2. /\ call.kind \in {"command", "language"}
        /\ call.at \notin {"check", "admit", "start", "reserve", "spawn", "record", "collect", "reap",
                           "release"}
    BY <1>0, <1>1 DEF Places, InSandbox
  <1>3. /\ task' \in TaskRow /\ task'.of = task.of
        /\ task.state # "running" => task' = task
        /\ task.state = "running" => task'.state = "dead" /\ task'.by = "limit"
    BY <1>0, KilledTask DEF HardAlarm, Killed
  <1>4. Shapes'
    BY <1>0, <1>1, <1>2, <1>3 DEF Shapes, cancelVars, fileVars, CallAt
  <1>5. Places'
    BY <1>0, <1>1, <1>2, <1>3 DEF Places, InSandbox, InBox, CallAt
  <1>6. Flags'
    BY <1>0, <1>1, <1>2, <1>3 DEF Flags, InBox, cancelVars, CallAt
  <1>7. Processes'
    BY <1>0, <1>1, <1>2, <1>3 DEF Processes, CancelReachesTask, NoTask, cancelVars,
       CallAt
  <1>8. Receipts' /\ Publishing'
    BY <1>0, <1>1, <1>2, <1>3 DEF Receipts, Publishing, cancelVars, fileVars, CallAt
  <1> QED
    BY <1>4, <1>5, <1>6, <1>7, <1>8 DEF StagedInv

-----------------------------------------------------------------------------
(* Cancellation and the end of the run.                                    *)

LEMMA CancelEventInv ==
    ASSUME StagedInv, CancelEvent
    PROVE  StagedInv'
  <1>0. Shapes /\ Places /\ Flags /\ Processes /\ Receipts /\ Publishing
    BY DEF StagedInv
  <1>1. /\ canceller.at = "off"
        /\ cancel' = TRUE /\ canceller' \in CancellerRow /\ canceller'.at = "sandbox"
        /\ UNCHANGED <<call, slot, box, interrupted, task, Others>>
    BY DEF CancelEvent, Step, CancellerRow
  <1>2. Shapes'
    BY <1>0, <1>1 DEF Shapes, cancelVars, fileVars, CallAt, Others, fileVars
  <1>3. Places'
    BY <1>0, <1>1 DEF Places, InSandbox, InBox, CallAt, Others, fileVars
  <1>4. Flags'
    BY <1>0, <1>1 DEF Flags, InBox, cancelVars, CallAt, Others, fileVars
  <1>5. Processes'
    BY <1>0, <1>1 DEF Processes, CancelReachesTask, NoTask, cancelVars, CallAt,
       Others, fileVars
  <1>6. Receipts' /\ Publishing'
    BY <1>0, <1>1 DEF Receipts, Publishing, cancelVars, fileVars, CallAt, Others,
       fileVars
  <1> QED
    BY <1>2, <1>3, <1>4, <1>5, <1>6 DEF StagedInv

LEMMA CancelSandboxInv ==
    ASSUME StagedInv, CancelSandbox
    PROVE  StagedInv'
  <1>0. Shapes /\ Places /\ Flags /\ Processes /\ Receipts /\ Publishing
    BY DEF StagedInv
  <1>1. /\ canceller.at = "sandbox" /\ UNCHANGED <<call, box, cancel, interrupted, task, Others>>
    BY DEF CancelSandbox
  <1>2. slot' \in SlotRow /\ slot'.busy = slot.busy /\ slot'.active = slot.active
    BY <1>0 DEF CancelSandbox, SlotRow, Shapes
  <1>3. slot'.cancelled => slot.cancelled \/ slot.busy
    BY <1>0 DEF CancelSandbox, SlotRow, Shapes
  <1>4. /\ canceller' \in CancellerRow /\ canceller'.at \in {"kill", "runtime"}
        /\ slot.active /\ slot.busy => /\ canceller'.at = "kill" /\ slot'.cancelled
                                       /\ canceller'.victim = task.of
        /\ ~(slot.active /\ slot.busy) => canceller'.at = "runtime"
    BY <1>0, Fields DEF CancelSandbox, Step, CancellerRow, SlotRow, Shapes
  <1>5. slot.active => slot.busy /\ task.of \in 1..call.n /\ task.of = call.n
    BY <1>0, Fields DEF Processes, Places, InSandbox
  <1>6. Shapes'
    BY <1>0, <1>1, <1>2, <1>3, <1>4, <1>5 DEF Shapes, cancelVars, fileVars, CallAt,
       Others, fileVars
  <1>7. Places'
    BY <1>0, <1>1, <1>2, <1>3, <1>4, <1>5 DEF Places, InSandbox, InBox, CallAt,
       Others, fileVars
  <1>8. Flags'
    BY <1>0, <1>1, <1>2, <1>3, <1>4, <1>5 DEF Flags, InBox, cancelVars, CallAt,
       Others, fileVars
  <1>9. Processes'
    BY <1>0, <1>1, <1>2, <1>3, <1>4, <1>5 DEF Processes, CancelReachesTask, NoTask,
       cancelVars, CallAt, Others, fileVars, Places, InSandbox
  <1>10. Receipts' /\ Publishing'
    BY <1>0, <1>1, <1>2, <1>3, <1>4, <1>5 DEF Receipts, Publishing, cancelVars,
       fileVars, CallAt, Others, fileVars
  <1> QED
    BY <1>6, <1>7, <1>8, <1>9, <1>10 DEF StagedInv

LEMMA CancelKillsInv ==
    ASSUME StagedInv, CancelKills
    PROVE  StagedInv'
  <1>0. Shapes /\ Places /\ Flags /\ Processes /\ Receipts /\ Publishing
    BY DEF StagedInv
  <1>1. /\ canceller.at = "kill" /\ canceller' \in CancellerRow /\ canceller'.at = "runtime"
        /\ UNCHANGED <<call, slot, box, cancel, interrupted, Others>>
    BY DEF CancelKills, Step, CancellerRow
  <1>2. /\ task' \in TaskRow /\ task'.of = task.of
        /\ task.state # "running" \/ task.of # canceller.victim => task' = task
        /\ task.state = "running" /\ task.of = canceller.victim =>
              task'.state = "dead" /\ task'.by = "cancel"
    BY <1>0, KilledTask DEF CancelKills, Killed, Shapes
  <1>3. task.of = call.n /\ task.state = "running" /\ task.of = canceller.victim =>
            /\ call.kind \in {"run", "regex"}
            /\ call.at \in {"collect", "unwound", "closing", "over"}
            /\ call.at = "collect" => slot.cancelled
    <2>1. call.at \in {"idle", "collect", "reap", "release", "unwound", "closing", "over",
                       "check", "reserve", "spawn", "record"}
            \/ call.kind \in {"none", "command", "language"}
      BY <1>0, Fields DEF Ats, Places, InBox
    <2> QED
      BY <1>0, <1>1, <2>1 DEF Processes
  <1>4. CancelReachesTask'
    BY <1>0, <1>1, <1>2 DEF Processes, CancelReachesTask
  <1>5. Processes'
    <2>1. task'.by = "cancel" /\ task'.of = call'.n =>
            /\ call'.at \in {"collect", "reap"} => slot'.cancelled
            /\ call'.at \notin {"collect", "reap", "unwound", "closing", "over"} =>
                  call'.cancelled
      BY <1>0, <1>1, <1>2, <1>3 DEF Processes
    <2>2. /\ slot'.active => task'.state # "none" /\ task'.of = call'.n
          /\ call'.at = "record" => task'.by # "cancel"
          /\ call'.at \in {"check", "reserve", "spawn", "admit", "start"} => task' = NoTask
      BY <1>0, <1>1, <1>2, <1>3 DEF Processes, NoTask
    <2> QED
      BY <1>0, <1>1, <1>2, <1>4, <2>1, <2>2 DEF Processes
  <1>6. Shapes'
    BY <1>0, <1>1, <1>2, <1>3, <1>4, <1>5 DEF Shapes, cancelVars, fileVars, CallAt,
       Others, fileVars
  <1>7. Places'
    BY <1>0, <1>1, <1>2, <1>3, <1>4, <1>5 DEF Places, InSandbox, InBox, CallAt,
       Others, fileVars
  <1>8. Flags'
    BY <1>0, <1>1, <1>2, <1>3, <1>4, <1>5 DEF Flags, InBox, cancelVars, CallAt,
       Others, fileVars
  <1>9. Processes'
    BY <1>5 DEF Processes, CancelReachesTask, NoTask,
       cancelVars, CallAt, Others, fileVars
  <1>10. Receipts' /\ Publishing'
    BY <1>0, <1>1, <1>2, <1>3, <1>4, <1>5 DEF Receipts, Publishing, cancelVars,
       fileVars, CallAt, Others, fileVars
  <1> QED
    BY <1>6, <1>7, <1>8, <1>9, <1>10 DEF StagedInv

LEMMA CancelRuntimeInv ==
    ASSUME StagedInv, CancelRuntime
    PROVE  StagedInv'
  <1>0. Shapes /\ Places /\ Flags /\ Processes /\ Receipts /\ Publishing
    BY DEF StagedInv
  <1>1. /\ canceller.at = "runtime" /\ canceller' \in CancellerRow /\ canceller'.at = "done"
        /\ UNCHANGED <<call, slot, cancel, interrupted, task, Others>>
    BY DEF CancelRuntime, Step, CancellerRow
  <1>2. /\ box' \in BoxRow /\ box'.busy = box.busy /\ box'.active = box.active
        /\ box'.closed = box.closed /\ (box'.cancelled <=> profile = "docker")
    BY <1>0 DEF CancelRuntime, BoxRow, Shapes
  <1>3. Shapes'
    BY <1>0, <1>1, <1>2 DEF Shapes, cancelVars, fileVars, CallAt, Others, fileVars
  <1>4. Places'
    BY <1>0, <1>1, <1>2 DEF Places, InSandbox, InBox, CallAt, Others, fileVars
  <1>5. Flags'
    BY <1>0, <1>1, <1>2 DEF Flags, InBox, cancelVars, CallAt, Others, fileVars
  <1>6. Processes'
    BY <1>0, <1>1, <1>2 DEF Processes, CancelReachesTask, NoTask, cancelVars, CallAt,
       Others, fileVars
  <1>7. Receipts' /\ Publishing'
    BY <1>0, <1>1, <1>2 DEF Receipts, Publishing, cancelVars, fileVars, CallAt,
       Others, fileVars
  <1> QED
    BY <1>3, <1>4, <1>5, <1>6, <1>7 DEF StagedInv

LEMMA InterruptInv ==
    ASSUME StagedInv, Interrupt
    PROVE  StagedInv'
  <1>0. Shapes /\ Places /\ Flags /\ Processes /\ Receipts /\ Publishing
    BY DEF StagedInv
  <1>1. /\ CallAt("unwound") /\ call.at \notin {"unwound", "closing", "over", "release", "done"}
        /\ interrupted' = TRUE /\ UNCHANGED <<profile, receipt, cancel, canceller, fileVars>>
    BY <1>0, CallGoes DEF Interrupt, Ats
  <1>2. /\ box' \in BoxRow /\ ~box'.busy /\ ~box'.active
        /\ box'.cancelled = box.cancelled /\ box'.closed = box.closed
    BY <1>0 DEF Interrupt, BoxRow, Shapes
  <1>3. /\ slot' \in SlotRow /\ ~slot'.busy /\ ~slot'.active
        /\ slot'.cancelled => slot.cancelled
    BY <1>0, Fields DEF Interrupt, InSlot, SlotRow, Shapes, Places, InSandbox
  <1>4. /\ task' \in TaskRow /\ task'.of = task.of
        /\ sup' \in SupervisorRow
        /\ sup'.at # sup.at => call.at = "read" /\ sup'.at = "gone"
        /\ sup'.out = "ok" => sup.out = "ok" /\ sup'.at = sup.at
    <2>1. CASE call.at = "read"
      BY <1>0, <2>1, ForceKillEffect DEF Interrupt, InSlot
    <2>2. CASE call.at # "read" /\ task' = Killed("cancel") /\ UNCHANGED sup
      BY <1>0, <2>2, KilledTask DEF Shapes
    <2>3. CASE call.at # "read" /\ UNCHANGED <<task, sup>>
      BY <1>0, <2>3 DEF Shapes
    <2> QED
      BY <2>1, <2>2, <2>3 DEF Interrupt
  <1>5. Shapes'
    BY <1>0, <1>1, <1>2, <1>3, <1>4 DEF Shapes, cancelVars, fileVars, CallAt,
       cancelVars
  <1>6. Places'
    BY <1>0, <1>1, <1>2, <1>3, <1>4 DEF Places, InSandbox, InBox, CallAt
  <1>7. Flags'
    BY <1>0, <1>1, <1>2, <1>3, <1>4 DEF Flags, InBox, cancelVars, CallAt
  <1>8. Processes'
    BY <1>0, <1>1, <1>2, <1>3, <1>4 DEF Processes, CancelReachesTask, NoTask,
       cancelVars, CallAt
  <1>9. Receipts' /\ Publishing'
    BY <1>0, <1>1, <1>2, <1>3, <1>4 DEF Receipts, Publishing, cancelVars, fileVars,
       CallAt
  <1> QED
    BY <1>5, <1>6, <1>7, <1>8, <1>9 DEF StagedInv

LEMMA CancelAfterInterruptInv ==
    ASSUME StagedInv, CancelAfterInterrupt
    PROVE  StagedInv'
  <1>0. Shapes /\ Places /\ Flags /\ Processes /\ Receipts /\ Publishing
    BY DEF StagedInv
  <1>1. /\ CallAt("closing") /\ call.at = "unwound" /\ cancel' = TRUE
        /\ UNCHANGED <<canceller, interrupted, task, Others>>
    BY <1>0, CallGoes DEF CancelAfterInterrupt, Ats
  <1>2. slot' = slot
    BY <1>0 DEF CancelAfterInterrupt, Shapes, SlotRow, Places, InSandbox
  <1>3. /\ box' \in BoxRow /\ box'.busy = box.busy /\ box'.active = box.active
        /\ box'.closed = box.closed /\ (box'.cancelled <=> profile = "docker")
    BY <1>0 DEF CancelAfterInterrupt, BoxRow, Shapes
  <1>4. Shapes'
    BY <1>0, <1>1, <1>2, <1>3 DEF Shapes, cancelVars, fileVars, CallAt, Others,
       fileVars
  <1>5. Places'
    BY <1>0, <1>1, <1>2, <1>3 DEF Places, InSandbox, InBox, CallAt, Others, fileVars
  <1>6. Flags'
    BY <1>0, <1>1, <1>2, <1>3 DEF Flags, InBox, cancelVars, CallAt, Others, fileVars
  <1>7. Processes'
    BY <1>0, <1>1, <1>2, <1>3 DEF Processes, CancelReachesTask, NoTask, cancelVars,
       CallAt, Others, fileVars
  <1>8. Receipts' /\ Publishing'
    BY <1>0, <1>1, <1>2, <1>3 DEF Receipts, Publishing, cancelVars, fileVars, CallAt,
       Others, fileVars
  <1> QED
    BY <1>4, <1>5, <1>6, <1>7, <1>8 DEF StagedInv

LEMMA EndRunInv ==
    ASSUME StagedInv, EndRun
    PROVE  StagedInv'
  <1>0. Shapes /\ Places /\ Flags /\ Processes /\ Receipts /\ Publishing
    BY DEF StagedInv
  <1>1. /\ CallAt("closing") /\ call.at = "idle"
        /\ UNCHANGED <<slot, box, cancelVars, task, Others>>
    BY <1>0, CallGoes DEF EndRun, Ats
  <1>2. Shapes'
    BY <1>0, <1>1 DEF Shapes, cancelVars, fileVars, CallAt, Others, fileVars
  <1>3. Places'
    BY <1>0, <1>1 DEF Places, InSandbox, InBox, CallAt, Others, fileVars
  <1>4. Flags'
    BY <1>0, <1>1 DEF Flags, InBox, cancelVars, CallAt, Others, fileVars
  <1>5. Processes'
    BY <1>0, <1>1 DEF Processes, CancelReachesTask, NoTask, cancelVars, CallAt,
       Others, fileVars
  <1>6. Receipts' /\ Publishing'
    BY <1>0, <1>1 DEF Receipts, Publishing, cancelVars, fileVars, CallAt, Others,
       fileVars
  <1> QED
    BY <1>2, <1>3, <1>4, <1>5, <1>6 DEF StagedInv

LEMMA CloseInv ==
    ASSUME StagedInv, Close
    PROVE  StagedInv'
  <1>0. Shapes /\ Places /\ Flags /\ Processes /\ Receipts /\ Publishing
    BY DEF StagedInv
  <1>1. /\ CallAt("over") /\ call.at = "closing"
        /\ UNCHANGED <<profile, receipt, slot, cancelVars, task, sup, fileVars>>
    BY <1>0, CallGoes DEF Close, Ats, Places, InBox
  <1>2. /\ box' \in BoxRow /\ box'.busy = box.busy /\ box'.active = box.active
        /\ box'.closed /\ (box'.cancelled <=> profile = "docker")
    BY <1>0 DEF Close, BoxRow, Shapes
  <1>3. Shapes'
    BY <1>0, <1>1, <1>2 DEF Shapes, cancelVars, fileVars, CallAt
  <1>4. Places'
    BY <1>0, <1>1, <1>2 DEF Places, InSandbox, InBox, CallAt
  <1>5. Flags'
    BY <1>0, <1>1, <1>2 DEF Flags, InBox, cancelVars, CallAt
  <1>6. Processes'
    BY <1>0, <1>1, <1>2 DEF Processes, CancelReachesTask, NoTask, cancelVars, CallAt
  <1>7. Receipts' /\ Publishing'
    BY <1>0, <1>1, <1>2 DEF Receipts, Publishing, cancelVars, fileVars, CallAt
  <1> QED
    BY <1>3, <1>4, <1>5, <1>6, <1>7 DEF StagedInv

-----------------------------------------------------------------------------
(* The theorems.                                                           *)

LEMMA InitStaged ==
    ASSUME Init
    PROVE  StagedInv
  <1>1. /\ NoTask \in TaskRow /\ NoSupervisor \in SupervisorRow /\ NoReceipt \in ReceiptRow
        /\ candidate \in CandidateRow /\ stage \in Trees
    BY NothingSelected, EmptySeq DEF Init, NoTask, NoSupervisor, NoReceipt, TaskRow,
       SupervisorRow, ReceiptRow, CandidateRow
  <1>2. /\ call \in CallRow /\ slot \in SlotRow /\ box \in BoxRow /\ canceller \in CancellerRow
    BY StagedAssumption DEF Init, CallRow, SlotRow, BoxRow, CancellerRow, Ats
  <1>3. Shapes
    BY <1>1, <1>2 DEF Init, Shapes
  <1>4. Places
    BY DEF Init, Places, InSandbox, InBox, NoSupervisor
  <1>5. Flags
    BY DEF Init, Flags, InBox, NoReceipt
  <1>6. Processes
    BY DEF Init, Processes, CancelReachesTask, NoTask
  <1>7. Receipts /\ Publishing
    BY DEF Init, Receipts, Publishing, NoReceipt
  <1> QED
    BY <1>3, <1>4, <1>5, <1>6, <1>7 DEF StagedInv

LEMMA StillInv ==
    ASSUME StagedInv, UNCHANGED vars
    PROVE  StagedInv'
  <1>0. Shapes /\ Places /\ Flags /\ Processes /\ Receipts /\ Publishing
    BY DEF StagedInv
  <1>1. Shapes'
    BY <1>0 DEF vars, Shapes, cancelVars, fileVars
  <1>2. Places' /\ Flags'
    BY <1>0 DEF vars, Places, Flags, cancelVars, fileVars
  <1>3. Processes'
    BY <1>0 DEF vars, Processes, CancelReachesTask, cancelVars, fileVars
  <1>4. Receipts' /\ Publishing'
    BY <1>0 DEF vars, Receipts, Publishing, cancelVars, fileVars
  <1> QED
    BY <1>1, <1>2, <1>3, <1>4 DEF StagedInv

LEMMA NextStaged ==
    ASSUME StagedInv, [Next]_vars
    PROVE  StagedInv'
  <1>1. ASSUME Runner
        PROVE  StagedInv'
    BY <1>1, CheckCancelledInv, ReserveInv, SpawnInv, RecordInv, CollectInv,
       ReapInv, ReleaseInv, AdmitInv, StartInv, NoticeCancelInv, HardDeadlineInv,
       ReadToEndInv, DecodeInv, CompareInv, PublishFileInv, FinishInv,
       CancelAfterInterruptInv, CloseInv DEF Runner
  <1>2. ASSUME Container
        PROVE  StagedInv'
    BY <1>2, TakeInputInv, InputLostInv, GuardianInv, LimitInv, FinishedInv, EmitInv,
       HardAlarmInv DEF Container
  <1>3. ASSUME Canceller
        PROVE  StagedInv'
    BY <1>3, CancelEventInv, CancelSandboxInv, CancelKillsInv, CancelRuntimeInv DEF
       Canceller
  <1> QED
    BY <1>1, <1>2, <1>3, WriteFileInv, BeginInv, TaskEndsInv, ScriptWritesInv,
       TamperInv, InterruptInv, EndRunInv, StillInv DEF Next

\* The inductive invariant holds in every reachable state, whatever the bound
\* on the calls and whoever may cancel.
THEOREM StagedInvariant == Spec => []StagedInv
  <1>1. Init => StagedInv
    BY InitStaged
  <1>2. StagedInv /\ [Next]_vars => StagedInv'
    BY NextStaged
  <1> QED
    BY <1>1, <1>2, PTL DEF Spec

\* The types, and the slots are free between two calls: _run_active and
\* ContainerRuntime._running never turn the worker's next tool call away.
THEOREM StagedTypeCorrect == Spec => []StagedTypeOK
  <1>1. StagedInv => StagedTypeOK
    <2> SUFFICES ASSUME StagedInv PROVE StagedTypeOK
      OBVIOUS
    <2>1. Shapes /\ Places /\ Receipts
      BY DEF StagedInv
    <2>2. /\ call.at \in Ats /\ call.n \in 0..MaxCalls /\ stage \in Trees
          /\ slot \in SlotRow /\ box \in BoxRow
      BY <2>1, Fields DEF Shapes
    <2> QED
      BY <2>1, <2>2 DEF StagedTypeOK, Places, Receipts, SlotRow, BoxRow, InSandbox,
         InBox
  <1> QED
    BY <1>1, StagedInvariant, PTL

\* A receipt that says published tells the truth about the stage, and only an
\* ignored path can stop a publication half way (ContainerRuntime._publish).
THEOREM PublicationIsExactHolds == Spec => []PublicationIsExact
  <1>1. StagedInv => PublicationIsExact
    BY DEF StagedInv, Receipts, PublicationIsExact
  <1> QED
    BY <1>1, StagedInvariant, PTL

\* No order of Sandbox.run and Sandbox.cancel lets a cancelled process go on.
THEOREM CancelReachesTaskHolds == Spec => []CancelReachesTask
  <1>1. StagedInv => CancelReachesTask
    BY DEF StagedInv, Processes
  <1> QED
    BY <1>1, StagedInvariant, PTL

\* A receipt of work that a cancellation cut short says so.
THEOREM ReceiptTellsCancellationHolds == Spec => []ReceiptTellsCancellation
  <1>1. StagedInv => ReceiptTellsCancellation
    BY DEF StagedInv, Flags, Processes, Receipts, ReceiptTellsCancellation
  <1> QED
    BY <1>1, StagedInvariant, PTL

\* Once Worker.cancel has returned no container starts.
THEOREM ContainerCancelIsFinalHolds == Spec => ContainerCancelIsFinal
  <1>1. StagedInv /\ [Next]_vars =>
          [canceller.at = "done" \/ call.at \in {"closing", "over"}
             => ~(sup.at = "none" /\ sup'.at = "input")]_vars
    <2> SUFFICES ASSUME StagedInv, Next, sup.at = "none", sup'.at = "input"
                 PROVE  ~(canceller.at = "done" \/ call.at \in {"closing", "over"})
      OBVIOUS
    <2>1. Shapes /\ Places /\ Flags
      BY DEF StagedInv
    <2>2. CASE Start
      <3>1. call.at = "start" /\ ~box.cancelled
        BY <2>2 DEF Start
      <3>2. profile = "docker"
        BY <2>1, <3>1 DEF Places, InBox
      <3> QED
        BY <2>1, <3>1, <3>2 DEF Flags
    <2>3. CASE sup' = sup
      BY <2>3
    <2>4. CASE Begin
      BY <2>4 DEF Begin, NoSupervisor
    <2>5. CASE Runner /\ ~Start
      BY <2>1, <2>3, <2>5 DEF Runner, CheckCancelled, Reserve, Spawn, Record,
         Collect, Reap, Release, Admit, NoticeCancel, HardDeadline, ReadToEnd,
         Decode, Compare, PublishFile, Finish, CancelAfterInterrupt, Close, Others,
         ForceKill, Shapes, SupervisorRow
    <2>6. CASE Container
      BY <2>1, <2>6 DEF Container, TakeInput, InputLost, Guardian, Limit, Finished,
         Emit, HardAlarm, InContainer
    <2>7. CASE Canceller
      BY <2>3, <2>7 DEF Canceller, CancelEvent, CancelSandbox, CancelKills,
         CancelRuntime, Others
    <2>8. CASE Interrupt
      BY <2>1, <2>8 DEF Interrupt, ForceKill, Shapes, SupervisorRow
    <2> QED
      BY <2>2, <2>3, <2>4, <2>5, <2>6, <2>7, <2>8
         DEF Next, WriteFile, TaskEnds, ScriptWrites, Tamper, EndRun, Others
  <1> QED
    BY <1>1, StagedInvariant, PTL DEF Spec, ContainerCancelIsFinal
=============================================================================
