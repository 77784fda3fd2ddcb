--------------------------- MODULE ContextBudget ---------------------------
(***************************************************************************)
(* What a worker shows the model (goal_native/context.py), and the         *)
(* admission of every request of the run (worker.py _prepare_request and   *)
(* _provider_payload).                                                     *)
(*                                                                         *)
(* compile_context first takes what is required: the requests of the goal  *)
(* and the bundles of its assumptions, blockers and open questions.  If    *)
(* that does not fit the hard budget the run stops; otherwise older work   *)
(* is added, newest first, piece by piece, each only as a whole and only   *)
(* while it fits the softer target.  A bundle is a product with the inputs *)
(* it names and with every recorded product that qualifies one of them.    *)
(*                                                                         *)
(* A text is its number of tokens (estimate_tokens), and texts add up: the *)
(* few bytes that join them in JSON are counted with them.                 *)
(***************************************************************************)
EXTENDS Naturals, Sequences

CONSTANTS
    MaxProducts,        \* bound on the saved products of the goal
    MaxInvocations,     \* bound on its earlier invocations
    Sizes,              \* tokens of a product, a reply, a receipt
    RequestSize,        \* tokens of the requests and rules
    ToolsSize,          \* tokens of the tool schemas
    ContextLimits,      \* values of max_context_tokens
    Targets,            \* values of task_target_tokens
    Reserve,            \* the reserves for output, schema and history
    WorkWindow,         \* how many of the newest products are considered
    ObservedWindow,     \* and invocations,
    ReceiptWindow,      \* receipts of each,
    DirectoryWindow,    \* and entries of the directory of products
    MaxTurns            \* bound on the requests of the run

ASSUME ContextAssumption ==
    /\ Sizes \cup ContextLimits \cup Targets \subseteq Nat
    /\ {MaxProducts, MaxInvocations, RequestSize, ToolsSize, Reserve, MaxTurns,
        WorkWindow, ObservedWindow, ReceiptWindow, DirectoryWindow} \subseteq Nat

VARIABLES
    goalWork,       \* the products and invocations of the goal, oldest first
    budget,         \* the limits of the run
    context         \* the compiled context, and the run's requests

contextVars == <<goalWork, budget, context>>

-----------------------------------------------------------------------------
(* Products and bundles.  A product is known by its place in the sequence. *)

Qualifications == {"finding", "assumption"}     \* and four more that are alike
RequiredKinds == {"assumption"}                 \* assumption, blocker, open_question
Gone == 0                                       \* an input that is not recorded

\* Inputs are recorded before the product that names them.
ProductsOf(n) ==
    {s \in [1 .. n -> [kind: {"claim"} \cup Qualifications,
                       inputs: SUBSET (0 .. n), size: Sizes]] :
        \A i \in 1 .. n : \A j \in s[i].inputs : j < i}
Receipts == {<<>>} \cup {<<[size |-> k]>> : k \in Sizes}
Invocations == UNION {[1 .. n -> [size: Sizes, receipts: Receipts]] : n \in 0 .. MaxInvocations}

Inputs(products, i) == products[i].inputs \ {Gone}
Qualifiers(products, i) ==
    {j \in DOMAIN products : products[j].kind \in Qualifications /\ i \in products[j].inputs}

\* Mutant of Related: only the claim's own qualifications come along.
RelatedOf(products, found, start) ==
    UNION {Inputs(products, i) : i \in found} \cup Qualifiers(products, start)

Related(products, found, start) ==
    UNION {Inputs(products, i) \cup Qualifiers(products, i) : i \in found}

\* The worklist of `bundle': as many rounds as there are products are enough.
Bundle(products, start) ==
    LET round[n \in 0 .. Len(products)] ==
            IF n = 0 THEN {start}
            ELSE round[n - 1] \cup Related(products, round[n - 1], start)
    IN  round[Len(products)]

RequiredWork(products) ==
    UNION {Bundle(products, i) : i \in {j \in DOMAIN products : products[j].kind \in RequiredKinds}}

-----------------------------------------------------------------------------
(* Tokens and admission.                                                   *)

\* The tokens of some members of a sequence, by their places.
SizeOf(sizes, members) ==
    LET upTo[k \in 0 .. Len(sizes)] ==
            IF k = 0 THEN 0
            ELSE upTo[k - 1] + (IF k \in members THEN sizes[k].size ELSE 0)
    IN  upTo[Len(sizes)]

\* ContextBudget.admit.
Total(tokens) == tokens + ToolsSize + Reserve
Admitted(tokens) == Total(tokens) <= budget.limit

\* An addition of `size' tokens is kept if everything still fits, hard limit
\* and target.
Fits(tokens, required) ==
    /\ Admitted(tokens)
    /\ tokens <= (IF budget.target > required THEN budget.target ELSE required)
Keep(done, size, addition, required) ==
    IF Fits(done.tokens + size, required)
    THEN [tokens |-> done.tokens + size, kept |-> done.kept \cup addition]
    ELSE done

Smaller(a, b) == IF a < b THEN a ELSE b
Singles(s) == [i \in DOMAIN s |-> {i}]

\* Optional additions, newest first: of the newest `window' places of `sizes',
\* what place i offers and is not there yet, as a whole; before it, and for
\* itself, the entry that points to it.
Accumulate(from, entry, sizes, offers, window, required) ==
    LET n == Len(sizes)
        done[k \in 0 .. Smaller(window, n)] ==
            IF k = 0 THEN from
            ELSE LET addition == offers[n + 1 - k] \ done[k - 1].kept
                 IN  Keep(Keep(done[k - 1], entry, {}, required),
                          SizeOf(sizes, addition), addition, required)
    IN  done[Smaller(window, n)]

\* The receipts of the newest invocations, each with an entry of the directory.
AfterReceipts(tokens, previous, required) ==
    LET n == Len(previous)
        after[k \in 0 .. Smaller(ObservedWindow, n)] ==
            IF k = 0 THEN tokens
            ELSE LET receipts == previous[n + 1 - k].receipts
                 IN  Accumulate([tokens |-> after[k - 1], kept |-> {}], 1, receipts,
                                Singles(receipts), ReceiptWindow, required).tokens
    IN  after[Smaller(ObservedWindow, n)]

-----------------------------------------------------------------------------

NoContext == [at |-> "none"]

\* compile_context.
Compiled ==
    LET products == goalWork.products
        previous == goalWork.invocations
        required == RequiredWork(products)
        start == RequestSize + SizeOf(products, required)
        work == Accumulate([tokens |-> start, kept |-> required], 0, products,
                    [i \in DOMAIN products |-> Bundle(products, i)], WorkWindow, start)
        observed == Accumulate([tokens |-> work.tokens, kept |-> {}], 0, previous,
                        Singles(previous), ObservedWindow, start)
        listed == Accumulate([tokens |-> AfterReceipts(observed.tokens, previous, start),
                              kept |-> {}], 0,
                      [i \in DOMAIN products |-> [size |-> 1]],
                      [i \in DOMAIN products |-> {i} \ work.kept], DirectoryWindow, start)
    IN  IF ~Admitted(start) THEN [at |-> "refused"]
        ELSE [at |-> "open", work |-> work.kept, observed |-> observed.kept,
              listed |-> listed.kept, tokens |-> listed.tokens, required |-> start, turns |-> 0]

Compile ==
    /\ context = NoContext
    /\ \E n \in 0 .. MaxProducts, previous \in Invocations : \E products \in ProductsOf(n) :
            goalWork' = [products |-> products, invocations |-> previous]
    /\ budget' \in [limit: ContextLimits, target: Targets]
    /\ context' = [at |-> "compiling"]

CompileContext ==
    /\ context.at = "compiling"
    /\ context' = Compiled
    /\ UNCHANGED <<goalWork, budget>>

\* Another request of the run, with the history that has grown since; the
\* window of the model can be smaller than the configured one.
NextRequest(size, window) ==
    /\ context.at = "open" /\ context.turns < MaxTurns
    /\ context' =
        IF Admitted(context.tokens + size) /\ Total(context.tokens + size) <= window
        THEN [context EXCEPT !.tokens = @ + size, !.turns = @ + 1]
        ELSE [context EXCEPT !.at = "stopped"]
    /\ UNCHANGED <<goalWork, budget>>

-----------------------------------------------------------------------------

ContextInit ==
    /\ goalWork = [products |-> <<>>, invocations |-> <<>>]
    /\ budget = [limit |-> 0, target |-> 0]
    /\ context = NoContext

ContextNext ==
    \/ Compile \/ CompileContext
    \/ \E size \in Sizes, window \in ContextLimits : NextRequest(size, window)

ContextSpec == ContextInit /\ [][ContextNext]_contextVars

-----------------------------------------------------------------------------
(* Properties.                                                             *)

\* docs/API.md, "faithful requests/constraints and known
\* qualifications, with hard schema/history/output admission and no silent
\* required truncation": a context that is compiled fits the hard budget, has
\* every required product, and shows no product without the recorded inputs it
\* names and the recorded products that qualify it; optional work is never why
\* a run is refused, and beyond the target there is nothing optional.
ContextIsQualified ==
    LET products == goalWork.products
        required == {i \in DOMAIN products : products[i].kind \in RequiredKinds}
    IN
    /\ context.at = "open" =>
        /\ Total(context.tokens) <= budget.limit
        /\ required \subseteq context.work
        /\ \A i \in context.work :
            /\ products[i].inputs \ {Gone} \subseteq context.work
            /\ \A j \in DOMAIN products :
                products[j].kind \in Qualifications /\ i \in products[j].inputs
                    => j \in context.work
        /\ context.turns = 0 /\ context.tokens > budget.target
            => context.tokens = context.required
    /\ context.at = "refused" =>
        \A S \in SUBSET DOMAIN products :
            /\ required \subseteq S
            /\ \A i \in S : Inputs(products, i) \cup Qualifiers(products, i) \subseteq S
            => Total(RequestSize + SizeOf(products, S)) > budget.limit
=============================================================================
