------------------------- MODULE InstrumentProvider -------------------------
(***************************************************************************)
(* The account's instruments and conversion chains (providers.py, with     *)
(* account.py's spec cache and symbol changes, and the preparation of a    *)
(* conversion in data.py).                                                 *)
(*                                                                         *)
(* A symbol's spec is its version at the venue, and so is the one chain    *)
(* that converts Traded, which uses Leg: a change of Leg makes the chain a *)
(* new one.  The venue's answers and its SymbolChanged events come in one  *)
(* stream; the read loop may read several frames before a task whose       *)
(* answer it read goes on.  One symbol fills a batch of symbol_specs().    *)
(* The quotes held for a chain's legs are in Subscriptions.                *)
(***************************************************************************)
EXTENDS Naturals, Sequences, FiniteSets, SequencesExt

CONSTANTS
    Traded,       \* the instrument a strategy trades
    Leg,          \* the one its conversion chain uses
    Preparers,    \* the data clients of the account
    MaxChanges,   \* bound: symbol changes at the venue
    MaxLoads,     \* bound: loads asked for
    MaxTries,     \* bound: preparations begun
    MaxJobs,      \* bound: tasks at a time, enough for the others
    MaxErrors     \* bound: requests that fail, and sessions replaced

ASSUME ProviderAssumption ==
    /\ Traded # Leg /\ IsFiniteSet(Preparers)
    /\ {MaxChanges, MaxLoads, MaxTries, MaxErrors} \subseteq Nat

VARIABLES
    provider,    \* the caches: the record NewProvider
    prepared,    \* what each data client counts as converted
    jobs,        \* the tasks that await an answer, by their number
    asked,       \* requests sent and not served
    feed,        \* external: the frames not read
    inbox,       \* answers read, their tasks not yet run
    offered,     \* external: the venue's specs and chain
    told         \* history: what was heard, what the bounds bound

providerVars == <<provider, prepared, jobs, asked, feed, inbox, offered, told>>

ProviderSymbols == {Traded, Leg}
Absent == 0
NewProvider == [
    specs |-> [s \in ProviderSymbols |-> Absent],    \* _symbol_specs
    loaded |-> [s \in ProviderSymbols |-> Absent],   \* _by_symbol_id
    blocked |-> {},                                  \* _blocked
    chain |-> Absent,                                \* _chains
    generation |-> 0,                                \* _chain_generation
    queries |-> 0,                                   \* _chain_queries
    query |-> 0]                                     \* _chain_tasks: its job
NotPrepared == [converted |-> FALSE, generation |-> 0, chain |-> Absent, busy |-> FALSE]
Done == [kind |-> "done"]

ProviderInit ==
    /\ provider = NewProvider
    /\ prepared = [d \in Preparers |-> NotPrepared]
    /\ jobs = [k \in 1..MaxJobs |-> Done] /\ asked = {} /\ feed = <<>> /\ inbox = <<>>
    /\ offered = [specs |-> [s \in ProviderSymbols |-> 1], chain |-> 1]
    /\ told = [chain |-> 0, unheard |-> 0, stale |-> {}, changes |-> 0, loads |-> 0, tries |-> 0,
               errors |-> 0]

\* The state a task works on between two awaits.
Here == [provider |-> provider, prepared |-> prepared, jobs |-> jobs, asked |-> asked,
         inbox |-> inbox, told |-> told]
Leaves(w) ==
    /\ provider' = w.provider /\ prepared' = w.prepared /\ jobs' = w.jobs
    /\ asked' = w.asked /\ inbox' = w.inbox /\ told' = w.told

\* A task has the first number that is free.
NextJob(w) == CHOOSE k \in DOMAIN w.jobs :
    w.jobs[k] = Done /\ \A i \in 1..(k - 1) : w.jobs[i] # Done
Asks(w, job, what) == [w EXCEPT !.asked = @ \cup {[job |-> job, what |-> what]}]
Starts(w, job) == [w EXCEPT !.jobs[NextJob(w)] = job]
Ends(w, k) == [w EXCEPT !.jobs[k] = Done]

-----------------------------------------------------------------------------
(* Building *)

\* _build_or_fail(): not for a blocked name, nor without a spec.
Builds(p, s) == s \notin p.blocked /\ p.specs[s] # Absent
Built(p, s) == IF Builds(p, s) THEN [p EXCEPT !.loaded[s] = p.specs[s]] ELSE p

\* remove_failed()
RemoveFailed(p, s) == [p EXCEPT !.blocked = @ \cup {s}, !.loaded[s] = Absent]

\* symbol_specs(): the first symbol of those whose spec is missing is asked for.
Missing(p, names) == SelectSeq(names, LAMBDA s : p.specs[s] = Absent)

\* The end of _load_names(), each name on its own.
BuildAll(p, names) == FoldSeq(LAMBDA s, q : Built(q, s), p, names)

\* load_ids_async(), which alone lifts a block, and load_all_async().
Load(names, explicit) ==
    /\ told.loads < MaxLoads
    /\ LET p == IF explicit THEN [provider EXCEPT !.blocked = @ \ ToSet(names)] ELSE provider
           missing == Missing(p, names)
           w == [Here EXCEPT !.provider = p, !.told.loads = @ + 1]
       IN Leaves(IF missing = <<>> THEN [w EXCEPT !.provider = BuildAll(p, names)]
                 ELSE Asks(Starts(w, [kind |-> "load", names |-> names, missing |-> missing]),
                           NextJob(w), Head(missing)))
    /\ UNCHANGED <<feed, offered>>

-----------------------------------------------------------------------------
(* Conversions *)

\* Mutant: a query in flight is joined after the reset.
ResetKeepsQuery(p, stale) ==
    IF stale \/ p.queries > 0 THEN [p EXCEPT !.chain = Absent, !.generation = @ + 1] ELSE p

\* reset_conversion_cache(): what was resolved before may be stale, a query awaited too.
Reset(p, stale) ==
    IF stale \/ p.queries > 0
    THEN [p EXCEPT !.chain = Absent, !.generation = @ + 1, !.query = 0] ELSE p

\* The rest of _prepare_conversion_locked(), its chain held: it counts as converted only if
\* no reset came since it began.
Converted(w, d, began, chain) ==
    [w EXCEPT !.prepared[d] =
        [@ EXCEPT !.busy = FALSE, !.chain = chain,
                  !.converted = @ \/ began = w.provider.generation]]
NotConverted(w, d) == [w EXCEPT !.prepared[d].busy = FALSE]

\* conversion_instruments_for(), its chain known: a leg that is not loaded is built, and one
\* that cannot be built unloads the instrument.
LegsBuilt(w, d, began, chain) ==
    LET p == w.provider IN
    IF p.loaded[Leg] # Absent THEN Converted(w, d, began, chain)
    ELSE IF Builds(p, Leg) THEN Converted([w EXCEPT !.provider = Built(@, Leg)], d, began, chain)
    ELSE NotConverted([w EXCEPT !.provider = RemoveFailed(@, Traded)], d)
WithChain(w, d, began, chain) ==
    LET p == w.provider IN
    IF p.loaded[Leg] = Absent /\ p.specs[Leg] = Absent
    THEN Asks(Starts(w, [kind |-> "legs", client |-> d, began |-> began, chain |-> chain]),
              NextJob(w), Leg)
    ELSE LegsBuilt(w, d, began, chain)

\* _prepare_conversion_locked(): what was prepared before a reset is forgotten; the chain is
\* the cached one, the one a query in flight will bring, or asked for.
Prepare(d) ==
    /\ ~prepared[d].busy /\ told.tries < MaxTries /\ provider.loaded[Traded] # Absent
    /\ LET now == provider.generation
           mine == IF prepared[d].generation = now THEN prepared[d]
                   ELSE [prepared[d] EXCEPT !.converted = FALSE, !.generation = now]
           w == [Here EXCEPT !.prepared[d] = [mine EXCEPT !.busy = TRUE], !.told.tries = @ + 1]
           k == NextJob(w)
           waits(query) == [kind |-> "prepare", client |-> d, began |-> now, query |-> query]
       IN /\ ~mine.converted
          /\ Leaves(IF provider.chain # Absent THEN WithChain(w, d, now, provider.chain)
                    ELSE IF provider.query # 0 THEN Starts(w, waits(provider.query))
                    ELSE LET q == Starts(w, [kind |-> "query", began |-> now])
                             p == [q EXCEPT !.provider.query = k, !.provider.queries = @ + 1]
                         IN Asks(Starts(p, waits(k)), k, "chain"))
    /\ UNCHANGED <<feed, offered>>

-----------------------------------------------------------------------------
(* External: the venue *)

\* A spec changes, and with the leg the chain.
Changes(s) ==
    /\ told.changes < MaxChanges
    /\ offered' = [specs |-> [offered.specs EXCEPT ![s] = @ + 1],
                   chain |-> IF s = Leg THEN offered.chain + 1 ELSE offered.chain]
    /\ feed' = Append(feed, [kind |-> "changed", symbol |-> s, chain |-> offered'.chain])
    /\ told' = [told EXCEPT !.changes = @ + 1]
    /\ UNCHANGED <<provider, prepared, jobs, asked, inbox>>

\* It answers as things stand, with no chain perhaps, or the request fails.
Serves(r) ==
    /\ r \in asked /\ asked' = asked \ {r}
    /\ \/ /\ feed' = Append(feed, [kind |-> "answer", job |-> r.job, what |-> r.what, ok |-> TRUE,
                                   version |-> IF r.what = "chain" THEN offered.chain
                                               ELSE offered.specs[r.what]])
          /\ UNCHANGED told
       \/ /\ told.errors < MaxErrors
          /\ \E ok \in (IF r.what = "chain" THEN BOOLEAN ELSE {FALSE}) :
                feed' = Append(feed, [kind |-> "answer", job |-> r.job, what |-> r.what, ok |-> ok,
                                      version |-> Absent])
          /\ told' = [told EXCEPT !.errors = @ + 1]
    /\ UNCHANGED <<provider, prepared, jobs, inbox, offered>>

-----------------------------------------------------------------------------
(* What is read *)

\* _on_symbol_changed(): a symbol not loaded only loses its cached spec; a loaded one has
\* its chains dropped at once and is reloaded by a task.
SymbolChanged(w, e) ==
    LET s == e.symbol
        answered == \E i \in DOMAIN w.inbox : w.inbox[i].what = s
    IN IF w.provider.loaded[s] = Absent
       THEN [w EXCEPT !.provider.specs[s] = Absent,
                      !.told.unheard = IF s = Leg THEN e.chain ELSE @,
                      !.told.stale = IF answered THEN @ \cup {s} ELSE @]
       ELSE LET p == Reset(w.provider, s = Leg /\ w.provider.chain # Absent)
                heard == [w EXCEPT !.provider = p,
                                   !.told.chain = IF s = Leg THEN e.chain ELSE @]
            IN Asks(Starts(heard, [kind |-> "reload", symbol |-> s]), NextJob(heard), s)

Reads ==
    /\ feed # <<>> /\ feed' = Tail(feed)
    /\ LET e == Head(feed) IN
       Leaves(IF e.kind = "changed" THEN SymbolChanged(Here, e)
              ELSE [Here EXCEPT !.inbox = Append(@, e)])
    /\ UNCHANGED offered

\* _query_chain() ends: the chain is cached unless a reset came since it began, and its
\* callers go on.
QueryEnds(w, k, e) ==
    LET job == w.jobs[k]
        p == [w.provider EXCEPT !.queries = @ - 1, !.query = IF @ = k THEN 0 ELSE @]
        cached == IF e.version # Absent /\ job.began = p.generation
                  THEN [p EXCEPT !.chain = e.version] ELSE p
        mine == {i \in DOMAIN w.jobs : w.jobs[i].kind = "prepare" /\ w.jobs[i].query = k}
        woken == [i \in 1..Cardinality(mine) |->
                    [e EXCEPT !.job = SetToSortSeq(mine, <)[i], !.what = "joined"]]
    IN [Ends(w, k) EXCEPT !.provider = cached, !.inbox = @ \o woken]

\* A caller of the query goes on; an empty chain unloads the instrument.
PrepareGoesOn(w, k, e) ==
    LET job == w.jobs[k]
        done == Ends(w, k)
    IN IF ~e.ok THEN NotConverted(done, job.client)
       ELSE IF e.version = Absent
       THEN NotConverted([done EXCEPT !.provider = RemoveFailed(@, Traded)], job.client)
       ELSE WithChain(done, job.client, job.began, e.version)

\* A load keeps the spec and asks for the next one, or builds all its names.
LoadGoesOn(w, k, e) ==
    LET job == w.jobs[k]
        kept == [w EXCEPT !.provider.specs[e.what] = e.version]
        rest == Tail(job.missing)
    IN IF ~e.ok THEN Ends(w, k)
       ELSE IF rest = <<>>
       THEN [Ends(kept, k) EXCEPT !.provider = BuildAll(@, job.names)]
       ELSE Asks([kept EXCEPT !.jobs[k].missing = rest], k, Head(rest))

\* reload(): the spec is replaced; a failure leaves the instrument as it was.
ReloadGoesOn(w, k, e) ==
    LET s == w.jobs[k].symbol
        kept == [Ends(w, k) EXCEPT !.provider.specs[s] = e.version]
    IN IF e.ok THEN [kept EXCEPT !.provider = Built(@, s)]
       ELSE [Ends(w, k) EXCEPT !.told.stale = @ \cup {s}]

LegsGoOn(w, k, e) ==
    LET job == w.jobs[k]
        kept == [Ends(w, k) EXCEPT !.provider.specs[Leg] = e.version]
    IN IF e.ok THEN LegsBuilt(kept, job.client, job.began, job.chain)
       ELSE NotConverted(Ends(w, k), job.client)

\* The task of the first answer read goes on, up to its next request.
GoesOn ==
    /\ inbox # <<>>
    /\ LET e == Head(inbox)
           w == [Here EXCEPT !.inbox = Tail(@)]
           kind == jobs[e.job].kind
       IN \/ kind = "load" /\ Leaves(LoadGoesOn(w, e.job, e))
          \/ kind = "reload" /\ Leaves(ReloadGoesOn(w, e.job, e))
          \/ kind = "query" /\ Leaves(QueryEnds(w, e.job, e))
          \/ kind = "prepare" /\ Leaves(PrepareGoesOn(w, e.job, e))
          \/ kind = "legs" /\ Leaves(LegsGoOn(w, e.job, e))
    /\ UNCHANGED <<feed, offered>>

\* The last user leaves and another brings a session up: reloads are cancelled, every other
\* request fails, and the chains and the blocks are forgotten; the instruments stay.
BroughtUpAgain ==
    /\ told.errors < MaxErrors
    /\ jobs' = [k \in DOMAIN jobs |-> Done] /\ asked' = {} /\ feed' = <<>> /\ inbox' = <<>>
    /\ provider' = [provider EXCEPT !.chain = Absent, !.generation = @ + 1, !.query = 0,
                                    !.queries = 0, !.blocked = {}]
    /\ prepared' = [d \in Preparers |-> [prepared[d] EXCEPT !.busy = FALSE, !.converted = FALSE]]
    /\ told' = [told EXCEPT !.errors = @ + 1, !.stale = ProviderSymbols]
    /\ UNCHANGED offered

ProviderNext ==
    \/ \E names \in {<<Traded, Leg>>, <<Traded>>}, explicit \in BOOLEAN : Load(names, explicit)
    \/ \E d \in Preparers : Prepare(d)
    \/ \E s \in ProviderSymbols : Changes(s)
    \/ \E r \in asked : Serves(r)
    \/ Reads \/ GoesOn \/ BroughtUpAgain

ProviderSpec == ProviderInit /\ [][ProviderNext]_providerVars

-----------------------------------------------------------------------------
(* Properties *)

\* What is kept of the venue is as new as what was heard.  A conversion counts as prepared,
\* and a chain is kept, only if it was resolved after the last change heard of a loaded leg,
\* though queries, reloads and preparations overlap; once all is read and answered, a loaded
\* instrument is the venue's, unless its reload failed, the session was replaced, or a change
\* was read between its answer and its load; and no instrument unloaded for want of a
\* conversion is loaded again but by a request for it.
VenueDataCurrent ==
    /\ \A d \in Preparers :
          (prepared[d].converted /\ prepared[d].generation = provider.generation) =>
              prepared[d].chain >= told.chain
    /\ provider.chain # Absent => provider.chain >= told.chain
    /\ (asked = {} /\ feed = <<>> /\ inbox = <<>>) =>
          \A s \in ProviderSymbols \ told.stale :
              provider.loaded[s] \in {Absent, offered.specs[s]}
    /\ \A s \in provider.blocked : provider.loaded[s] = Absent

\* "Before the reload's first await, so no conversion prepared meanwhile trusts a chain
\* through the changed symbol" (account.py:743).  Violated: a change of a leg that is not
\* loaded yet drops no chain.
NoChainThroughChanged ==
    provider.chain # Absent => provider.chain >= told.unheard

\* "Only the cached spec goes, so a later load fetches the changed one" (account.py:736).
\* Violated: a load whose answer is read before the change and that goes on after it keeps
\* and builds the old spec.
LoadedIsChanged ==
    (asked = {} /\ feed = <<>> /\ inbox = <<>> /\ told.errors = 0) =>
        \A s \in ProviderSymbols : provider.loaded[s] \in {Absent, offered.specs[s]}

=============================================================================
