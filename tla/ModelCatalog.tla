---------------------------- MODULE ModelCatalog ----------------------------
(***************************************************************************)
(* The cache of ONE provider's model list (services/model_catalog.py),     *)
(* which routing consults through tasks that run _get_cached_provider_     *)
(* models: a hit is answered at once, a miss takes the provider's lock,    *)
(* looks again, and fetches the list from upstream.  build_registry        *)
(* replaces the adapters and clears the cache and the table of locks while *)
(* tasks of the old adapters may be anywhere.                              *)
(*                                                                         *)
(* Providers do not share entries or locks.  A lock object lives in the    *)
(* table from the first miss after an invalidation to the next one, so it  *)
(* is identified by the generation in which it was made.  A list is        *)
(* abstracted to the adapter that fetched it and whether it is empty.      *)
(*                                                                         *)
(* The parts of the specification are named Catalog..., for HotReloadProofs*)
(* extends this module together with ConfigReload.                         *)
(***************************************************************************)
EXTENDS Integers, FiniteSets

CONSTANTS
    Tasks,      \* calls of _get_cached_provider_models
    TTL,        \* _PROVIDER_MODELS_TTL_SECONDS, in ticks
    MaxGen,     \* bound on the number of reloads
    None        \* no entry, no answer

ASSUME TTLAssumption == TTL \in Nat \ {0}
ASSUME MaxGenAssumption == MaxGen \in Nat
ASSUME NoneAssumption == None \notin [gen : 0 .. MaxGen, empty : BOOLEAN]

VARIABLES
    gen,        \* reloads so far: the adapters and locks in the tables
    entry,      \* _provider_models_cache.get(provider_name)
    age,        \* time since the entry was stored, at most TTL
    pc,         \* where each task is
    adapter,    \* the generation of the adapter it was given
    lock,       \* the generation of the lock it uses
    answer,     \* what it returned
    quiet       \* the last reload found no task at work (history variable)

task == <<pc, adapter, lock, answer>>
catalogVars == <<gen, entry, age, pc, adapter, lock, answer, quiet>>

Entries == [gen : 0 .. MaxGen, empty : BOOLEAN]

CatalogTypeOK ==
    /\ gen \in 0 .. MaxGen
    /\ entry \in Entries \cup {None}
    /\ age \in 0 .. TTL
    /\ pc \in [Tasks -> {"new", "created", "queued", "fetching", "done", "failed"}]
    /\ adapter \in [Tasks -> 0 .. MaxGen]
    /\ lock \in [Tasks -> 0 .. MaxGen]
    /\ answer \in [Tasks -> Entries \cup {None}]
    /\ quiet \in BOOLEAN

----------------------------------------------------------------------------

\* `cached is not None and cached.expires_at > now'
Hit == entry # None /\ age < TTL

AtWork(t) == pc[t] \in {"created", "queued", "fetching"}
Fetching(l) == {t \in Tasks : pc[t] = "fetching" /\ lock[t] = l}
Queued(l) == {t \in Tasks : pc[t] = "queued" /\ lock[t] = l}

\* _get_provider_models_for_mappings: the request's snapshot of the registry
\* provides the adapter; the task made for it has still to run.
Create(t) ==
    /\ pc[t] = "new"
    /\ pc' = [pc EXCEPT ![t] = "created"]
    /\ adapter' = [adapter EXCEPT ![t] = gen]
    /\ UNCHANGED <<gen, entry, age, lock, answer, quiet>>

Return(t, e) ==
    /\ pc' = [pc EXCEPT ![t] = "done"]
    /\ answer' = [answer EXCEPT ![t] = e]

\* The task runs, and finds a fresh entry.
StartHit(t) ==
    /\ pc[t] = "created" /\ Hit
    /\ Return(t, entry)
    /\ UNCHANGED <<gen, entry, age, adapter, lock, quiet>>

\* A miss, and the lock in the table (or a new one) is free: list_models.
StartFetch(t) ==
    /\ pc[t] = "created" /\ ~Hit
    /\ Fetching(gen) = {} /\ Queued(gen) = {}
    /\ pc' = [pc EXCEPT ![t] = "fetching"]
    /\ lock' = [lock EXCEPT ![t] = gen]
    /\ UNCHANGED <<gen, entry, age, adapter, answer, quiet>>

\* A miss, and another task has the lock or waits for it.
StartQueue(t) ==
    /\ pc[t] = "created" /\ ~Hit
    /\ Fetching(gen) \cup Queued(gen) # {}
    /\ pc' = [pc EXCEPT ![t] = "queued"]
    /\ lock' = [lock EXCEPT ![t] = gen]
    /\ UNCHANGED <<gen, entry, age, adapter, answer, quiet>>

\* Mutant: a waiting task does not wait for the lock to be released.
EnterUnlocked(t) ==
    /\ pc[t] = "queued"
    /\ \/ Hit /\ Return(t, entry)
       \/ ~Hit /\ pc' = [pc EXCEPT ![t] = "fetching"] /\ UNCHANGED answer
    /\ UNCHANGED <<gen, entry, age, adapter, lock, quiet>>

\* Mutant: tasks waiting for a lock that left the table are forgotten.
EnterCurrent(t) ==
    /\ pc[t] = "queued"
    /\ lock[t] = gen
    /\ Fetching(lock[t]) = {}
    /\ \/ Hit /\ Return(t, entry)
       \/ ~Hit /\ pc' = [pc EXCEPT ![t] = "fetching"] /\ UNCHANGED answer
    /\ UNCHANGED <<gen, entry, age, adapter, lock, quiet>>

\* The lock is free again: the task looks at the cache once more.
Enter(t) ==
    /\ pc[t] = "queued"
    /\ Fetching(lock[t]) = {}
    /\ \/ Hit /\ Return(t, entry)
       \/ ~Hit /\ pc' = [pc EXCEPT ![t] = "fetching"] /\ UNCHANGED answer
    /\ UNCHANGED <<gen, entry, age, adapter, lock, quiet>>

\* The list arrives and is stored.  A request that failed is answered by
\* list_models with [], and that is stored like any other list.
Fetched(t) ==
    /\ pc[t] = "fetching"
    /\ \E empty \in BOOLEAN :
          entry' = [gen |-> adapter[t], empty |-> empty]
    /\ age' = 0
    /\ Return(t, entry')
    /\ UNCHANGED <<gen, adapter, lock, quiet>>

\* The list has not the expected shape (a TypeError or AttributeError after
\* the fetch), or the request is cancelled and its task with it: the lock is
\* released, nothing is stored.
Fail(t) ==
    /\ pc[t] \in {"queued", "fetching"}
    /\ pc' = [pc EXCEPT ![t] = "failed"]
    /\ UNCHANGED <<gen, entry, age, adapter, lock, answer, quiet>>

\* Mutant: a reload leaves the entry to expire.
ReloadKeepingEntry ==
    /\ gen < MaxGen
    /\ gen' = gen + 1
    /\ quiet' = \A t \in Tasks : ~AtWork(t)
    /\ UNCHANGED <<entry, age, task>>

\* build_registry: new adapters, and invalidate_model_catalog.
Reload ==
    /\ gen < MaxGen
    /\ gen' = gen + 1
    /\ entry' = None
    /\ quiet' = \A t \in Tasks : ~AtWork(t)
    /\ UNCHANGED <<age, task>>

Tick ==
    /\ age < TTL
    /\ age' = age + 1
    /\ UNCHANGED <<gen, entry, quiet, task>>

CatalogInit ==
    /\ gen = 0
    /\ entry = None
    /\ age = 0
    /\ pc = [t \in Tasks |-> "new"]
    /\ adapter = [t \in Tasks |-> 0]
    /\ lock = [t \in Tasks |-> 0]
    /\ answer = [t \in Tasks |-> None]
    /\ quiet = TRUE

Step(t) == StartHit(t) \/ StartFetch(t) \/ StartQueue(t) \/ Enter(t) \/ Fetched(t)

CatalogNext ==
    \/ \E t \in Tasks : Create(t) \/ Step(t) \/ Fail(t)
    \/ Reload
    \/ Tick

CatalogSpec == CatalogInit /\ [][CatalogNext]_catalogVars

\* Tasks are scheduled; upstream answers, or the 30 s timeout of list_models ends
\* the fetch.
CatalogFairSpec == CatalogSpec /\ \A t \in Tasks : WF_catalogVars(Step(t))

----------------------------------------------------------------------------
(* Properties *)

\* Single flight: unless a task was at work when the adapters were last replaced, the
\* provider's list is fetched by one task at a time, and nobody fetches it while a
\* fresh list is cached.  When one was, it holds a lock that is no longer in the table,
\* and a task of the new generation may fetch beside it.
SingleFlight ==
    quiet =>
        LET fetching == {t \in Tasks : pc[t] = "fetching"}
        IN  Cardinality(fetching) <= 1 /\ (Hit => fetching = {})

\* The others do not repeat the fetch they waited for: a fetch begins only
\* when there is no fresh entry, also for a task that has waited.
FetchOnlyOnMiss ==
    [][\A t \in Tasks : pc'[t] = "fetching" /\ pc[t] # "fetching" => ~Hit]_catalogVars

\* Invalidation works when no call is under way: an entry fetched with
\* replaced adapters can be in the cache only if some task was at work when
\* the last reload happened.
QuietReloadIsClean == quiet => entry = None \/ entry.gen = gen

\* Every task ends: no lock is left locked, none is waited for in vain.
TasksEnd == \A t \in Tasks : pc[t] = "created" ~> pc[t] \in {"done", "failed"}

=============================================================================
