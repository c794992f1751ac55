-------------------------- MODULE HotReloadProofs --------------------------
(***************************************************************************)
(* Theorems about what a reload replaces while requests go on: the         *)
(* configuration and the adapters (ConfigReload), for any files, providers *)
(* and edits, and the cached list of a provider's models (ModelCatalog),   *)
(* for any number of tasks, reloads and ticks.                             *)
(***************************************************************************)
EXTENDS ConfigReload, ModelCatalog, FiniteSetTheorems, TLAPS

----------------------------------------------------------------------------
(* The configuration and the adapters *)

\* While the application runs there has been a good load, and its configuration
\* passed the validation.
GoodIsValid == Running => Valid(good)

\* Nothing is watched, hence nothing reported, before the watcher runs.
WatchedLater == phase # "watching" => watched = {}

\* The keys a load left in force are those it found, unless it could not read a file.
KeysAsLoaded ==
    Running /\ Readable(loaded.main) /\ Readable(loaded.secrets) =>
        config.keys = IF loaded.secrets = Missing THEN {} ELSE loaded.secrets.keys

IInv ==
    /\ TypeOK
    /\ WatchedLater
    /\ GoodIsValid
    /\ AdaptersAreLastGood
    /\ KeysAsLoaded
    /\ NoChangeOverlooked

\* What is read from two files of the declared shapes is a configuration.
LEMMA ConfigOfType ==
    ASSUME NEW m \in MainContents \cup {Missing}, NEW s \in SecretContents \cup {Missing}
    PROVE  ConfigOf(m, s) \in Configs
<1>1. m # Missing => /\ m.providers \in SUBSET Providers /\ m.supported \in SUBSET Providers
                     /\ m.mapped \in SUBSET Providers
  BY MainAssumption
<1>2. s # Missing => s.keys \in SUBSET Keys
  BY SecretAssumption
<1> QED
  BY <1>1, <1>2 DEF ConfigOf, Configs

\* Every outcome of load_config and the builders keeps what the invariant says of
\* the configuration, the adapters, the keys and the last good configuration.
LEMMA LoadStep ==
    ASSUME TypeOK, Running, GoodIsValid, AdaptersAreLastGood,
           LoadUnreadable \/ LoadInvalid \/ LoadGood
    PROVE  /\ config' \in Configs /\ good' \in Configs /\ registry' \subseteq Providers
           /\ Valid(good')
           /\ registry' = good'.supported
           /\ registry' # config'.supported => ~Valid(config')
           /\ Readable(main) /\ Readable(secrets) =>
                 config'.keys = IF secrets = Missing THEN {} ELSE secrets.keys
<1>1. /\ ConfigOf(main, secrets) \in Configs
      /\ ConfigOf(main, secrets).keys = IF secrets = Missing THEN {} ELSE secrets.keys
  BY ConfigOfType DEF TypeOK, ConfigOf
<1>2. CASE LoadUnreadable
  BY <1>2 DEF LoadUnreadable, TypeOK, GoodIsValid, AdaptersAreLastGood
<1>3. CASE LoadInvalid
  <2>1. config' = ConfigOf(main, secrets) /\ ~Valid(config') /\ UNCHANGED <<registry, good>>
    BY <1>3 DEF LoadInvalid, Valid
  <2>2. Valid(good) /\ registry = good.supported
    BY DEF GoodIsValid, AdaptersAreLastGood
  <2> QED
    BY <1>1, <2>1, <2>2 DEF TypeOK, Valid
<1>4. CASE LoadGood
  <2>1. config' = ConfigOf(main, secrets) /\ good' = config'
        /\ registry' = config'.supported /\ Valid(config')
    BY <1>4 DEF LoadGood, Valid
  <2> QED
    BY <1>1, <2>1 DEF Configs, Valid
<1> QED
  BY <1>2, <1>3, <1>4

LEMMA InitIInv == Init => IInv
<1> SUFFICES ASSUME Init PROVE IInv
  OBVIOUS
<1>1. TypeOK
  BY EditsAssumption DEF Init, TypeOK, Empty, Configs, Disk
<1> QED
  BY <1>1 DEF Init, IInv, WatchedLater, GoodIsValid, AdaptersAreLastGood, KeysAsLoaded,
              NoChangeOverlooked, Running

LEMMA StepIInv == IInv /\ [Next]_vars => IInv'
<1> SUFFICES ASSUME IInv, [Next]_vars PROVE IInv'
  OBVIOUS
<1> USE EditsAssumption
<1>0. /\ TypeOK /\ WatchedLater /\ GoodIsValid
      /\ AdaptersAreLastGood /\ KeysAsLoaded /\ NoChangeOverlooked
  BY DEF IInv
<1>1. ASSUME Startup
      PROVE  IInv'
  <2>1. /\ config' = ConfigOf(main, secrets) /\ good' = config'
        /\ registry' = config'.supported /\ Valid(config')
        /\ loaded' = Disk /\ phase' = "loaded"
        /\ UNCHANGED <<main, secrets, edits, watched, changed, missed>>
    BY <1>1 DEF Startup, LoadGood, Valid, disk
  <2>2. /\ config' \in Configs
        /\ config'.keys = IF secrets = Missing THEN {} ELSE secrets.keys
    BY <2>1, <1>0, ConfigOfType DEF TypeOK, ConfigOf
  <2>3. TypeOK'
    BY <2>1, <2>2, <1>0 DEF TypeOK, Configs, Disk
  <2> QED
    BY <2>1, <2>2, <2>3, <1>0, <1>1 DEF Startup, WatchedLater, IInv, GoodIsValid,
       AdaptersAreLastGood, KeysAsLoaded, NoChangeOverlooked, Valid, Disk
<1>2. ASSUME StartupFails
      PROVE  IInv'
  <2>1. /\ config' \in {config, ConfigOf(main, secrets)} /\ UNCHANGED <<registry, good>>
        /\ loaded' = Disk /\ phase' = "failed"
        /\ UNCHANGED <<main, secrets, edits, watched, changed, missed>>
    BY <1>2 DEF StartupFails, LoadUnreadable, LoadInvalid, disk
  <2>2. TypeOK'
    BY <2>1, <1>0, ConfigOfType DEF TypeOK, Disk
  <2> QED
    BY <2>1, <2>2, <1>0, <1>2 DEF StartupFails, WatchedLater, IInv, GoodIsValid,
       AdaptersAreLastGood, KeysAsLoaded, NoChangeOverlooked, Running
<1>3. ASSUME WatcherStarts
      PROVE  IInv'
  <2>1. /\ watched' = IF secrets = Missing THEN {"main"} ELSE Files
        /\ missed' = {f \in Files : loaded[f] # Disk[f]}
        /\ phase = "loaded" /\ phase' = "watching"
        /\ UNCHANGED <<main, secrets, edits, changed, config, registry, good, loaded>>
    BY <1>3 DEF WatcherStarts, disk
  <2>2. watched' \subseteq Files
    BY <2>1 DEF Files
  <2>3. changed \subseteq watched'
    BY <2>1, <1>0 DEF TypeOK, WatchedLater
  <2>4. TypeOK'
    BY <2>1, <2>2, <2>3, <1>0 DEF TypeOK
  <2>5. GoodIsValid' /\ AdaptersAreLastGood' /\ KeysAsLoaded'
    BY <2>1, <1>0 DEF GoodIsValid, AdaptersAreLastGood, KeysAsLoaded, Running, Valid
  <2>6. NoChangeOverlooked'
    <3>1. Disk' = Disk /\ loaded' = loaded
      BY <2>1 DEF Disk
    <3>2. \A f \in watched' \ missed' : loaded[f] = Disk[f]
      BY <2>1, <2>2
    <3> QED
      BY <3>1, <3>2 DEF NoChangeOverlooked
  <2> QED
    BY <2>1, <2>4, <2>5, <2>6 DEF IInv, WatchedLater
<1>4. ASSUME WatcherReloads \/ AdminReload
      PROVE  IInv'
  <2>1. /\ Running /\ phase' = phase /\ watched' = watched
        /\ changed' \in {{}, changed}
        /\ LoadUnreadable \/ LoadInvalid \/ LoadGood
        /\ loaded' = Disk /\ missed' = {}
        /\ UNCHANGED <<main, secrets, edits>>
    BY <1>4 DEF WatcherReloads, AdminReload, Load, Running, disk
  <2>2. /\ config' \in Configs /\ good' \in Configs /\ registry' \subseteq Providers
        /\ Valid(good')
        /\ registry' = good'.supported
        /\ registry' # config'.supported => ~Valid(config')
        /\ Readable(main) /\ Readable(secrets) =>
              config'.keys = IF secrets = Missing THEN {} ELSE secrets.keys
    BY <2>1, <1>0, LoadStep
  <2>3. TypeOK'
    BY <2>1, <2>2, <1>0 DEF TypeOK, Disk
  <2>4. GoodIsValid' /\ AdaptersAreLastGood' /\ KeysAsLoaded'
    <3>1. loaded'.main = main /\ loaded'.secrets = secrets
      BY <2>1 DEF Disk
    <3> QED
      BY <2>2, <3>1 DEF GoodIsValid, AdaptersAreLastGood, KeysAsLoaded, Valid, Readable
  <2>5. NoChangeOverlooked'
    BY <2>1 DEF NoChangeOverlooked, Disk
  <2> QED
    BY <2>1, <2>3, <2>4, <2>5, <1>0 DEF IInv, WatchedLater
<1>5. ASSUME EditMain
      PROVE  IInv'
  <2>1. /\ edits < MaxEdits /\ edits' = edits + 1
        /\ main' \in MainContents \cup {Missing}
        /\ changed' = IF "main" \in watched THEN changed \cup {"main"} ELSE changed
        /\ missed' = missed \ changed'
        /\ UNCHANGED <<secrets, phase, watched, config, registry, good, loaded>>
    BY <1>5 DEF EditMain, Report
  <2>2. TypeOK'
    BY <2>1, <1>0 DEF TypeOK
  <2>3. GoodIsValid' /\ AdaptersAreLastGood' /\ KeysAsLoaded'
    BY <2>1, <1>0 DEF GoodIsValid, AdaptersAreLastGood, KeysAsLoaded, Running, Valid
  <2>4. NoChangeOverlooked'
    <3> SUFFICES ASSUME phase = "watching", NEW f \in watched \ (changed' \cup missed')
                 PROVE  loaded[f] = Disk'[f]
      BY <2>1 DEF NoChangeOverlooked
    <3>1. f = "secrets" /\ f \notin changed /\ f \notin missed
      BY <2>1, <1>0 DEF TypeOK, Files
    <3> QED
      BY <3>1, <2>1, <1>0 DEF NoChangeOverlooked, Disk
  <2> QED
    BY <2>1, <2>2, <2>3, <2>4, <1>0 DEF IInv, WatchedLater
<1>6. ASSUME EditSecrets
      PROVE  IInv'
  <2>1. /\ edits < MaxEdits /\ edits' = edits + 1
        /\ secrets' \in SecretContents \cup {Missing}
        /\ changed' = IF "secrets" \in watched THEN changed \cup {"secrets"} ELSE changed
        /\ missed' = missed \ changed'
        /\ UNCHANGED <<main, phase, watched, config, registry, good, loaded>>
    BY <1>6 DEF EditSecrets, Report
  <2>2. TypeOK'
    BY <2>1, <1>0 DEF TypeOK
  <2>3. GoodIsValid' /\ AdaptersAreLastGood' /\ KeysAsLoaded'
    BY <2>1, <1>0 DEF GoodIsValid, AdaptersAreLastGood, KeysAsLoaded, Running, Valid
  <2>4. NoChangeOverlooked'
    <3> SUFFICES ASSUME phase = "watching", NEW f \in watched \ (changed' \cup missed')
                 PROVE  loaded[f] = Disk'[f]
      BY <2>1 DEF NoChangeOverlooked
    <3>1. f = "main" /\ f \notin changed /\ f \notin missed
      BY <2>1, <1>0 DEF TypeOK, Files
    <3> QED
      BY <3>1, <2>1, <1>0 DEF NoChangeOverlooked, Disk
  <2> QED
    BY <2>1, <2>2, <2>3, <2>4, <1>0 DEF IInv, WatchedLater
<1>7. ASSUME UNCHANGED vars
      PROVE  IInv'
  BY <1>0, <1>7 DEF vars, IInv, TypeOK, WatchedLater, GoodIsValid, AdaptersAreLastGood,
     KeysAsLoaded, NoChangeOverlooked, Running, Valid, Disk
<1> QED
  BY <1>1, <1>2, <1>3, <1>4, <1>5, <1>6, <1>7 DEF Next

\* The invariant holds through every load that fails or not and every edit.
THEOREM Inductive == Spec => []IInv
  BY InitIInv, StepIInv, PTL DEF Spec

\* Type correctness: whatever edits do to the files, the application holds a
\* configuration.
THEOREM TypeCorrect == Spec => []TypeOK
<1>1. IInv => TypeOK
  BY DEF IInv
<1> QED
  BY <1>1, Inductive, PTL

\* The table of adapters is always the one of the last load that did not raise,
\* wherever load_config raised since then and whatever types of providers are
\* configured.
THEOREM AdaptersCorrect == Spec => []AdaptersAreLastGood
<1>1. IInv => AdaptersAreLastGood
  BY DEF IInv
<1> QED
  BY <1>1, Inductive, PTL

\* Once no change is pending the keys in force are those of the secrets file, also
\* after a load that raised half-way.
THEOREM KeysCorrect == Spec => []KeysAreThoseOnDisk
<1>1. IInv => KeysAreThoseOnDisk
  <2> SUFFICES ASSUME IInv, phase = "watching", watched = Files, changed \cup missed = {},
                      Readable(main), Readable(secrets)
               PROVE  config.keys = IF secrets = Missing THEN {} ELSE secrets.keys
    BY DEF KeysAreThoseOnDisk
  <2>1. loaded["main"] = Disk["main"] /\ loaded["secrets"] = Disk["secrets"]
    BY DEF IInv, NoChangeOverlooked, Files
  <2>2. loaded.main = main /\ loaded.secrets = secrets
    BY <2>1 DEF Disk
  <2> QED
    BY <2>2 DEF IInv, KeysAsLoaded, Running
<1> QED
  BY <1>1, Inductive, PTL

\* The watcher overlooks no edit of a file it watches.
THEOREM NoChangeCorrect == Spec => []NoChangeOverlooked
<1>1. IInv => NoChangeOverlooked
  BY DEF IInv
<1> QED
  BY <1>1, Inductive, PTL

----------------------------------------------------------------------------
(* The catalog *)

\* One lock, one fetch.
LockExcludes ==
    \A t, u \in Tasks :
        pc[t] = "fetching" /\ pc[u] = "fetching" /\ lock[t] = lock[u] => t = u

\* After a reload that no task overlapped with, all the tasks at work were given
\* the adapters it made, so what they will store is of this generation.
QuietTasksAreCurrent == quiet => \A t \in Tasks : AtWork(t) => adapter[t] = gen

\* After such a reload they also share the lock it made, ...
QuietTasksShareTheLock ==
    quiet => \A t \in Tasks : pc[t] \in {"queued", "fetching"} => lock[t] = gen

\* ... and who fetches found nothing fresh, which only that fetch will bring.
QuietFetchMisses == quiet => \A t \in Tasks : pc[t] = "fetching" => ~Hit

CatalogInv ==
    /\ CatalogTypeOK
    /\ LockExcludes
    /\ QuietTasksShareTheLock
    /\ QuietFetchMisses
    /\ QuietTasksAreCurrent
    /\ QuietReloadIsClean

LEMMA InitCatalogInv == CatalogInit => CatalogInv
  BY TTLAssumption, MaxGenAssumption
  DEF CatalogInit, CatalogInv, CatalogTypeOK, LockExcludes, QuietTasksAreCurrent,
      QuietTasksShareTheLock, QuietFetchMisses, QuietReloadIsClean, AtWork

LEMMA StepCatalogInv == CatalogInv /\ [CatalogNext]_catalogVars => CatalogInv'
<1> SUFFICES ASSUME CatalogInv, [CatalogNext]_catalogVars PROVE CatalogInv'
  OBVIOUS
<1> USE TTLAssumption, MaxGenAssumption
<1>0. /\ CatalogTypeOK /\ LockExcludes /\ QuietTasksAreCurrent /\ QuietReloadIsClean
      /\ QuietTasksShareTheLock /\ QuietFetchMisses
  BY DEF CatalogInv
<1>1. ASSUME NEW t \in Tasks, Create(t)
      PROVE  CatalogInv'
  <2> USE <1>0, <1>1 DEF Create
  <2>1. CatalogTypeOK'
    BY DEF CatalogTypeOK
  <2>2. LockExcludes'
    BY DEF CatalogTypeOK, LockExcludes
  <2>3. QuietTasksAreCurrent'
    BY DEF CatalogTypeOK, QuietTasksAreCurrent, AtWork
  <2>4. QuietReloadIsClean'
    BY DEF QuietReloadIsClean
  <2>6. QuietTasksShareTheLock'
    BY DEF CatalogTypeOK, QuietTasksShareTheLock
  <2>7. QuietFetchMisses'
    BY DEF CatalogTypeOK, QuietFetchMisses, Hit
  <2> QED
    BY <2>1, <2>2, <2>3, <2>4, <2>6, <2>7 DEF CatalogInv
<1>2. ASSUME NEW t \in Tasks, StartHit(t)
      PROVE  CatalogInv'
  <2> USE <1>0, <1>2 DEF StartHit, Return
  <2>1. CatalogTypeOK'
    BY DEF CatalogTypeOK
  <2>2. LockExcludes'
    BY DEF CatalogTypeOK, LockExcludes
  <2>3. QuietTasksAreCurrent'
    BY DEF CatalogTypeOK, QuietTasksAreCurrent, AtWork
  <2>4. QuietReloadIsClean'
    BY DEF QuietReloadIsClean
  <2>6. QuietTasksShareTheLock'
    BY DEF CatalogTypeOK, QuietTasksShareTheLock
  <2>7. QuietFetchMisses'
    BY DEF CatalogTypeOK, QuietFetchMisses, Hit
  <2> QED
    BY <2>1, <2>2, <2>3, <2>4, <2>6, <2>7 DEF CatalogInv
<1>3. ASSUME NEW t \in Tasks, StartFetch(t) \/ StartQueue(t)
      PROVE  CatalogInv'
  <2> USE <1>0, <1>3 DEF StartFetch, StartQueue
  <2>1. CatalogTypeOK'
    BY DEF CatalogTypeOK
  <2>2. LockExcludes'
    BY DEF CatalogTypeOK, LockExcludes, Fetching
  <2>3. QuietTasksAreCurrent'
    BY DEF CatalogTypeOK, QuietTasksAreCurrent, AtWork
  <2>4. QuietReloadIsClean'
    BY DEF QuietReloadIsClean
  <2>6. QuietTasksShareTheLock'
    BY DEF CatalogTypeOK, QuietTasksShareTheLock
  <2>7. QuietFetchMisses'
    BY DEF CatalogTypeOK, QuietFetchMisses, Hit
  <2> QED
    BY <2>1, <2>2, <2>3, <2>4, <2>6, <2>7 DEF CatalogInv
<1>4. ASSUME NEW t \in Tasks, Enter(t)
      PROVE  CatalogInv'
  <2> USE <1>0, <1>4 DEF Enter, Return
  <2>1. CatalogTypeOK'
    BY DEF CatalogTypeOK
  <2>2. LockExcludes'
    BY DEF CatalogTypeOK, LockExcludes, Fetching
  <2>3. QuietTasksAreCurrent'
    BY DEF CatalogTypeOK, QuietTasksAreCurrent, AtWork
  <2>4. QuietReloadIsClean'
    BY DEF QuietReloadIsClean
  <2>6. QuietTasksShareTheLock'
    BY DEF CatalogTypeOK, QuietTasksShareTheLock
  <2>7. QuietFetchMisses'
    BY DEF CatalogTypeOK, QuietFetchMisses, Hit
  <2> QED
    BY <2>1, <2>2, <2>3, <2>4, <2>6, <2>7 DEF CatalogInv
<1>5. ASSUME NEW t \in Tasks, Fetched(t)
      PROVE  CatalogInv'
  <2>1. PICK empty \in BOOLEAN : entry' = [gen |-> adapter[t], empty |-> empty]
    BY <1>5 DEF Fetched
  <2> USE <1>0, <1>5, <2>1 DEF Fetched, Return
  <2>2. CatalogTypeOK'
    <3>1. entry' \in Entries
      BY DEF CatalogTypeOK, Entries
    <3> QED
      BY <3>1 DEF CatalogTypeOK
  <2>3. LockExcludes'
    BY DEF CatalogTypeOK, LockExcludes
  <2>4. QuietTasksAreCurrent'
    BY DEF CatalogTypeOK, QuietTasksAreCurrent, AtWork
  <2>5. QuietReloadIsClean'
    BY DEF QuietReloadIsClean, QuietTasksAreCurrent, AtWork
  <2>6. QuietTasksShareTheLock'
    BY DEF CatalogTypeOK, QuietTasksShareTheLock
  <2>7. QuietFetchMisses'
    BY DEF CatalogTypeOK, QuietFetchMisses, QuietTasksShareTheLock, LockExcludes
  <2> QED
    BY <2>2, <2>3, <2>4, <2>5, <2>6, <2>7 DEF CatalogInv
<1>6. ASSUME NEW t \in Tasks, Fail(t)
      PROVE  CatalogInv'
  <2> USE <1>0, <1>6 DEF Fail
  <2>1. CatalogTypeOK'
    BY DEF CatalogTypeOK
  <2>2. LockExcludes'
    BY DEF CatalogTypeOK, LockExcludes
  <2>3. QuietTasksAreCurrent'
    BY DEF CatalogTypeOK, QuietTasksAreCurrent, AtWork
  <2>4. QuietReloadIsClean'
    BY DEF QuietReloadIsClean
  <2>6. QuietTasksShareTheLock'
    BY DEF CatalogTypeOK, QuietTasksShareTheLock
  <2>7. QuietFetchMisses'
    BY DEF CatalogTypeOK, QuietFetchMisses, Hit
  <2> QED
    BY <2>1, <2>2, <2>3, <2>4, <2>6, <2>7 DEF CatalogInv
<1>7. ASSUME Reload
      PROVE  CatalogInv'
  <2> USE <1>0, <1>7 DEF Reload, task
  <2>1. CatalogTypeOK'
    BY DEF CatalogTypeOK
  <2>2. LockExcludes'
    BY DEF LockExcludes
  <2>3. QuietTasksAreCurrent'
    BY DEF QuietTasksAreCurrent, AtWork
  <2>4. QuietReloadIsClean'
    BY DEF QuietReloadIsClean
  <2>6. QuietTasksShareTheLock'
    BY DEF QuietTasksShareTheLock, AtWork
  <2>7. QuietFetchMisses'
    BY DEF QuietFetchMisses, AtWork
  <2> QED
    BY <2>1, <2>2, <2>3, <2>4, <2>6, <2>7 DEF CatalogInv
<1>8. ASSUME Tick \/ UNCHANGED catalogVars
      PROVE  CatalogInv'
  <2> USE <1>0, <1>8 DEF Tick, task, catalogVars
  <2>1. CatalogTypeOK'
    BY DEF CatalogTypeOK
  <2>2. LockExcludes'
    BY DEF LockExcludes
  <2>3. QuietTasksAreCurrent'
    BY DEF QuietTasksAreCurrent, AtWork
  <2>4. QuietReloadIsClean'
    BY DEF QuietReloadIsClean
  <2>6. QuietTasksShareTheLock'
    BY DEF QuietTasksShareTheLock
  <2>7. QuietFetchMisses'
    BY DEF CatalogTypeOK, QuietFetchMisses, Hit
  <2> QED
    BY <2>1, <2>2, <2>3, <2>4, <2>6, <2>7 DEF CatalogInv
<1> QED
  BY <1>1, <1>2, <1>3, <1>4, <1>5, <1>6, <1>7, <1>8 DEF CatalogNext, Step

\* The invariant holds through every lookup and every reload that overlaps it or not.
THEOREM CatalogInductive == CatalogSpec => []CatalogInv
<1>1. CatalogInit => CatalogInv
  BY InitCatalogInv
<1>2. CatalogInv /\ [CatalogNext]_catalogVars => CatalogInv'
  BY StepCatalogInv
<1> QED
  BY <1>1, <1>2, PTL DEF CatalogSpec

\* Type correctness of the catalog cache, for every number of tasks and reloads.
THEOREM CatalogTypeCorrect == CatalogSpec => []CatalogTypeOK
<1>1. CatalogInv => CatalogTypeOK
  BY DEF CatalogInv
<1> QED
  BY <1>1, CatalogInductive, PTL

\* Unless a reload came while lookups were under way, the provider is asked by one
\* task at a time, and by none while what it said is fresh.
THEOREM SingleFlightCorrect == CatalogSpec => []SingleFlight
<1>1. CatalogInv => SingleFlight
  <2> DEFINE fetching == {t \in Tasks : pc[t] = "fetching"}
  <2> SUFFICES ASSUME CatalogInv, quiet
               PROVE  Cardinality(fetching) <= 1 /\ (Hit => fetching = {})
    BY DEF SingleFlight
  <2>1. Hit => fetching = {}
    BY DEF CatalogInv, QuietFetchMisses
  <2>2. CASE fetching = {}
    BY <2>1, <2>2, FS_EmptySet
  <2>3. CASE fetching # {}
    <3>1. PICK t : t \in fetching
      BY <2>3
    <3>2. fetching = {t}
      BY <3>1 DEF CatalogInv, LockExcludes, QuietTasksShareTheLock
    <3>3. Cardinality({t}) = 1
      BY FS_Singleton
    <3> QED
      BY <2>1, <3>2, <3>3
  <2> QED
    BY <2>2, <2>3
<1> QED
  BY <1>1, CatalogInductive, PTL

\* invalidate_model_catalog does its work when no lookup is under way: nothing a
\* replaced adapter fetched is in the cache afterwards, or ever gets there.
THEOREM QuietReloadCorrect == CatalogSpec => []QuietReloadIsClean
<1>1. CatalogInv => QuietReloadIsClean
  BY DEF CatalogInv
<1> QED
  BY <1>1, CatalogInductive, PTL

\* A task begins a fetch only if there is no fresh entry, whether it had to wait
\* for the lock or not.
THEOREM FetchCorrect == CatalogSpec => FetchOnlyOnMiss
<1>1. ASSUME CatalogInv, CatalogNext
      PROVE  \A t \in Tasks : pc'[t] = "fetching" /\ pc[t] # "fetching" => ~Hit
  BY <1>1
  DEF CatalogInv, CatalogTypeOK, CatalogNext, Step, Create, StartHit, StartFetch,
      StartQueue, Enter, Fetched, Fail, Return, Reload, Tick, task
<1>2. CatalogInv /\ [CatalogNext]_catalogVars
        => [\A t \in Tasks : pc'[t] = "fetching" /\ pc[t] # "fetching" =>
                ~Hit]_catalogVars
  BY <1>1
<1> QED
  BY <1>2, CatalogInductive, PTL DEF CatalogSpec, FetchOnlyOnMiss
============================================================================
