---------------------------- MODULE ConfigReload ----------------------------
(***************************************************************************)
(* Startup and hot reload of the configuration: load_config                *)
(* (config/loader.py), the file watcher (config/watcher.py), the admin     *)
(* endpoint and the lifespan of app.py, and the table of adapters          *)
(* (adapters/registry.py) rebuilt after each load.                         *)
(*                                                                         *)
(* A reload has no await in it, so it is one step; what makes it hard is   *)
(* that it can raise between its assignments, that files change at any     *)
(* moment and are noticed later or never, and that two files and two       *)
(* triggers are involved.  watchfiles is external: it reports a change in  *)
(* a watched directory some time after it happened.                        *)
(*                                                                         *)
(* A file is abstracted to what a load tells apart: whether it can be      *)
(* parsed and has the shape asked for, the providers it defines, those of  *)
(* them whose type there is an adapter for, and those its model_mappings   *)
(* refer to; for the secrets file, its keys.                               *)
(***************************************************************************)
EXTENDS Integers, FiniteSets

CONSTANTS
    Providers, Keys,
    MainContents,       \* what an edit may leave in config.yml
    SecretContents,     \* what an edit may leave in config.secrets.yml
    Missing,            \* there is no such file
    MaxEdits            \* bound on the number of edits

ASSUME MainAssumption ==
    /\ MainContents \subseteq [wellFormed : BOOLEAN, providers : SUBSET Providers,
                               supported : SUBSET Providers, mapped : SUBSET Providers]
    /\ \A m \in MainContents : m.supported \subseteq m.providers
ASSUME SecretAssumption ==
    SecretContents \subseteq [wellFormed : BOOLEAN, keys : SUBSET Keys]
ASSUME MissingAssumption == Missing \notin MainContents \cup SecretContents
ASSUME EditsAssumption == MaxEdits \in Nat

Files == {"main", "secrets"}

VARIABLES
    main,       \* config.yml on disk
    secrets,    \* config.secrets.yml on disk
    phase,      \* of the process: "starting", "loaded", "watching", "failed"
    watched,    \* config_basenames of _watch_loop
    changed,    \* changes watchfiles has still to report
    config,     \* _app_config
    registry,   \* the providers with an adapter in _registry
    good,       \* the configuration of the last load that did not raise (history)
    loaded,     \* the files as the last load found them (history)
    missed,     \* files edited between the first load and the watcher (history)
    edits       \* edits made

disk == <<main, secrets, edits>>
vars == <<main, secrets, phase, watched, changed, config, registry, good, loaded, missed, edits>>

Configs == [providers : SUBSET Providers, supported : SUBSET Providers,
            mapped : SUBSET Providers, keys : SUBSET Keys]

Empty == [providers |-> {}, supported |-> {}, mapped |-> {}, keys |-> {}]

Disk == [main |-> main, secrets |-> secrets]

TypeOK ==
    /\ main \in MainContents \cup {Missing}
    /\ secrets \in SecretContents \cup {Missing}
    /\ phase \in {"starting", "loaded", "watching", "failed"}
    /\ watched \subseteq Files
    /\ changed \subseteq watched
    /\ config \in Configs
    /\ registry \subseteq Providers
    /\ good \in Configs
    /\ missed \subseteq Files
    /\ loaded \in [main : MainContents \cup {Missing},
                   secrets : SecretContents \cup {Missing}]
    /\ edits \in 0 .. MaxEdits

----------------------------------------------------------------------------
(* load_config, build_registry, build_rate_limiters *)

\* _load_yaml raises on a file it cannot parse and AppConfig on one without
\* the shape it asks for; a file that does not exist reads as an empty one.
Readable(f) == f # Missing => f.wellFormed

\* The configuration the two files describe.
ConfigOf(m, s) ==
    [providers |-> IF m = Missing THEN {} ELSE m.providers,
     supported |-> IF m = Missing THEN {} ELSE m.supported,
     mapped    |-> IF m = Missing THEN {} ELSE m.mapped,
     keys      |-> IF s = Missing THEN {} ELSE s.keys]

\* _validate_model_mappings: each mapping names a provider of the file, whatever
\* its type.
Valid(c) == c.mapped \subseteq c.providers

\* A file cannot be read: load_config raises before it assigns anything.
LoadUnreadable ==
    /\ ~(Readable(main) /\ Readable(secrets))
    /\ UNCHANGED <<config, registry, good>>

\* Mutant: the adapters are built before the mappings are validated.
LoadInvalidAndBuild ==
    /\ Readable(main) /\ Readable(secrets)
    /\ ~Valid(ConfigOf(main, secrets))
    /\ config' = ConfigOf(main, secrets)
    /\ registry' = config'.supported
    /\ UNCHANGED good

\* Mutant: the mappings are validated before the configuration is assigned.
LoadInvalidAndKeep ==
    /\ Readable(main) /\ Readable(secrets)
    /\ ~Valid(ConfigOf(main, secrets))
    /\ UNCHANGED <<config, registry, good>>

\* A mapping names an unknown provider: load_config has assigned _app_config
\* when it raises, and the adapters are not rebuilt.
LoadInvalid ==
    /\ Readable(main) /\ Readable(secrets)
    /\ ~Valid(ConfigOf(main, secrets))
    /\ config' = ConfigOf(main, secrets)
    /\ UNCHANGED <<registry, good>>

\* Mutant: adapters are added for new providers, none is taken away.
LoadGoodAndKeep ==
    /\ Readable(main) /\ Readable(secrets)
    /\ Valid(ConfigOf(main, secrets))
    /\ config' = ConfigOf(main, secrets)
    /\ registry' = registry \cup config'.supported
    /\ good' = config'

\* All is well: the configuration is replaced, and the adapters by one for each
\* provider of type openai_compatible; another type is logged and passed over.
LoadGood ==
    /\ Readable(main) /\ Readable(secrets)
    /\ Valid(ConfigOf(main, secrets))
    /\ config' = ConfigOf(main, secrets)
    /\ registry' = config'.supported
    /\ good' = config'

Load ==
    /\ LoadUnreadable \/ LoadInvalid \/ LoadGood
    /\ loaded' = Disk
    /\ missed' = {}

----------------------------------------------------------------------------
(* The lifespan of the application. *)

\* load_config and the builders succeed; the watcher task is created.
Startup ==
    /\ phase = "starting"
    /\ LoadGood
    /\ loaded' = Disk
    /\ phase' = "loaded"
    /\ UNCHANGED <<disk, watched, changed, missed>>

\* load_config raises: the application does not start.
StartupFails ==
    /\ phase = "starting"
    /\ LoadUnreadable \/ LoadInvalid
    /\ loaded' = Disk
    /\ phase' = "failed"
    /\ UNCHANGED <<disk, watched, changed, missed>>

\* The watcher task runs: it picks its files, the secrets file only if there
\* is one now, and from here on changes are reported.
WatcherStarts ==
    /\ phase = "loaded"
    /\ watched' = IF secrets = Missing THEN {"main"} ELSE Files
    /\ missed' = {f \in Files : loaded[f] # Disk[f]}
    /\ phase' = "watching"
    /\ UNCHANGED <<disk, changed, config, registry, good, loaded>>

\* Mutant: changes to the secrets file alone are not thought relevant.
WatcherReloadsForMain ==
    /\ phase = "watching" /\ changed # {}
    /\ changed' = {}
    /\ IF "main" \in changed THEN Load ELSE UNCHANGED <<config, registry, good, loaded, missed>>
    /\ UNCHANGED <<disk, phase, watched>>

\* awatch reports changes of watched files; errors of the reload are logged.
WatcherReloads ==
    /\ phase = "watching" /\ changed # {}
    /\ changed' = {}
    /\ Load
    /\ UNCHANGED <<disk, phase, watched>>

\* POST /admin/reload-config: the same calls (an error is answered with 500).
AdminReload ==
    /\ phase \in {"loaded", "watching"}
    /\ Load
    /\ UNCHANGED <<disk, phase, watched, changed>>

----------------------------------------------------------------------------
(* The operator, or an editor, changes a file (a write that is not atomic is *)
(* two edits, the first of which leaves a broken or missing file).            *)

Report(f) == IF f \in watched THEN changed \cup {f} ELSE changed

EditMain ==
    /\ edits < MaxEdits
    /\ main' \in (MainContents \cup {Missing}) \ {main}
    /\ changed' = Report("main")
    /\ missed' = missed \ changed'
    /\ edits' = edits + 1
    /\ UNCHANGED <<secrets, phase, watched, config, registry, good, loaded>>

EditSecrets ==
    /\ edits < MaxEdits
    /\ secrets' \in (SecretContents \cup {Missing}) \ {secrets}
    /\ changed' = Report("secrets")
    /\ missed' = missed \ changed'
    /\ edits' = edits + 1
    /\ UNCHANGED <<main, phase, watched, config, registry, good, loaded>>

Init ==
    /\ main \in MainContents \cup {Missing}
    /\ secrets \in SecretContents \cup {Missing}
    /\ phase = "starting"
    /\ watched = {} /\ changed = {}
    /\ config = Empty /\ good = Empty /\ registry = {}
    /\ loaded = Disk
    /\ missed = {}
    /\ edits = 0

Next ==
    \/ Startup \/ StartupFails
    \/ WatcherStarts \/ WatcherReloads
    \/ AdminReload
    \/ EditMain \/ EditSecrets

Spec == Init /\ [][Next]_vars

\* watchfiles reports what it has seen, and the watcher task is scheduled.
FairSpec == Spec /\ WF_vars(WatcherReloads) /\ WF_vars(WatcherStarts)

----------------------------------------------------------------------------
(* Properties *)

Running == phase \in {"loaded", "watching"}

\* The adapters are those the last load that succeeded asked for and could be built;
\* they differ from what the configuration in force asks for only while that one is
\* invalid, and the next good load brings the two together again.
AdaptersAreLastGood ==
    Running =>
        /\ registry = good.supported
        /\ registry # config.supported => ~Valid(config)

\* A key taken from the secrets file is refused, and one added is accepted, as soon as
\* the change is seen: also when the reload is logged as failed because a mapping names
\* an unknown provider.  Only a file that cannot be read keeps the keys of before.
KeysAreThoseOnDisk ==
    /\ phase = "watching" /\ watched = Files /\ changed \cup missed = {}
    /\ Readable(main) /\ Readable(secrets)
    => config.keys = IF secrets = Missing THEN {} ELSE secrets.keys

\* No change is overlooked once the watcher runs: what the last load saw of a
\* watched file is what the file holds, or a change of it is still going to be
\* reported -- but for an edit between the first load and the watcher's start.
NoChangeOverlooked ==
    phase = "watching" =>
        \A f \in watched \ (changed \cup missed) : loaded[f] = Disk[f]

\* What the files can describe.
Described == {ConfigOf(m, s) : m \in MainContents \cup {Missing},
                               s \in SecretContents \cup {Missing}}

\* The watched files are in force in the end: when edits have ceased and the
\* files make a valid configuration, it becomes the active one and the adapters are
\* those of its providers that can have one, whatever broken or half-written states
\* were there before.
EditsTakeEffect ==
    \A c \in Described :
        (/\ changed # {} /\ edits = MaxEdits
         /\ Readable(main) /\ Readable(secrets)
         /\ ConfigOf(main, secrets) = c /\ Valid(c))
        ~> (config = c /\ registry = c.supported)

\* What the documentation promises and the code does not do; see README.md.

\* "Parse / reload errors are logged but never propagate -- the last-known-good
\* config stays active."
LastKnownGoodStaysActive ==
    [][WatcherReloads => config' \in {config, good'}]_vars

\* "Monitors config.yml and config.secrets.yml for changes and reloads the application
\* configuration ... automatically", "ensuring changes are always picked up": of either
\* file, what the last load saw is what it holds, or the change will be reported.
ChangesAreAlwaysPickedUp ==
    phase = "watching" => \A f \in Files \ changed : loaded[f] = Disk[f]

=============================================================================
