------------------------------- MODULE Installer -------------------------------
(***************************************************************************)
(* Installing and updating a runtime (installers.ts, update.ts): an        *)
(* install writes its files under the runtime's root one after another,    *)
(* tells the host of them in files the host owns too (Hermes' config.yaml  *)
(* and cron/jobs.json), and enters itself in the registry of installations *)
(* last.  An update installs again what the registry lists.  Nothing locks *)
(* the host's files or the registry: each is read, changed and written     *)
(* back.                                                                   *)
(*                                                                         *)
(* A write of a file is one step; of the plugins' files and of the         *)
(* installation's own the model keeps that they have been written.  The    *)
(* edit of config.yaml is modelled for plugin lists with an item to a line *)
(* at any indent, for lists in brackets and for none; not for keys that    *)
(* are indented otherwise, or for a plugins map in braces.                 *)
(***************************************************************************)
EXTENDS Naturals, FiniteSets, Sequences

CONSTANTS
  Operators,       \* processes that install or update
  Asked,           \* the installs that may be asked for: see Installs
  MaxJobs,         \* bound on installs and updates
  MaxBreaks        \* bound on installs that stop half way

Runtimes == {"openclaw", "hermes"}
InstallModes == {"provider", "bridge", "both"}
\* rooted: whether the runtime's root directory is given.
Installs == [runtime : Runtimes, mode : InstallModes, rooted : BOOLEAN]

ASSUME InstallerAssumption ==
  /\ Asked \subseteq Installs
  /\ \A i \in Asked : i.runtime = "openclaw" => i.mode = "bridge"
  /\ MaxJobs \in Nat /\ MaxBreaks \in Nat

VARIABLES
  configured,      \* whether the Cristalina config exists
  shim,            \* the `cristalina` command: "none", "foreign" or "managed"
  placed,          \* the files installs have written
  yaml,            \* Hermes' config.yaml, or Missing: see Yaml
  cron,            \* Hermes' cron jobs, Missing, or Invalid
  channels,        \* how many channels Hermes knows
  registry,        \* what is entered for each runtime: an install, or Missing
  worker,          \* what each operator is doing
  jobs, breaks,    \* installs and updates asked for so far; those that stopped
  hadJobs,         \* whether Hermes had cron jobs of its own from the start
  overlapped,      \* whether two were ever under way at once
  lastDone          \* the last Hermes install, once it ended well, or Missing

hostFiles == <<shim, placed, yaml, cron, registry>>
installHistory == <<channels, hadJobs, jobs, breaks, overlapped, lastDone>>
installVars == <<configured, hostFiles, worker, installHistory>>

Plugins == {"own", "bridge", "gateway"}
\* listed: the lines of the enabled list; indented: whether the host's are indented deeper
\* than those an install adds; folded: the added plugin whose line they continue;
\* disabled: the disabled list, an item to a line; barred: one in brackets.
Yaml ==
  [provider : {"none", "other", "cristalina"}, listed : SUBSET Plugins, indented : BOOLEAN,
   folded : SUBSET Plugins, disabled : SUBSET Plugins, barred : SUBSET Plugins]
HostYaml ==
  [provider |-> "none", listed |-> {"own"}, indented |-> FALSE, folded |-> {},
   disabled |-> {}, barred |-> {}]

Missing == [kind |-> "missing"]
Invalid == [kind |-> "invalid"]

\* The files of the three plugins, of the nightly memory cycle, and of any install.
FileSteps ==
  {"metadata", "hook", "bridge_plugin", "gateway_plugin", "provider_plugin",
   "provider_config", "reset_tips", "consolidation", "maturation", "memory_cycle"}
Under(r, names) == {<<r, n>> : n \in names}
BridgeFiles == Under("hermes", {"bridge_plugin"})
ProviderFiles == Under("hermes", {"gateway_plugin", "provider_plugin", "provider_config"})
CycleFiles ==
  Under("hermes", {"reset_tips", "consolidation", "maturation", "memory_cycle"})
HookFiles(r) == Under(r, {"metadata", "hook"})
FileNames == Runtimes \X FileSteps

Bridges(i) == i.runtime = "hermes" /\ i.rooted /\ i.mode \in {"bridge", "both"}
Provides(i) == i.runtime = "hermes" /\ i.rooted /\ i.mode \in {"provider", "both"}

\* What the metadata of an install names: the hook, and the plugin files of its mode.
Named(i) ==
  HookFiles(i.runtime)
    \cup (IF Bridges(i) THEN BridgeFiles ELSE {})
    \cup (IF Provides(i) THEN ProviderFiles \cup CycleFiles ELSE {})

\* The steps of an install, in order: what it writes, or what it reads and then writes.
Steps(i) ==
  <<"config", "shim", "metadata", "hook">>
    \o (IF Bridges(i) THEN <<"bridge_plugin", "read_yaml", "enable_bridge">> ELSE <<>>)
    \o (IF Provides(i)
        THEN <<"gateway_plugin", "provider_plugin", "provider_config", "reset_tips",
               "consolidation", "maturation", "memory_cycle", "read_cron", "upsert_cron",
               "read_yaml", "configure_provider", "read_yaml", "enable_gateway">>
        ELSE <<>>)
    \o <<"read_registry", "record_installation">>

Free == [todo |-> {}, steps |-> <<>>, seen |-> Missing]
Busy(o) == worker[o] # Free
\* Whether o's next step is one of S, and the install it works on.
NextStep(o, S) == worker[o].steps # <<>> /\ Head(worker[o].steps) \in S
InstallOf(o) == worker[o].install

\* Nothing has been installed before, or OpenClaw has.
NoneBefore ==
  /\ configured \in BOOLEAN /\ shim \in {"none", "foreign"}
  /\ placed = {} /\ registry = [r \in Runtimes |-> Missing]
OpenClawBefore(i) ==
  /\ i.runtime = "openclaw"
  /\ configured = TRUE /\ shim \in {"foreign", "managed"}
  /\ placed = Named(i)
  /\ registry = [r \in Runtimes |-> IF r = i.runtime THEN i ELSE Missing]

InstallerInit ==
  /\ NoneBefore \/ \E i \in Asked : OpenClawBefore(i)
  /\ \/ yaml = Missing
     \/ \E deep \in BOOLEAN :
          yaml = [HostYaml EXCEPT !.provider = "other", !.indented = deep]
     \/ yaml = [HostYaml EXCEPT !.disabled = {"bridge"}]
     \/ yaml = [HostYaml EXCEPT !.barred = {"bridge"}]
  /\ cron \in {Missing, Invalid, [names |-> {"own", "legacy"}, deliver |-> "local"]}
  /\ channels \in {1, 2}
  /\ hadJobs = (cron \notin {Missing, Invalid})
  /\ worker = [o \in Operators |-> Free]
  /\ jobs = 0 /\ breaks = 0 /\ overlapped = FALSE /\ lastDone = Missing

\* o begins to work on the set of installs S.
BeginJob(o, S) ==
  /\ ~Busy(o) /\ jobs < MaxJobs
  /\ jobs' = jobs + 1
  /\ overlapped' = (overlapped \/ \E q \in Operators : Busy(q))
  /\ worker' = [worker EXCEPT ![o] = [Free EXCEPT !.todo = S]]
  /\ UNCHANGED <<configured, hostFiles, channels, hadJobs, breaks, lastDone>>

\* cristalina install.
AskInstall(o) == \E i \in Asked : BeginJob(o, {i})

\* cristalina update: of the runtimes the registry lists, or of one of them that is named,
\* which Hermes must have a root for; a mode that is named is used for all.  Naming one
\* that is not listed is an install.
ConfigFound == configured
Registered == {registry[r] : r \in Runtimes} \ {Missing}
UpdateTargets(r, m) ==
  LET entries == {i \in Registered : r \in {"all", i.runtime}}
  IN {[i EXCEPT !.mode = IF m = "as_registered" \/ i.runtime = "openclaw" THEN i.mode ELSE m]
       : i \in entries}
AskUpdate(o) ==
  \E r \in Runtimes \cup {"all"}, m \in InstallModes \cup {"as_registered"} :
    /\ ConfigFound
    /\ UpdateTargets(r, m) # {}
    /\ r = "hermes" => \A i \in UpdateTargets(r, m) : i.rooted
    /\ BeginJob(o, UpdateTargets(r, m))

\* o takes up its next install.
StartInstall(o) ==
  /\ worker[o].steps = <<>>
  /\ \E i \in worker[o].todo :
       /\ worker' = [worker EXCEPT ![o] =
            [install |-> i, todo |-> @.todo \ {i}, steps |-> Steps(i), seen |-> Missing]]
       /\ lastDone' = IF i.runtime = "hermes" THEN Missing ELSE lastDone
  /\ UNCHANGED <<configured, hostFiles, channels, hadJobs, jobs, breaks, overlapped>>

\* o goes on to its next step with what it has read.
Stepped(w, read) == [w EXCEPT !.steps = Tail(@), !.seen = read]
Advance(o, read) == worker' = [worker EXCEPT ![o] = Stepped(@, read)]

\* A missing config is created, and the store with it.
CreateConfig(o) ==
  /\ NextStep(o, {"config"})
  /\ configured' = TRUE
  /\ Advance(o, Missing)
  /\ UNCHANGED <<hostFiles, installHistory>>

\* A command of that name that is not Cristalina's is left alone.
PlaceShim(o) ==
  /\ NextStep(o, {"shim"})
  /\ shim' = IF shim = "foreign" THEN shim ELSE "managed"
  /\ Advance(o, Missing)
  /\ UNCHANGED <<configured, placed, yaml, cron, registry, installHistory>>

\* The file of a step is written whether or not it is there.
PlaceFile(o) ==
  /\ NextStep(o, FileSteps)
  /\ placed' = placed \cup {<<InstallOf(o).runtime, Head(worker[o].steps)>>}
  /\ Advance(o, Missing)
  /\ UNCHANGED <<configured, shim, yaml, cron, registry, installHistory>>

-----------------------------------------------------------------------------
(* The host's files. *)

ReadYaml(o) ==
  /\ NextStep(o, {"read_yaml"})
  /\ Advance(o, yaml)
  /\ UNCHANGED <<configured, hostFiles, installHistory>>

\* A plugin that no line names is added at the head of the list, at an indent of two.  If
\* the host's own line there is indented deeper it becomes part of the added one.
Folds(y, p) == IF y.indented /\ y.folded = {} THEN {p} ELSE y.folded
AddPlugin(y, p) ==
  [y EXCEPT !.disabled = @ \ {p},
            !.listed = @ \cup {p},
            !.folded = IF p \in y.listed THEN @ ELSE Folds(y, p)]
\* Once the line it is part of is gone the host's line is part of the one above, if any.
RemovePlugin(y, p) ==
  [y EXCEPT !.listed = @ \ {p},
            !.folded = IF p \in @ THEN y.listed \ {p, "own"} ELSE @]
\* The plugins Hermes reads in the enabled list: of lines folded into one it reads neither.
Enabled(y) == IF y.folded = {} THEN y.listed ELSE y.listed \ (y.folded \cup {"own"})
SetProvider(y) == [y EXCEPT !.provider = "cristalina"]

\* As YamlAfter, but the bridge plugin stays enabled beside the provider.
YamlKeepsBridge(o) ==
  LET s == Head(worker[o].steps)
      y == worker[o].seen
  IN CASE s = "enable_bridge" -> AddPlugin(y, "bridge")
       [] s = "enable_gateway" -> AddPlugin(y, "gateway")
       [] s = "configure_provider" -> SetProvider(y)

\* What a step makes of the config.yaml it has read.
YamlAfter(o) ==
  LET s == Head(worker[o].steps)
      y == worker[o].seen
  IN CASE s = "enable_bridge" -> AddPlugin(y, "bridge")
       [] s = "enable_gateway" -> AddPlugin(y, "gateway")
       [] s = "configure_provider" ->
            IF InstallOf(o).mode = "provider" THEN RemovePlugin(SetProvider(y), "bridge")
            ELSE SetProvider(y)

\* A file that is missing, or needs no change, is not written.
ChangeYaml(o) ==
  /\ NextStep(o, {"enable_bridge", "enable_gateway", "configure_provider"})
  /\ yaml' = IF worker[o].seen = Missing \/ YamlAfter(o) = worker[o].seen THEN yaml
             ELSE YamlAfter(o)
  /\ Advance(o, Missing)
  /\ UNCHANGED <<configured, shim, placed, cron, registry, installHistory>>

\* Jobs that cannot be read end the install, with all written so far in place.
ReadCron(o) ==
  /\ NextStep(o, {"read_cron"})
  /\ IF cron = Invalid THEN worker' = [worker EXCEPT ![o] = Free] ELSE Advance(o, cron)
  /\ UNCHANGED <<configured, hostFiles, installHistory>>

\* Reports go to the one channel there is; a job that has a channel keeps it.
Delivery(old) ==
  IF old = "origin" \/ channels = 1 THEN "origin" ELSE "local"
\* The cycle's job replaces the jobs of its phases and itself; other jobs stay.
UpsertedCron(old) ==
  IF old = Missing THEN [names |-> {"cycle"}, deliver |-> Delivery("local")]
  ELSE [names |-> (old.names \ {"legacy"}) \cup {"cycle"}, deliver |-> Delivery(old.deliver)]
UpsertCron(o) ==
  /\ NextStep(o, {"upsert_cron"})
  /\ cron' = UpsertedCron(worker[o].seen)
  /\ Advance(o, Missing)
  /\ UNCHANGED <<configured, shim, placed, yaml, registry, installHistory>>

ReadRegistry(o) ==
  /\ NextStep(o, {"read_registry"})
  /\ Advance(o, registry)
  /\ UNCHANGED <<configured, hostFiles, installHistory>>

\* The entry of the runtime is replaced, the others are written as they were read.
RecordInstallation(o) ==
  /\ NextStep(o, {"record_installation"})
  /\ registry' = [worker[o].seen EXCEPT ![InstallOf(o).runtime] = InstallOf(o)]
  /\ worker' = [worker EXCEPT ![o] = [Free EXCEPT !.todo = worker[o].todo]]
  /\ lastDone' = IF InstallOf(o).runtime = "hermes" THEN InstallOf(o) ELSE lastDone
  /\ UNCHANGED <<configured, shim, placed, yaml, cron, channels, hadJobs, jobs, breaks,
                 overlapped>>

\* An install or update stops where it is.
StopInstall(o) ==
  /\ worker[o].steps # <<>> /\ breaks < MaxBreaks
  /\ breaks' = breaks + 1
  /\ worker' = [worker EXCEPT ![o] = Free]
  /\ UNCHANGED <<configured, hostFiles, channels, hadJobs, jobs, overlapped, lastDone>>

InstallerNext ==
  \E o \in Operators :
    \/ AskInstall(o)
    \/ AskUpdate(o)
    \/ StartInstall(o)
    \/ CreateConfig(o)
    \/ PlaceShim(o)
    \/ PlaceFile(o)
    \/ ReadYaml(o)
    \/ ChangeYaml(o)
    \/ ReadCron(o)
    \/ UpsertCron(o)
    \/ ReadRegistry(o)
    \/ RecordInstallation(o)
    \/ StopInstall(o)

InstallerRests == jobs = MaxJobs /\ \A o \in Operators : ~Busy(o)

-----------------------------------------------------------------------------
InstallerTypeOK ==
  /\ configured \in BOOLEAN /\ overlapped \in BOOLEAN
  /\ shim \in {"none", "foreign", "managed"}
  /\ placed \subseteq FileNames
  /\ yaml \in Yaml \cup {Missing}
  /\ registry \in [Runtimes -> Installs \cup {Missing}]
  /\ lastDone \in Installs \cup {Missing}
  /\ jobs \in 0 .. MaxJobs /\ breaks \in 0 .. MaxBreaks

Placed(F) == F \subseteq placed
JobNamed(n) == cron \notin {Missing, Invalid} /\ n \in cron.names

\* Whatever the host is told to load or run, and whatever the registry lists, has been
\* written, wherever an install stops and however two of them overlap.
ToldIsInstalled ==
  /\ yaml # Missing =>
       /\ "bridge" \in yaml.listed => Placed(BridgeFiles)
       /\ "gateway" \in yaml.listed => Placed(ProviderFiles)
       /\ yaml.provider = "cristalina" => Placed(ProviderFiles \cup CycleFiles)
  /\ JobNamed("cycle") => Placed(ProviderFiles \cup CycleFiles) /\ ~JobNamed("legacy")
  /\ \A i \in Registered : configured /\ Placed(Named(i))

\* Whether y turns on an installed plugin, as far as an install edits it: a disabled list
\* in brackets stays as it is.
Turned(y, p) ==
  p \in y.listed \ y.disabled /\ (~y.indented => p \in Enabled(y))

\* The host's own plugin and cron job stay, and unless its plugins are indented deeper the
\* host still reads the plugin.
HostKeepsItsOwn ==
  /\ yaml # Missing => "own" \in yaml.listed /\ (~yaml.indented => "own" \in Enabled(yaml))
  /\ hadJobs => JobNamed("own")

\* When no two overlapped, the last install of Hermes stands: it is registered with its
\* mode, its plugins are listed as enabled and not as disabled, and in provider mode the
\* bridge is not listed beside the provider.  Hermes reads the plugins unless its own are
\* indented deeper.
LastInstallStands ==
  lastDone # Missing /\ ~overlapped =>
    /\ registry["hermes"] = lastDone
    /\ Provides(lastDone) /\ yaml # Missing =>
         /\ yaml.provider = "cristalina"
         /\ Turned(yaml, "gateway")
         /\ "bridge" \in yaml.listed => lastDone.mode = "both"
    /\ Bridges(lastDone) /\ yaml # Missing => Turned(yaml, "bridge")

InstallSound == ToldIsInstalled /\ HostKeepsItsOwn /\ LastInstallStands
=============================================================================
