---------------------------- MODULE ProjectPlugins ----------------------------
(***************************************************************************)
(* Plugins of one workspace, bound to one of its projects.                 *)
(*                                                                         *)
(* An administrator installs, revokes and restores a manifest under a lock *)
(* on its installation; an editor binds it to the project under a lock on  *)
(* the project.  The two locks do not exclude each other: a request that   *)
(* enables a plugin reads its installation without locking it.  What has   *)
(* to survive is that the plugins a generation may use never provide the   *)
(* same capability twice.  A job is frozen with them when it is requested, *)
(* and they are resolved again when it runs and when its revision is       *)
(* published.                                                              *)
(***************************************************************************)
EXTENDS Naturals, FiniteSets

CONSTANTS
    Manifests,      \* the builtin manifests: exact versions of plugins
    PluginOf,       \* the plugin id of each
    CapabilitiesOf, \* the capability keys of each, renderers left out
    InstallKeys,    \* idempotency keys of installations
    BindKeys,       \* idempotency keys of bindings
    NoKeyYet,
    NoTheme,        \* a job whose theme is no plugin's
    MaxBindingVersion \* bound: versionNumber of a binding

ASSUME ProjectPluginsAssumption ==
    /\ DOMAIN PluginOf = Manifests /\ DOMAIN CapabilitiesOf = Manifests
    /\ NoKeyYet \notin InstallKeys \cup BindKeys
    /\ NoTheme \notin Manifests
    /\ MaxBindingVersion \in Nat

VARIABLES
    installation,   \* plugin_installations.status of each manifest
    installKey,     \* and its idempotency_key
    revocation,     \* the uncommitted transaction revoking it
    binding,        \* project_plugin_bindings of each manifest
    binder,         \* the transaction that holds the project's lock
    pluginJob       \* a job with its plugin_context

bindingVars == <<installation, installKey, revocation, binding, binder>>
projectPluginsVars == <<bindingVars, pluginJob>>

InstallationStatuses == {"absent", "installed", "revoked", "incompatible"}
NoBinding == [status |-> "none", version |-> 0, key |-> NoKeyYet]
Unlocked == [at |-> "free"]
NoPluginJob == [at |-> "none", theme |-> NoTheme, plugins |-> {}]

EnabledBindings == {m \in Manifests : binding[m].status = "enabled"}

\* enabledPluginRecords: what the resolution of a generation's context reads.
UsablePlugins == {m \in EnabledBindings : installation[m] = "installed"}

\* buildCapabilityCatalog(manifests).conflicts is not empty.
Conflicting(ms) ==
    \E m \in ms, n \in ms : m # n /\ CapabilitiesOf[m] \cap CapabilitiesOf[n] # {}

\* The shape of the state.
ProjectPluginsTypeOK ==
    /\ installation \in [Manifests -> InstallationStatuses]
    /\ installKey \in [Manifests -> InstallKeys \cup {NoKeyYet}]
    /\ revocation \in [Manifests -> {"none", "marking", "disabling"}]
    /\ binding \in [Manifests -> [status : {"none", "enabled", "disabled"},
                                  version : 0 .. MaxBindingVersion,
                                  key : BindKeys \cup {NoKeyYet}]]
    /\ binder.at \in {"free", "read", "check", "write"}
    /\ pluginJob \in [at : {"none", "frozen", "drafted"},
                      theme : Manifests \cup {NoTheme}, plugins : SUBSET Manifests]

ProjectPluginsInit ==
    /\ installation = [m \in Manifests |-> "absent"]
    /\ installKey = [m \in Manifests |-> NoKeyYet]
    /\ revocation = [m \in Manifests |-> "none"]
    /\ binding = [m \in Manifests |-> NoBinding]
    /\ binder = Unlocked
    /\ pluginJob = NoPluginJob

-----------------------------------------------------------------------------
(* The administrator *)

\* No other transaction holds the row of the installation.
InstallationUnlocked(m) == revocation[m] = "none"

\* A key that is known answers with its installation, or refuses another
\* manifest; an installed manifest is answered as it is: neither writes.
InstallPlugin(m, k) ==
    /\ \A n \in Manifests : installKey[n] # k
    /\ installation[m] # "installed"
    /\ InstallationUnlocked(m)
    /\ installation' = [installation EXCEPT ![m] = "installed"]
    /\ installKey' = [installKey EXCEPT ![m] = k]
    /\ UNCHANGED <<revocation, binding, binder, pluginJob>>

\* The row is locked, and the bindings seen enabled are disabled in the same
\* transaction: their rows are locked until it commits.
StartRevoking(m) ==
    /\ InstallationUnlocked(m)
    /\ installation[m] \in {"installed", "incompatible"}
    /\ revocation' = [revocation EXCEPT
            ![m] = IF m \in EnabledBindings THEN "disabling" ELSE "marking"]
    /\ UNCHANGED <<installation, installKey, binding, binder, pluginJob>>

CommitRevocation(m) ==
    /\ ~InstallationUnlocked(m)
    /\ revocation[m] = "disabling" => binding[m].version < MaxBindingVersion
    /\ installation' = [installation EXCEPT ![m] = "revoked"]
    /\ binding' = IF revocation[m] = "disabling"
                  THEN [binding EXCEPT ![m].status = "disabled", ![m].version = @ + 1]
                  ELSE binding
    /\ revocation' = [revocation EXCEPT ![m] = "none"]
    /\ UNCHANGED <<installKey, binder, pluginJob>>

\* The process dies and the transaction with it.
LoseRevocation(m) ==
    /\ ~InstallationUnlocked(m)
    /\ revocation' = [revocation EXCEPT ![m] = "none"]
    /\ UNCHANGED <<installation, installKey, binding, binder, pluginJob>>

\* The manifest is validated again: it may no longer fit this deployment.
RestorePlugin(m) ==
    /\ installation[m] # "absent"
    /\ InstallationUnlocked(m)
    /\ \E result \in {"installed", "incompatible"} :
           installation' = [installation EXCEPT ![m] = result]
    /\ UNCHANGED <<installKey, revocation, binding, binder, pluginJob>>

-----------------------------------------------------------------------------
(* The editor *)

\* The project is locked.  A key in use is answered or refused without a write;
\* so is a manifest that is not installed.
StartBinding(m, enable, k) ==
    /\ binder = Unlocked
    /\ \A n \in Manifests : binding[n].key # k
    /\ installation[m] = "installed"
    /\ binder' = [at |-> "read", manifest |-> m, enable |-> enable, key |-> k]
    /\ UNCHANGED <<installation, installKey, revocation, binding, pluginJob>>

\* The row of the binding is read; a request may name the version it expects,
\* and goes on if it does not or if that is the one.
ReadBinding ==
    /\ binder.at = "read"
    /\ binder' = [at |-> IF binder.enable THEN "check" ELSE "write",
                  manifest |-> binder.manifest, enable |-> binder.enable, key |-> binder.key,
                  read |-> binding[binder.manifest]]
    /\ UNCHANGED <<installation, installKey, revocation, binding, pluginJob>>

\* Mutant: only the plugins a generation would use now count.
UsableRivals == UsablePlugins

\* The bindings an enabled plugin must agree with: those of revoked installations too.
Rivals == EnabledBindings

CheckConflicts ==
    /\ binder.at = "check"
    /\ \A n \in Rivals \ {binder.manifest} : PluginOf[n] # PluginOf[binder.manifest]
    /\ ~Conflicting(Rivals \cup {binder.manifest})
    /\ binder' = [binder EXCEPT !.at = "write"]
    /\ UNCHANGED <<installation, installKey, revocation, binding, pluginJob>>

\* A new row refers to the installation and waits for its lock, an old one is
\* updated unless a revocation holds it; the version counts from the one read.
WriteBinding ==
    /\ binder.at = "write"
    /\ IF binder.read.status = "none" THEN InstallationUnlocked(binder.manifest)
       ELSE revocation[binder.manifest] # "disabling"
    /\ binder.read.version < MaxBindingVersion
    /\ binding' = [binding EXCEPT ![binder.manifest] =
            [status |-> IF binder.enable THEN "enabled" ELSE "disabled",
             version |-> binder.read.version + 1, key |-> binder.key]]
    /\ binder' = Unlocked
    /\ UNCHANGED <<installation, installKey, revocation, pluginJob>>

\* A version that is not the one expected, a conflict, a manifest that does not
\* parse, or the death of the process.
GiveUpBinding ==
    /\ binder # Unlocked
    /\ binder' = Unlocked
    /\ UNCHANGED <<installation, installKey, revocation, binding, pluginJob>>

-----------------------------------------------------------------------------
(* A job *)

\* The theme of the project may be a plugin's: validateThemeReference wants exactly that one.
ThemeAmong(theme, ms) == theme \in ms \cup {NoTheme}

\* resolveProjectPluginContext, one statement; then the job is inserted with it.
FreezePlugins(theme) ==
    /\ pluginJob = NoPluginJob
    /\ ThemeAmong(theme, UsablePlugins) /\ ~Conflicting(UsablePlugins)
    /\ pluginJob' = [at |-> "frozen", theme |-> theme, plugins |-> UsablePlugins]
    /\ UNCHANGED bindingVars

\* resolvePluginContextForWorkspace: the installations of the plugins are still found,
\* whatever has become of them, and are what they were.
Resolvable ==
    /\ \A m \in pluginJob.plugins : installation[m] # "absent"
    /\ ThemeAmong(pluginJob.theme, pluginJob.plugins) /\ ~Conflicting(pluginJob.plugins)

\* The generation worker resolves them to choose a template, types and validators.
UsePlugins ==
    /\ pluginJob.at = "frozen"
    /\ Resolvable
    /\ pluginJob' = [pluginJob EXCEPT !.at = "drafted"]
    /\ UNCHANGED bindingVars

\* buildPluginSnapshot, by the render worker: the revision is published with all of them.
SnapshotPlugins ==
    /\ pluginJob.at = "drafted"
    /\ Resolvable
    /\ pluginJob' = NoPluginJob
    /\ UNCHANGED bindingVars

\* Or it fails: a manifest no longer fits the deployment, a validator refuses the chart.
JobFails ==
    /\ pluginJob # NoPluginJob
    /\ pluginJob' = NoPluginJob
    /\ UNCHANGED bindingVars

-----------------------------------------------------------------------------

ProjectPluginsNext ==
    \/ \E m \in Manifests, k \in InstallKeys : InstallPlugin(m, k)
    \/ \E m \in Manifests : \/ StartRevoking(m) \/ CommitRevocation(m)
                            \/ LoseRevocation(m) \/ RestorePlugin(m)
    \/ \E m \in Manifests, enable \in BOOLEAN, k \in BindKeys : StartBinding(m, enable, k)
    \/ ReadBinding \/ CheckConflicts \/ WriteBinding \/ GiveUpBinding
    \/ \E theme \in Manifests \cup {NoTheme} : FreezePlugins(theme)
    \/ UsePlugins \/ SnapshotPlugins \/ JobFails

ProjectPluginsSpec == ProjectPluginsInit /\ [][ProjectPluginsNext]_projectPluginsVars

-----------------------------------------------------------------------------

\* The plugins a generation of the project may use never offer one capability
\* twice and are never two versions of one plugin, although a revocation may
\* leave an enabled binding behind and a restoration revives it without asking
\* the project: resolveProjectPluginContext finds nothing to refuse.  And what a job
\* was frozen with can be resolved until its revision is published.
UsableNeverClash ==
    /\ ~Conflicting(UsablePlugins)
    /\ \A m \in UsablePlugins, n \in UsablePlugins : PluginOf[m] = PluginOf[n] => m = n
    /\ pluginJob # NoPluginJob => Resolvable
=============================================================================
