------------------------------ MODULE ModelRoute ------------------------------
(***************************************************************************)
(* Which model a job asks, with which key.                                 *)
(*                                                                         *)
(* The API resolves the route from its own environment and freezes it with *)
(* the job; it never holds the deployment's key.  The worker binds the     *)
(* frozen route to the workspace's key if there is one, as it was saved by *)
(* then and decrypted with the worker's own copy of the shared encryption  *)
(* key, and to the deployment's key otherwise.  The processes are deployed *)
(* apart, administrators change the key meanwhile.                         *)
(***************************************************************************)
EXTENDS Naturals

CONSTANTS
    Models,          \* values of BAILIAN_MODEL_ID
    MasterKeys,      \* values of MODEL_CREDENTIAL_ENCRYPTION_KEY
    Unset,           \* a variable that is not set, or is no valid value
    MaxDeployments,  \* bound: deployments of the API or the worker
    MaxKeys          \* bound: keys saved

ASSUME ModelRouteAssumption ==
    /\ Unset \notin Models \cup MasterKeys
    /\ MaxDeployments \in Nat /\ MaxKeys \in Nat \ {0}

VARIABLES
    apiEnv,          \* environment of the API
    workerEnv,       \* environment of the generation worker
    deployments,     \* deployments so far
    credential,      \* workspace_model_credentials of the workspace
    saving,          \* a PUT of the credential under way
    routedJob        \* a job, and what the worker holds while it runs it

credentialVars == <<credential, saving>>
modelRouteVars == <<apiEnv, workerEnv, deployments, credentialVars, routedJob>>

Modes == {"deterministic", "llm", Unset}

\* Keys are numbered as they are saved; 0 is the deployment's.
DeploymentKey == 0

DeterministicRoute == [mode |-> "deterministic", model |-> Unset]
NoCredential == [key |-> DeploymentKey, under |-> Unset]
NotSaving == [at |-> "idle", under |-> Unset]
NoRoutedJob == [at |-> "none", route |-> DeterministicRoute, key |-> DeploymentKey,
                known |-> DeploymentKey]

ApiEnvironments == [mode : Modes, model : Models \cup {Unset}, master : MasterKeys \cup {Unset}]
WorkerEnvironments == [fallback : BOOLEAN, master : MasterKeys \cup {Unset}]

\* modelRouteSnapshotSchema: only the llm route names a model.
Routes == {DeterministicRoute} \cup [mode : {"llm"}, model : Models]

\* The shape of the state.
ModelRouteTypeOK ==
    /\ apiEnv \in ApiEnvironments /\ workerEnv \in WorkerEnvironments
    /\ deployments \in 0 .. MaxDeployments
    /\ credential \in [key : 0 .. MaxKeys, under : MasterKeys \cup {Unset}]
    /\ saving \in [at : {"idle", "allowed", "encrypted"}, under : MasterKeys \cup {Unset}]
    /\ routedJob \in [at : {"none", "queued", "claimed", "bound", "asking", "failed"},
                      route : Routes, key : 0 .. MaxKeys, known : 0 .. MaxKeys]

ModelRouteInit ==
    /\ apiEnv \in ApiEnvironments
    /\ workerEnv \in {env \in WorkerEnvironments : env.master = apiEnv.master}
    /\ deployments = 0
    /\ credential = NoCredential
    /\ saving = NotSaving
    /\ routedJob = NoRoutedJob

-----------------------------------------------------------------------------
(* Deployments *)

\* A save under way is lost with its process; a job runs in the worker.
DeployApi(env) ==
    /\ deployments < MaxDeployments
    /\ apiEnv' = env
    /\ saving' = NotSaving
    /\ deployments' = deployments + 1
    /\ UNCHANGED <<workerEnv, credential, routedJob>>

\* The job is claimed again by the new worker.
DeployWorker(env) ==
    /\ deployments < MaxDeployments
    /\ workerEnv' = env
    /\ routedJob' = IF routedJob.at \in {"claimed", "bound"}
                    THEN [routedJob EXCEPT !.at = "queued", !.key = DeploymentKey]
                    ELSE routedJob
    /\ deployments' = deployments + 1
    /\ UNCHANGED <<apiEnv, credentialVars>>

-----------------------------------------------------------------------------
(* The workspace's key *)

\* assertWorkspaceCredentialManager: an owner or admin, as far as is known now.
StartSaving ==
    /\ saving = NotSaving
    /\ saving' = [saving EXCEPT !.at = "allowed"]
    /\ UNCHANGED <<apiEnv, workerEnv, deployments, credential, routedJob>>

\* encryptWorkspaceModelCredential: without a valid encryption key nothing is saved.
EncryptKey ==
    /\ saving.at = "allowed"
    /\ saving' = IF apiEnv.master = Unset THEN NotSaving
                 ELSE [at |-> "encrypted", under |-> apiEnv.master]
    /\ UNCHANGED <<apiEnv, workerEnv, deployments, credential, routedJob>>

\* An upsert and its audit event.
StoreKey ==
    /\ saving.at = "encrypted"
    /\ credential.key < MaxKeys
    /\ credential' = [key |-> credential.key + 1, under |-> saving.under]
    /\ saving' = NotSaving
    /\ UNCHANGED <<apiEnv, workerEnv, deployments, routedJob>>

-----------------------------------------------------------------------------
(* The job *)

\* The variables of the llm route are set and valid: model, endpoint, output method.
Complete(env) == env.model # Unset

\* resolveModelRouteSnapshot, in production: the mode must be said.
Resolves(env) ==
    \/ env.mode = "deterministic"
    \/ env.mode = "llm" /\ Complete(env)
RouteOf(env) ==
    IF env.mode = "llm" THEN [mode |-> "llm", model |-> env.model] ELSE DeterministicRoute

\* The route is frozen in the job and named by its execution assembly.
RequestRouted ==
    /\ routedJob.at = "none"
    /\ Resolves(apiEnv)
    /\ routedJob' = [routedJob EXCEPT !.at = "queued", !.route = RouteOf(apiEnv)]
    /\ UNCHANGED <<apiEnv, workerEnv, deployments, credentialVars>>

\* known is the key saved by then.
ClaimRouted ==
    /\ routedJob.at = "queued"
    /\ routedJob' = [routedJob EXCEPT !.at = "claimed", !.known = credential.key]
    /\ UNCHANGED <<apiEnv, workerEnv, deployments, credentialVars>>

\* decryptWorkspaceModelCredential
Decrypts == workerEnv.master # Unset /\ workerEnv.master = credential.under

\* workspaceApiKeyForGeneration: a saved key that cannot be
\* decrypted is an error, and so is no key at all.
KeyFound ==
    IF credential.key = DeploymentKey THEN workerEnv.fallback ELSE Decrypts

\* createBailianQwenGateway: it keeps the key.
Gateway == [routedJob EXCEPT !.at = "bound", !.key = credential.key]

\* The deterministic route needs no key.
BindGateway ==
    /\ routedJob.at = "claimed"
    /\ routedJob' = CASE routedJob.route.mode = "deterministic" -> [routedJob EXCEPT !.at = "bound"]
                      [] routedJob.route.mode = "llm" /\ KeyFound -> Gateway
                      [] OTHER -> [routedJob EXCEPT !.at = "failed"]
    /\ UNCHANGED <<apiEnv, workerEnv, deployments, credentialVars>>

\* The request names the route, which is the gateway's.
AskModel ==
    /\ routedJob.at = "bound"
    /\ routedJob' = [routedJob EXCEPT !.at = "asking"]
    /\ UNCHANGED <<apiEnv, workerEnv, deployments, credentialVars>>

\* The invocation is over; the job, if it failed, may be retried as it was frozen.
EndRouted ==
    /\ routedJob.at \in {"asking", "failed"}
    /\ \/ routedJob' = NoRoutedJob
       \/ /\ routedJob.at = "failed"
          /\ routedJob' = [routedJob EXCEPT !.at = "queued", !.key = DeploymentKey]
    /\ UNCHANGED <<apiEnv, workerEnv, deployments, credentialVars>>

ModelRouteNext ==
    \/ \E env \in ApiEnvironments : DeployApi(env)
    \/ \E env \in WorkerEnvironments : DeployWorker(env)
    \/ StartSaving \/ EncryptKey \/ StoreKey
    \/ RequestRouted \/ ClaimRouted \/ BindGateway \/ AskModel \/ EndRouted

ModelRouteSpec == ModelRouteInit /\ [][ModelRouteNext]_modelRouteVars

-----------------------------------------------------------------------------

\* A request to the provider carries a key no older than the one the workspace had when
\* its job was claimed, whatever has been deployed since: the deployment's key never stands
\* in for a saved key that cannot be read, and a job claimed after a key was replaced does
\* not use the replaced one.  Its model is one that was configured.
RequestsUseSavedKey ==
    (routedJob.at = "asking" /\ routedJob.route.mode = "llm") =>
        routedJob.key >= routedJob.known /\ routedJob.route.model \in Models
=============================================================================
