------------------------------- MODULE Accounts -------------------------------
(***************************************************************************)
(* Accounts, sessions, and the workspace and projects of a user.           *)
(*                                                                         *)
(* An API server makes the first account before it serves, under a lock,   *)
(* and hands over what belonged to the identity used before there were     *)
(* accounts.  A user's workspace is made by the first request that needs   *)
(* it: look, try a lock, look again, create.  Sessions are signed tokens   *)
(* that no change of the account ends.                                     *)
(***************************************************************************)
EXTENDS Naturals, Sequences, FiniteSets

CONSTANTS
    Processes,      \* servers that start, requests, and runs of the commands
    Names,          \* user names
    Legacy,         \* the subject of tokens from before there were accounts
    Nobody,         \* nobody holds the lock
    MaxAccounts, MaxWorkspaces, MaxProjects

\* An id is a number; a name of the identity before accounts is none, and nobody is no process.
ASSUME AccountsAssumption == /\ Legacy \notin Nat /\ Nobody \notin Processes \cup {Legacy}
                             /\ MaxProjects \in Nat

VARIABLES
    accounts,       \* users, in the order of creation; an id is a position
    sessions,       \* subjects of the tokens that have not expired
    aliasLive,      \* legacy_auth_subject_expires_at is still to come
    workspaces,     \* workspaces with their members and who made them
    ownProjects,    \* projects with their members, in the order of creation
    serving,        \* a server listens
    bootLock,       \* the advisory lock of the bootstrap
    tasks           \* what each process is doing; it says which locks it holds

accountsVars ==
    <<accounts, sessions, aliasLive, workspaces, ownProjects, serving, bootLock, tasks>>

Ids == DOMAIN accounts
IdleTask == [step |-> "none"]
Account(name, alias) == [name |-> name, active |-> TRUE, alias |-> alias]
NameFree(name) == \A id \in Ids : accounts[id].name # name

\* A token names an account, or the identity that the first account took over.
UserOf(subject) ==
    IF subject = Legacy
    THEN {id \in Ids : accounts[id].alias = Legacy /\ aliasLive}
    ELSE {subject} \cap Ids

WorkspacesOf(u) == {w \in DOMAIN workspaces : u \in workspaces[w].members}
\* findWorkspaceForUser: the membership that came first; 0 without.
WorkspaceOf(u) ==
    IF WorkspacesOf(u) = {} THEN 0
    ELSE CHOOSE w \in WorkspacesOf(u) : \A v \in WorkspacesOf(u) : w <= v

AccountsInit ==
    /\ accounts = <<>>
    /\ sessions = {Legacy}
    /\ aliasLive = TRUE
    \* What the identity without an account had.
    /\ workspaces = <<[by |-> "earlier", members |-> {Legacy}]>>
    /\ ownProjects = <<[workspace |-> 1, slug |-> 1, members |-> {Legacy}]>>
    /\ serving = FALSE
    /\ bootLock = Nobody
    /\ tasks = [p \in Processes |-> IdleTask]

Goes(p, task) == tasks' = [tasks EXCEPT ![p] = task]
Ends(p) == Goes(p, IdleTask)
Doing(p, step) == tasks[p].step = step
NoRowChanges == UNCHANGED <<accounts, sessions, aliasLive, workspaces, ownProjects>>

-----------------------------------------------------------------------------
(* The start of a server. *)

\* bootstrapFirstUserAccount waits for the lock ...
LockBootstrap(p) ==
    /\ Doing(p, "none") /\ bootLock = Nobody
    /\ bootLock' = p
    /\ Goes(p, [step |-> "anyUser"])
    /\ NoRowChanges /\ UNCHANGED serving

\* ... looks for any account ...
FindUser(p) ==
    /\ Doing(p, "anyUser")
    /\ IF accounts = <<>>
       THEN Goes(p, [step |-> "insertFirst"]) /\ UNCHANGED <<serving, bootLock>>
       ELSE Ends(p) /\ serving' = TRUE /\ bootLock' = Nobody
    /\ NoRowChanges

\* ... and, in the same transaction, inserts the first and gives it what Legacy had. Without
\* the settings, or if the command has taken the name meanwhile, the server does not start.
HandOver(rows, id) ==
    [i \in DOMAIN rows |->
        [rows[i] EXCEPT !.members = {IF u = Legacy THEN id ELSE u : u \in @}]]
InsertFirst(p, name, alias) ==
    LET id == Len(accounts) + 1 IN
    /\ Doing(p, "insertFirst")
    /\ NameFree(name)
    /\ accounts' = Append(accounts, Account(name, alias))
    /\ IF alias = Legacy
       THEN /\ workspaces' = HandOver(workspaces, id)
            /\ ownProjects' = HandOver(ownProjects, id)
       ELSE UNCHANGED <<workspaces, ownProjects>>
    /\ serving' = TRUE
    /\ bootLock' = Nobody
    /\ Ends(p)
    /\ UNCHANGED <<sessions, aliasLive>>

-----------------------------------------------------------------------------
(* Commands of the operator. *)

CreateAccount(name) ==
    /\ Len(accounts) < MaxAccounts
    /\ NameFree(name)
    /\ accounts' = Append(accounts, Account(name, Nobody))
    /\ UNCHANGED <<sessions, aliasLive, workspaces, ownProjects, serving, bootLock, tasks>>

SetStatus(id, active) ==
    /\ accounts[id].active # active
    /\ accounts' = [accounts EXCEPT ![id].active = active]
    /\ UNCHANGED <<sessions, aliasLive, workspaces, ownProjects, serving, bootLock, tasks>>

\* provision-production finds or makes workspace and project in one transaction, under a lock
\* of its own: a request of the user may make a workspace at the same time. It takes any
\* workspace of the user.
Provisioning(u) == \E p \in Processes : Doing(p, "provision") /\ tasks[p].user = u
ReadProvision(p, u) ==
    /\ Doing(p, "none") /\ ~Provisioning(u)
    /\ \E w \in IF WorkspacesOf(u) = {} THEN {0} ELSE WorkspacesOf(u) :
        Goes(p, [step |-> "provision", user |-> u, workspace |-> w])
    /\ NoRowChanges /\ UNCHANGED <<serving, bootLock>>
WriteProvision(p) ==
    LET u == tasks[p].user
        w == IF tasks[p].workspace = 0 THEN Len(workspaces) + 1 ELSE tasks[p].workspace IN
    /\ Doing(p, "provision")
    /\ w <= MaxWorkspaces /\ Len(ownProjects) < MaxProjects
    /\ workspaces' = IF w > Len(workspaces)
                     THEN Append(workspaces, [by |-> "provision", members |-> {u}])
                     ELSE workspaces
    /\ \E slug \in 1..MaxProjects :
        IF \E i \in DOMAIN ownProjects : ownProjects[i].workspace = w /\ ownProjects[i].slug = slug
        THEN ownProjects' = [i \in DOMAIN ownProjects |->
                IF ownProjects[i].workspace = w /\ ownProjects[i].slug = slug
                THEN [ownProjects[i] EXCEPT !.members = @ \cup {u}] ELSE ownProjects[i]]
        ELSE ownProjects' = Append(ownProjects, [workspace |-> w, slug |-> slug, members |-> {u}])
    /\ Ends(p)
    /\ UNCHANGED <<accounts, sessions, aliasLive, serving, bootLock>>

-----------------------------------------------------------------------------
(* Sessions. *)

\* Login reads the account, checks status and password of that row, and signs.
ReadAccount(p, id) ==
    /\ serving /\ Doing(p, "none")
    /\ Goes(p, [step |-> "verify", id |-> id, active |-> accounts[id].active])
    /\ NoRowChanges /\ UNCHANGED <<serving, bootLock>>
SignSession(p, passwordMatches) ==
    /\ Doing(p, "verify")
    /\ sessions' = IF tasks[p].active /\ passwordMatches
                   THEN sessions \cup {tasks[p].id} ELSE sessions
    /\ Ends(p)
    /\ UNCHANGED <<accounts, aliasLive, workspaces, ownProjects, serving, bootLock>>

ExpireSession(subject) ==
    /\ sessions' = sessions \ {subject}
    /\ aliasLive' = IF subject = Legacy THEN FALSE ELSE aliasLive
    /\ UNCHANGED <<accounts, workspaces, ownProjects, serving, bootLock, tasks>>

-----------------------------------------------------------------------------
(* ensurePersonalWorkspace, which lists, creations and the demo begin with. *)

Locked(u) == \E p \in Processes : tasks[p].step \in {"recheck", "create"} /\ tasks[p].user = u
Request(p, next, w) == [step |-> next, user |-> tasks[p].user, op |-> tasks[p].op, workspace |-> w]

FindWorkspace(p, u, op) ==
    /\ Doing(p, "none")
    /\ Goes(p, [step |-> IF WorkspaceOf(u) = 0 THEN "lock" ELSE op, user |-> u, op |-> op,
                workspace |-> WorkspaceOf(u)])
    /\ NoRowChanges /\ UNCHANGED <<serving, bootLock>>

\* The lock is tried, not waited for.
TryLock(p) ==
    /\ Doing(p, "lock")
    /\ Goes(p, Request(p, IF Locked(tasks[p].user) THEN "retry" ELSE "recheck", 0))
    /\ NoRowChanges /\ UNCHANGED <<serving, bootLock>>

\* As if the lock alone were enough.
NoRecheck(p) ==
    /\ Doing(p, "recheck")
    /\ Goes(p, Request(p, "create", 0))
    /\ NoRowChanges /\ UNCHANGED <<serving, bootLock>>
Recheck(p) ==
    LET found == WorkspaceOf(tasks[p].user) IN
    /\ Doing(p, "recheck")
    /\ Goes(p, Request(p, IF found = 0 THEN "create" ELSE tasks[p].op, found))
    /\ NoRowChanges /\ UNCHANGED <<serving, bootLock>>

CreateWorkspace(p) ==
    /\ Doing(p, "create") /\ Len(workspaces) < MaxWorkspaces
    /\ workspaces' = Append(workspaces, [by |-> "request", members |-> {tasks[p].user}])
    /\ Goes(p, Request(p, tasks[p].op, Len(workspaces) + 1))
    /\ UNCHANGED <<accounts, sessions, aliasLive, ownProjects, serving, bootLock>>

\* Without the lock one more look must do; else the user is asked to try later.
RetryFind(p) ==
    LET found == WorkspaceOf(tasks[p].user) IN
    /\ Doing(p, "retry")
    /\ IF found = 0 THEN Ends(p) ELSE Goes(p, Request(p, tasks[p].op, found))
    /\ NoRowChanges /\ UNCHANGED <<serving, bootLock>>

-----------------------------------------------------------------------------
(* Projects. *)

SlugsOf(w) == {ownProjects[i].slug : i \in {j \in DOMAIN ownProjects : ownProjects[j].workspace = w}}

\* GET projects changes nothing.
ListProjects(p) ==
    /\ Doing(p, "list")
    /\ Ends(p)
    /\ NoRowChanges /\ UNCHANGED <<serving, bootLock>>

\* POST projects looks for the first free slug, inserts the project, which fails if the slug is
\* taken by now, and then the membership of its creator, without a transaction.
FindSlug(p) ==
    LET free == {s \in 1..MaxProjects : s \notin SlugsOf(tasks[p].workspace)} IN
    /\ Doing(p, "project") /\ free # {}
    /\ Goes(p, [step |-> "insertProject", user |-> tasks[p].user, workspace |-> tasks[p].workspace,
                slug |-> CHOOSE s \in free : \A t \in free : s <= t])
    /\ NoRowChanges /\ UNCHANGED <<serving, bootLock>>
InsertProject(p) ==
    LET asked == tasks[p] IN
    /\ Doing(p, "insertProject") /\ Len(ownProjects) < MaxProjects
    /\ IF asked.slug \in SlugsOf(asked.workspace)
       THEN Ends(p) /\ UNCHANGED ownProjects
       ELSE /\ ownProjects' = Append(ownProjects, [workspace |-> asked.workspace,
                                                   slug |-> asked.slug, members |-> {}])
            /\ Goes(p, [step |-> "member", user |-> asked.user, project |-> Len(ownProjects) + 1])
    /\ UNCHANGED <<accounts, sessions, aliasLive, workspaces, serving, bootLock>>
InsertMember(p) ==
    /\ Doing(p, "member")
    /\ ownProjects' = [ownProjects EXCEPT ![tasks[p].project].members = @ \cup {tasks[p].user}]
    /\ Ends(p)
    /\ UNCHANGED <<accounts, sessions, aliasLive, workspaces, serving, bootLock>>

\* A process dies, and the database gives its locks back.
Dies(p) ==
    /\ ~Doing(p, "none")
    /\ bootLock' = IF bootLock = p THEN Nobody ELSE bootLock
    /\ Ends(p)
    /\ NoRowChanges /\ UNCHANGED serving

AccountsNext ==
    \/ \E p \in Processes :
        \/ LockBootstrap(p) \/ FindUser(p)
        \/ \E name \in Names, alias \in {Legacy, Nobody} : InsertFirst(p, name, alias)
        \/ \E id \in Ids :
            \/ ReadProvision(p, id)
            \/ ReadAccount(p, id)
        \/ \E subject \in sessions : \E u \in UserOf(subject) :
            /\ serving
            /\ \E op \in {"list", "project"} : FindWorkspace(p, u, op)
        \/ WriteProvision(p)
        \/ \E passwordMatches \in BOOLEAN : SignSession(p, passwordMatches)
        \/ TryLock(p) \/ Recheck(p) \/ CreateWorkspace(p) \/ RetryFind(p)
        \/ ListProjects(p) \/ FindSlug(p) \/ InsertProject(p) \/ InsertMember(p)
        \/ Dies(p)
    \/ \E name \in Names : CreateAccount(name)
    \/ \E id \in Ids, active \in BOOLEAN : SetStatus(id, active)
    \/ \E subject \in sessions : ExpireSession(subject)

AccountsSpec == AccountsInit /\ [][AccountsNext]_accountsVars

-----------------------------------------------------------------------------
(* What must hold. *)

\* Requests never make two workspaces for one user, whichever of them hold the lock, die or
\* come too late, nor does provisioning; and once an account has taken over from the earlier
\* identity, everything that identity could reach belongs to the account and to nobody else.
\* About ensurePersonalWorkspace, provision-production and bootstrapFirstUserAccount.
OnePersonalWorkspace ==
    /\ \A id \in Ids, maker \in {"request", "provision"} :
        Cardinality({w \in WorkspacesOf(id) : workspaces[w].by = maker}) <= 1
    /\ (\E id \in Ids : accounts[id].alias = Legacy) =>
        /\ \A w \in DOMAIN workspaces : Legacy \notin workspaces[w].members
        /\ \A i \in DOMAIN ownProjects :
            \* No project is out of reach of the workspace it belongs to.
            ownProjects[i].members \subseteq workspaces[ownProjects[i].workspace].members
=============================================================================
