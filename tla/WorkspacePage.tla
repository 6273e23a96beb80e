----------------------------- MODULE WorkspacePage -----------------------------
(***************************************************************************)
(* The workspace page: one user who turns from project to project and from *)
(* conversation to conversation while requests are under way.              *)
(*                                                                         *)
(* Commands on a revision, the restored job and the end of the watched job *)
(* carry an AbortController that a change of context aborts; a message and *)
(* a cancellation carry none.  A command creates a conversation of its     *)
(* own, and the page keeps its job in localStorage under that conversation *)
(* until it has shown the result.                                          *)
(*                                                                         *)
(* React renders and runs the effects of a step before the next event.     *)
(***************************************************************************)
EXTENDS Integers, FiniteSets

CONSTANTS
    Conversations,       \* conversations that exist or may be created
    ProjectOf,           \* their projects
    FirstConversations,  \* those that exist at first, with evidence to work on
    NoConversation,
    MaxPageJobs,         \* bound: jobs
    MaxPageRequests      \* bound: requests under way at one time

ASSUME WorkspacePageAssumption ==
    /\ NoConversation \notin Conversations
    /\ FirstConversations \subseteq Conversations
    /\ FirstConversations # {}
    /\ DOMAIN ProjectOf = Conversations
    /\ {MaxPageJobs, MaxPageRequests} \subseteq Nat \ {0}

PageProjects == {ProjectOf[c] : c \in Conversations}
PageJobs == 1..MaxPageJobs
NoPageJob == 0
PageRequests == 1..MaxPageRequests
NoRequest == 0

\* Requests under revisionCommandController, and those with a controller of their own.
Commands == {"edit", "derive"}
Controlled == Commands \cup {"retry", "history"}
Abortable == Controlled \cup {"restore", "end"}
RequestKinds == Abortable \cup {"none", "message", "stop"}

EndedStatuses == {"succeeded", "failed", "needs_clarification", "cancelled"}
PageJobStatuses == EndedStatuses \cup {"active"}

VARIABLES
    existing,   \* conversations that exist
    jobs,       \* jobs on the server: conversation, whether of a command, status
    page,       \* context, job and what else the page's state holds
    requests,   \* what is under way, with the context it was started in
    pending     \* localStorage: the job to resume in each conversation

workspacePageVars == <<existing, jobs, page, requests, pending>>

NoServerJob == [conversation |-> NoConversation, command |-> FALSE, status |-> "none"]
NoneUnderWay == [kind |-> "none", at |-> "ended", project |-> "none",
                 conversation |-> NoConversation, job |-> NoPageJob, aborted |-> FALSE]

\* Home before its project's lists are loaded.
FreshPage(project) ==
    [project |-> project, conversation |-> NoConversation, loaded |-> FALSE,
     job |-> NoPageJob, status |-> "none", restored |-> NoPageJob,
     hidden |-> FALSE, controller |-> NoRequest]

WorkspacePageInit ==
    /\ existing = FirstConversations
    /\ jobs = [j \in PageJobs |-> NoServerJob]
    /\ \E p \in PageProjects : page = FreshPage(p)
    /\ requests = [r \in PageRequests |-> NoneUnderWay]
    /\ pending = [c \in Conversations |-> NoPageJob]

-----------------------------------------------------------------------------
\* Rendering.

Context(p) == <<p.project, p.conversation>>

\* isJobActive, or a restored job whose result is fetched once more.
Watching(p) == p.job # NoPageJob /\ (p.status = "active" \/ p.restored = p.job)

\* The effects that depend on project, conversation and job abort what was theirs.
Outdated(r, i, p) ==
    \/ r.kind \in Abortable /\ Context(p) # Context(page)
    \/ r.kind \in Controlled /\ p.controller # i
    \/ r.kind = "end" /\ (p.job # page.job \/ ~ Watching(p))

Aborting(rs, p) ==
    [i \in PageRequests |-> IF Outdated(rs[i], i, p) THEN [rs[i] EXCEPT !.aborted = TRUE]
                            ELSE rs[i]]

Free(rs) == {i \in PageRequests : rs[i].kind = "none"}

Started(rs, i, kind, job, p) ==
    [rs EXCEPT ![i] = [kind |-> kind, at |-> "sent", project |-> p.project,
                       conversation |-> p.conversation, job |-> job, aborted |-> FALSE]]

\* The page shows p and runs its effects: another project resets the job; a conversation
\* with a pending job restores it.
Render(p, rs) ==
    LET shown == IF p.project = page.project THEN p
                 ELSE [p EXCEPT !.job = NoPageJob, !.status = "none", !.loaded = FALSE]
        left  == Aborting(rs, shown)
        saved == IF shown.conversation = NoConversation THEN NoPageJob
                 ELSE IF ProjectOf[shown.conversation] # shown.project THEN NoPageJob
                 ELSE pending'[shown.conversation]
    IN  /\ page' = IF Context(shown) = Context(page) THEN shown ELSE [shown EXCEPT !.hidden = FALSE]
        /\ IF Context(shown) # Context(page) /\ saved # NoPageJob
           THEN \E i \in Free(left) :
                   /\ \A k \in Free(left) : i <= k
                   /\ requests' = Started(left, i, "restore", saved, shown)
           ELSE requests' = left

Ended(i) == [requests EXCEPT ![i] = NoneUnderWay]
Moved(i, at) == [requests EXCEPT ![i].at = at]

serverVars == <<existing, jobs>>

-----------------------------------------------------------------------------
\* The user turns to another context.

\* selectProject keeps the conversation of the old project until the new lists are loaded.
SelectProject(project) ==
    /\ project # page.project
    /\ UNCHANGED <<serverVars, pending>>
    /\ Render([page EXCEPT !.project = project, !.controller = NoRequest], requests)

\* What selectConversation makes of the page p.
InConversation(p, c) ==
    [p EXCEPT !.conversation = c, !.job = NoPageJob, !.status = "none",
              !.restored = NoPageJob, !.controller = NoRequest]

SelectConversation(c) ==
    /\ page.loaded
    /\ c \in existing /\ ProjectOf[c] = page.project /\ c # page.conversation
    /\ UNCHANGED <<serverVars, pending>>
    /\ Render(InConversation(page, c), requests)

\* The lists of the project arrive, or the page finds itself in a conversation of another
\* project: it turns to the one of the route, to the remembered one or to the first.
SettleConversation ==
    /\ page.loaded => /\ page.conversation # NoConversation
                      /\ ProjectOf[page.conversation] # page.project
    /\ UNCHANGED <<serverVars, pending>>
    /\ LET here == {c \in existing : ProjectOf[c] = page.project}
           p    == [page EXCEPT !.loaded = TRUE]
       IN  IF page.conversation \in here
           THEN Render(p, requests)
           ELSE \E c \in IF here = {} THEN {NoConversation} ELSE here :
                   Render(InConversation(p, c), requests)

\* The page is loaded again: only localStorage and the route remain.
Reload ==
    /\ page' = FreshPage(page.project)
    /\ requests' = [i \in PageRequests |-> NoneUnderWay]
    /\ UNCHANGED <<serverVars, pending>>

-----------------------------------------------------------------------------
\* Requests are sent.

Submit(i, kind, job, p) ==
    /\ requests[i].kind = "none"
    /\ UNCHANGED <<serverVars, pending>>
    /\ Render(p, Started(requests, i, kind, job, page))

UnderWay(kind) == \E i \in PageRequests : requests[i].kind = kind /\ ~ requests[i].aborted

\* activeEvidence: of this conversation, and not put away by a message.
HasEvidence ==
    /\ page.loaded /\ ~ page.hidden
    /\ page.conversation \in existing /\ ProjectOf[page.conversation] = page.project
    /\ \/ page.conversation \in FirstConversations
       \/ \E j \in PageJobs : /\ jobs[j].conversation = page.conversation
                              /\ jobs[j].status = "succeeded"

\* The editor asks neither for an idle page nor for an idle controller.
SaveEditor(i) ==
    /\ HasEvidence /\ ~ UnderWay("edit")
    /\ Submit(i, "edit", NoPageJob, [page EXCEPT !.controller = i])

DeriveRevision(i) ==
    /\ HasEvidence /\ ~ UnderWay("derive") /\ page.status # "active"
    /\ Submit(i, "derive", NoPageJob, [page EXCEPT !.controller = i])

SelectHistoricalRevision(i) ==
    /\ HasEvidence /\ page.status # "active"
    /\ Submit(i, "history", NoPageJob, [page EXCEPT !.controller = i])

RetryGeneration(i) ==
    /\ page.status = "failed" /\ ~ UnderWay("retry")
    /\ Submit(i, "retry", page.job, [page EXCEPT !.controller = i])

\* The composer is open while the lists are loading.
SendMessage(i) ==
    /\ page.conversation # NoConversation
    /\ ~ UnderWay("message") /\ page.status # "active"
    /\ Submit(i, "message", NoPageJob, page)

CancelGeneration(i) ==
    /\ page.status = "needs_clarification"
    /\ Submit(i, "stop", page.job, page)

\* The watch reports that the job has ended; StatusWatch has the details.
WatchEnds(i) ==
    /\ Watching(page) /\ ~ UnderWay("end")
    /\ jobs[page.job].status \in EndedStatuses
    /\ Submit(i, "end", page.job, page)

-----------------------------------------------------------------------------
\* The server.

Answered(i, at, job) == requests' = [requests EXCEPT ![i].at = at, ![i].job = job]

IsAt(i, kinds, at) == requests[i].kind \in kinds /\ requests[i].at = at

NewJobs == {j \in PageJobs : /\ jobs[j].status = "none"
                             /\ \A k \in 1..(j - 1) : jobs[k].status # "none"}

\* A command's job gets a conversation of its own. An API of before the jobs answers with
\* the revision itself.
AcceptCommand(i) ==
    /\ IsAt(i, Commands, "sent")
    /\ \E j \in NewJobs, c \in Conversations \ existing, old \in BOOLEAN :
          /\ ProjectOf[c] = requests[i].project
          /\ existing' = existing \cup {c}
          /\ jobs' = [jobs EXCEPT ![j] = [conversation |-> c, command |-> TRUE,
                                          status |-> IF old THEN "succeeded" ELSE "active"]]
          /\ Answered(i, IF old THEN "revision" ELSE "job", j)
    /\ UNCHANGED <<page, pending>>

\* The message is stored; it may start a job or not.
AcceptMessage(i) ==
    /\ IsAt(i, {"message"}, "sent")
    /\ \/ /\ \E j \in NewJobs :
                /\ jobs' = [jobs EXCEPT ![j] = [conversation |-> requests[i].conversation,
                                                command |-> FALSE, status |-> "active"]]
                /\ Answered(i, "listing", j)
       \/ Answered(i, "listing", NoPageJob) /\ UNCHANGED jobs
    /\ UNCHANGED <<existing, page, pending>>

AcceptRetry(i) ==
    /\ IsAt(i, {"retry"}, "sent")
    /\ jobs' = [jobs EXCEPT ![requests[i].job].status = IF @ = "failed" THEN "active" ELSE @]
    /\ requests' = Moved(i, "job")
    /\ UNCHANGED <<existing, page, pending>>

AcceptStop(i) ==
    /\ IsAt(i, {"stop"}, "sent")
    /\ jobs' = [jobs EXCEPT ![requests[i].job].status =
                   IF @ = "needs_clarification" THEN "cancelled" ELSE @]
    /\ requests' = Moved(i, "job")
    /\ UNCHANGED <<existing, page, pending>>

JobEnds(j) ==
    /\ jobs[j].status = "active"
    /\ \E s \in {"succeeded", "failed", "needs_clarification"} :
          /\ jobs[j].command => s # "needs_clarification"
          /\ jobs' = [jobs EXCEPT ![j].status = s]
    /\ UNCHANGED <<existing, page, requests, pending>>

-----------------------------------------------------------------------------
\* The page goes on with an answer.

\* An aborted request rejects, whatever its answer; any request may fail.
Drop(i) ==
    /\ requests[i].kind # "none"
    /\ requests' = Ended(i)
    /\ UNCHANGED <<serverVars, page, pending>>

\* controller.signal.aborted and isCurrent are asked after each await.
\* Mutant: never.
Unchecked(i) == requests[i].kind # "none"

Live(i) == ~ requests[i].aborted

\* A command has been accepted: its job is kept, the list of conversations is loaded.
KeepJob(i) ==
    /\ IsAt(i, Commands, "job") /\ Live(i)
    /\ LET j == requests[i].job IN pending' = [pending EXCEPT ![jobs[j].conversation] = j]
    /\ requests' = Moved(i, "listing")
    /\ UNCHANGED <<serverVars, page>>

ShowCommandJob(i) ==
    /\ IsAt(i, Commands, "listing") /\ Live(i)
    /\ UNCHANGED <<serverVars, pending>>
    /\ LET j == requests[i].job IN
       Render([page EXCEPT !.conversation = jobs[j].conversation, !.restored = j,
                           !.job = j, !.status = "active"], Ended(i))

\* The answer of an old API names a revision, whose evidence is fetched.
FetchFixed(i) ==
    /\ IsAt(i, Commands, "revision") /\ Live(i)
    /\ requests' = Moved(i, "fixed")
    /\ UNCHANGED <<serverVars, page, pending>>

ShowFixed(i) ==
    /\ IsAt(i, Commands, "fixed") /\ Live(i)
    /\ UNCHANGED <<serverVars, pending>>
    /\ Render([page EXCEPT !.conversation = jobs[requests[i].job].conversation], Ended(i))

\* A revision of the artifact may have been made in another conversation of the project.
ShowHistory(i) ==
    /\ IsAt(i, {"history"}, "sent") /\ Live(i)
    /\ UNCHANGED <<serverVars, pending>>
    /\ \E c \in existing :
          /\ ProjectOf[c] = requests[i].project
          /\ Render([page EXCEPT !.conversation = c], Ended(i))

ShowRetried(i) ==
    /\ IsAt(i, {"retry"}, "job") /\ Live(i)
    /\ LET j == requests[i].job
           p == [page EXCEPT !.job = j, !.status = jobs[j].status]
       IN  /\ UNCHANGED serverVars
           /\ IF jobs[j].command
              THEN /\ pending' = [pending EXCEPT ![jobs[j].conversation] = j]
                   /\ Render([p EXCEPT !.restored = j], Ended(i))
              ELSE UNCHANGED pending /\ Render(p, Ended(i))

\* Nothing is asked of the context here, nor in ShowStopped.
ShowMessage(i) ==
    /\ IsAt(i, {"message"}, "listing")
    /\ UNCHANGED <<serverVars, pending>>
    /\ LET j == requests[i].job IN
       Render([page EXCEPT !.hidden = TRUE, !.job = j,
                           !.status = IF j = NoPageJob THEN "none" ELSE "active"], Ended(i))

ShowStopped(i) ==
    /\ IsAt(i, {"stop"}, "job")
    /\ UNCHANGED <<serverVars, pending>>
    /\ Render([page EXCEPT !.job = requests[i].job, !.status = jobs[requests[i].job].status],
              Ended(i))

ShowRestored(i) ==
    /\ IsAt(i, {"restore"}, "sent") /\ Live(i)
    /\ UNCHANGED <<serverVars, pending>>
    /\ LET j == requests[i].job IN
       Render([page EXCEPT !.restored = j, !.job = j, !.status = jobs[j].status], Ended(i))

\* handleGenerationTerminal: the job is read again; a success and a question load more.
ReloadJob(i) ==
    /\ IsAt(i, {"end"}, "sent") /\ Live(i)
    /\ UNCHANGED <<serverVars, pending>>
    /\ LET s == jobs[requests[i].job].status IN
       CASE s = "succeeded" -> Render([page EXCEPT !.hidden = FALSE], Moved(i, "collected"))
         [] s = "needs_clarification" -> Render(page, Moved(i, "collected"))
         [] OTHER -> Render([page EXCEPT !.status = s, !.restored = NoPageJob], Ended(i))

\* Of a success the job is forgotten under the conversation the page is in.
ShowEnd(i) ==
    /\ IsAt(i, {"end"}, "collected") /\ Live(i)
    /\ UNCHANGED serverVars
    /\ LET j == requests[i].job
           p == [page EXCEPT !.job = j, !.status = jobs[j].status, !.restored = NoPageJob]
       IN  IF jobs[j].status = "succeeded" /\ ProjectOf[jobs[j].conversation] = requests[i].project
           THEN /\ pending' = [c \in Conversations |->
                      IF c = requests[i].conversation /\ ProjectOf[c] = requests[i].project
                      THEN NoPageJob ELSE pending[c]]
                /\ Render([p EXCEPT !.conversation = jobs[j].conversation], Ended(i))
           ELSE /\ UNCHANGED pending
                /\ Render(IF jobs[j].status = "succeeded" THEN page ELSE p, Ended(i))

\* The user puts away a job that failed.
CloseFailure ==
    /\ page.status = "failed"
    /\ UNCHANGED <<serverVars, pending>>
    /\ Render([page EXCEPT !.job = NoPageJob, !.status = "none"], requests)

Continue(i) ==
    \/ KeepJob(i) \/ ShowCommandJob(i) \/ FetchFixed(i) \/ ShowFixed(i) \/ ShowHistory(i)
    \/ ShowRetried(i) \/ ShowMessage(i) \/ ShowStopped(i) \/ ShowRestored(i)
    \/ ReloadJob(i) \/ ShowEnd(i) \/ Drop(i)

Begin(i) ==
    \/ SaveEditor(i) \/ DeriveRevision(i) \/ SelectHistoricalRevision(i) \/ RetryGeneration(i)
    \/ SendMessage(i) \/ CancelGeneration(i) \/ WatchEnds(i)

Serve(i) == AcceptCommand(i) \/ AcceptMessage(i) \/ AcceptRetry(i) \/ AcceptStop(i)

WorkspacePageNext ==
    \/ \E p \in PageProjects : SelectProject(p)
    \/ \E c \in Conversations : SelectConversation(c)
    \/ SettleConversation \/ Reload \/ CloseFailure
    \/ \E i \in PageRequests : Serve(i) \/ Continue(i)
    \/ \E i \in Free(requests) : (\A k \in Free(requests) : i <= k) /\ Begin(i)
    \/ \E j \in PageJobs : JobEnds(j)

WorkspacePageSpec == WorkspacePageInit /\ [][WorkspacePageNext]_workspacePageVars

-----------------------------------------------------------------------------
\* Properties.

\* The shape of the state.
WorkspacePageTypeOK ==
    /\ existing \subseteq Conversations
    /\ jobs \in [PageJobs -> [conversation : Conversations \cup {NoConversation},
                              command : BOOLEAN, status : PageJobStatuses \cup {"none"}]]
    /\ page \in [project : PageProjects, conversation : Conversations \cup {NoConversation},
                 loaded : BOOLEAN, job : PageJobs \cup {NoPageJob},
                 status : PageJobStatuses \cup {"none"}, restored : PageJobs \cup {NoPageJob},
                 hidden : BOOLEAN, controller : PageRequests \cup {NoRequest}]
    /\ \A i \in PageRequests : requests[i].kind \in RequestKinds
    /\ pending \in [Conversations -> PageJobs \cup {NoPageJob}]

\* A command, a retry, a chosen revision, a restored job or the end of a watched job that
\* was started elsewhere changes neither the context nor the job of the page, nor what it
\* would resume, however late its answer comes, unless the page is loaded again (page.tsx:
\* controller.signal.aborted after each await; use-generation-job.ts: isCurrent).
LateResultsAreDropped ==
    [][\A i \in PageRequests :
          (/\ requests[i].kind \in Abortable
           /\ requests'[i].at # requests[i].at
           /\ page' # FreshPage(page.project)
           /\ <<requests[i].project, requests[i].conversation>> # Context(page))
             => page' = page /\ pending' = pending]_workspacePageVars

\* A job kept for a conversation is given up only for a newer one or once its success is
\* shown (t8-test-report.md:14: the job of the conversation is kept and can be resumed).
PendingJobIsKept ==
    [][\A c \in Conversations :
          (pending[c] # NoPageJob /\ pending'[c] = NoPageJob)
             => page'.job = pending[c] /\ page'.status = "succeeded"]_workspacePageVars
=============================================================================
