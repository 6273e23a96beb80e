------------------------------ MODULE StatusWatch ------------------------------
(***************************************************************************)
(* How a page follows the status of a generation job.                      *)
(*                                                                         *)
(* A watch asks the API again and again, each time for a version newer     *)
(* than the one it knows.  The API answers at once or holds the request    *)
(* until PostgreSQL notifies it of a newer version, until a timer fires,   *)
(* or until the page gives up.  A notification reaches only the requests   *)
(* that are held when it arrives; it may be lost.                          *)
(***************************************************************************)
EXTENDS Integers

CONSTANTS
    WatchedJobs, \* generation jobs of the project
    MaxVersion,  \* bound: status_version of a job
    Watches,     \* bound: how often the page starts a watch, 1..n
    MaxFaults,   \* bound: failed requests, lost listeners, restarts of the API
    NoJob

ASSUME StatusWatchAssumption ==
    /\ MaxVersion \in Nat \ {0}
    /\ MaxFaults \in Nat
    /\ NoJob \notin WatchedJobs
    /\ Watches \subseteq Nat \ {0}

VARIABLES
    version,        \* status_version
    jobStatus,      \* and status of each job
    hasRevision,    \* jobs whose revision is published
    endpoint,       \* GET .../status: holds requests, answers at once, or is missing
    listening,      \* the API's LISTEN connection is up
    notifications,  \* sent and not yet handled by the listener
    selected,       \* the job of the page
    shown,          \* version and status the page shows for it
    watch,          \* number of the page's watch; older ones are aborted
    stage,          \* of each watch: where its request is
    watched,        \* its job
    after,          \* newest version it has received
    fallback,       \* it asks GET /generation-jobs/:id instead
    isHeld,         \* its request has been held
    answer,         \* what the API has read for it
    faults

jobVars == <<version, jobStatus, hasRevision, endpoint>>
channelVars == <<listening, notifications>>
pageVars == <<selected, shown, watch>>
watchVars == <<stage, watched, after, fallback, isHeld, answer>>
statusWatchVars == <<jobVars, channelVars, pageVars, watchVars, faults>>

Terminal == {"succeeded", "failed"}
Statuses == {"running"} \cup Terminal
Versions == 0..MaxVersion
Answers == [version : Versions, status : Statuses, revision : BOOLEAN]
Nothing == [version |-> 0, status |-> "running", revision |-> FALSE]

\* In the API: read, revision, decide, held. In the page: ask, got, refresh, pause, ended.
AtApi == {"read", "revision", "decide", "held"}
AtPage == {"ask", "got", "refresh", "pause"}

StatusWatchTypeOK ==
    /\ version \in [WatchedJobs -> 1..MaxVersion]
    /\ jobStatus \in [WatchedJobs -> Statuses]
    /\ hasRevision \in [WatchedJobs -> BOOLEAN]
    /\ endpoint \in {"holds", "answers", "missing"}
    /\ listening \in BOOLEAN
    /\ notifications \subseteq WatchedJobs \X Versions
    /\ selected \in WatchedJobs \cup {NoJob}
    /\ shown \in [version : Versions, status : Statuses]
    /\ watch \in {0} \cup Watches
    /\ stage \in [Watches -> AtApi \cup AtPage \cup {"none", "ended"}]
    /\ watched \in [Watches -> WatchedJobs \cup {NoJob}]
    /\ after \in [Watches -> Versions]
    /\ fallback \in [Watches -> BOOLEAN]
    /\ isHeld \in [Watches -> BOOLEAN]
    /\ answer \in [Watches -> Answers]
    /\ faults \in 0..MaxFaults

StatusWatchInit ==
    /\ version = [j \in WatchedJobs |-> 1]
    /\ jobStatus = [j \in WatchedJobs |-> "running"]
    /\ hasRevision = [j \in WatchedJobs |-> FALSE]
    /\ endpoint \in {"holds", "answers", "missing"}
    /\ listening = FALSE
    /\ notifications = {}
    /\ selected = NoJob
    /\ shown = [version |-> 0, status |-> "running"]
    /\ watch = 0
    /\ stage = [w \in Watches |-> "none"]
    /\ watched = [w \in Watches |-> NoJob]
    /\ after = [w \in Watches |-> 0]
    /\ fallback = [w \in Watches |-> FALSE]
    /\ isHeld = [w \in Watches |-> FALSE]
    /\ answer = [w \in Watches |-> Nothing]
    /\ faults = 0

-----------------------------------------------------------------------------
(* The job, and generation_jobs_status_notify_trigger. *)

Advance(j) ==
    /\ jobStatus[j] = "running"
    /\ version[j] < MaxVersion
    /\ version' = [version EXCEPT ![j] = @ + 1]
    /\ \E s \in Statuses :
          /\ jobStatus' = [jobStatus EXCEPT ![j] = s]
          /\ hasRevision' = [hasRevision EXCEPT ![j] = s = "succeeded"]
    /\ notifications' = IF listening THEN notifications \cup {<<j, version'[j]>>}
                        ELSE notifications
    /\ UNCHANGED <<endpoint, listening, pageVars, watchVars, faults>>

-----------------------------------------------------------------------------
(* GET /generation-jobs/:jobId/status and /generation-jobs/:jobId. *)

RequestAt(w, s) == stage[w] = s
Move(w, s) == stage' = [stage EXCEPT ![w] = s]

\* The routes read the job, then its revision.
ReadJob(w) ==
    /\ RequestAt(w, "read")
    /\ LET j == watched[w] IN
       answer' = [answer EXCEPT ![w] = [version |-> version[j], status |-> jobStatus[j],
                                        revision |-> FALSE]]
    /\ Move(w, "revision")
    /\ UNCHANGED <<jobVars, channelVars, pageVars, watched, after, fallback, isHeld, faults>>

ReadRevision(w) ==
    /\ RequestAt(w, "revision")
    /\ answer' = [answer EXCEPT ![w].revision = hasRevision[watched[w]]]
    /\ Move(w, "decide")
    /\ UNCHANGED <<jobVars, channelVars, pageVars, watched, after, fallback, isHeld, faults>>

NothingNew(w) == answer[w].version <= after[w] /\ answer[w].status \notin Terminal

\* waitForChange: the waiter is registered after the read, and starts the listener.
Hold(w) ==
    /\ RequestAt(w, "decide")
    /\ endpoint = "holds"
    /\ ~fallback[w] /\ ~isHeld[w] /\ NothingNew(w)
    /\ isHeld' = [isHeld EXCEPT ![w] = TRUE]
    /\ Move(w, "held")
    /\ UNCHANGED <<jobVars, channelVars, pageVars, watched, after, fallback, answer, faults>>

\* createDatabaseChannelListener has connected, which a held request has asked for.
StartListener ==
    /\ ~listening
    /\ endpoint = "holds" /\ watch # 0
    /\ listening' = TRUE
    /\ UNCHANGED <<jobVars, notifications, pageVars, watchVars, faults>>

\* onNotification wakes the requests held for an older version of the job.
Notify(n) ==
    /\ listening
    /\ n \in notifications
    /\ notifications' = notifications \ {n}
    /\ stage' = [w \in Watches |-> IF RequestAt(w, "held") /\ watched[w] = n[1] /\ n[2] > after[w]
                                   THEN "read" ELSE stage[w]]
    /\ UNCHANGED <<jobVars, listening, pageVars, watched, after, fallback, isHeld, answer, faults>>

\* Mutant: a request is held until a notification arrives.
HoldEndsNever(w) ==
    /\ RequestAt(w, "held")
    /\ watched[w] = NoJob
    /\ Move(w, "read")
    /\ UNCHANGED <<jobVars, channelVars, pageVars, watched, after, fallback, isHeld, answer,
                   faults>>

\* Its timer fires: the request reads again.
HoldEnds(w) ==
    /\ RequestAt(w, "held")
    /\ Move(w, "read")
    /\ UNCHANGED <<jobVars, channelVars, pageVars, watched, after, fallback, isHeld, answer,
                   faults>>

\* The answer reaches the page: 204, or the job.
Respond(w) ==
    /\ RequestAt(w, "decide")
    /\ endpoint # "holds" \/ fallback[w] \/ isHeld[w] \/ ~NothingNew(w)
    /\ isHeld' = [isHeld EXCEPT ![w] = FALSE]
    /\ IF NothingNew(w) /\ ~fallback[w]
       THEN /\ Move(w, IF endpoint = "holds" THEN "ask" ELSE "pause")
            /\ answer' = [answer EXCEPT ![w] = Nothing]
            /\ UNCHANGED after
       ELSE /\ Move(w, "got")
            /\ after' = [after EXCEPT ![w] = IF answer[w].version > @ THEN answer[w].version ELSE @]
            /\ UNCHANGED answer
    /\ UNCHANGED <<jobVars, channelVars, pageVars, watched, fallback, faults>>

-----------------------------------------------------------------------------
(* watchGenerationJob and useGenerationJob. *)

\* The signal of a watch ends its request and its pauses at once; what it has received, or
\* reloads, goes on.
Aborted == [w \in Watches |-> IF stage[w] \in AtApi \cup {"ask", "pause"} THEN "ended"
                              ELSE stage[w]]
NoneHeld == [w \in Watches |-> FALSE]

\* The page shows a job it has loaded before, as old as that may be, and watches it. The
\* watch it had is aborted.
SelectJob(j) ==
    /\ watch + 1 \in Watches
    /\ watch' = watch + 1
    /\ selected' = j
    /\ \E v \in 1..version[j] :
          /\ shown' = [version |-> v, status |-> IF v = version[j] THEN jobStatus[j] ELSE "running"]
          /\ after' = [after EXCEPT ![watch + 1] = v]
    /\ watched' = [watched EXCEPT ![watch + 1] = j]
    /\ stage' = [Aborted EXCEPT ![watch + 1] = "ask"]
    /\ isHeld' = NoneHeld
    /\ UNCHANGED <<jobVars, channelVars, fallback, answer, faults>>

\* The user logs out or closes the job: nothing is watched.
Deselect ==
    /\ selected # NoJob
    /\ selected' = NoJob
    /\ shown' = [version |-> 0, status |-> "running"]
    /\ stage' = Aborted
    /\ isHeld' = NoneHeld
    /\ UNCHANGED <<jobVars, channelVars, watch, watched, after, fallback, answer, faults>>

\* Mutant: only a watch of no job is stale.
IsCurrentAny(w) == selected # NoJob

IsCurrent(w) == w = watch /\ selected = watched[w]

\* A missing endpoint is a 404 or 501 and turns the watch to the older one.
Ask(w) ==
    /\ RequestAt(w, "ask")
    /\ IF endpoint = "missing" /\ ~fallback[w]
       THEN fallback' = [fallback EXCEPT ![w] = TRUE] /\ UNCHANGED stage
       ELSE Move(w, "read") /\ UNCHANGED fallback
    /\ UNCHANGED <<jobVars, channelVars, pageVars, watched, after, isHeld, answer, faults>>

\* A timer of the page: after an answer that was not held, or after an error.
PauseEnds(w) ==
    /\ RequestAt(w, "pause")
    /\ Move(w, "ask")
    /\ UNCHANGED <<jobVars, channelVars, pageVars, watched, after, fallback, isHeld, answer,
                   faults>>

\* onStatus. An answer for a watch that is no longer current is dropped.
Show(w) ==
    /\ RequestAt(w, "got")
    /\ IF ~IsCurrent(w) THEN Move(w, "ended") /\ UNCHANGED shown
       ELSE IF answer[w].status \in Terminal
            THEN Move(w, "refresh") /\ UNCHANGED shown
       ELSE /\ shown' = [version |-> answer[w].version, status |-> answer[w].status]
            /\ Move(w, IF fallback[w] THEN "pause" ELSE "ask")
    /\ answer' = [answer EXCEPT ![w] = Nothing]
    /\ UNCHANGED <<jobVars, channelVars, selected, watch, watched, after, fallback, isHeld, faults>>

\* onTerminal: the page loads the finished job and its results; meanwhile the user may have
\* turned to another one.
Refresh(w) ==
    /\ RequestAt(w, "refresh")
    /\ shown' = IF IsCurrent(w)
                THEN [version |-> version[watched[w]], status |-> jobStatus[watched[w]]]
                ELSE shown
    /\ Move(w, "ended")
    /\ UNCHANGED <<jobVars, channelVars, selected, watch, watched, after, fallback, isHeld, answer,
                   faults>>

-----------------------------------------------------------------------------
(* Faults. *)

\* A request fails; the page pauses and asks again. A 5xx in the fallback ends the watch, so
\* a failure there is one of the connection.
RequestFails(w) ==
    /\ faults < MaxFaults
    /\ faults' = faults + 1
    /\ stage[w] \in AtApi \cup {"refresh"}
    /\ Move(w, IF IsCurrent(w) THEN "pause" ELSE "ended")
    /\ isHeld' = [isHeld EXCEPT ![w] = FALSE]
    /\ UNCHANGED <<jobVars, channelVars, pageVars, watched, after, fallback, answer>>

\* The LISTEN connection breaks; what was sent meanwhile is not sent again.
ListenerBreaks ==
    /\ faults < MaxFaults
    /\ faults' = faults + 1
    /\ listening
    /\ listening' = FALSE
    /\ notifications' = {}
    /\ UNCHANGED <<jobVars, pageVars, watchVars>>

\* The API restarts: its requests fail, its listener is gone.
RestartApi ==
    /\ faults < MaxFaults
    /\ faults' = faults + 1
    /\ listening' = FALSE
    /\ notifications' = {}
    /\ stage' = [w \in Watches |-> IF stage[w] \in AtApi THEN "pause" ELSE stage[w]]
    /\ isHeld' = NoneHeld
    /\ UNCHANGED <<jobVars, pageVars, watched, after, fallback, answer>>

WatchStep(w) ==
    \/ ReadJob(w) \/ ReadRevision(w) \/ Hold(w) \/ HoldEnds(w) \/ Respond(w)
    \/ Ask(w) \/ PauseEnds(w) \/ Show(w) \/ Refresh(w)

StatusWatchNext ==
    \/ \E j \in WatchedJobs : Advance(j) \/ SelectJob(j)
    \/ \E w \in Watches : WatchStep(w) \/ RequestFails(w)
    \/ \E n \in notifications : Notify(n)
    \/ StartListener \/ Deselect \/ ListenerBreaks \/ RestartApi

StatusWatchSpec == StatusWatchInit /\ [][StatusWatchNext]_statusWatchVars

\* The API and the page go on, timers fire; the listener owes nothing.
StatusWatchFairSpec == StatusWatchSpec /\ \A w \in Watches : WF_statusWatchVars(WatchStep(w))

-----------------------------------------------------------------------------
(* Properties. *)

\* A job that has ended is shown as ended, if the page stays on it, however many
\* notifications are lost and whichever endpoint answers (generation-job-status.ts,
\* generation-job-status-watcher.ts).
EndIsShown ==
    \A j \in WatchedJobs :
        (selected = j /\ jobStatus[j] \in Terminal)
            ~> (selected # j \/ shown.status = jobStatus[j])

\* The page shows of its job what was true of it, and never goes back, also when answers
\* for a job it has left arrive late (isCurrent in use-generation-job.ts). What it is told to
\* have succeeded comes with its revision, although the endpoint reads the two one after the
\* other while the job is published (readStatus in routes.ts).
ShownNeverGoesBack ==
    [][/\ shown' # shown =>
             \/ selected' = NoJob \/ watch' # watch
             \/ /\ shown'.version > shown.version
                /\ shown'.version <= version[selected]
                /\ shown'.version = version[selected] =>
                    shown'.status = jobStatus[selected]
       /\ \A w \in Watches :
             stage'[w] \in {"decide", "got"} /\ answer'[w].status = "succeeded" =>
                 answer'[w].revision]_statusWatchVars
=============================================================================
