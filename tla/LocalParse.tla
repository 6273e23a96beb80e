------------------------------ MODULE LocalParse ------------------------------
(***************************************************************************)
(* The parser of local tables in the API.                                  *)
(*                                                                         *)
(* A table is parsed in a thread of its own, with a directory of its own,  *)
(* one at a time.  The thread posts one message and ends; a timer, the     *)
(* request's signal and close may stop it at any moment.  What the main    *)
(* thread has been told counts when the thread has exited, not before.     *)
(***************************************************************************)
EXTENDS Naturals, FiniteSets

CONSTANTS
    ParseRequests,  \* calls of parse
    NoRequest

ASSUME LocalParseAssumption == {NoRequest, "open", "closed"} \cap ParseRequests = {}

VARIABLES
    parseStage,     \* where each call is
    parseOutcome,   \* how it ended
    parseAborted,   \* calls whose AbortController has fired
    parseVerdict,   \* what the main thread knows of the thread: message or failure
    thread,         \* the worker thread of each call
    directories,    \* temporary directories that exist
    occupied,       \* the call that holds the parser
    activeDone,     \* the call close would wait for
    closing         \* open, the call that close waits for, or closed

localParseVars == <<parseStage, parseOutcome, parseAborted, parseVerdict, thread, directories,
                    occupied, activeDone, closing>>

ParseStages == {"idle", "mkdtemp", "copy", "running", "stat", "clean", "done"}
ParseFailures == {"cancelled", "timeout", "failed"}
ThreadStates == {"none", "parsing", "written", "posted", "refused", "dead"}

LocalParseTypeOK ==
    /\ parseStage \in [ParseRequests -> ParseStages]
    /\ parseOutcome \in [ParseRequests -> {"none", "result", "busy", "unclean"} \cup ParseFailures]
    /\ parseAborted \subseteq ParseRequests
    /\ parseVerdict \in [ParseRequests -> {"none", "message"} \cup ParseFailures]
    /\ thread \in [ParseRequests -> ThreadStates]
    /\ directories \subseteq ParseRequests
    /\ {occupied, activeDone} \subseteq ParseRequests \cup {NoRequest}
    /\ closing \in ParseRequests \cup {"open", "closed"}

LocalParseInit ==
    /\ parseStage = [q \in ParseRequests |-> "idle"]
    /\ parseOutcome = [q \in ParseRequests |-> "none"]
    /\ parseAborted = {}
    /\ parseVerdict = [q \in ParseRequests |-> "none"]
    /\ thread = [q \in ParseRequests |-> "none"]
    /\ directories = {}
    /\ occupied = NoRequest /\ activeDone = NoRequest
    /\ closing = "open"

ThreadAlive(q) == thread[q] \notin {"none", "dead"}

MoveParse(q, s) == parseStage' = [parseStage EXCEPT ![q] = s]
SlotUnchanged == UNCHANGED <<occupied, activeDone, closing>>

\* The call settles; its wrapper forgets it before anything else runs.
Settle(q, outcome) ==
    /\ MoveParse(q, "done")
    /\ parseOutcome' = [parseOutcome EXCEPT ![q] = outcome]
    /\ occupied' = NoRequest
    /\ activeDone' = NoRequest
    /\ closing' = IF closing = q THEN "closed" ELSE closing

-----------------------------------------------------------------------------
(* Calls. *)

RefuseParse(q, outcome) ==
    /\ MoveParse(q, "done")
    /\ parseOutcome' = [parseOutcome EXCEPT ![q] = outcome]
    /\ UNCHANGED <<parseAborted, parseVerdict, thread, directories>> /\ SlotUnchanged

ParseRefused(q) ==
    /\ parseStage[q] = "idle"
    /\ \/ (closing # "open" \/ q \in parseAborted) /\ RefuseParse(q, "cancelled")
       \/ closing = "open" /\ q \notin parseAborted /\ occupied # NoRequest /\ RefuseParse(q, "busy")

Parse(q) ==
    /\ parseStage[q] = "idle" /\ closing = "open" /\ q \notin parseAborted
    /\ occupied = NoRequest
    /\ occupied' = q
    /\ activeDone' = IF activeDone = NoRequest THEN q ELSE activeDone
    /\ MoveParse(q, "mkdtemp")
    /\ UNCHANGED <<parseOutcome, parseAborted, parseVerdict, thread, directories, closing>>

\* The caller's signal, which a disconnected client and the end of the server fire too.
AbortParse(q) ==
    /\ parseStage[q] # "done" /\ q \notin parseAborted
    /\ parseAborted' = parseAborted \cup {q}
    /\ parseVerdict' = IF parseStage[q] = "running" /\ parseVerdict[q] \in {"none", "message"}
                       THEN [parseVerdict EXCEPT ![q] = "cancelled"] ELSE parseVerdict
    /\ UNCHANGED <<parseStage, parseOutcome, thread, directories>> /\ SlotUnchanged

FailParse(q, code) ==
    /\ MoveParse(q, "clean")
    /\ parseVerdict' = [parseVerdict EXCEPT ![q] = code]
FailureNow(q) == IF q \in parseAborted THEN "cancelled" ELSE "failed"

MakeDirectory(q) ==
    /\ parseStage[q] = "mkdtemp"
    /\ \/ directories' = directories \cup {q} /\ MoveParse(q, "copy") /\ UNCHANGED parseVerdict
       \/ FailParse(q, FailureNow(q)) /\ UNCHANGED directories
    /\ UNCHANGED <<parseOutcome, parseAborted, thread>> /\ SlotUnchanged

\* The source is copied; the signal is asked once more before the thread starts.
StartThread(q) ==
    /\ parseStage[q] = "copy"
    /\ \/ /\ q \notin parseAborted
          /\ thread' = [thread EXCEPT ![q] = "parsing"]
          /\ MoveParse(q, "running")
          /\ UNCHANGED parseVerdict
       \/ (FailParse(q, FailureNow(q)) \/ FailParse(q, "failed")) /\ UNCHANGED thread
    /\ UNCHANGED <<parseOutcome, parseAborted, directories>> /\ SlotUnchanged

-----------------------------------------------------------------------------
(* The thread: it closes its output before it posts the message. *)

ThreadStep(q, s) ==
    /\ thread' = [thread EXCEPT ![q] = s]
    /\ UNCHANGED <<parseStage, parseOutcome, parseAborted, parseVerdict, directories>>
    /\ SlotUnchanged

WriteOutput(q) == thread[q] = "parsing" /\ ThreadStep(q, "written")
PostMetadata(q) == thread[q] = "written" /\ ThreadStep(q, "posted")
PostError(q) == thread[q] \in {"parsing", "written"} /\ ThreadStep(q, "refused")

-----------------------------------------------------------------------------
(* What the main thread hears of it; the first failure counts. *)

Hear(q, verdict) ==
    /\ parseStage[q] = "running"
    /\ parseVerdict' = [parseVerdict EXCEPT ![q] = IF @ \in {"none", "message"} THEN verdict ELSE @]
    /\ UNCHANGED <<parseStage, parseOutcome, parseAborted, directories>> /\ SlotUnchanged

\* The message is accepted, or does not pass its checks.
HearMetadata(q) ==
    /\ thread[q] = "posted" /\ parseVerdict[q] # "message"
    /\ Hear(q, "message") \/ Hear(q, "failed")
    /\ UNCHANGED thread
HearError(q) == thread[q] = "refused" /\ Hear(q, "failed") /\ UNCHANGED thread
HearCrash(q) == ThreadAlive(q) /\ Hear(q, "failed") /\ UNCHANGED thread

\* Mutant: the promise is rejected when the timer fires, not when the thread has exited.
TimeLimitNow(q) ==
    /\ parseStage[q] = "running" /\ ThreadAlive(q)
    /\ FailParse(q, "timeout")
    /\ UNCHANGED <<parseOutcome, parseAborted, thread, directories>> /\ SlotUnchanged

TimeLimit(q) == ThreadAlive(q) /\ Hear(q, "timeout") /\ UNCHANGED thread

\* The exit event: after the messages of a thread that ended, or after terminate.
ThreadExits(q) ==
    /\ parseStage[q] = "running" /\ parseVerdict[q] # "none"
    /\ thread' = [thread EXCEPT ![q] = "dead"]
    /\ MoveParse(q, IF parseVerdict[q] = "message" THEN "stat" ELSE "clean")
    /\ UNCHANGED <<parseOutcome, parseAborted, parseVerdict, directories>> /\ SlotUnchanged

\* The output has the size the message names.
HandOver(q) ==
    /\ parseStage[q] = "stat"
    /\ \/ /\ q \notin parseAborted
          /\ Settle(q, "result") /\ UNCHANGED parseVerdict
       \/ /\ FailParse(q, FailureNow(q)) \/ FailParse(q, "failed")
          /\ UNCHANGED parseOutcome /\ SlotUnchanged
    /\ UNCHANGED <<parseAborted, thread, directories>>

\* The parser is given back after the directory, even when that cannot be removed.
Clean(q) ==
    /\ parseStage[q] = "clean"
    /\ \/ Settle(q, parseVerdict[q]) /\ directories' = directories \ {q}
       \/ q \in directories /\ Settle(q, "unclean") /\ UNCHANGED directories
    /\ UNCHANGED <<parseAborted, parseVerdict, thread>>

\* The caller's dispose.
Dispose(q) ==
    /\ parseOutcome[q] = "result" /\ q \in directories
    /\ directories' = directories \ {q}
    /\ UNCHANGED <<parseStage, parseOutcome, parseAborted, parseVerdict, thread>> /\ SlotUnchanged

-----------------------------------------------------------------------------
(* close: no call is admitted from here on, and the active one is aborted. *)

Close ==
    /\ closing = "open"
    /\ closing' = IF activeDone = NoRequest THEN "closed" ELSE activeDone
    /\ parseAborted' = parseAborted \cup ({occupied} \ {NoRequest})
    /\ parseVerdict' =
          [q \in ParseRequests |->
              IF q = occupied /\ parseStage[q] = "running" /\ parseVerdict[q] \in {"none", "message"}
              THEN "cancelled" ELSE parseVerdict[q]]
    /\ UNCHANGED <<parseStage, parseOutcome, thread, directories, occupied, activeDone>>

LocalParseNext ==
    \/ Close
    \/ \E q \in ParseRequests :
          \/ ParseRefused(q) \/ Parse(q) \/ AbortParse(q) \/ MakeDirectory(q) \/ StartThread(q)
          \/ WriteOutput(q) \/ PostMetadata(q) \/ PostError(q)
          \/ HearMetadata(q) \/ HearError(q) \/ HearCrash(q) \/ TimeLimit(q) \/ ThreadExits(q)
          \/ HandOver(q) \/ Clean(q) \/ Dispose(q)

LocalParseSpec == LocalParseInit /\ [][LocalParseNext]_localParseVars

-----------------------------------------------------------------------------
\* What a call started has ended when the call has settled, and when close has
\* returned nothing is left of any call: no thread, and no directory but those that
\* were handed over or could not be removed (parse, its exit handler and its finally
\* blocks, close).
ParserIsContained ==
    /\ \A q \in ParseRequests : ThreadAlive(q) => parseStage[q] = "running"
    /\ Cardinality({q \in ParseRequests : parseStage[q] \notin {"idle", "done"}}) <= 1
    /\ \A q \in directories : parseStage[q] = "done" => parseOutcome[q] \in {"result", "unclean"}
    /\ closing = "closed" => \A q \in ParseRequests : parseStage[q] \in {"idle", "done"}
=============================================================================
