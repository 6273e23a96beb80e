------------------------------ MODULE JobEnqueue ------------------------------
(***************************************************************************)
(* How requests become generation jobs, under idempotency keys.            *)
(*                                                                         *)
(* Three routes insert into generation_jobs of one project: a message of a *)
(* conversation, the direct endpoint, and an edit, copy or rollback of a   *)
(* revision.  Only the last one works in a transaction; the other two read *)
(* and write statement by statement.  A client repeats a request by        *)
(* sending another one with the same key.                                  *)
(***************************************************************************)
EXTENDS Integers, Sequences

CONSTANTS
    EnqueueRequests,  \* HTTP requests, repetitions included
    Bodies,           \* what they may ask for
    NoKey,            \* no clientRequestId, no idempotencyKey
    NoConversation,   \* a direct request or a revision command that names none
    MaxInputChanges   \* bound: changes of theme, metric, plugins or memories meanwhile

\* entry: the route; content: the prompt, or the revision command. A conversation that a
\* request opens is named after the request.
ASSUME JobEnqueueAssumption ==
    /\ MaxInputChanges \in Nat
    /\ \A b \in Bodies :
          /\ DOMAIN b = {"entry", "key", "content", "conversation"}
          /\ b.entry \in {"message", "chat", "direct", "revision"}
          /\ b.entry \in {"message", "chat"} => b.conversation # NoConversation
          /\ b.entry = "revision" => b.conversation = NoConversation
          /\ b.conversation \notin EnqueueRequests

VARIABLES
    requested,        \* the body of each request
    messages,     \* conversation_messages: the requests that wrote them, in order
    queued,       \* generation_jobs
    opened,       \* requests whose own conversation exists
    inputs,       \* version of the other inputs a fingerprint covers
    step,         \* where each request is
    trigger,      \* the message it found under its key
    projection,   \* contents of the conversation it has read
    fingerprint,  \* of its inputs
    reply,        \* its answer
    replyJob      \* the job it was answered with

EntryOf(q) == requested[q].entry
KeyOf(q) == requested[q].key
ContentOf(q) == requested[q].content
ConversationOf(q) == requested[q].conversation

requestState == <<step, trigger, projection, fingerprint, reply, replyJob>>
jobEnqueueVars == <<requested, messages, queued, opened, inputs, requestState>>

NoFingerprint == <<>>
NoMessage == <<>>

\* What fingerprintFor hashes. A revision command covers the frozen revision only.
FingerprintOf(q) ==
    IF EntryOf(q) = "revision"
    THEN <<"revision", ContentOf(q)>>
    ELSE <<"prompt", ConversationOf(q), projection[q], ContentOf(q), inputs>>

\* A request without a key is its own key.
KeyUsed(q) == IF KeyOf(q) = NoKey THEN fingerprint[q] ELSE KeyOf(q)

JobsUnder(key) == {j \in queued : j.key = key}

Steps == {"idle", "found", "new", "projected", "saved", "checked", "ready", "raced", "answered"}
Replies == {"pending", "said", "job", "prepare", "conflict", "error", "lost"}

JobEnqueueTypeOK ==
    /\ requested \in [EnqueueRequests -> Bodies]
    /\ messages \in Seq(EnqueueRequests)
    /\ \A j \in queued :
          /\ DOMAIN j = {"by", "key", "content", "conversation", "fingerprint"}
          /\ j.by \in EnqueueRequests
          /\ j.conversation \in {b.conversation : b \in Bodies} \cup EnqueueRequests
    /\ opened \subseteq EnqueueRequests
    /\ inputs \in 0..MaxInputChanges
    /\ step \in [EnqueueRequests -> Steps]
    /\ trigger \in [EnqueueRequests -> EnqueueRequests \cup {NoMessage}]
    /\ projection \in [EnqueueRequests -> Seq({b.content : b \in Bodies})]
    /\ DOMAIN fingerprint = EnqueueRequests
    /\ reply \in [EnqueueRequests -> Replies]
    /\ replyJob \in [EnqueueRequests -> SUBSET EnqueueRequests]

JobEnqueueInit ==
    /\ requested \in [EnqueueRequests -> Bodies]
    /\ messages = <<>>
    /\ queued = {}
    /\ opened = {}
    /\ inputs = 0
    /\ step = [q \in EnqueueRequests |-> "idle"]
    /\ trigger = [q \in EnqueueRequests |-> NoMessage]
    /\ projection = [q \in EnqueueRequests |-> <<>>]
    /\ fingerprint = [q \in EnqueueRequests |-> NoFingerprint]
    /\ reply = [q \in EnqueueRequests |-> "pending"]
    /\ replyJob = [q \in EnqueueRequests |-> {}]

GoTo(q, s) == step' = [step EXCEPT ![q] = s] /\ UNCHANGED <<reply, replyJob>>

ReplyWith(q, r) ==
    /\ step' = [step EXCEPT ![q] = "answered"]
    /\ reply' = [reply EXCEPT ![q] = r]
    /\ UNCHANGED replyJob

ReplyJob(q, j) ==
    /\ step' = [step EXCEPT ![q] = "answered"]
    /\ reply' = [reply EXCEPT ![q] = "job"]
    /\ replyJob' = [replyJob EXCEPT ![q] = {j.by}]

-----------------------------------------------------------------------------
(* POST /conversations/:conversationId/messages with generate. *)

\* findConversationMessageByClientRequestId.
MessageUnderKey(q) ==
    {m \in EnqueueRequests :
        /\ EntryOf(m) = "message"     \* the other routes store no key with a message
        /\ KeyOf(q) # NoKey
        /\ KeyOf(m) = KeyOf(q)
        /\ ConversationOf(m) = ConversationOf(q)
        /\ \E i \in 1..Len(messages) : messages[i] = m}

FindMessage(q) ==
    /\ step[q] = "idle"
    /\ EntryOf(q) = "message"
    /\ LET found == MessageUnderKey(q) IN
       IF \E m \in found : ContentOf(m) # ContentOf(q)
       THEN ReplyWith(q, "conflict") /\ UNCHANGED trigger
       ELSE /\ GoTo(q, "found")
            /\ IF found = {} THEN UNCHANGED trigger
               ELSE \E m \in found : trigger' = [trigger EXCEPT ![q] = m]
    /\ UNCHANGED <<requested, messages, queued, opened, inputs, projection, fingerprint>>

\* Mutant: only the prompt is compared.
SamePrompt(q, j) == j.content = ContentOf(q)

SameInput(q, j) == j.content = ContentOf(q) /\ j.conversation = ConversationOf(q)

\* A job under the key answers the request, if its prompt and conversation are the same.
FindJob(q) ==
    /\ step[q] = "found"
    /\ LET found == IF KeyOf(q) = NoKey THEN {} ELSE JobsUnder(KeyOf(q)) IN
       IF found = {} THEN GoTo(q, "new")
       ELSE \E j \in found : IF SameInput(q, j) THEN ReplyJob(q, j) ELSE ReplyWith(q, "conflict")
    /\ UNCHANGED <<requested, messages, queued, opened, inputs, trigger, projection, fingerprint>>

\* projectConversationForGeneration: everything said in the conversation, except the message
\* the request has found under its own key.
ProjectConversation(q) ==
    /\ \/ EntryOf(q) = "message" /\ step[q] = "new"
       \/ EntryOf(q) = "direct" /\ step[q] = "idle"
    /\ LET heard == SelectSeq(messages, LAMBDA m : ConversationOf(m) = ConversationOf(q)
                                                    /\ m # trigger[q])
       IN  projection' = [projection EXCEPT ![q] = [i \in 1..Len(heard) |-> ContentOf(heard[i])]]
    /\ GoTo(q, IF EntryOf(q) = "message" THEN "projected" ELSE "saved")
    /\ UNCHANGED <<requested, messages, queued, opened, inputs, trigger, fingerprint>>

\* The message is stored, unless it was found or another request is faster. Preconditions
\* that were not met answer the request without a job.
SaveMessage(q) ==
    /\ step[q] = "projected"
    /\ LET earlier == MessageUnderKey(q) IN
       IF trigger[q] = NoMessage /\ \E m \in earlier : ContentOf(m) # ContentOf(q)
       THEN ReplyWith(q, "conflict") /\ UNCHANGED messages
       ELSE /\ IF trigger[q] = NoMessage /\ earlier = {}
               THEN messages' = Append(messages, q)
               ELSE UNCHANGED messages
            /\ GoTo(q, "saved") \/ ReplyWith(q, "prepare")
    /\ UNCHANGED <<requested, queued, opened, inputs, trigger, projection, fingerprint>>

\* The same route without generate: a message, and the assistant's reply to it.
SayInConversation(q) ==
    /\ step[q] = "idle"
    /\ EntryOf(q) = "chat"
    /\ messages' = Append(messages, q)
    /\ ReplyWith(q, "said")
    /\ UNCHANGED <<requested, queued, opened, inputs, trigger, projection, fingerprint>>

-----------------------------------------------------------------------------
(* createGenerationJobRecord, for a message and for the direct endpoint. *)

\* The inputs are frozen and hashed, then the key is looked up.
CheckKey(q) ==
    /\ step[q] = "saved"
    /\ fingerprint' = [fingerprint EXCEPT ![q] = FingerprintOf(q)]
    /\ LET key == IF KeyOf(q) = NoKey THEN FingerprintOf(q) ELSE KeyOf(q)
           found == JobsUnder(key)
       IN  IF found = {} THEN GoTo(q, "checked")
           ELSE \E j \in found : IF j.fingerprint = FingerprintOf(q)
                                 THEN ReplyJob(q, j) ELSE ReplyWith(q, "conflict")
    /\ UNCHANGED <<requested, messages, queued, opened, inputs, trigger, projection>>

\* Inputs that are missing, or not those of the job whose question is answered.
RefuseInputs(q) ==
    /\ step[q] = "saved"
    /\ ReplyWith(q, "error")
    /\ UNCHANGED <<requested, messages, queued, opened, inputs, trigger, projection, fingerprint>>

\* The direct endpoint opens a conversation, or adds a message without a key to the one named.
AddTurn(q) ==
    /\ step[q] = "checked"
    /\ IF EntryOf(q) = "message" THEN UNCHANGED <<messages, opened>>
       ELSE /\ messages' = IF ConversationOf(q) = NoConversation THEN messages
                           ELSE Append(messages, q)
            /\ opened' = IF ConversationOf(q) = NoConversation THEN opened \cup {q} ELSE opened
    /\ GoTo(q, "ready")
    /\ UNCHANGED <<requested, queued, inputs, trigger, projection, fingerprint>>

NewJob(q) ==
    [by |-> q, key |-> KeyUsed(q), content |-> ContentOf(q), fingerprint |-> fingerprint[q],
     conversation |-> IF ConversationOf(q) = NoConversation THEN q ELSE ConversationOf(q)]

\* The transaction that inserts the job with its contexts. The key is unique; only the
\* message route takes a lost race for an answer, and only under a key of the client.
InsertJob(q) ==
    /\ step[q] = "ready"
    /\ EntryOf(q) # "revision"
    /\ LET found == JobsUnder(KeyUsed(q)) IN
       IF found = {}
       THEN queued' = queued \cup {NewJob(q)} /\ ReplyJob(q, NewJob(q))
       ELSE /\ UNCHANGED queued
            /\ IF EntryOf(q) = "direct" \/ KeyOf(q) = NoKey THEN ReplyWith(q, "error")
               ELSE \E j \in found :
                       IF SameInput(q, j) THEN ReplyJob(q, j) ELSE ReplyWith(q, "conflict")
    /\ UNCHANGED <<requested, messages, opened, inputs, trigger, projection, fingerprint>>

-----------------------------------------------------------------------------
(* POST /chart-artifacts/:artifactId/revisions: edit, copy and rollback. *)

\* readExisting, before the transaction and after a lost race.
ReadExisting(q) ==
    /\ EntryOf(q) = "revision"
    /\ step[q] \in {"idle", "raced"}
    /\ fingerprint' = [fingerprint EXCEPT ![q] = FingerprintOf(q)]
    /\ LET found == JobsUnder(IF KeyOf(q) = NoKey THEN FingerprintOf(q) ELSE KeyOf(q)) IN
       IF found # {}
       THEN \E j \in found : IF j.fingerprint = FingerprintOf(q)
                             THEN ReplyJob(q, j) ELSE ReplyWith(q, "conflict")
       ELSE IF step[q] = "raced" THEN ReplyWith(q, "error") ELSE GoTo(q, "ready")
    /\ UNCHANGED <<requested, messages, queued, opened, inputs, trigger, projection>>

\* One transaction: conversation, job (ON CONFLICT DO NOTHING), message. No job: roll back.
EnqueueRevision(q) ==
    /\ EntryOf(q) = "revision"
    /\ step[q] = "ready"
    /\ IF JobsUnder(KeyUsed(q)) = {}
       THEN /\ queued' = queued \cup {NewJob(q)}
            /\ opened' = opened \cup {q}
            /\ ReplyJob(q, NewJob(q))
       ELSE GoTo(q, "raced") /\ UNCHANGED <<queued, opened>>
    /\ UNCHANGED <<requested, messages, inputs, trigger, projection, fingerprint>>

-----------------------------------------------------------------------------
(* Around the requests. *)

\* The API dies, or a statement fails, between two steps of a request.
LoseRequest(q) ==
    /\ step[q] \notin {"idle", "answered"}
    /\ ReplyWith(q, "lost")
    /\ UNCHANGED <<requested, messages, queued, opened, inputs, trigger, projection, fingerprint>>

\* Somebody saves a theme, confirms a metric, binds a plugin or accepts a memory.
ChangeInputs ==
    /\ inputs < MaxInputChanges
    /\ inputs' = inputs + 1
    /\ UNCHANGED <<requested, messages, queued, opened, requestState>>

JobEnqueueNext ==
    \/ \E q \in EnqueueRequests :
          \/ FindMessage(q) \/ FindJob(q) \/ ProjectConversation(q) \/ SaveMessage(q)
          \/ SayInConversation(q)
          \/ CheckKey(q) \/ RefuseInputs(q) \/ AddTurn(q) \/ InsertJob(q)
          \/ ReadExisting(q) \/ EnqueueRevision(q) \/ LoseRequest(q)
    \/ ChangeInputs

JobEnqueueSpec == JobEnqueueInit /\ [][JobEnqueueNext]_jobEnqueueVars

-----------------------------------------------------------------------------
(* Properties. *)

\* Requests under one key that are answered with a job are answered with the same one, and
\* it was made from the route, the prompt and the conversation of each of them, in whatever
\* order their statements interleave (routes.ts, chart-routes.ts).
SameAnswer ==
    \A q \in EnqueueRequests : \A j \in queued : j.by \in replyJob[q] =>
        /\ j.content = ContentOf(q)
        /\ ConversationOf(j.by) = ConversationOf(q)
        /\ EntryOf(j.by) = "revision" <=> EntryOf(q) = "revision"
        /\ KeyOf(q) # NoKey => \A p \in EnqueueRequests :
              KeyOf(p) = KeyOf(q) => replyJob[p] \subseteq {j.by}

\* A revision command that loses the race for its key leaves no conversation without a job
\* behind, and no job lacks its conversation (JobEnqueueRace in chart-routes.ts).
NoOrphanConversation ==
    \A q \in EnqueueRequests : EntryOf(q) = "revision" =>
        (q \in opened <=> \E j \in queued : j.by = q)

\* Whoever loses a race for a key gets the winner's job, made from the same input, and
\* leaves nothing behind.
AnswersAgree == SameAnswer /\ NoOrphanConversation
=============================================================================
