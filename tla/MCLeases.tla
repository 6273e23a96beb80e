------------------------------- MODULE MCLeases -------------------------------
(* The queue with different crews: its safety and its progress in one run. *)
EXTENDS MCGenerationJobLease

\* Who takes part, how often they are disrupted, and which jobs are worked on at length.
VARIABLE crew

Crew(workers, requests, most, jobs) ==
    [workers |-> workers, requests |-> requests, disruptions |-> most, jobs |-> jobs]

\* Two jobs and one worker of each kind; or one job and more workers or requests to retry it.
Crews == {Crew({g1, r1}, {q1}, 2, {1, 2}),
          Crew({g1, g2, r1}, {q1}, 2, {1}), Crew({g1, r1, r2}, {q1}, 2, {1}),
          Crew({g1, g2, r1, r2}, {q1}, 1, {1}), Crew({g1, g2, r1}, {q1, q2}, 1, {1})}

\* A job that is not worked on at length fails for good as soon as it is taken up.
CrewNext ==
    /\ Next /\ UNCHANGED crew
    /\ \A w \in Workers \ crew.workers : UNCHANGED pc[w]
    /\ \A c \in Requests \ crew.requests : UNCHANGED request[c]
    /\ disruptions' <= crew.disruptions
    /\ \A j \in Jobs \ crew.jobs : /\ status'[j] \in {"queued", "profiling", "failed"}
                                   /\ error'[j] # "retryable"

CrewInit == Init /\ crew \in Crews

\* The fairness of FairSpec, owed by those who take part.
CrewSpec ==
    /\ CrewInit /\ [][CrewNext]_<<vars, crew>>
    /\ \A w \in Workers : WF_vars(w \in crew.workers /\ Work(w))
    /\ \A j \in Jobs : WF_vars(ExpireOrphan(j))
=============================================================================
