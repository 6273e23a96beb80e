------------------------------ MODULE MCProgress ------------------------------
(* Two promises of progress, that orphaned objects go and that the page shows the *)
(* end of its job, of parts that share no state. The initial state chooses the    *)
(* part that moves, and only its steps are owed.                                  *)
EXTENDS MCRenderPublication, StatusWatch

VARIABLE focus

progressVars == <<vars, statusWatchVars, focus>>

ProgressInit ==
    /\ focus \in {"publication", "watch"}
    /\ Init /\ StatusWatchInit
    \* The part that does not move starts in one state.
    /\ focus # "watch" => endpoint = "holds"

ProgressNext ==
    /\ UNCHANGED focus
    /\ \/ focus = "publication" /\ Next /\ UNCHANGED statusWatchVars
       \/ focus = "watch" /\ StatusWatchNext /\ UNCHANGED vars

\* The fairness of FairSpec and of StatusWatchFairSpec.
ProgressSpec ==
    /\ ProgressInit /\ [][ProgressNext]_progressVars
    /\ \A w \in RenderWorkers : /\ WF_vars(focus = "publication" /\ Attempt(w))
                                /\ WF_vars(focus = "publication" /\ Clean(w))
    /\ \A j \in Jobs : /\ WF_vars(focus = "publication" /\ Decide(j))
                       /\ WF_vars(focus = "publication" /\ ExpireOrphan(j))
                       /\ WF_vars(focus = "publication" /\ Recover(j))
    /\ \A key \in Keys :
          WF_vars(focus = "publication" /\ (PutLands(key) \/ PutDropped(key)))
    /\ \A j \in Jobs, f \in Fences :
          SF_vars(focus = "publication" /\ \E w \in RenderWorkers : MarkOrphan(w, j, f))
    /\ \A w \in Watches : WF_statusWatchVars(focus = "watch" /\ WatchStep(w))
=============================================================================
