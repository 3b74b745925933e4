---------------------------- MODULE JobLifecycle ----------------------------
(***************************************************************************)
(* What the platform promises of a job, whatever processes serve it        *)
(* (README.md:249): it moves                                               *)
(*   QUEUED -> DISPATCHING -> RUNNING -> COMPLETED/FAILED/CANCELLED/LOST,  *)
(* may leave earlier by the ends listed in Moves, keeps the end it reached *)
(* for ever, and is posted to a worker at most once, while DISPATCHING.    *)
(* Scheduler implements this as long as a lease outlives its holder.       *)
(***************************************************************************)
EXTENDS Naturals

CONSTANT Jobs

VARIABLES status, posts   \* posts[j]: POST /prompt requests sent for job j

Moves ==
    {<<"NEW", "QUEUED">>, <<"QUEUED", "DISPATCHING">>, <<"DISPATCHING", "RUNNING">>,
     <<"RUNNING", "COMPLETED">>}
    \cup {<<"QUEUED", "CANCELLED">>}
    \cup {"DISPATCHING", "RUNNING"} \X {"FAILED", "CANCELLED", "LOST"}

Init ==
    /\ status = [j \in Jobs |-> "NEW"]
    /\ posts = [j \in Jobs |-> 0]

\* One transaction may move several jobs.  A job that runs has been posted.
Advance ==
    /\ DOMAIN status' = Jobs
    /\ \A j \in Jobs :
         /\ status'[j] # status[j] => <<status[j], status'[j]>> \in Moves
         /\ status'[j] = "RUNNING" => posts[j] = 1
    /\ UNCHANGED posts

Post(j) ==
    /\ status[j] = "DISPATCHING" /\ posts[j] = 0
    /\ posts' = [posts EXCEPT ![j] = 1]
    /\ UNCHANGED status

Next == Advance \/ \E j \in Jobs : Post(j)

Spec == Init /\ [][Next]_<<status, posts>>
=============================================================================
