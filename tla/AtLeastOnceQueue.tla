-------------------------- MODULE AtLeastOnceQueue --------------------------
(***************************************************************************)
(* What the background-job queue promises to the code that enqueues work,  *)
(* with workers, clocks and SQL left out.  A job is leased any number of   *)
(* times; every lease is executed to success at most once; a job is done   *)
(* only when some lease of it was executed to success, and it is buried    *)
(* only after it has been leased.  The promise is at-least-once: nothing   *)
(* here says that a job is executed once, or that a settled job stays      *)
(* settled, because the queue does not promise it.                         *)
(***************************************************************************)
EXTENDS Naturals

CONSTANT Jobs

VARIABLES
  state,    \* state[j]: absent, queued, leased, done or dead
  leases,   \* leases[j]: how many leases of j were granted so far
  executed  \* executed[j]: the leases of j whose execution succeeded

vars == <<state, leases, executed>>

JobState == {"absent", "queued", "leased", "done", "dead"}

Init ==
  /\ state = [j \in Jobs |-> "absent"]
  /\ leases = [j \in Jobs |-> 0]
  /\ executed = [j \in Jobs |-> {}]

Submit(j) ==
  /\ state[j] = "absent"
  /\ state' = [state EXCEPT ![j] = "queued"]
  /\ UNCHANGED <<leases, executed>>

Lease(j) ==
  /\ state[j] = "queued"
  /\ state' = [state EXCEPT ![j] = "leased"]
  /\ leases' = [leases EXCEPT ![j] = @ + 1]
  /\ UNCHANGED executed

Execute(j) ==
  /\ \E t \in 1..leases[j] \ executed[j] :
        executed' = [executed EXCEPT ![j] = @ \union {t}]
  /\ UNCHANGED <<state, leases>>

\* A job that has been leased is put back, by a retry or by a recovery.
Requeue(j) ==
  /\ leases[j] > 0
  /\ state' = [state EXCEPT ![j] = "queued"]
  /\ UNCHANGED <<leases, executed>>

Settle(j) ==
  /\ executed[j] # {}
  /\ state' = [state EXCEPT ![j] = "done"]
  /\ UNCHANGED <<leases, executed>>

Bury(j) ==
  /\ leases[j] > 0
  /\ state' = [state EXCEPT ![j] = "dead"]
  /\ UNCHANGED <<leases, executed>>

Next ==
  \E j \in Jobs :
    \/ Submit(j)
    \/ Lease(j)
    \/ Execute(j)
    \/ Requeue(j)
    \/ Settle(j)
    \/ Bury(j)

Spec == Init /\ [][Next]_vars

-----------------------------------------------------------------------------
(* What the promise comes to, in every state.                              *)

\* A job that is done has been executed to success; one that is leased, done or
\* dead has been leased; and what was executed is one of its leases.
Kept ==
  \A j \in Jobs :
    /\ state[j] = "done" => executed[j] # {}
    /\ state[j] \in {"leased", "done", "dead"} => leases[j] > 0
    /\ executed[j] \subseteq 1..leases[j]
=============================================================================
