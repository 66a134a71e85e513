--------------------------- MODULE QueueLifecycle --------------------------
(***************************************************************************)
(* What the durable queue promises about one job, without saying how:      *)
(* jobs get increasing ids, one job is downloaded at a time, the oldest    *)
(* job that has not been tried yet goes before every younger one, a job    *)
(* that has begun ends finished or goes back on the queue, and only a      *)
(* finished job is reopened or forgotten.  Work survives an interruption.  *)
(***************************************************************************)
EXTENDS Naturals

CONSTANT MaxItems

Ids == 1 .. MaxItems
Settled == {"completed", "failed", "cancelled"}

VARIABLES job, last
vars == <<job, last>>

Init == job = [i \in Ids |-> "absent"] /\ last = 0

Accept ==
  /\ last < MaxItems
  /\ last' = last + 1
  /\ job' = [job EXCEPT ![last + 1] = "queued"]

Begin(i) ==
  /\ job[i] \in {"queued", "retrying"}
  /\ \A j \in Ids : job[j] # "downloading"
  /\ \A j \in Ids : j < i => job[j] # "queued"
  /\ job' = [job EXCEPT ![i] = "downloading"]
  /\ UNCHANGED last

End(i) ==
  /\ job[i] = "downloading"
  /\ \E s \in Settled \cup {"retrying"} : job' = [job EXCEPT ![i] = s]
  /\ UNCHANGED last

Interrupt ==
  /\ job' = [i \in Ids |-> IF job[i] = "downloading" THEN "queued" ELSE job[i]]
  /\ UNCHANGED last

Reopen(i) ==
  /\ job[i] \in Settled
  /\ job' = [job EXCEPT ![i] = "queued"]
  /\ UNCHANGED last

Forget ==
  /\ \E S \in SUBSET {i \in Ids : job[i] \in Settled} :
       job' = [i \in Ids |-> IF i \in S THEN "absent" ELSE job[i]]
  /\ UNCHANGED last

Next == Accept \/ Interrupt \/ Forget \/ \E i \in Ids : Begin(i) \/ End(i) \/ Reopen(i)

Spec == Init /\ [][Next]_vars
=============================================================================
