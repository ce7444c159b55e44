----------------------------- MODULE WorkLedger -----------------------------
(***************************************************************************)
(* What the job queue promises whoever enqueues into it: work that is owed *)
(* lands at most once, is called done only after it landed, is called      *)
(* failed only if it never did, and is then settled for good.              *)
(***************************************************************************)
CONSTANT Jobs

VARIABLE status

Statuses == {"absent", "owed", "landed", "done", "failed", "forgotten"}

Init == status = [j \in Jobs |-> "absent"]

Move(j, from, to) ==
    /\ status[j] = from
    /\ status' = [status EXCEPT ![j] = to]

Owe(j)    == Move(j, "absent", "owed")
Land(j)   == Move(j, "owed", "landed")
Finish(j) == Move(j, "landed", "done")
GiveUp(j) == Move(j, "owed", "failed")
Drop(j)   == Move(j, "done", "forgotten") \/ Move(j, "failed", "forgotten")

Next == \E j \in Jobs : Owe(j) \/ Land(j) \/ Finish(j) \/ GiveUp(j) \/ Drop(j)

Spec == Init /\ [][Next]_status
=============================================================================
