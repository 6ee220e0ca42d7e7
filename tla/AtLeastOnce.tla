---------------------------- MODULE AtLeastOnce ----------------------------
(***************************************************************************)
(* What publishing and consuming through pg_blazingmq promise together,    *)
(* message by message: a message that reaches the broker is leased to one  *)
(* process at a time, is finished only by a process that used it during    *)
(* that lease, and goes back to the queue if its process ends first.       *)
(***************************************************************************)
CONSTANTS Msg, Proc, None

VARIABLES
  stage,  \* how far each message has come
  owner   \* the process that sends or leases it

aloVars == <<stage, owner>>

Stage == {"unsent", "sent", "lost", "queued", "leased", "used", "done"}

Init ==
  /\ stage = [m \in Msg |-> "unsent"]
  /\ owner = [m \in Msg |-> None]

Move(m, from, to, p) ==
  /\ stage[m] = from
  /\ stage' = [stage EXCEPT ![m] = to]
  /\ owner' = [owner EXCEPT ![m] = p]

Send(p, m)   == Move(m, "unsent", "sent", p)
Arrive(m)    == Move(m, "sent", "queued", None)
Refuse(m)    == Move(m, "sent", "lost", None)
Lease(p, m)  == Move(m, "queued", "leased", p)
Use(p, m)    == owner[m] = p /\ Move(m, "leased", "used", p)
Finish(m)    == Move(m, "used", "done", None)

\* A process ends: what it was sending may be lost, what it held is queued again.
End(p) ==
  /\ stage' = [m \in Msg |->
       IF owner[m] # p THEN stage[m]
       ELSE IF stage[m] = "sent" THEN "lost"
       ELSE "queued"]
  /\ owner' = [m \in Msg |-> IF owner[m] = p THEN None ELSE owner[m]]

Next ==
  \/ \E m \in Msg : Arrive(m) \/ Refuse(m) \/ Finish(m)
  \/ \E p \in Proc, m \in Msg : Send(p, m) \/ Lease(p, m) \/ Use(p, m)
  \/ \E p \in Proc : End(p)

Spec == Init /\ [][Next]_aloVars
=============================================================================
