---------------------------- MODULE MCScheduling ----------------------------
(* ProcessScheduling on small instances, with the tick at which a process  *)
(* last went waiting remembered in "since".                                *)
EXTENDS ProcessScheduling

VARIABLE since

SinceInit == Init /\ since = <<>>

SinceNext ==
  /\ Next
  /\ since' = [p \in DOMAIN job' |->
                 IF p \in Known
                 THEN IF status[p] # "WAITING" /\ status'[p] = "WAITING" THEN clock ELSE since[p]
                 ELSE 0]

SinceSpec == SinceInit /\ [][SinceNext]_<<vars, since>>
SinceFairSpec == SinceSpec /\ WF_vars(Simulate)

(* I/O takes exactly the ticks asked for: a process that went waiting at   *)
(* some tick is ready again that many ticks and one later, whatever else   *)
(* enters or leaves the queue meanwhile (lines 370-371, 385-401).          *)
IoExact ==
  [][\A p \in Known : status[p] = "WAITING" /\ status'[p] = "READY"
       => clock = since[p] + job[p].ioDuration + 1]_<<vars, since>>
=============================================================================
