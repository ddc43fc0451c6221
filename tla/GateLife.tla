------------------------------- MODULE GateLife -------------------------------
(***************************************************************************)
(* What bench/overhead/run.sh relies on of a process ./gate, and what      *)
(* gate.c promises: it is ready only after it has attached, it stays until *)
(* it is asked to stop, and only one that was asked leaves a report.       *)
(* Nothing is promised about the time it takes.                            *)
(***************************************************************************)

VARIABLES
  life,   \* of the process
  asked,  \* a SIGINT has reached it
  stats   \* its --out file is complete

vars == <<life, asked, stats>>

Life == {"none", "forked", "loading", "ready", "gone"}

TypeOK == life \in Life /\ asked \in BOOLEAN /\ stats \in BOOLEAN

Init == life \in {"none", "loading"} /\ asked = FALSE /\ stats = FALSE

Fork == life = "none" /\ life' = "forked" /\ UNCHANGED <<asked, stats>>

\* The signal handlers are set; before this a SIGINT has no effect.
Listen == life = "forked" /\ life' = "loading" /\ UNCHANGED <<asked, stats>>

Ready == life = "loading" /\ life' = "ready" /\ UNCHANGED <<asked, stats>>

Ask == life \in {"loading", "ready"} /\ asked' = TRUE /\ UNCHANGED <<life, stats>>

Fail == life \in {"forked", "loading"} /\ life' = "gone" /\ UNCHANGED <<asked, stats>>

\* The report may fail to be written.
Quit ==
  /\ life = "ready" /\ asked
  /\ life' = "gone"
  /\ stats' \in BOOLEAN
  /\ UNCHANGED asked

Next == Fork \/ Listen \/ Ready \/ Ask \/ Fail \/ Quit

Spec == Init /\ [][Next]_vars
=============================================================================
