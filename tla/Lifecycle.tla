----------------------------- MODULE Lifecycle ------------------------------
(***************************************************************************)
(* What initialisation and finalization promise to a module, whatever the  *)
(* import graph: it comes up after the modules it depends on and goes down *)
(* before them, nothing comes up once something went down or failed.       *)
(***************************************************************************)
EXTENDS FiniteSets

CONSTANTS Module

VARIABLES dep,    \* [Module -> SUBSET Module]: what each module depends on
          state   \* [Module -> {"cold", "up", "failed", "down"}]

vars == <<dep, state>>

Init ==
    /\ dep \in [Module -> SUBSET Module]
    /\ state = [m \in Module |-> "cold"]

Start(m, outcome) ==
    /\ state[m] = "cold"
    /\ \A d \in dep[m] : state[d] = "up"
    /\ \A n \in Module : state[n] \notin {"failed", "down"}
    /\ state' = [state EXCEPT ![m] = outcome]
    /\ UNCHANGED dep

Stop(m) ==
    /\ state[m] = "up"
    /\ \A n \in Module : m \in dep[n] => state[n] # "up"
    /\ state' = [state EXCEPT ![m] = "down"]
    /\ UNCHANGED dep

Next ==
    \E m \in Module : Start(m, "up") \/ Start(m, "failed") \/ Stop(m)

Spec == Init /\ [][Next]_vars
=============================================================================
