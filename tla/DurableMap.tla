----------------------------- MODULE DurableMap -----------------------------
(***************************************************************************)
(* What a session store promises: a map that changes one key at a time and *)
(* a saved copy of it.  A change reaches the copy at once or, when saving  *)
(* fails, not before a later change saves the whole map; a restart goes    *)
(* back to the copy.  Without a file nothing is ever saved.                *)
(***************************************************************************)
CONSTANTS Keys, Values, Absent, Durable

VARIABLES
  current,  \* the map in use
  saved     \* what a restart finds

mapVars == <<current, saved>>

Empty == [k \in Keys |-> Absent]

Init == current = Empty /\ saved = Empty

Change(k, v) ==
  /\ current' = [current EXCEPT ![k] = v]
  /\ saved' = saved \/ (Durable /\ saved' = current')

Restart == current' = saved /\ saved' = saved

Next ==
  \/ \E k \in Keys, v \in Values \cup {Absent} : Change(k, v)
  \/ Restart

Spec == Init /\ [][Next]_mapVars
=============================================================================
