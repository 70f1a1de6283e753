----------------------------- MODULE MCRuntime -----------------------------
(***************************************************************************)
(* A command and a service in the World, the command in a conversation too,*)
(* one scene at a time.  "together": the World's limit is raised first, so *)
(* that both may run at once, and then a clean-up of either scope, a lower *)
(* limit or a lost write happens.  "turns": one runs at a time, and any two*)
(* of a clean-up of the World, a lost write, a process death and recovery  *)
(* or a reboot happen, and a shutdown.                                     *)
(***************************************************************************)
EXTENDS RuntimeRegistry

CONSTANTS cmd, web, world, chat, port

OnePort == [r \in Services |-> port]
Nested == [s \in Scopes |-> IF s = world THEN Entries ELSE {cmd}]

VARIABLE scene

Together ==
  /\ Next
  /\ backend'.pc = "serving" /\ ~closing'
  /\ Events = 0 => limit'[world] # limit[world]

Turns ==
  /\ Next
  /\ limit' = limit /\ cleanup'.scope # chat

SceneInit == Init /\ scene \in {"together", "turns"}
SceneNext == /\ \/ scene = "together" /\ Together
                \/ scene = "turns" /\ Turns
             /\ UNCHANGED scene

SceneSpec == SceneInit /\ [][SceneNext]_<<scene, vars>>
=============================================================================
