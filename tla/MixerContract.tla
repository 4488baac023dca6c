---------------------------- MODULE MixerContract ----------------------------
(***************************************************************************)
(* What the editor relies on when it talks to the master mixer: a player   *)
(* (a "mixable") is attached or not, it is audible or silenced, and the    *)
(* audio thread renders at most one player at a time, never one that is    *)
(* silenced or detached.  The editor may rewrite a module exactly while    *)
(* its player is silenced or detached.                                     *)
(***************************************************************************)
EXTENDS FiniteSets

CONSTANT Mixables        \* the players that can be attached to the mixer

VARIABLES
  attached,    \* players the editor has added and not removed
  silenced,    \* attached players the editor has paused and not resumed
  rendering    \* the players inside Mixable::mix() right now

vars == <<attached, silenced, rendering>>

Init ==
  /\ attached = {}
  /\ silenced = {}
  /\ rendering = {}

(***************************************************************************)
(* The editor's side.  Silence and Detach are the *returns* of the         *)
(* blocking calls pauseDevice and removeDevice.                            *)
(***************************************************************************)
Attach(d) ==
  /\ d \notin attached
  /\ attached' = attached \union {d}
  /\ silenced' = silenced \ {d}
  /\ UNCHANGED rendering

Detach(d) ==
  /\ d \in attached
  /\ d \notin rendering
  /\ attached' = attached \ {d}
  /\ silenced' = silenced \ {d}
  /\ UNCHANGED rendering

Silence(d) ==
  /\ d \in attached
  /\ d \notin rendering
  /\ silenced' = silenced \union {d}
  /\ UNCHANGED <<attached, rendering>>

Resume(d) ==
  /\ d \in silenced
  /\ silenced' = silenced \ {d}
  /\ UNCHANGED <<attached, rendering>>

(***************************************************************************)
(* The audio thread's side.                                                *)
(***************************************************************************)
BeginRender(d) ==
  /\ rendering = {}
  /\ d \in attached \ silenced
  /\ rendering' = {d}
  /\ UNCHANGED <<attached, silenced>>

EndRender ==
  /\ rendering # {}
  /\ rendering' = {}
  /\ UNCHANGED <<attached, silenced>>

Next ==
  \/ \E d \in Mixables :
       Attach(d) \/ Detach(d) \/ Silence(d) \/ Resume(d) \/ BeginRender(d)
  \/ EndRender

Spec == Init /\ [][Next]_vars
=============================================================================
