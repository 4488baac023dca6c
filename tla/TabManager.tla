------------------------------ MODULE TabManager ------------------------------
(***************************************************************************)
(* The open modules and their tabs (tracker/TabManager.cpp), the header    *)
(* control that shows the tabs (TabHeaderControl.cpp) and the list of      *)
(* players (PlayerMaster.cpp).  Three lists describe the same modules: the *)
(* documents, the tabs, each with the index ("ID") of its document, and    *)
(* the players.  The selected tab is kept by the header, the module that   *)
(* is edited by the tracker; a mouse button that goes down on a tab        *)
(* changes the first at once and the second when it comes up, and the      *)
(* keyboard can open, close and cycle tabs in between.                     *)
(*                                                                         *)
(* A module, its editor and its player are one value of Modules.  This     *)
(* module has the operations of the tabs; RecorderLogic composes them with *)
(* what they do to the notes that are played.                              *)
(***************************************************************************)
EXTENDS Integers, FiniteSets, SequencesExt

CONSTANTS
  Modules,    \* at least MaxTabs values
  MaxTabs,    \* PlayerMaster's DefaultMaxDevices
  Behaviours  \* StopTabsBehaviour: "none", "onSwitch", "onPlayback"

ASSUME TabsAssumption ==
  /\ MaxTabs \in Nat \ {0}
  /\ IsFiniteSet(Modules) /\ Cardinality(Modules) >= MaxTabs
  /\ Behaviours \subseteq {"none", "onSwitch", "onPlayback"}

VARIABLES
  documents,  \* TabManager::documents
  tabs,       \* TabHeaderControl::tabHeaders: the ID of each
  hit,        \* hitIndex: the selected tab, from 1
  held,       \* <<oldHitIndex>> while the mouse button is down on the header
  current,    \* Tracker::moduleEditor and playerController
  players,    \* PlayerMaster::playerControllers
  paused,     \* PlayerBase::paused: the players it is set for
  behaviour,  \* stopOnTabSwitch, stopBackgroundOnPlay
  resume      \* resumeOnTabSwitch

settings == <<behaviour, resume>>
tabVars == <<documents, tabs, hit, held, current, players, paused, settings>>

Document(i) == documents[tabs[i]]

TabInit ==
  \E m \in Modules :
    /\ documents = <<m>>
    /\ tabs = <<1>>
    /\ hit = 1
    /\ held = <<>>
    /\ current = m
    /\ players = {m}
    /\ paused = {}
    /\ behaviour \in Behaviours
    /\ resume \in BOOLEAN

-----------------------------------------------------------------------------
\* (mutant: the selected player is not continued)
SelectLeavesPaused(m, open) ==
  IF m = current THEN paused
  ELSE IF behaviour = "onSwitch" THEN open \ {m} ELSE paused

\* selectModuleEditor(): pauses the others when tabs stop at a switch, and
\* continues the selected player.  There is nothing to do for the module
\* that is selected already.
SelectPaused(m, open) ==
  IF m = current THEN paused
  ELSE (IF behaviour = "onSwitch" THEN open ELSE paused) \ {m}

\* whether selecting m stops its song: it was paused and is not to resume
SelectStops(m) == m # current /\ m \in paused /\ ~resume

Select(m) ==
  /\ current' = m
  /\ paused' = SelectPaused(m, players)
  /\ UNCHANGED <<documents, tabs, players, settings>>

\* openNewTab(): a tab behind the others.  Without a free place in the mixer
\* there is only a message.
OpenTab(m) ==
  /\ m \notin players
  /\ Cardinality(players) < MaxTabs
  /\ documents' = Append(documents, m)
  /\ tabs' = Append(tabs, Len(documents'))
  /\ hit' = Len(tabs')
  /\ players' = players \union {m}
  /\ current' = m
  /\ paused' = SelectPaused(m, players')
  /\ UNCHANGED <<held, settings>>

\* TabHeaderControl::dispatchEvent(): the button goes down on tab i ...
MouseDown(i) ==
  /\ held = <<>>
  /\ held' = <<hit>>
  /\ hit' = i
  /\ UNCHANGED <<documents, tabs, current, players, paused, settings>>

\* ... and comes up; eSelection is sent when the hit tab is another one
MouseUp ==
  /\ held # <<>>
  /\ held' = <<>>
  /\ hit' = hit
  /\ IF hit # held[1] THEN Select(Document(hit))
     ELSE UNCHANGED <<documents, tabs, current, players, paused, settings>>

\* cycleTab(): the next or the previous tab, if there is one
CycleTab(offset) ==
  /\ hit + offset \in DOMAIN tabs
  /\ hit' = hit + offset
  /\ UNCHANGED held
  /\ Select(Document(hit + offset))

\* the tabs without tab i; a later document has moved up by one
Without(i) ==
  [j \in DOMAIN RemoveAt(tabs, i) |->
     LET id == RemoveAt(tabs, i)[j] IN IF id > tabs[i] THEN id - 1 ELSE id]

Clamped(i, n) == IF i > n THEN n ELSE i

\* (mutant: the document is looked up before the closed one is removed)
SuccessorBefore(i) == documents[Without(i)[Clamped(i, Len(documents) - 1)]]

\* what is selected when tab i is closed: switchToTab() is given the ID of
\* the tab and looks up the tab of that index
Successor(i) ==
  LET docs == RemoveAt(documents, tabs[i])
      left == Without(i)
  IN  docs[left[left[Clamped(i, Len(docs))]]]

\* closeTab(): the selected tab, which with the button down need not be the
\* module that is edited.  The player is destroyed if its module is not the
\* selected one.  The only tab is not closed but zapped, which stops its song
\* (EnsureSongStopped of RecorderLogic).  Left out: the question about unsaved
\* changes, a modal dialog that can take the mouse button's coming up.
CloseTab ==
  LET closed == Document(hit) IN
  /\ Len(tabs) > 1
  /\ documents' = RemoveAt(documents, tabs[hit])
  /\ tabs' = Without(hit)
  /\ hit' = Clamped(hit, Len(documents'))
  /\ current' = Successor(hit)
  /\ players' = IF closed # current' THEN players \ {closed} ELSE players
  /\ paused' = SelectPaused(current', players) \intersect players'
  /\ UNCHANGED <<held, settings>>

\* PlayerLogic::stopAll() pauses the players other than the current one, when
\* a song is started and the background is to stop
PauseBackground ==
  /\ paused' = IF behaviour = "onPlayback" THEN paused \union (players \ {current})
               ELSE paused
  /\ UNCHANGED <<documents, tabs, hit, held, current, players, settings>>

-----------------------------------------------------------------------------
TabTypeOK ==
  /\ documents \in Seq(Modules)
  /\ tabs \in Seq(DOMAIN documents) /\ hit \in DOMAIN tabs
  /\ held \in Seq(Nat) /\ Len(held) <= 1
  /\ current \in Modules
  /\ players \subseteq Modules /\ paused \subseteq players
  /\ behaviour \in Behaviours /\ resume \in BOOLEAN

\* The three lists describe the same modules: every document has one tab and
\* one player, and unless the mouse button is down the selected tab is that
\* of the module being edited.  A wrong index here edits one module and plays
\* another, and a player that stays behind takes a place in the mixer.
TabsAgree ==
  /\ Len(tabs) = Len(documents)
  /\ IsInjective(documents) /\ IsInjective(tabs)
  /\ players = ToSet(documents)
  /\ current \in players
  /\ held = <<>> => current = Document(hit)

\* The module being edited is never silent because of a tab behaviour: its
\* player is not paused, through any order of switching, closing and playing.
CurrentNotPaused == current \notin paused
=============================================================================
