---------------------------- MODULE PlayerControl ----------------------------
(***************************************************************************)
(* How the editor keeps the audio thread away from a module it rewrites    *)
(* (tracker/PlayerController.cpp, PlayerCriticalSection.h).  Each player   *)
(* has one critical section, shared by its PlayerController and its        *)
(* ModuleEditor.  The section has a flag, not a counter, and the functions *)
(* below call each other in circles: leave -> resumePlayer ->              *)
(* continuePlaying -> leave, enter -> suspendPlayer -> stop -> enter.      *)
(*                                                                         *)
(* The editor thread is a list of pending calls, the innermost first.      *)
(* A step takes the first call and puts the calls of its body in its       *)
(* place; that is where the audio thread can come in between.  The mixer   *)
(* is taken at its contract.                                               *)
(***************************************************************************)
EXTENDS Naturals, Sequences

CONSTANTS
  Players,     \* the players, one per open module
  Commands     \* what the user does in this instance (see CommandNames)

VARIABLES
  attached,    \* the mixer, as in MixerContract
  silenced,
  rendering,
  suspended,   \* PlayerController::suspended: the players it is set for
  enabled,     \* PlayerCriticalSection::enabled, likewise
  loaded,      \* XModule::moduleLoaded, likewise
  mode,        \* what a player plays
  last,        \* what it played when stop() was called: lastPosition etc.
  dialog,      \* the open channel dialog: at most one [p, was]
  calls        \* the editor thread's pending calls

Mixer == INSTANCE MixerContract WITH Mixables <- Players

mixer == <<attached, silenced, rendering>>
flags == <<suspended, enabled>>
song == <<mode, last, loaded>>
vars == <<mixer, flags, song, dialog, calls>>

CommandNames == {"open", "close", "section", "swap", "play", "stop", "note",
                 "realloc", "load", "loadSample", "dialog", "zap", "remap"}

ASSUME CommandsAssumption == Commands \subseteq CommandNames

\* playSong; playPattern; playPattern with playRowOnly.  A player whose
\* song has come to an end by itself counts as playing.
Modes == {"stopped", "song", "pattern", "row"}

Call(op, p) == [op |-> op, p |-> p, flag |-> FALSE, mode |-> "stopped"]
With(op, p, b) == [Call(op, p) EXCEPT !.flag = b]
In(op, p, m) == [Call(op, p) EXCEPT !.mode = m]

Init ==
  /\ Mixer!Init
  /\ suspended = {}
  /\ enabled = {}
  /\ loaded = Players
  /\ mode = [p \in Players |-> "stopped"]
  /\ last = [p \in Players |-> "stopped"]
  /\ dialog = {}
  /\ calls = <<>>

Top == Head(calls)
At(op) == calls # <<>> /\ Top.op = op
Becomes(body) == calls' = body \o Tail(calls)
Returns == Becomes(<<>>)

-----------------------------------------------------------------------------
(* PlayerCriticalSection. *)

Enter ==
  /\ At("enter")
  /\ IF Top.p \in enabled THEN Returns
     ELSE Becomes(<<With("suspend", Top.p, Top.flag), Call("entered", Top.p)>>)
  /\ UNCHANGED <<mixer, flags, song, dialog>>

Entered ==
  /\ At("entered")
  /\ enabled' = enabled \union {Top.p}
  /\ Returns
  /\ UNCHANGED <<mixer, suspended, song, dialog>>

Leave ==
  /\ At("leave")
  /\ IF Top.p \notin enabled THEN Returns
     ELSE Becomes(<<With("resume", Top.p, Top.flag), Call("left", Top.p)>>)
  /\ UNCHANGED <<mixer, flags, song, dialog>>

Left ==
  /\ At("left")
  /\ enabled' = enabled \ {Top.p}
  /\ Returns
  /\ UNCHANGED <<mixer, suspended, song, dialog>>

-----------------------------------------------------------------------------
(* PlayerController. *)

\* (mutant: a player that is suspended already is paused once more)
SuspendAgain ==
  /\ At("suspend")
  /\ Becomes(IF Top.p \notin attached THEN <<>>
             ELSE <<With("pauseDevice", Top.p, Top.flag)>>)
  /\ UNCHANGED <<mixer, flags, song, dialog>>

\* suspendPlayer() returns at once for a player that is suspended or not
\* attached ...
Suspend ==
  /\ At("suspend")
  /\ Becomes(IF Top.p \in suspended \/ Top.p \notin attached THEN <<>>
             ELSE <<With("pauseDevice", Top.p, Top.flag)>>)
  /\ UNCHANGED <<mixer, flags, song, dialog>>

\* (mutant: the call does not wait for the mixer)
PauseDeviceAtOnce ==
  /\ At("pauseDevice")
  /\ suspended' = suspended \union {Top.p}
  /\ Becomes(IF Top.flag THEN <<Call("stop", Top.p)>> ELSE <<>>)
  /\ UNCHANGED <<mixer, enabled, song, dialog>>

\* ... and blocks in MasterMixer::pauseDevice otherwise
PauseDevice ==
  /\ At("pauseDevice")
  /\ Mixer!Silence(Top.p)
  /\ suspended' = suspended \union {Top.p}
  /\ Becomes(IF Top.flag THEN <<Call("stop", Top.p)>> ELSE <<>>)
  /\ UNCHANGED <<enabled, song, dialog>>

\* resumePlayer()
Resume ==
  /\ At("resume")
  /\ Becomes((IF Top.flag THEN <<With("continue", Top.p, Top.p \notin suspended)>>
                          ELSE <<>>)
             \o <<Call("resumeDevice", Top.p)>>)
  /\ UNCHANGED <<mixer, flags, song, dialog>>

\* MasterMixer::resumeDevice does nothing for a device that is not paused
Unsilence(p) == IF p \in silenced THEN Mixer!Resume(p) ELSE UNCHANGED mixer

\* (mutant: resumePlayer resumes only when there is something to continue)
ResumeDeviceIfContinuing ==
  /\ At("resumeDevice")
  /\ IF Top.p \in suspended /\ last[Top.p] # "stopped"
     THEN Unsilence(Top.p) /\ suspended' = suspended \ {Top.p}
     ELSE UNCHANGED <<mixer, suspended>>
  /\ Returns
  /\ UNCHANGED <<enabled, song, dialog>>

ResumeDevice ==
  /\ At("resumeDevice")
  /\ IF Top.p \in suspended
     THEN Unsilence(Top.p) /\ suspended' = suspended \ {Top.p}
     ELSE UNCHANGED <<mixer, suspended>>
  /\ Returns
  /\ UNCHANGED <<enabled, song, dialog>>

\* (mutant: the flag stays set)
AssureKeepsSuspended ==
  /\ At("assureNotSuspended")
  /\ Unsilence(Top.p)
  /\ Returns
  /\ UNCHANGED <<flags, song, dialog>>

AssureNotSuspended ==
  /\ At("assureNotSuspended")
  /\ Unsilence(Top.p)
  /\ suspended' = suspended \ (silenced \intersect {Top.p})
  /\ Returns
  /\ UNCHANGED <<enabled, song, dialog>>

\* if (!suspended) criticalSection->enter(false); touch the player; leave(false)
InSection(p, touch) ==
  (IF p \in suspended THEN <<>> ELSE <<Call("enter", p)>>)
  \o <<touch, Call("leave", p)>>

Stop ==
  /\ At("stop")
  /\ Becomes(InSection(Top.p, Call("halt", Top.p)))
  /\ UNCHANGED <<mixer, flags, song, dialog>>

\* (mutants: a row that plays is to be continued; what played is forgotten)
HaltKeepsRow ==
  /\ At("halt")
  /\ last' = [last EXCEPT ![Top.p] = mode[Top.p]]
  /\ mode' = [mode EXCEPT ![Top.p] = "stopped"]
  /\ Returns
  /\ UNCHANGED <<mixer, flags, loaded, dialog>>

HaltForgets ==
  /\ At("halt")
  /\ last' = [last EXCEPT ![Top.p] = "stopped"]
  /\ mode' = [mode EXCEPT ![Top.p] = "stopped"]
  /\ Returns
  /\ UNCHANGED <<mixer, flags, loaded, dialog>>

\* a player that plays one row only is not continued
Halt ==
  /\ At("halt")
  /\ last' = [last EXCEPT ![Top.p] = IF mode[Top.p] = "row" THEN "stopped"
                                     ELSE mode[Top.p]]
  /\ mode' = [mode EXCEPT ![Top.p] = "stopped"]
  /\ Returns
  /\ UNCHANGED <<mixer, flags, loaded, dialog>>

\* playSong() and playPattern()
Play ==
  /\ At("play")
  /\ Becomes(IF Top.p \notin loaded THEN <<>>
             ELSE <<Call("assureNotSuspended", Top.p), In("start", Top.p, Top.mode)>>)
  /\ UNCHANGED <<mixer, flags, song, dialog>>

Continue ==
  /\ At("continue")
  /\ Becomes(IF last[Top.p] = "stopped" \/ Top.p \notin loaded THEN <<>>
             ELSE (IF Top.flag THEN <<Call("assureNotSuspended", Top.p)>> ELSE <<>>)
                  \o <<In("start", Top.p, last[Top.p])>>)
  /\ UNCHANGED <<mixer, flags, song, dialog>>

\* the common end of the three functions
Start ==
  /\ At("start")
  /\ Becomes(InSection(Top.p, In("restart", Top.p, Top.mode)))
  /\ UNCHANGED <<mixer, flags, song, dialog>>

Restart ==
  /\ At("restart")
  /\ mode' = [mode EXCEPT ![Top.p] = Top.mode]
  /\ Returns
  /\ UNCHANGED <<mixer, flags, last, loaded, dialog>>

\* restartPlaying(): lastPosition = lastRow = 0, to be continued later
RestartPlaying ==
  /\ At("restartPlaying")
  /\ last' = IF Top.p \in loaded THEN [last EXCEPT ![Top.p] = "song"] ELSE last
  /\ Returns
  /\ UNCHANGED <<mixer, flags, mode, loaded, dialog>>

\* attachModuleEditor(): off the mixer, startPlaying (idle), on the mixer
Attach ==
  /\ At("attach")
  /\ Becomes((IF Top.p \in attached THEN <<Call("detach", Top.p)>> ELSE <<>>)
             \o <<Call("restart", Top.p), Call("addDevice", Top.p)>>)
  /\ UNCHANGED <<mixer, flags, song, dialog>>

AddDevice ==
  /\ At("addDevice")
  /\ Mixer!Attach(Top.p)
  /\ Returns
  /\ UNCHANGED <<flags, song, dialog>>

\* detachDevice()
Detach ==
  /\ At("detach")
  /\ Mixer!Detach(Top.p)
  /\ Returns
  /\ UNCHANGED <<flags, song, dialog>>

-----------------------------------------------------------------------------
(* What the calls are made for. *)

\* a change of the module's pointers and sizes, in a section; and the moving
\* of instruments, which is not
Edit ==
  /\ At("edit") \/ At("move")
  /\ Returns
  /\ UNCHANGED <<mixer, flags, song, dialog>>

\* Tracker::updateAfterLoad, when the song has been loaded: Stop and Play
\* Pattern as the keys do
UpdateAfterLoad(p, was) ==
  CASE was = "song" -> <<Call("restartPlaying", p)>>
    [] was = "pattern" -> <<Call("stop", p), In("play", p, "pattern")>>
    [] OTHER -> <<>>

\* ModuleEditor::openSong loads the file, or fails: the module is then as it
\* was, or empty, or without content (the format is unknown)
OpenSong ==
  /\ At("openSong")
  /\ \/ /\ loaded' = loaded \union {Top.p}
        /\ Becomes(UpdateAfterLoad(Top.p, Top.mode))
     \/ /\ \/ loaded' = loaded
           \/ loaded' = loaded \union {Top.p}
           \/ loaded' = loaded \ {Top.p}
        /\ Returns
  /\ UNCHANGED <<mixer, flags, mode, last, dialog>>

CreateEmptySong ==
  /\ At("createEmptySong")
  /\ loaded' = loaded \union {Top.p}
  /\ Returns
  /\ UNCHANGED <<mixer, flags, mode, last, dialog>>

\* ensureSongPlaying(true)
EnsureSongPlaying ==
  /\ At("ensureSongPlaying")
  /\ Becomes(<<With(IF Top.p \in suspended THEN "resume" ELSE "continue", Top.p, TRUE)>>)
  /\ UNCHANGED <<mixer, flags, song, dialog>>

OpenDialog ==
  /\ At("openDialog")
  /\ dialog' = {[p |-> Top.p, was |-> Top.mode]}
  /\ Returns
  /\ UNCHANGED <<mixer, flags, song>>

\* the player object of a closed tab is destroyed
Destroy ==
  /\ At("destroy")
  /\ mode' = [mode EXCEPT ![Top.p] = "stopped"]
  /\ last' = [last EXCEPT ![Top.p] = "stopped"]
  /\ loaded' = loaded \union {Top.p}
  /\ Returns
  /\ UNCHANGED <<mixer, flags, dialog>>

\* The end of a command that should leave the player playing what it played
\* when the command began: Top.mode.
Done ==
  /\ At("done") \/ At("answered")
  /\ Returns
  /\ UNCHANGED <<mixer, flags, song, dialog>>

-----------------------------------------------------------------------------
(* The user's commands: event handlers of the editor. *)

Section(p) == <<With("enter", p, TRUE), Call("edit", p), With("leave", p, TRUE)>>

CanContinue(m) == IF m = "row" THEN "stopped" ELSE m
Ends(p) == In("done", p, CanContinue(mode[p]))

\* openNewTab: settings are applied to the new player before it is attached
OpenTab(p) == Section(p) \o <<Call("attach", p)>>

CloseTab(p) == <<Call("detach", p), Call("destroy", p)>>

\* swapSamples of two modules: both sections, the inner one left first
Swap(p, q) ==
  <<With("enter", p, TRUE), With("enter", q, TRUE), Call("edit", p), Call("edit", q),
    With("leave", q, TRUE), With("leave", p, TRUE)>>

\* reallocChannels
Realloc(p) == <<Call("stop", p), Call("attach", p), With("continue", p, TRUE)>>

\* prepareLoading, openSong, updateAfterLoad, finishLoading: wasPlaying is
\* read before the player is suspended
LoadModule(p) ==
  <<With("suspend", p, TRUE), In("openSong", p, mode[p]), With("resume", p, TRUE)>>

LoadSample(p) == <<With("suspend", p, TRUE)>> \o Section(p) \o <<With("resume", p, TRUE)>>

\* loadTypeFromFile with a sample of several channels: the handler returns
\* with the player suspended and a modal dialog on the screen
AskChannel(p) ==
  <<With("suspend", p, TRUE), In("openDialog", p, CanContinue(mode[p]))>>

\* Zapper::zapAll
Zap(p) ==
  <<With("enter", p, TRUE), Call("createEmptySong", p), With("leave", p, TRUE),
    Call("stop", p)>>

\* SectionOptimize, removeUnusedInstruments: unused instruments are zapped in
\* sections of their own, then the others are moved down without one
Remap(p) ==
  <<With("suspend", p, TRUE)>> \o Section(p) \o <<Call("move", p)>> \o Section(p)
  \o <<Call("ensureSongPlaying", p)>>

Command(c, p) ==
  CASE c = "section"    -> {Section(p) \o <<Ends(p)>>}
    [] c = "swap"       -> {Swap(p, q) \o <<Ends(p), Ends(q)>> : q \in attached \ {p}}
    [] c = "play"       -> {<<In("play", p, m)>> : m \in Modes \ {"stopped"}}
    [] c = "stop"       -> {<<Call("stop", p)>>}
    [] c = "note"       -> {<<Call("assureNotSuspended", p)>>}
    [] c = "realloc"    -> {Realloc(p) \o <<Ends(p)>>}
    [] c = "load"       -> {LoadModule(p) \o <<Ends(p)>>}
    [] c = "loadSample" -> {LoadSample(p) \o <<Ends(p)>>}
    [] c = "dialog"     -> {AskChannel(p)}
    [] c = "zap"        -> {Zap(p)}
    [] c = "remap"      -> {Remap(p) \o <<Ends(p)>>}
    [] c = "close"      -> {CloseTab(p)}
    [] c = "open"       -> {}

Idle == calls = <<>>

UserOpensTab ==
  /\ Idle /\ dialog = {} /\ "open" \in Commands
  /\ \E p \in Players \ attached : calls' = OpenTab(p)
  /\ UNCHANGED <<mixer, flags, song, dialog>>

UserCommands ==
  /\ Idle /\ dialog = {}
  /\ \E c \in Commands, p \in attached : calls' \in Command(c, p)
  /\ UNCHANGED <<mixer, flags, song, dialog>>

\* The dialog is modal, but a MIDI note still comes through ...
NoteDuringDialog ==
  /\ Idle /\ "note" \in Commands
  /\ \E d \in dialog : calls' = <<Call("assureNotSuspended", d.p)>>
  /\ UNCHANGED <<mixer, flags, song, dialog>>

\* ... then the sample is loaded, or not.
UserAnswersDialog ==
  /\ Idle
  /\ \E d \in dialog : \E load \in {<<>>, Section(d.p)} :
       calls' = load \o <<With("resume", d.p, TRUE), In("answered", d.p, d.was)>>
  /\ dialog' = {}
  /\ UNCHANGED <<mixer, flags, song>>

User == UserOpensTab \/ UserCommands \/ NoteDuringDialog \/ UserAnswersDialog

-----------------------------------------------------------------------------
(* The audio thread, as far as the contract of the mixer lets it. *)

AudioThread ==
  /\ \/ \E p \in Players : Mixer!BeginRender(p)
     \/ Mixer!EndRender
  /\ UNCHANGED <<flags, song, dialog, calls>>

EditorStep ==
  \/ Enter \/ Entered \/ Leave \/ Left
  \/ Suspend \/ PauseDevice \/ Resume \/ ResumeDevice \/ AssureNotSuspended
  \/ Stop \/ Halt \/ Play \/ Continue \/ Start \/ Restart \/ RestartPlaying
  \/ Attach \/ AddDevice \/ Detach \/ Destroy
  \/ Edit \/ OpenSong \/ CreateEmptySong \/ EnsureSongPlaying
  \/ OpenDialog \/ Done

Next == EditorStep \/ User \/ AudioThread

Spec == Init /\ [][Next]_vars

-----------------------------------------------------------------------------
(* Properties. *)

\* The flags belong to players, and what is played is one of the modes.
TypeOK ==
  /\ suspended \subseteq Players
  /\ enabled \subseteq Players
  /\ loaded \subseteq Players
  /\ mode \in [Players -> Modes]
  /\ last \in [Players -> Modes \ {"row"}]
  /\ dialog \subseteq [p : Players, was : Modes \ {"row"}]
  /\ \A i \in DOMAIN calls : calls[i].p \in Players

\* Pointers and sizes of a module, and the state of a player, are changed
\* only while its player is not inside mix() (EditorBase.h, the comment at
\* enterCriticalSection): suspendPlayer, resumePlayer and the sections.  The
\* moving of instruments is left to MoveSafe.
Touching == {"edit", "openSong", "createEmptySong", "halt", "restart", "destroy"}

EditSafe == Idle \/ Top.op \notin Touching \/ Top.p \notin rendering

\* The same of removeUnusedInstruments, whose instruments are moved between the
\* sections of zapInstrument, under the suspension made by SectionOptimize.
MoveSafe == At("move") => Top.p \notin rendering

\* A command that interrupts a song or a pattern puts it back: at its end the
\* player plays what it played before (EditorBase.h, leaveCriticalSection).  The
\* loading of a sample that is interrupted by the channel dialog is left out:
\* a MIDI note may have resumed the player meanwhile.
SongContinues ==
  At("done") /\ Top.mode # "stopped" /\ Top.p \in loaded => mode[Top.p] = Top.mode

\* Between commands no section is open, and a player is silent only while the
\* channel dialog that has suspended it is open: no nesting of sections and
\* suspensions leaves a player muted for good.
AtRest ==
  Idle => /\ enabled = {}
          /\ suspended = silenced
          /\ \A p \in suspended : \E d \in dialog : d.p = p

\* A player that counts as suspended is paused in the mixer: the early return
\* of suspendPlayer never lets an edit run unprotected.
SuspendedIsSilent == suspended \subseteq silenced

\* The mixer is called as MasterMixer's guards PauseDevice and AddDevice take
\* it to be.  pauseDevice on a player that is paused already returns at once
\* (MasterMixer.cpp, the loop tests !paused) and leaves markedForPause behind,
\* so that the audio thread would pause the player again after it has been
\* resumed; addDevice on one that is attached would have it mixed twice.
MixerCallsFit ==
  /\ At("pauseDevice") => Top.p \in attached \ silenced
  /\ At("addDevice") => Top.p \notin attached
=============================================================================
