---------------------------- MODULE RecorderLogic ----------------------------
(***************************************************************************)
(* The notes that are played on the keyboard and by MIDI, over several     *)
(* open modules (tracker/RecorderLogic.cpp, with the parts of              *)
(* PlayerController.cpp that choose a channel and of PlayerLogic.cpp that  *)
(* start and stop songs).  A note that goes down is sent to the player of  *)
(* the selected tab and remembered in a table of keys; when it comes up,   *)
(* every key of the table with that note gets a key off on the player and  *)
(* channel it was played on.  The events do not carry a note: that is the  *)
(* key's place on the keyboard in the octave of the selected tab at the    *)
(* time of each event.  Notes reach a player through its ring buffer (see  *)
(* PlayerStatusTracker), which the audio thread empties unless the player  *)
(* is paused.  What recording writes into the pattern is left out, and the *)
(* song being followed and not playing single rows is taken for granted.   *)
(***************************************************************************)
EXTENDS TabManager

CONSTANTS
  Keyboard, Midi,  \* the keys: their pitches, within an octave
  NewOctave,       \* the octave of a new module
  MidiOctave,      \* where the keys of Midi are
  Setups,          \* settings and modules: see the setup below
  TableSize,       \* MAXNOTES: 120 in the code, the keys that are remembered
  MaxQueue,        \* bound: the notes the audio thread is behind
  Habits           \* what the user does in this instance (see HabitNames)

HabitNames == {"octave", "stop", "tabs"}

Keys == ({"key"} \X Keyboard) \union ({"midi"} \X Midi)

ASSUME RecorderAssumption ==
  /\ Habits \subseteq HabitNames
  /\ \A s \in Setups :
       /\ s.behaviour \in Behaviours /\ s.resume \in BOOLEAN
       /\ s.jazz \in {"virtual", "multi", "single"}
       /\ s.channels \in Nat \ {0} /\ s.virtual \in Nat
       /\ s.jazz = "virtual" <=> s.virtual > 0
       /\ s.armed \subseteq 0..s.channels - 1
       /\ s.tabs \in 1..MaxTabs /\ NewOctave \in s.octaves
       /\ s.keys \subseteq Keys /\ s.mouse \in BOOLEAN
  /\ TableSize \in Nat /\ MaxQueue \in Nat

VARIABLES
  down,          \* the keys that are held, <<device, pitch>>
  octave,        \* PatternEditor::currentOctave of each module
  cursor,        \* the channel the cursor is in, which is kept over tabs
  recordMode,    \* RecorderLogic::recordMode
  keys,          \* RecorderLogic::keys
  playing,       \* the players that play their song
  queue,         \* the notes in each player's ring buffer
  sounding,      \* the channels of each player that sound a played note
  nextPlaying,   \* currentPlayingChannel of each player
  firstRecord,   \* firstRecordChannelCall, likewise
  setup          \* the settings, and the modules' channels, one of Setups:
                 \* behaviour, resume; channels (channum, and here also
                 \* numPlayerChannels), virtual (numVirtualChannels),
                 \* armed (recordChannels: those recording uses), and jazz,
                 \* where a jammed note goes: a "virtual" channel, the next
                 \* one of "multi" (multiChannelKeyJazz), or the "single"
                 \* one the cursor is in; and the bounds: the number of
                 \* tabs the user opens, the octaves the user sets, the
                 \* keys the user plays, and whether a mouse button that
                 \* is down on a tab is a step of its own

channels == <<cursor, nextPlaying, firstRecord>>
notes == <<keys, queue, sounding>>
vars == <<tabVars, setup, down, octave, recordMode, playing, channels, notes>>

Channels == 0..setup.channels + setup.virtual - 1
Notes == (setup.octaves \union {MidiOctave}) \X (Keyboard \union Midi)
Off == <<>>    \* no note

Free == [note |-> Off, channel |-> -1, player |-> {}]
Slots == 1..TableSize
Reset == [i \in Slots |-> Free]

\* ScanCodeToNote(); sendNote() sets the octave of a MIDI note for the event
Note(k) == <<IF k[1] = "midi" THEN MidiOctave ELSE octave[current], k[2]>>

\* the channel a new player starts with
NewPlaying == IF setup.jazz = "virtual" THEN setup.channels ELSE 0

Live == current \in playing /\ recordMode
Pressed(n) == \E i \in Slots : keys[i].note = n
Occupied == {i \in Slots : keys[i].note # Off}

Init ==
  /\ TabInit
  /\ setup \in Setups
  /\ behaviour = setup.behaviour /\ resume = setup.resume
  /\ down = {}
  /\ octave = [m \in Modules |-> NewOctave]
  /\ cursor = 0
  /\ recordMode \in BOOLEAN
  /\ keys = Reset
  /\ playing = {}
  /\ queue = [m \in Modules |-> <<>>]
  /\ sounding = [m \in Modules |-> {}]
  /\ nextPlaying = [m \in Modules |-> NewPlaying]
  /\ firstRecord = [m \in Modules |-> TRUE]

-----------------------------------------------------------------------------
(* The hands: what this instance assumes of the user.  Without a habit the *)
(* user does not do what it names.                                         *)

\* "octave": the keys change their notes while they are held
SameOctave(o) ==
  \/ "octave" \in Habits
  \/ octave[current] = o
  \/ \A k \in down : k[1] = "midi"

\* no key is held on the players S
NotHeldBy(S) == \A i \in Occupied : keys[i].player \intersect S = {}

\* "tabs": notes are played on one tab while notes are held on another
OthersNotHeld == "tabs" \in Habits \/ NotHeldBy(players \ {current})

\* "stop": a song is stopped before its player's notes so far are heard, or
\* while notes are held on another tab
MayStop(m) ==
  "stop" \in Habits \/ (queue[m] = <<>> /\ NotHeldBy(players \ {m}))

\* No instance closes a tab while keys are held on it: their release would
\* call the PlayerController that closeTab() has deleted (RecorderLogic.cpp,
\* keys[i].playerController), which is not modelled.
NotClosedHeld == NotHeldBy(players \ players')

-----------------------------------------------------------------------------
(* The channel a note is played on. *)

\* the first of the armed channels behind c, going round
NextArmed(c, else) ==
  LET n == setup.channels
      behind == {i \in 1..n : (c + i) % n \in setup.armed}
  IN  IF behind = {} THEN else
      ELSE (c + CHOOSE i \in behind : \A j \in behind : i <= j) % n

\* (mutant: the last virtual channel is passed)
NextPlayingPast ==
  LET last == nextPlaying[current] IN
  [channel |-> last,
   next |-> IF last + 1 > setup.channels + setup.virtual
            THEN setup.channels ELSE last + 1]

\* getNextPlayingChannel(): [channel, next]
NextPlaying ==
  LET last == nextPlaying[current]
      first == IF last < setup.channels THEN setup.channels - 1 ELSE last
  IN CASE setup.jazz = "virtual" ->
            [channel |-> first,
             next |-> IF first + 1 >= setup.channels + setup.virtual
                      THEN setup.channels ELSE first + 1]
       [] setup.jazz = "multi" ->
            [channel |-> IF setup.armed = {} THEN cursor ELSE last,
             next |-> NextArmed(last, last)]
       [] setup.jazz = "single" -> [channel |-> cursor, next |-> last]

\* getNextRecordingChannel()
NextRecording ==
  IF firstRecord[current] /\ cursor \in setup.armed THEN cursor
  ELSE NextArmed(cursor, cursor)

-----------------------------------------------------------------------------
(* sendNoteDownToPatternEditor(). *)

\* the place of a key that is played on channel c: the first that is free
\* or whose note was played on that channel, by whatever player
Place(c) ==
  LET fits == {i \in Slots : keys[i].note = Off \/ keys[i].channel = c}
  IN  CHOOSE i \in fits : \A j \in fits : i <= j

\* the note is remembered and played (bounds: a place is free, the code has
\* 120 of them; and the player's queue of notes has room)
Play(n, c) ==
  /\ OthersNotHeld
  /\ Cardinality(Occupied) < TableSize
  /\ Len(queue[current]) < MaxQueue
  /\ keys' = [keys EXCEPT ![Place(c)] =
                [note |-> n, channel |-> c, player |-> {current}]]
  /\ queue' = [queue EXCEPT ![current] = Append(@, [channel |-> c, on |-> TRUE])]
  /\ UNCHANGED sounding

\* not recording: a key that is held already is not played again
JamNote(k) ==
  /\ ~recordMode
  /\ ~Pressed(Note(k))
  /\ Play(Note(k), NextPlaying.channel)
  /\ nextPlaying' = [nextPlaying EXCEPT ![current] = NextPlaying.next]
  /\ UNCHANGED <<cursor, firstRecord>>

\* recording a song that plays: nor here; the cursor follows
LiveNote(k) ==
  /\ Live
  /\ ~Pressed(Note(k))
  /\ Play(Note(k), NextRecording)
  /\ cursor' = NextRecording
  /\ firstRecord' = [firstRecord EXCEPT ![current] = @ /\ cursor \notin setup.armed]
  /\ UNCHANGED nextPlaying

\* recording otherwise: the note goes where the cursor is, and again
\* whenever the keyboard repeats it
EditNote(k) ==
  /\ recordMode /\ ~Live
  /\ Play(Note(k), cursor)
  /\ UNCHANGED channels

\* the note is held already, has no instrument, text is being edited, or the
\* cursor is not in a note column
NoNote(k) == k \notin down /\ UNCHANGED <<notes, channels>>

KeyDown(k) ==
  /\ k[1] = "midi" => k \notin down
  /\ down' = down \union {k}
  /\ JamNote(k) \/ LiveNote(k) \/ EditNote(k) \/ NoNote(k)
  /\ UNCHANGED <<tabVars, setup, octave, recordMode, playing>>

-----------------------------------------------------------------------------
(* sendNoteUpToPatternEditor(). *)

Released(n) == {i \in Slots : keys[i].note = n}

\* the j-th of the places in S
Nth(S, j) == CHOOSE i \in S : Cardinality({l \in S : l <= i}) = j

\* (mutant: the key off goes to the selected tab's player)
KeyOffsHere(S, m) ==
  LET off == {i \in S : m = current}
  IN  [j \in 1..Cardinality(off) |-> [channel |-> keys[Nth(off, j)].channel, on |-> FALSE]]

\* a key off for every key of the table with the note, on its own player
\* (which is open: see NotClosedHeld)
KeyOffs(S, m) ==
  LET off == {i \in S : m \in keys[i].player}
  IN  [j \in 1..Cardinality(off) |-> [channel |-> keys[Nth(off, j)].channel, on |-> FALSE]]

KeyUp(k) ==
  LET S == Released(Note(k)) IN
  /\ k \in down
  /\ down' = down \ {k}
  /\ queue' = [m \in Modules |-> queue[m] \o KeyOffs(S, m)]
  /\ keys' = [i \in Slots |-> IF i \in S THEN Free ELSE keys[i]]
  /\ UNCHANGED <<tabVars, setup, octave, recordMode, playing, channels, sounding>>

\* PlayerStatusTracker::playerTickStarted(): the next note is heard
Tick(m) ==
  /\ m \in players \ paused
  /\ queue[m] # <<>>
  /\ LET c == Head(queue[m]).channel IN
     sounding' = [sounding EXCEPT ![m] =
                    IF Head(queue[m]).on THEN @ \union {c} ELSE @ \ {c}]
  /\ queue' = [queue EXCEPT ![m] = Tail(@)]
  /\ UNCHANGED <<tabVars, setup, down, octave, recordMode, playing, channels, keys>>

-----------------------------------------------------------------------------
(* Songs. *)

\* PlayerController::stop(), and playSong(), stop the channels; the ring
\* buffer is left as it is
Quiet(m) == sounding' = [sounding EXCEPT ![m] = {}]

\* stopSong(): the table of keys is cleared for all tabs
StopSong ==
  /\ MayStop(current)
  /\ keys' = Reset
  /\ Quiet(current)
  /\ playing' = playing \ {current}
  /\ UNCHANGED <<tabVars, setup, down, octave, recordMode, channels, queue>>

\* ensureSongStopped(), as for zapping: the keys are kept
EnsureSongStopped ==
  /\ Quiet(current)
  /\ playing' = playing \ {current}
  /\ UNCHANGED <<tabVars, setup, down, octave, recordMode, channels, queue, keys>>

\* initRecording(), when a song is started or recording is switched on
InitRecording(on) ==
  firstRecord' = [firstRecord EXCEPT ![current] = @ \/ on]

PlaySong ==
  /\ PauseBackground
  /\ Quiet(current)
  /\ playing' = playing \union {current}
  /\ InitRecording(recordMode)
  /\ UNCHANGED <<setup, down, octave, recordMode, queue, keys, cursor, nextPlaying>>

ToggleEdit ==
  /\ recordMode' = ~recordMode
  /\ InitRecording(recordMode' /\ current \in playing)
  /\ UNCHANGED <<tabVars, setup, down, octave, playing, notes, cursor, nextPlaying>>

SetOctave(o) ==
  /\ SameOctave(o)
  /\ octave' = [octave EXCEPT ![current] = o]
  /\ UNCHANGED <<tabVars, setup, down, recordMode, playing, notes, channels>>

MoveCursor(c) ==
  /\ cursor' = c
  /\ UNCHANGED <<tabVars, setup, down, octave, recordMode, playing, notes, nextPlaying,
                 firstRecord>>

-----------------------------------------------------------------------------
(* Tabs: the operations of TabManager, with what they do to the notes. *)

\* selectModuleEditor() stops the song of a player that was paused and is not
\* to resume: stopSong() again, after the switch.  A new player is empty.
Switched ==
  LET stops == SelectStops(current')
      quiet == (Modules \ players') \union (IF stops THEN {current'} ELSE {})
  IN
  /\ SameOctave(octave[current'])
  /\ IF stops THEN MayStop(current') ELSE NotClosedHeld
  /\ keys' = IF stops THEN Reset ELSE keys
  /\ sounding' = [m \in Modules |-> IF m \in quiet THEN {} ELSE sounding[m]]
  /\ playing' = playing \ quiet
  /\ queue' = [m \in Modules |-> IF m \in players' THEN queue[m] ELSE <<>>]
  /\ octave' = [m \in Modules |-> IF m \in players' THEN octave[m] ELSE NewOctave]
  /\ nextPlaying' =
       [m \in Modules |-> IF m \in players' THEN nextPlaying[m] ELSE NewPlaying]
  /\ firstRecord' = [m \in Modules |-> m \in players' => firstRecord[m]]
  /\ UNCHANGED <<setup, down, recordMode, cursor>>

NewTab(m) == Len(tabs) < setup.tabs /\ OpenTab(m) /\ Switched
PressTab(i) == setup.mouse /\ MouseDown(i) /\ Switched
ReleaseTab == MouseUp /\ Switched
SwitchTab(offset) == CycleTab(offset) /\ Switched
RemoveTab == CloseTab /\ Switched

Next ==
  \/ \E k \in setup.keys : KeyDown(k) \/ KeyUp(k)
  \/ \E m \in Modules : Tick(m) \/ NewTab(m)
  \/ StopSong \/ EnsureSongStopped \/ PlaySong \/ ToggleEdit
  \/ \E o \in setup.octaves : SetOctave(o)
  \/ \E c \in 0..setup.channels - 1 : MoveCursor(c)
  \/ \E i \in DOMAIN tabs : PressTab(i)
  \/ \E offset \in {-1, 1} : SwitchTab(offset)
  \/ ReleaseTab \/ RemoveTab

Spec == Init /\ [][Next]_vars

-----------------------------------------------------------------------------
TypeOK ==
  /\ TabTypeOK
  /\ setup \in Setups
  /\ down \subseteq Keys
  /\ octave \in [Modules -> setup.octaves]
  /\ cursor \in 0..setup.channels - 1
  /\ recordMode \in BOOLEAN
  /\ keys \in [Slots -> {Free} \union
       [note : Notes, channel : Channels, player : {{m} : m \in Modules}]]
  /\ playing \subseteq players
  /\ queue \in [Modules -> Seq([channel : Channels, on : BOOLEAN])]
  /\ sounding \in [Modules -> SUBSET Channels]
  /\ nextPlaying \in [Modules -> Channels]
  /\ firstRecord \in [Modules -> BOOLEAN]

\* When no key is held and a player has taken all notes from its ring buffer,
\* none of its channels sounds: a played note "will stay on 'till the key is
\* released" (RecorderLogic.cpp:102) and not beyond.  It holds over opening,
\* closing and switching tabs and starting and stopping songs for a user
\* without the habits above and while the table has a place for every key; a
\* full table is not modelled.  (A paused player keeps what it has until it
\* goes on.)
NoHangingNote ==
  down = {} =>
    \A m \in players \ paused : queue[m] = <<>> => sounding[m] = {}
=============================================================================
