# Nerdig: a verification development

Nerdig is a fork of MilkyTracker 0.90.85, a music tracker: the user edits a song
(patterns, samples, instruments) while a player renders it to the sound card.
This directory holds TLA+ modules of the parts where that can go wrong, the TLC
configurations that check them on small instances, and TLAPS proofs for every
size of table, ring and list. Paths below are relative to `src/Milky/src/`.

Contents: [the system](#1-the-system), [hard behaviour](#2-hard-behaviour),
[modules](#3-modules), [runs](#4-runs), [bounds](#5-bounds), [fairness and
assumptions](#6-fairness-and-assumptions), [proofs](#7-proofs), [where the code
and its comments disagree](#8-where-the-code-and-its-comments-disagree), [not
modelled](#9-not-modelled), [plan](#10-plan).

## 1. The system

Two threads matter.

- The **editor thread**. SDL events, the timer and MIDI input come from several
  threads but reach the tracker under one mutex (`globalMutex`,
  `tracker/sdl/SDL_Main.cpp` 144-150, 270-360, 744-798): handlers run one at a
  time and to their end. The models have one editor thread.
- The **audio thread**. The driver calls `MasterMixer::mixerHandler` once per
  buffer; it calls `mix()` of every player that is attached and not paused. No
  mutex excludes the editor thread. What keeps the two apart is a protocol of
  flags.

| Component | State | Operations | Talks to |
|---|---|---|---|
| **MasterMixer** `milkyplay/MasterMixer` | table of slots (`mixable`, `markedForRemoval`, `markedForPause`, `paused`), `initialized`, `started`, mix buffer | add, remove, pause, resume a device; start, close; set buffer size, sample rate, driver; the callback | drivers (below), players (above); shared fields without lock |
| **PlayerController**, **PlayerCriticalSection** `tracker/` | `suspended`, `enabled`, what plays, `lastPosition`... | play, stop, continue, suspend, resume, attach, detach, realloc; enter and leave a section | blocking calls into MasterMixer; called by every editor |
| **PlayerStatusTracker** `tracker/PlayerController.cpp` | ring of 128 note/sample commands, `nextOrderIndexToPlay`, `nextPatternIndexToPlay` | play note, play sample, queue order, queue pattern; tick and pattern-end callbacks | editor thread writes, audio thread reads and resets |
| **PPUndoStack** `ppui/UndoStack.h` | array, cursor, top, overflow | push, pop, advance | owned by the editors |
| **UndoHistory**, **PatternEditor** `tracker/` | pattern, its undo stack, list of stacks of other patterns, `lastChange` | all edits, undo, redo, attach a pattern, reset | PPUndoStack |
| **SampleEditor**, **EnvelopeEditor** | the same for samples and envelopes | the same, different order of pushes and sections | PPUndoStack, sections |
| **ModuleEditor**, **Tracker**, **Zapper**, **SectionOptimize** | the document; loading parameters; dialogs | load, save, zap, optimise, swap, channel dialog | sections and suspension of PlayerController |
| **TabManager**, **TabHeaderControl**, **PlayerMaster** | open documents, tabs and which is selected, players, mixer settings | open, close, click, cycle tabs; change settings, driver | PlayerController, MasterMixer, RecorderLogic |
| **RecorderLogic**, **PlayerLogic** | table of sounding keys, channel rotation | key down, key up, record; start and stop songs | PlayerStatusTracker, MIDI, PatternEditor, all open tabs |
| **PlayerSTD** (also IT, FAR) `milkyplay/` | order, row, tick, loop marks, visited rows, effect memory | tick, row, order advance; break, jump, loop, delay, stop | called by `mix()`; calls PlayerStatusTracker; moved and edited under its feet by the editor |
| **ChannelMixer**, resamplers | voices | render | called by players |
| **Loaders, ExporterXM, XModule** | module data | load, save | called by ModuleEditor |
| **Guitar section** `tracker/GuitarControl` | fretboard view of a note (the fork's own) | draw, choose chord | editor only |
| **ppui, SDL loop, MIDI** | widgets, event queue | dispatch | everything above, under the mutex |
| compression, fx, tools, `platforms/` | third-party or cosmetic | | |

What makes each one right:

- **MasterMixer**: a player whose pause or removal has returned is not being
  rendered; no null call; no request outlives its call; a player sits in one
  slot; calls return; a live player is heard.
- **PlayerController**: nothing the player reads is rewritten while it renders;
  every command resumes what it suspended and continues the song it stopped.
- **PlayerStatusTracker**: every note is played once and in order; a queued
  position is neither lost nor served twice, and is never "none".
- **Undo**: undo and redo walk a line of states of the pattern; no stack is
  shared, lost while there is room, or read outside its array.
- **Sequencer**: a tick reads a row that exists whatever was edited since the
  last one; the player stays in its order list; a queued order is the one
  played; an exported song is played as written, and halts.
- **Tabs and keys**: documents, tabs and players are the same modules, the
  selected player is never left paused, and no note sounds on after its key.

## 2. Hard behaviour

`PROJECT.json` lists the hazards at their lines. The themes are:

1. **Flags between two threads.** `mixerHandler` tests a slot and calls it
   later; `removeDevice` and `pauseDevice` set a mark and poll for the answer.
2. **Timeouts.** The poll gives up after one buffer's time; an answer can
   arrive afterwards, to a slot that has been given to somebody else.
3. **Flags where a counter is needed.** Sections and suspensions nest, call each
   other, and share one bit each.
4. **State read before something that changes it**: `wasPlaying` and
   `lastPosition` around loading; a modal dialog that stays open with the player
   suspended while MIDI notes still arrive.
5. **Lock-free hand-over** of notes and positions to the audio thread.
6. **Bounded structures that drop the oldest**: the undo stack (32) shifts, the
   list of stacks (8) evicts, also the entry that is about to be looked up.
7. **A table shared by all tabs** (keys that sound) whose entries belong to one
   tab each, and which is searched by a note that is computed anew each time.
8. **Parallel lists joined by an index** (documents, tabs, players), and a click
   that is two events with other handlers between them.
9. **A song that changes while it plays**: orders, patterns and the cursor move
   between two ticks; what a row's effects recorded may be of another song.
10. **Termination by a set of visited rows**, which loops must be able to pass.

## 3. Modules

| Module | What it is |
|---|---|
| `MixerContract` | abstract: what the editor relies on. A player is attached, silenced or being rendered; `Silence` and `Detach` are the *returns* of the blocking calls |
| `MasterMixer` | the slot table at the level of single loads and stores. Refines `MixerContract` |
| `PlayerControl` | sections, suspension, play/stop/continue and the editor's commands, on top of `MixerContract` (by INSTANCE) |
| `UndoStack` | `PPUndoStack` as operators on a record |
| `EditHistory` | abstract: a bounded line of past and future states per document |
| `PatternUndo` | the pattern editor's undo over `UndoStack`. Refines `EditHistory` |
| `PlayerStatusTracker` | the command ring and the queued positions, store by store |
| `PlayerSequencer` | which row of a song is played next: `PlayerSTD::tickhandler`, the queued positions, and the editor between two ticks |
| `TabManager` | documents, tabs, the mouse, pausing at a switch: operators on the lists |
| `RecorderLogic` | keys, channels and songs over several tabs; EXTENDS `TabManager` and composes its operations with what they do to notes |
| `MC...` | instances for TLC; songs of `PlayerSequencer`, setups of `RecorderLogic`; symmetry and view of `PatternUndo` |
| `..._proofs` | theorems |

### MasterMixer and the code

`gui` is the editor thread's place in `addDevice`, `removeDevice`, `pauseDevice`
(which slot, how many milliseconds it has slept); `audio` is the audio thread's
place in `mixerHandler`. Each test or store of a shared field is a step. The `if
/ else if` chain of the handler is one step (`CheckSlot`): the editor's calls write the
fields of a slot one after the other, and what the chain decides with such a
store in its middle is what it decides before or after that store. The call `device->mixable->mix()` is a step of its
own which uses the pointer that was tested *or* a fresh load of it, whichever
the compiler chose. `belief` is a history variable: what the editor may conclude
from the calls that have returned, and how they ended. The length of the wait is
exact rational arithmetic (`WaitNum` over `SampleRate`); the two comparisons
with it differ in the code, and so do `InWait` and `TimedOut`. `Start` fails when
the device does not open or the driver does not start.
Guards such as "pause only a live player" are those of the callers
in PlayerController (`suspendPlayer`, `resumePlayer`, `detachDevice`,
`attachModuleEditor`); that the callers do so is `MixerCallsFit` of `PlayerControl`.

### PlayerControl and the code

Functions that call each other in circles (`enter -> suspendPlayer -> stop ->
enter`) are modelled as a list `calls` of pending calls, innermost first. A step
takes the first call and puts the calls of its body in its place, so that the
audio thread can act between any two. Each action is one function or the piece
of it between two calls; `suspendPlayer` is `Suspend` (its early return) and
`PauseDevice` (the pause and what follows). A user's command is the list of calls its handler
makes; it begins when the list is empty. `mode` is what plays, `last` what
`stop()` recorded for continuing. `dialog` is the channel dialog of
`Tracker::loadTypeFromFile`, which leaves the handler with the player suspended.

Abstractions: positions and rows are reduced to the kind of play; a song that
ends by itself (effect F00) still counts as playing; loading opens the song in
the current tab; `openSong` succeeds, or fails and leaves the module as it was,
empty or without content.

### PatternUndo and the code

The contents of a pattern are a version. Every operation between `prepareUndo`
and `finishUndo` is `Edit(v, kind)`; the kind is "resize" only for
`resizePattern`, which joins repetitions. `Finish` is the real sequence of
`Push`, `Push`, `Pop` on the real stack, with its shift when full. `Kept`,
`AttachPattern` are `getUndoStack` with its order of steps: keep the stack that
is left, evict the oldest, then look for the one that is asked for. Changes to
patterns made outside the pattern editor are not modelled.

### PlayerStatusTracker and the code

The payload, code and index of a command are three stores, as are the two
positions of `setNextOrderToPlay` and `setNextPatternToPlay`; `handleQueuedPositions`
is six loads and stores. A command stands for its number. The two command
structures overlay the same memory, and so do their models (`word`, `smp`).
The indices are natural numbers. In the code they are signed 32-bit numbers
compared with `<` (`PlayerController.cpp` 51), so that the ring would stop being
read after 2^31 commands without a reset: this is beyond the bound.

### PlayerSequencer and the code

A call of `tickhandler` is one step, and the operators of the module are its
sections in their order: `ReadRow` (tick 0), `Break`, `Jump`, `BeginAgain`,
`ExecLoops`, `NextRow` (the label `nextrow`), `Halt`. The record `player` holds
the members of PlayerSTD under short names: `pos` is `poscnt`, `row` is `rowcnt`,
`nextRow` is `startNextRow`, `clock` says whether `adder` is other than 0, and a
loop record holds `loopstart`, `loopcounter`, `execloop`, `isLooping`,
`loopingValidPosition` of a channel. A pattern is a sequence of rows with one
effect per channel. `setNewPosition` asks `handleQueuedPositions` first
(`QueuedPosition`, `PatternEndReached`), so a queued order replaces wherever the
row wanted to go. `setPatternPos` is two steps, as it takes no section.
`PlayerStatusTracker` shows, store by store, when the queue may be taken for
atomic here. A player is the editor's (repeating, commanded, its song edited) or
the exporter's (`repeat` false, left alone).

### TabManager, RecorderLogic and the code

`tabs` holds the IDs the header keeps, so that `Successor` looks an ID up where
the code does: `closeTab` passes the ID of the new tab to `switchToTab`, which
looks up the ID of the tab of that index. `held` is a mouse button that is down:
`MouseDown` changes the selected tab, `MouseUp` the edited module, and everything
the keyboard does may come between. `Switched` adds what `selectModuleEditor`
does to notes: a player that was paused and is not to resume is stopped, which
clears the table of keys. `Switched` depends on `current'` and `players'` and
conjoins with each operation of `TabManager`. The only tab is not closed but
zapped, of which the notes and tabs see that its song is stopped
(`EnsureSongStopped`).

A key is a place on a keyboard; `Note` is what `ScanCodeToNote` makes of it in
the current octave, or the octave `sendNote` sets for a MIDI event. `keys` is
the table; `Place`, `KeyOffs` are its two searches. `queue` is the ring of each
player, `sounding` what its channels play. Left out: what recording writes into
a pattern (the cursor and channel it moves are modelled), rows played alone, not
following the song. Armed channels are fixed in an instance. No tab is closed
with a key held on it (`NotClosedHeld`): the release would call the controller
that `closeTab` has deleted.

## 4. Runs

| Run | Checks | States |
|---|---|---|
| `mixer_prompt` | `ContractSpec` (refinement), `NoNullCall`, `RegisteredOnce`, `NoStaleRequest`, `LivePlayerIsHeard`, callbacks within the wait | 1 744 |
| `mixer_late` | callbacks at any time: `CallReturns`, `PauseTakesEffect` (44.1 kHz), `AnsweredMeansSilent`, `BufferWhileMixing` | 63 066 |
| `mixer_48k` | violation of `PauseTakesEffect` | |
| `control` | `EditSafe`, `SongContinues`, `AtRest`, `SuspendedIsSilent`, `MixerCallsFit`, two modules, all commands | 134 148 |
| `control_remap` | violation of `MoveSafe` | |
| `undo` | `StacksAgree`, `OneStackEach`, `HistorySpec` (refinement) | 39 276 |
| `undo_resize` | violation of `ChangeCanBeUndone` | |
| `tracker` | `PlayedInOrder`, `RequestKept`, `SamePattern`, `EventuallyHeard` | 54 884 |
| `sequencer` | `RowInPattern`, `PositionInSong`, `QueuedOrderPlayed`, `LoopsOfPosition`, `PlayedAsWritten`, `SongHalts` | 124 536 |
| `export_hangs` | violation of `SongHalts` | |
| `recorder` | `NoHangingNote`, `TabsAgree`, `CurrentNotPaused` | 2 382 080 |
| `key_hangs` | violation of `NoHangingNote`: the octave changes under a key | |

Each passing run but `mixer_late` also checks `TypeOK`. Each property has a mutant of a mapped definition that
breaks it, next to that definition in the module: a dropped wait, a forgotten
flag, an index published too early.

Some properties deserve a word.

- *`AnsweredMeansSilent`* is what remains when callbacks are late: a player whose
  pause the audio thread itself has answered is silent. A pause that timed out
  and was forced gives no such promise, and the editor does not know which it
  got. The contract, which makes no difference between the two, is therefore
  shown under `Prompt` only.
- *`SongContinues`* excludes a module that loading has left without content, and
  counts a row played alone as nothing to continue, as `stop()` does. It leaves
  out a sample whose loading asked for the channel: see 8.6.
- *`EditSafe`* is about changes made in a section; instruments that are moved
  without one are *`MoveSafe`*, which fails.
- *`MixerCallsFit`* is what the mixer's model takes for granted of its caller: a
  player is told to pause only when it is attached and not paused. A second pause would
  return at once and leave its mark to pause the player after it has been resumed.
- *`NoHangingNote`* is shown for a user with none of the `Habits` of section 6;
  each of them alone breaks it (section 8, items 5, 8 and 9).
- *`PlayedAsWritten`* compares the number of times each row was played with a
  closed formula, for songs simple enough to have one and not FastTracker 2's. It is the reference
  definition of the pattern loop.
- *`SongHalts`* is checked for songs in which one channel loops and no jump or
  break leads from a position to itself. The second is what `export_hangs` does
  without; the first the code does without too (loops on two channels can keep
  each other's rows alive).
- *`PositionInSong`* and *`QueuedOrderPlayed`* have preconditions the code does
  not ensure: the restart position lies in the list (deleting an order leaves it
  behind); breaks, jumps and loops lead to rows that exist, and no row both breaks
  on one channel and jumps on a later one. `SongsLand` of section 7 says the
  second precisely: without it a queued order that the end of one row takes is
  left again by the jump, or by the correction of the row, at the same end.

## 5. Bounds

- Mixer: two players, two slots, so that a slot can be reused by the other
  player and removal of one can interfere with the addition of the other; 512
  frames at 44.1 and 48 kHz, which fall on the two sides of the rounding. Two
  sleeps reach every branch of the wait.
- Control: two players, which `swapSamples` needs; one for the violations.
- Undo: a stack of three (32 in the code) overflows at the third push, a list of
  two (8) evicts with three patterns, two versions suffice to tell "before" from
  "after". States above the top of a stack and the overflow flag are dead and
  are hidden by `VIEW`; patterns and versions are interchangeable (`SYMMETRY`).
- Ring: two cells (128) and five commands wrap twice.
- Sequencer: two orders, two patterns of up to three rows, two channels. Export:
  every first pattern with up to two effects out of loop marks and counts, jumps,
  breaks, stop and delay, with three second patterns, both lengths of the list
  and both restart positions; two effects are what it takes for a loop to
  contain something. Editor: two songs that become each other, with a shorter
  list, shorter patterns and other effects, so that each command finds a row, an
  order, a loop or a stop that is gone. A row is one tick (two in the violation);
  rows that are played are counted up to four.
- Recorder: three modules. Two tabs with two keys (one of them MIDI) and a note
  of delay, in each tab behaviour and choice of channels; one tab with two
  octaves and several armed channels; three tabs with a mouse and no keys. Two
  places in the table of keys (120 in the code), as many as there are keys to
  hold; `Play` has a place left as its guard, so a full table is not modelled.

The proofs remove the bounds on slots, players, stack depth, list length, ring
size, and the numbers of commands, orders, patterns, rows, channels, modules and
tabs; and the song that is edited or exported may be any song.

## 6. Fairness and assumptions

- `MasterMixer!Fairness`: the audio thread goes on while the driver runs (the
  driver calls the handler for every buffer); a call the editor has entered goes
  on. What the user does is never fair. `mixer_late` uses `EditorFairSpec`, with
  nothing asked of the audio thread: `CallReturns` then rests on the timeout alone.
- `PlayerStatusTracker!FairSpec`: ticks come again and again, patterns end again
  and again, each sequence of stores once begun is finished. Strong fairness is
  needed because the two callbacks share one thread and so disable each other.

- `PlayerSequencer!FairSpec`: ticks come again and again. The exporter calls the
  player in a loop, so weak fairness of `Tick` is what its code does.
- `PlayerControl` and `RecorderLogic` state safety only.

Assumptions, all constants so that a run or theorem says whether it makes them:

- **`Prompt`** (MasterMixer): a callback answers before a running wait expires.
  It is the code's own design assumption, the wait being one buffer long. It is
  not guaranteed: a late callback, or the rounding at 48 kHz, breaks it.
- **`Room`** (PlayerStatusTracker): at most `Size` commands wait for a tick. The
  code has no test for a full ring; 128 keys within a tick are not played by hand.
- **`Quiet`** (PlayerStatusTracker): no position is queued while
  `handleQueuedPositions` is between its loads. Nothing in the code ensures it.
- **`Habits`** (RecorderLogic): what the user does. With `Habits = {}` no octave is
  changed while a key is held ("octave"); no note is played on one tab while a
  note is held on another ("tabs"); and no song is stopped while a note of its player
  is still in the ring buffer or a note is held on another tab ("stop"). Each of the
  three, put into `Habits` in `MCRecorderLogic.cfg`, makes `NoHangingNote` fail;
  `key_hangs` is the first. The guards `SameOctave`, `OthersNotHeld`, `MayStop` are these
  assumptions and nothing of the code, and so is `NotClosedHeld`, which every
  instance makes.
- `PlayerSequencer` takes the song as it is between two ticks: sections see to
  that for resizing, and what takes no section writes one number at a time.
- `PlayerControl` assumes `MixerContract`, that is `Prompt` of the mixer below.

## 7. Proofs

No fact is assumed beyond the named ASSUMEs on constants (types; tables not
empty). Premises such as `Prompt = TRUE` are stated in the theorem.

**MasterMixer_proofs.** `TypeCorrect` and `BufferSafe` hold with callbacks at any
time; the latter needs only that the handler is entered while `started`, and that
an open or started device has an allocated buffer (`Running`). The others assume `Prompt` and
follow from `IInv`:

- `LifeCycle`: the driver runs while a handler or a wait does;
- `Answered`: no wait runs out;
- `Registered`: one slot per player;
- `CallInProgress`: what the call in progress knows of its slot;
- `MarksOwned`: a mark belongs to the call that waits for its answer. This is the
  heart: without it nothing excludes an answer to an earlier request;
- `PausedAgrees`: the flag is what the editor believes;
- `HandlerKnows`: what still holds of a slot after the handler has tested it.

They need each other to be inductive. `KeepsContract` is the refinement:
`Spec => ContractSpec`, every step mapped to a step of `MixerContract` or a
stutter.

**MasterMixerLate_proofs** does without `Prompt`. Waits run out, slots are emptied
and given away while the handler uses them, and an answer comes to a request
that has been given up. `LateInv` says what is left: a player is in its slot or
is given up (`Placed`); a call in progress finds its player in its slot or the
slot empty (`Calling`); no pause stays open (`PausesDone`); and one that the
handler renders, *or may choose because it loads the pointer twice*, is not taken
for silent (`HeldKnown`). `PausesTakeEffect` and `AnsweredSilenceLate` follow. Both
assume `WholeWait`: the wait is a whole number of milliseconds, or its whole part
is no multiple of the sleep. It is the condition under which the loop and the test
after it agree, and not a convenience: 512 frames at 48 kHz are the case it
excludes, and `mixer_48k` violates `PauseTakesEffect` there.

**PlayerControl_proofs.** Six invariants hold for any number of modules and any
commands. The difficulty is that `enter`, `suspendPlayer`, `stop`,
`continuePlaying` and `leave` call each other in circles and share two flags, so
that no relation of the flags holds at every step: in the middle of `enter` a
player is suspended and in no section, in the middle of `leave` the reverse. The
invariant is therefore a promise about the calls still to come. Each function
has a contract: the states of a player it may be called in (`Ready`) and the
states it may leave (`After`), all inner calls done. `IInv` says of each player
that its pending calls, made one after the other from the present state, each
find a state they are ready for, and that the last leaves the player at rest
(`Promise`). A step replaces a call by the calls of its body; that the body meets
the contract of the call is one lemma per function (`EnterMeets`,
`SuspendMeets`, ...), and that every command starts a list of calls that keeps the
promise is one per handler (`...Begins`). `EditsAreSafe`, `SongsContinue`,
`RestIsReached`, `SuspendedPlayersAreSilent` and `MixerCalledAsAssumed` are what the
first call's `Ready` says. Below it the mixer is its contract, `MixerContract`.

**PatternUndo_proofs.** `Invariance` proves the types, `StacksAgree` and
`OneStackEach` together, for every depth of two or more and every length of
list. The work is in lemmas on the stack: what `Push` stores, with and
without the shift (`PushStores`), that `Pop` after `Push` returns the entry below
(`PopAfterPush`), and that taking an entry out of the list keeps the order of the
others (`WithoutOrdered`). `UndoIsALine` is the refinement: under the mapping of
`PatternUndo` (the cells up to the cursor are the past, those two above it and
more the future) every operation is a step of `EditHistory` or a stutter. It
rests on what two pushes and a pop, a shift included, make of the two lines
(`FinishLines`), on undo and redo moving one state from one line to the other
(`UndoLines`, `RedoLines`), and on keeping, evicting and finding a stack moving no
line but the evicted one (`KeptLines`).

**PlayerStatusTracker_proofs.** `TypeCorrect` needs no premise. `NotesInOrder`
assumes `Room` and rests on `RingInv`: the cell of each waiting command holds
that command. Overwriting is excluded by arithmetic (`CellsDiffer`: fewer than
`Size` successive numbers have different remainders). `RequestsServed` and
`PatternsAgree` assume `Quiet` and rest on `QueueInv`, which says at each of the
six program points how the queue relates to the request.

**PlayerSequencer_proofs.** `SeqInv` adds to the types that an exporter's player
plays the order list, has nothing queued, and has loop marks of the position it
plays. `LoopsBelong`, `RowsAreThere` (what `NextRow` corrects, and what the editor
may have shortened since, is a row that exists when it is read) and `StaysInSong`
follow for all songs. `QueueIsServed` has the hypothesis `SongsLand`: there is a
number of rows that every pattern has and that every break, jump and loop leads
below, and no row breaks on a channel before one that jumps. Then the position
that the end of a row takes from the queue is not left again at the same end. TLC
finds the property violated by a song that breaks to a row its next pattern does
not have, and by one with a break before a jump; the songs of the run meet the
hypothesis with two rows. The effects of a row are a function by recursion over
the channels. What it computes is proved without an induction principle: were
there channels up to which the claim fails, there would be a least number of them
(`LeastNatural`, from the library's theorem that the naturals are well founded),
and the step from the one before contradicts it.

`SimpleSongsPlayed` proves `PlayedAsWritten` on the invariant `PlaysInv`. The
export of a simple song is in one of three states:

- `OnTheWay`: the positions before the player's have been played as written, those
  behind it not at all. In this one a row has been played as often as the loop
  around it has been passed, and once more if it has been read in this pass
  (`PlayedSoFar`). The passes are found in the marks of the loop's channel:
  `count` while the loop is under way, one less between the row that starts the
  next pass and the jump back, all of them once the row that ends it was read
  (`Passes`); `Marked` says that the marks agree with the row the player is in;
- `Through`: the player is back at the restart position and all is as written;
- halted, and all is as written.

The rows marked as visited are those played at least once. A step needs most of
all that `hasSongHalted` does not end the song too early: a row on the way that
has been visited lies in the body of a loop that is running (`NotOver`). The
hypothesis `SongsPlain` excludes what the code plays otherwise: FastTracker 2's
songs, where the row a loop went back to is the row the next pattern begins with,
and patterns without rows, at which the player halts, the rest of the list unplayed
(TLC finds the property violated with one of either); it also says that the counters of the
model (`MaxPlays`) reach as far as the loops of the songs. The 1136 simple songs
of the run meet it.

**RecorderLogic_proofs.** `ListsAgree` proves `TabsAgree` for any number of
modules and tabs, keys and habits. `TabsAgree` is not inductive: after a tab is
closed nothing says that the ID `switchToTab` is given is the index of the right
tab. `Numbered` adds that the tabs are numbered in their order, and that a button
that is down on the tab that was selected before has changed nothing. Lemmas say
what `RemoveAt` and `Append` do to a sequence without duplicates; `StepsOfTabs`
reduces every step of `RecorderLogic` to one of `TabManager`. `CurrentPlays`
proves `CurrentNotPaused`, which is inductive as it stands. `TypeCorrect` says that
a note goes to a channel the module has and its key to a place of the table.

`NotesDoNotHang` proves `NoHangingNote` from `Habits = {}`, for any modules, keys,
settings and size of the table. It relates three structures, and so does its
invariant `HangInv`:

- `KeysHeld`: every key of the table is held down now, has the note that its
  release will look up, and was played on an open module;
- `GoneQuiet`: a module that is not open has no notes, heard or waiting;
- `NotesEnd`: a channel for which the table has no key is silent as soon as its
  player has heard what waits in its ring: the last message for it is a key off,
  or there is none and it is silent already (`Ended`).

When no key is down the first empties the table, and the third is the property.
Each habit breaks one conjunct: an octave changed under a key breaks `KeysHeld`,
as the release looks up another note; a song stopped with notes in its ring, or
with keys held on another tab, breaks `NotesEnd`, as the table is cleared of all keys
and only the notes of one player that sound already are cut; playing
with a key held on another tab breaks it too, as the place of a key is taken over by a note
on the same channel of another player (`Place` compares channels only). That a
release sends a key off for *every* key with the note needs that the j-th place of
a set exists and reaches all of them (`NthPlaces`: an element's rank is its place).

The invariants `IInv` of PlayerControl, `LateInv`, `SeqInv` and its strengthening
for the queue, `PlaysInv` (on the simple songs), and `HangInv`, were checked by
TLC on the instances of the runs `control`, `mixer_late`, `sequencer` and
`recorder` before they were proved.

**Only model-checked.**

- Liveness (`LivePlayerIsHeard`, `CallReturns`, `EventuallyHeard`, `SongHalts`):
  fairness and ENABLED are outside the prover's reach.
- The violations of section 8: they are single behaviours.

No module uses RECURSIVE operators.

## 8. Where the code and its comments disagree

1. `mixer_48k`. The wait loop compares with the wait truncated to whole
   milliseconds, the test for the timeout (`MasterMixer.cpp` 339) with the
   fraction. 512 frames at 48 kHz last 10.67 ms: the loop ends at 10, the test
   fails, and `pauseDevice` returns with the player not paused and the request
   left in the slot.
2. `control_remap`. "Remove unused instruments" suspends the player
   (`SectionOptimize.cpp` 212) and then zaps instruments in sections of their own.
   Leaving the first of them resumes the player; the instruments that follow are
   moved while it renders (`ModuleEditor.cpp` 2285).
3. `undo_resize`. Resize, undo, resize: the second resize is taken for a
   repetition of the first and not stored.
4. `export_hangs`. ChangeLog.md (373) has a position jump within a pattern loop,
   which made the song length estimator hang, as fixed. A jump to the position
   that is playing returns from `setNewPosition` (`PlayerSTD.cpp` 2774) before the
   loops are reset: the mark `isLooping` stays, rows that were played count as
   part of a loop, and the export never ends.
5. `key_hangs`. A note should stay on "'till the key is released"
   (`RecorderLogic.cpp` 102). The release is looked up by note, in the octave of
   the moment: after a change of octave it finds nothing, and the note sounds on.

Found while modelling and not kept as runs:

6. A MIDI note during the channel dialog (`Tracker.cpp` 3034) resumes the stopped
   player. Loading the sample stops it again, and `stop()` records that nothing
   was playing: the song is not continued. Dropping the exception from
   `SongContinues` (the call `answered`) shows it.
7. `nextOrderIndexToPlay` is loaded to be tested and again to be used
   (`PlayerController.cpp` 132, 135); emptied in between, it hands order -1 to the
   player. `Quiet = FALSE` in `PlayerStatusTracker` reaches it.
8. The place of a key is matched by its channel alone (`RecorderLogic.cpp` 186): a
   note played on another tab, on the same channel, takes the place of one that is
   held, whose release then finds nothing. `Habits = {"tabs"}` reaches it.
9. `stopSong` clears the keys of every tab (`PlayerLogic.cpp` 117) and silences one
   player, whose ring buffer it leaves as it is: a note of another tab, or one
   still in the buffer, sounds on after its key. `Habits = {"stop"}` reaches it.

## 9. Not modelled

- In modelled components: pausing the driver, changing it, failing `stop` and
  `close`, the mixing itself (MasterMixer); muting, recording channels, scopes
  (PlayerController); settings and drivers, saving of tabs (TabManager,
  PlayerMaster); the documents themselves (ModuleEditor); notes, volumes,
  envelopes, speed and note delay, more than one effect in a slot (PlayerSTD);
  what is recorded, trace and row play, chords, a full table of keys
  (RecorderLogic, PlayerLogic); the question about unsaved changes when a tab is
  closed, a modal dialog that can take the mouse button's coming up
  (`TabManager.cpp` 221);
  velocity and the parsing of messages (MIDI).
- Loading and tabs together: a failing load into a new tab that could not be
  opened closes the current one (`Tracker.cpp` 2884, 2955).
- Not yet: SampleEditor and EnvelopeEditor undo.
- Not planned: file formats and compression (pure data), widgets, fx, the guitar
  view (drawing), resampling (signal processing), PlayerIT and PlayerFAR (the
  tracker plays through PlayerSTD). Most of the repository's lines are of these
  kinds, or embedded pictures, vendored drivers and platform headers, which is
  why the models stand for a small share of them.

## 10. Plan

Modelled so far, in order of weight: the mixer and its contract, the controller,
undo, the hand-over of notes and positions, the sequencer, tabs and keys. Next:

1. `SampleUndo`, `EnvelopeUndo` on `UndoStack`: the other order of pushes, the
   NULL key, and revoking outside the section.
2. Loading composed with tabs (`prepareLoading`, `finishLoading` over
   `TabManager`), and PlayerMaster's settings and driver changes over
   `MixerContract`.
3. Arming of channels while keys are held (`resetFirstPlayingChannel`).
4. Bounded arithmetic of the `ChannelMixer` loop and of the note and period
   conversions.

Every invariant and action property that the passing runs check is stated by a
theorem of section 7; what they leave is liveness.

Abstract specifications worth adding: keys held, as what `RecorderLogic`
implements; the play order of a song as a function of its effects, beyond the
simple songs of `PlayedAsWritten`.

Proof to add: the composition of `MasterMixer` with `PlayerControl`.
