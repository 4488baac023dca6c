----------------------------- MODULE MasterMixer -----------------------------
(***************************************************************************)
(* The master mixer of MilkyPlay (milkyplay/MasterMixer.cpp): a fixed      *)
(* table of device slots that two threads use without a lock.              *)
(*                                                                         *)
(*   - the editor thread attaches, detaches, pauses and resumes players    *)
(*     and opens and closes the audio device;                              *)
(*   - the audio thread enters mixerHandler once per buffer and walks the  *)
(*     table.                                                              *)
(*                                                                         *)
(* A pause or a removal is a request: the editor sets a mark and sleeps in *)
(* steps of 10 ms until the audio thread has acted on it, for as long as   *)
(* one buffer lasts.  Every read or write of a shared field that the other *)
(* thread can interleave with is a step of its own.  Stores are taken in   *)
(* the order of the source.                                                *)
(*                                                                         *)
(* Bounds of the model: the buffer length and the sample rate are fixed    *)
(* per run, and Prompt says whether callbacks are assumed to come in time. *)
(***************************************************************************)
EXTENDS Naturals, FiniteSets

CONSTANTS
  Mixables,      \* the players
  NULL,          \* the null pointer
  NumDevices,    \* number of slots (numDevices)
  BufferFrames,  \* bufferSize, in frames
  SampleRate,    \* sampleRate, in frames per second
  Prompt         \* TRUE: a callback answers before a running wait expires

ASSUME MixerAssumption ==
  /\ NULL \notin Mixables
  /\ NumDevices \in Nat \ {0}
  /\ BufferFrames \in Nat \ {0}
  /\ SampleRate \in Nat \ {0}
  /\ Prompt \in BOOLEAN

Slots == 1 .. NumDevices

VARIABLES
  mixable,          \* DeviceDescriptor.mixable, per slot
  markedForRemoval, \* the slots with that flag set; likewise the next two
  markedForPause,
  paused,
  initialized,   \* the audio device is open
  started,       \* the audio device is running
  bufferAlloc,   \* the mix buffer exists
  gui,           \* editor thread: [pc, dev, slot, time]
  audio,         \* audio thread:  [pc, slot, dev]
  belief         \* what the editor takes each player to be (see Beliefs)

flags == <<markedForRemoval, markedForPause, paused>>
devices == <<mixable, markedForRemoval, markedForPause, paused>>
driver == <<initialized, started, bufferAlloc>>
vars == <<mixable, markedForRemoval, markedForPause, paused,
          initialized, started, bufferAlloc, gui, audio, belief>>

(***************************************************************************)
(* No caller looks at the result of a blocking call, so from its return on *)
(* the editor takes the player to be out of the audio thread's hands.      *)
(* belief records that, and how the call ended.  After pauseDevice:        *)
(*   "paused"      the audio thread has answered;                          *)
(*   "forced"      the wait timed out and the editor set the flag itself;  *)
(*   "unanswered"  the wait ended and neither has happened.                *)
(* After removeDevice: "detached" when answered, "dropped" otherwise.      *)
(***************************************************************************)
Beliefs == {"live", "paused", "forced", "unanswered", "detached", "dropped"}

GuiPC == {"idle", "addRemoval", "addPause", "addPaused",
          "waitRemove", "forceRemove", "waitPause", "forcePause"}

AudioPC == {"out", "check", "clearRemoval", "clearMixable",
            "clearPause", "setPaused", "call", "mix"}

GuiState == [pc: GuiPC, dev: Mixables \union {NULL}, slot: Slots, time: Nat]
AudioState == [pc: AudioPC, slot: Slots, dev: Mixables \union {NULL}]

Idle == [pc |-> "idle", dev |-> NULL, slot |-> 1, time |-> 0]

Out == [pc |-> "out", slot |-> 1, dev |-> NULL]

(***************************************************************************)
(* The wait: waitMillis = bufferSize/2/sampleRate*1000*2 ms, clamped to    *)
(* 1..BlockTimeOut.  It is a fraction; WaitNum is that value times         *)
(* SampleRate, so that the comparisons below are exact.                    *)
(***************************************************************************)
SleepTime == 10
BlockTimeOut == 5000

WaitNum ==
  LET num == (BufferFrames \div 2) * 2000
  IN  IF num < SampleRate THEN SampleRate
      ELSE IF num > BlockTimeOut * SampleRate THEN BlockTimeOut * SampleRate
      ELSE num

\* (mutant: a test against the wrong limit)
TimedOutAtBlockTimeOut(time) == time >= BlockTimeOut

\* The loop compares with waitMillis truncated to whole milliseconds ...
InWait(time) == time < WaitNum \div SampleRate

\* ... the test after the loop with waitMillis itself.
TimedOut(time) == time * SampleRate >= WaitNum

\* Callbacks reach the mixer only while the driver and the mixer are started.
CallbacksRun == initialized /\ started

Init ==
  /\ mixable = [i \in Slots |-> NULL]
  /\ markedForRemoval = {}
  /\ markedForPause = {}
  /\ paused = {}
  /\ initialized = FALSE
  /\ started = FALSE
  /\ bufferAlloc = FALSE
  /\ gui = Idle
  /\ audio = Out
  /\ belief = [d \in Mixables |-> "detached"]

-----------------------------------------------------------------------------
(* The editor thread: life cycle of the audio device. *)

\* start(): openAudioDevice if need be (driver->initDevice may fail, then
\* nothing is started; cleanup() has freed the old buffer), then run: the
\* driver's start() may fail too, and the device then stays open.
Start ==
  /\ gui.pc = "idle"
  /\ ~started
  /\ \/ /\ ~initialized
        /\ bufferAlloc' = FALSE
        /\ UNCHANGED <<initialized, started>>
     \/ /\ initialized' = TRUE
        /\ started' \in BOOLEAN
        /\ bufferAlloc' = (initialized => bufferAlloc)
  /\ UNCHANGED <<devices, gui, audio, belief>>

\* (mutant: the driver does not wait for the callback in flight)
CloseAudioDeviceNoJoin(freeBuffer) ==
  /\ gui.pc = "idle"
  /\ started' = FALSE
  /\ initialized' = FALSE
  /\ bufferAlloc' = IF freeBuffer THEN FALSE ELSE bufferAlloc
  /\ UNCHANGED <<devices, gui, audio, belief>>

\* setBufferSize() and setSampleRate() with a new value: closeAudioDevice
\* stops the mixer and closes the driver, which waits for the callback that
\* is in flight; setBufferSize then frees the mix buffer.
CloseAudioDevice(freeBuffer) ==
  /\ gui.pc = "idle"
  /\ audio.pc = "out"
  /\ started' = FALSE
  /\ initialized' = FALSE
  /\ bufferAlloc' = IF freeBuffer THEN FALSE ELSE bufferAlloc
  /\ UNCHANGED <<devices, gui, audio, belief>>

-----------------------------------------------------------------------------
(* The editor thread: addDevice. *)

FreeSlots == {i \in Slots : mixable[i] = NULL}
SlotsOf(d) == {i \in Slots : mixable[i] = d}
IsFirst(i, S) == i \in S /\ \A j \in S : i <= j

\* attachModuleEditor() adds a player only after it has removed it.
AddDevice(d) ==
  /\ gui.pc = "idle"
  /\ belief[d] \in {"detached", "dropped"}
  /\ \E i \in Slots :
       /\ IsFirst(i, FreeSlots)
       /\ mixable' = [mixable EXCEPT ![i] = d]
       /\ UNCHANGED flags
       /\ gui' = [pc |-> "addRemoval", dev |-> d, slot |-> i, time |-> 0]
  /\ belief' = [belief EXCEPT ![d] = "live"]
  /\ UNCHANGED <<driver, audio>>

AddClearRemoval ==
  /\ gui.pc = "addRemoval"
  /\ markedForRemoval' = markedForRemoval \ {gui.slot}
  /\ UNCHANGED <<mixable, markedForPause, paused>>
  /\ gui' = [gui EXCEPT !.pc = "addPause"]
  /\ UNCHANGED <<driver, audio, belief>>

AddClearPause ==
  /\ gui.pc = "addPause"
  /\ markedForPause' = markedForPause \ {gui.slot}
  /\ UNCHANGED <<mixable, markedForRemoval, paused>>
  /\ gui' = [gui EXCEPT !.pc = "addPaused"]
  /\ UNCHANGED <<driver, audio, belief>>

\* every caller leaves the parameter paused at its default, false
AddSetPaused ==
  /\ gui.pc = "addPaused"
  /\ paused' = paused \ {gui.slot}
  /\ UNCHANGED <<mixable, markedForRemoval, markedForPause>>
  /\ gui' = Idle
  /\ UNCHANGED <<driver, audio, belief>>

-----------------------------------------------------------------------------
(* The editor thread: removeDevice, called as detachDevice() does.  A      *)
(* mixer that is not started drops the player at once.                     *)

\* (mutant: the slot is cleared at once though the mixer runs)
RemoveDeviceAtOnce(d) ==
  /\ gui.pc = "idle"
  /\ belief[d] \notin {"detached", "dropped"}
  /\ mixable' = [i \in Slots |-> IF mixable[i] = d THEN NULL ELSE mixable[i]]
  /\ UNCHANGED flags
  /\ belief' = [belief EXCEPT ![d] = "detached"]
  /\ UNCHANGED <<driver, gui, audio>>

RemoveDevice(d) ==
  /\ gui.pc = "idle"
  /\ belief[d] \notin {"detached", "dropped"}
  /\ \/ /\ SlotsOf(d) = {}
        /\ belief' = [belief EXCEPT ![d] = "detached"]
        /\ UNCHANGED <<devices, gui>>
     \/ \E i \in Slots :
          /\ IsFirst(i, SlotsOf(d))
          /\ IF started
             THEN /\ markedForRemoval' = markedForRemoval \union {i}
                  /\ UNCHANGED <<mixable, markedForPause, paused>>
                  /\ gui' = [pc |-> "waitRemove", dev |-> d, slot |-> i, time |-> 0]
                  /\ UNCHANGED belief
             ELSE /\ markedForRemoval' = markedForRemoval \ {i}
                  /\ mixable' = [mixable EXCEPT ![i] = NULL]
                  /\ UNCHANGED <<markedForPause, paused>>
                  /\ belief' = [belief EXCEPT ![d] = "detached"]
                  /\ UNCHANGED gui
  /\ UNCHANGED <<driver, audio>>

\* (mutant: the call returns without waiting)
RemoveUnanswered ==
  /\ gui.pc = "waitRemove"
  /\ belief' = [belief EXCEPT ![gui.dev] = "detached"]
  /\ gui' = Idle
  /\ UNCHANGED <<devices, driver, audio>>

RemoveAnswered ==
  /\ gui.pc = "waitRemove"
  /\ mixable[gui.slot] = NULL
  /\ belief' = [belief EXCEPT ![gui.dev] = "detached"]
  /\ gui' = Idle
  /\ UNCHANGED <<devices, driver, audio>>

\* (mutant: the time slept is not counted)
SleepUncounted(pc) ==
  /\ gui.pc = pc
  /\ InWait(gui.time)
  /\ UNCHANGED vars

\* A sleep of the wait.  Under Prompt the sleep that would end the wait is
\* not taken while callbacks are running: the audio thread is ahead of it.
Sleep(pc) ==
  /\ gui.pc = pc
  /\ InWait(gui.time)
  /\ ~(Prompt /\ CallbacksRun /\ ~InWait(gui.time + SleepTime))
  /\ gui' = [gui EXCEPT !.time = @ + SleepTime]
  /\ UNCHANGED <<devices, driver, audio, belief>>

SleepRemove == mixable[gui.slot] # NULL /\ Sleep("waitRemove")

\* The wait is over: the slot is cleared in two stores, or, when the test
\* for the time-out fails, left as it is.
RemoveExpired ==
  /\ gui.pc = "waitRemove"
  /\ ~InWait(gui.time)
  /\ mixable[gui.slot] # NULL
  /\ belief' = [belief EXCEPT ![gui.dev] = "dropped"]
  /\ IF TimedOut(gui.time)
     THEN /\ mixable' = [mixable EXCEPT ![gui.slot] = NULL]
          /\ UNCHANGED flags
          /\ gui' = [gui EXCEPT !.pc = "forceRemove"]
     ELSE /\ gui' = Idle
          /\ UNCHANGED devices
  /\ UNCHANGED <<driver, audio>>

ForceRemove ==
  /\ gui.pc = "forceRemove"
  /\ markedForRemoval' = markedForRemoval \ {gui.slot}
  /\ UNCHANGED <<mixable, markedForPause, paused>>
  /\ gui' = Idle
  /\ UNCHANGED <<driver, audio, belief>>

-----------------------------------------------------------------------------
(* The editor thread: pauseDevice and resumeDevice, called as              *)
(* suspendPlayer() and resumePlayer() do: a player is paused only when the *)
(* editor takes it to be live, and resumed only when it does not.          *)

PauseDevice(d) ==
  /\ gui.pc = "idle"
  /\ belief[d] = "live"
  /\ \E i \in Slots :
       /\ IsFirst(i, SlotsOf(d))
       /\ IF started
          THEN /\ markedForPause' = markedForPause \union {i}
               /\ UNCHANGED <<mixable, markedForRemoval, paused>>
               /\ gui' = [pc |-> "waitPause", dev |-> d, slot |-> i, time |-> 0]
               /\ UNCHANGED belief
          ELSE /\ markedForPause' = markedForPause \ {i}
               /\ paused' = paused \union {i}
               /\ UNCHANGED <<mixable, markedForRemoval>>
               /\ belief' = [belief EXCEPT ![d] = "paused"]
               /\ UNCHANGED gui
  /\ UNCHANGED <<driver, audio>>

\* (mutant: the call returns without waiting)
PauseUnanswered ==
  /\ gui.pc = "waitPause"
  /\ belief' = [belief EXCEPT ![gui.dev] = "paused"]
  /\ gui' = Idle
  /\ UNCHANGED <<devices, driver, audio>>

PauseAnswered ==
  /\ gui.pc = "waitPause"
  /\ gui.slot \in paused
  /\ belief' = [belief EXCEPT ![gui.dev] = "paused"]
  /\ gui' = Idle
  /\ UNCHANGED <<devices, driver, audio>>

SleepPause == gui.slot \notin paused /\ Sleep("waitPause")

PauseExpired ==
  /\ gui.pc = "waitPause"
  /\ ~InWait(gui.time)
  /\ gui.slot \notin paused
  /\ IF TimedOut(gui.time)
     THEN /\ paused' = paused \union {gui.slot}
          /\ UNCHANGED <<mixable, markedForRemoval, markedForPause>>
          /\ belief' = [belief EXCEPT ![gui.dev] = "forced"]
          /\ gui' = [gui EXCEPT !.pc = "forcePause"]
     ELSE /\ belief' = [belief EXCEPT ![gui.dev] = "unanswered"]
          /\ gui' = Idle
          /\ UNCHANGED devices
  /\ UNCHANGED <<driver, audio>>

ForcePause ==
  /\ gui.pc = "forcePause"
  /\ markedForPause' = markedForPause \ {gui.slot}
  /\ UNCHANGED <<mixable, markedForRemoval, paused>>
  /\ gui' = Idle
  /\ UNCHANGED <<driver, audio, belief>>

\* (mutant: the flag is not cleared)
ResumeDeviceKeepsFlag(d) ==
  /\ gui.pc = "idle"
  /\ belief[d] \in {"paused", "forced", "unanswered"}
  /\ belief' = [belief EXCEPT ![d] = "live"]
  /\ UNCHANGED <<devices, driver, gui, audio>>

\* resumeDevice does nothing for a slot that is not paused
ResumeDevice(d) ==
  /\ gui.pc = "idle"
  /\ belief[d] \in {"paused", "forced", "unanswered"}
  /\ LET Paused == {i \in SlotsOf(d) : i \in paused} IN
       \/ Paused = {} /\ UNCHANGED devices
       \/ \E i \in Slots : /\ IsFirst(i, Paused)
                           /\ paused' = paused \ {i}
                           /\ UNCHANGED <<mixable, markedForRemoval, markedForPause>>
  /\ belief' = [belief EXCEPT ![d] = "live"]
  /\ UNCHANGED <<driver, gui, audio>>

-----------------------------------------------------------------------------
(* The audio thread: mixerHandler.                                         *)

\* (mutant: one slot too many)
NextSlotPastEnd ==
  IF audio.slot > NumDevices THEN Out
  ELSE [pc |-> "check", slot |-> audio.slot + 1, dev |-> NULL]

NextSlot ==
  IF audio.slot = NumDevices THEN Out
  ELSE [pc |-> "check", slot |-> audio.slot + 1, dev |-> NULL]

AtSlot(pc) == audio.pc = pc

\* isMixerActive() of the driver, then prepareBuffer()
EnterHandler ==
  /\ AtSlot("out")
  /\ CallbacksRun
  /\ audio' = [pc |-> "check", slot |-> 1, dev |-> NULL]
  /\ UNCHANGED <<devices, driver, gui, belief>>

\* the if / else if chain: removal first, then pause, then mixing
CheckSlot ==
  /\ AtSlot("check")
  /\ LET i == audio.slot IN
       audio' = IF mixable[i] # NULL /\ i \in markedForRemoval
                THEN [audio EXCEPT !.pc = "clearRemoval"]
                ELSE IF mixable[i] # NULL /\ i \in markedForPause
                THEN [audio EXCEPT !.pc = "clearPause"]
                ELSE IF mixable[i] # NULL /\ i \notin paused
                THEN [audio EXCEPT !.pc = "call", !.dev = mixable[i]]
                ELSE NextSlot
  /\ UNCHANGED <<devices, driver, gui, belief>>

AckClearRemoval ==
  /\ AtSlot("clearRemoval")
  /\ markedForRemoval' = markedForRemoval \ {audio.slot}
  /\ UNCHANGED <<mixable, markedForPause, paused>>
  /\ audio' = [audio EXCEPT !.pc = "clearMixable"]
  /\ UNCHANGED <<driver, gui, belief>>

AckClearMixable ==
  /\ AtSlot("clearMixable")
  /\ mixable' = [mixable EXCEPT ![audio.slot] = NULL]
  /\ UNCHANGED flags
  /\ audio' = NextSlot
  /\ UNCHANGED <<driver, gui, belief>>

\* (mutants: the mark is kept; the player is paused and mixed once more)
AckKeepsMark ==
  /\ AtSlot("clearPause")
  /\ audio' = [audio EXCEPT !.pc = "setPaused"]
  /\ UNCHANGED <<devices, driver, gui, belief>>

AckSetPausedThenMix ==
  /\ AtSlot("setPaused")
  /\ paused' = paused \union {audio.slot}
  /\ UNCHANGED <<mixable, markedForRemoval, markedForPause>>
  /\ audio' = [audio EXCEPT !.pc = "call", !.dev = mixable[audio.slot]]
  /\ UNCHANGED <<driver, gui, belief>>

AckClearPause ==
  /\ AtSlot("clearPause")
  /\ markedForPause' = markedForPause \ {audio.slot}
  /\ UNCHANGED <<mixable, markedForRemoval, paused>>
  /\ audio' = [audio EXCEPT !.pc = "setPaused"]
  /\ UNCHANGED <<driver, gui, belief>>

AckSetPaused ==
  /\ AtSlot("setPaused")
  /\ paused' = paused \union {audio.slot}
  /\ UNCHANGED <<mixable, markedForRemoval, markedForPause>>
  /\ audio' = NextSlot
  /\ UNCHANGED <<driver, gui, belief>>

\* device->mixable->mix(): the pointer that was tested, or the one a build
\* that loads it again finds
BeginMix ==
  /\ AtSlot("call")
  /\ \E m \in {audio.dev, mixable[audio.slot]} :
       audio' = [audio EXCEPT !.pc = "mix", !.dev = m]
  /\ UNCHANGED <<devices, driver, gui, belief>>

EndMix ==
  /\ AtSlot("mix")
  /\ audio.dev # NULL
  /\ audio' = NextSlot
  /\ UNCHANGED <<devices, driver, gui, belief>>

-----------------------------------------------------------------------------
Wait ==
  \/ RemoveAnswered \/ SleepRemove \/ RemoveExpired \/ ForceRemove
  \/ PauseAnswered  \/ SleepPause  \/ PauseExpired  \/ ForcePause

Editor ==
  \/ Start
  \/ \E freeBuffer \in BOOLEAN : CloseAudioDevice(freeBuffer)
  \/ \E d \in Mixables :
       AddDevice(d) \/ RemoveDevice(d) \/ PauseDevice(d) \/ ResumeDevice(d)
  \/ AddClearRemoval \/ AddClearPause \/ AddSetPaused
  \/ Wait

AudioThread ==
  \/ EnterHandler \/ CheckSlot
  \/ AckClearRemoval \/ AckClearMixable \/ AckClearPause \/ AckSetPaused
  \/ BeginMix \/ EndMix

Next == Editor \/ AudioThread

Spec == Init /\ [][Next]_vars

(***************************************************************************)
(* The driver calls the handler for every buffer while it runs, and a      *)
(* thread that has entered a call goes on with it.  What the user does     *)
(* next is not fair.                                                       *)
(***************************************************************************)
Fairness ==
  /\ WF_vars(AudioThread)
  /\ WF_vars(AddClearRemoval \/ AddClearPause \/ AddSetPaused \/ Wait)

FairSpec == Spec /\ Fairness

\* the editor thread goes on with its calls; nothing is asked of the audio thread
EditorFairSpec ==
  Spec /\ WF_vars(AddClearRemoval \/ AddClearPause \/ AddSetPaused \/ Wait)

-----------------------------------------------------------------------------
(* Properties. *)

\* The fields keep their types: the slots of the table, the flags of the
\* mixer, and the program counters of the two threads.
TypeOK ==
  /\ mixable \in [Slots -> Mixables \union {NULL}]
  /\ markedForRemoval \subseteq Slots
  /\ markedForPause \subseteq Slots
  /\ paused \subseteq Slots
  /\ initialized \in BOOLEAN
  /\ started \in BOOLEAN
  /\ bufferAlloc \in BOOLEAN
  /\ gui \in GuiState
  /\ audio \in AudioState
  /\ belief \in [Mixables -> Beliefs]

Rendering(d) == audio.pc = "mix" /\ audio.dev = d

\* A player that a blocking pauseDevice or removeDevice has left answered is
\* not inside mix(), however late callbacks come: MasterMixer::pauseDevice,
\* removeDevice and the chain of mixerHandler.
AnsweredMeansSilent ==
  \A d \in Mixables :
    belief[d] \in {"paused", "detached"} => ~Rendering(d)

\* mix() is never called through a null pointer: removeDevice does not clear
\* a slot between mixerHandler's test of it and its use.
NoNullCall == audio.pc = "mix" => audio.dev # NULL

\* A player added and not removed keeps its slot, and has only one: no late
\* acknowledgement of an earlier removal empties the slot of a newcomer.
RegisteredOnce ==
  \A d \in Mixables :
    /\ belief[d] \notin {"detached", "dropped"} /\ gui.dev # d
         => Cardinality(SlotsOf(d)) = 1
    /\ belief[d] = "detached" => SlotsOf(d) = {}

\* Between calls a player the editor takes to be live carries no request and
\* is not paused: no request outlives the call that made it, so that a resume
\* is never undone by an earlier pause.
NoStaleRequest ==
  \A i \in Slots, d \in Mixables :
    mixable[i] = d /\ belief[d] = "live" /\ gui.dev # d =>
      i \notin markedForRemoval /\ i \notin markedForPause /\ i \notin paused

\* While the handler runs the mix buffer exists: closing the device waits
\* for the callback, and the buffer is allocated before the start.
BufferWhileMixing == audio.pc # "out" => bufferAlloc

\* pauseDevice returns with the player's slot flagged as paused, answered or
\* timed out (the comment "timeout" in pauseDevice).
PauseTakesEffect ==
  \A d \in Mixables, i \in Slots :
    belief[d] \in {"paused", "forced", "unanswered"} /\ mixable[i] = d
      => i \in paused

\* Every blocking call comes back, whatever the audio thread does.
CallReturns == (gui.pc # "idle") ~> (gui.pc = "idle")

\* A live player is rendered again and again while the mixer stays started
\* and the editor leaves the player alone.
LivePlayerIsHeard ==
  \A d \in Mixables :
    (started /\ belief[d] = "live" /\ gui.dev # d) ~>
      (Rendering(d) \/ ~started \/ belief[d] # "live" \/ gui.dev = d)

\* The mixer keeps the contract the editor relies on.
Contract == INSTANCE MixerContract WITH
  attached  <- {d \in Mixables : belief[d] \notin {"detached", "dropped"}},
  silenced  <- {d \in Mixables : belief[d] \in {"paused", "forced", "unanswered"}},
  rendering <- {d \in Mixables : Rendering(d)}

ContractSpec == Contract!Spec
=============================================================================
