-------------------------- MODULE MasterMixer_proofs --------------------------
(***************************************************************************)
(* Proofs about MasterMixer for any number of players and slots, any       *)
(* buffer length and any sample rate.                                      *)
(*                                                                         *)
(* Type correctness needs no assumption on the timing.  That the mixer     *)
(* keeps its contract needs callbacks that answer in time (Prompt): a wait *)
(* that runs out lets the editor write a slot the audio thread is using.   *)
(***************************************************************************)
EXTENDS MasterMixer, FiniteSetTheorems, TLAPS

-----------------------------------------------------------------------------
(* The inductive invariant. *)

Adding == gui.pc \in {"addRemoval", "addPause", "addPaused"}
Waiting == gui.pc \in {"waitRemove", "waitPause"}

\* The mixer runs only over an open device, the handler only in a running
\* mixer, and a wait only goes on in a running mixer, within its time.
LifeCycle ==
  /\ started => initialized
  /\ initialized => bufferAlloc
  /\ audio.pc # "out" => started
  /\ Waiting => started /\ InWait(gui.time)

\* No wait runs out, so a player is live, paused or detached.
Answered ==
  /\ gui.pc \notin {"forceRemove", "forcePause"}
  /\ \A d \in Mixables : belief[d] \in {"live", "paused", "detached"}

\* Who is in which slot.
Registered ==
  /\ \A i, j \in Slots :
       mixable[i] = mixable[j] /\ mixable[i] # NULL => i = j
  /\ \A d \in Mixables, i \in Slots :
       mixable[i] = d => belief[d] # "detached"
  /\ \A d \in Mixables :
       belief[d] # "detached" /\ ~(gui.pc = "waitRemove" /\ gui.dev = d)
         => \E i \in Slots : mixable[i] = d

\* What the editor's call in progress knows of its slot.
CallInProgress ==
  /\ (gui.pc = "idle") = (gui.dev = NULL)
  /\ Adding \/ gui.pc = "waitPause" =>
       mixable[gui.slot] = gui.dev /\ belief[gui.dev] = "live"
  /\ gui.pc = "waitRemove" =>
       /\ belief[gui.dev] # "detached"
       /\ mixable[gui.slot] \in {gui.dev, NULL}
       /\ \A j \in Slots \ {gui.slot} : mixable[j] # gui.dev

\* A mark belongs to the call that waits for its answer, and is gone when
\* the answer is there.
MarksOwned ==
  \A i \in Slots :
    /\ i \in markedForRemoval =>
         gui.pc = "waitRemove" /\ gui.slot = i /\ mixable[i] # NULL
    /\ i \in markedForPause =>
         gui.pc = "waitPause" /\ gui.slot = i /\ i \notin paused

\* The flag paused is what the editor takes it to be.
PausedAgrees ==
  \A i \in Slots : mixable[i] # NULL =>
    /\ belief[mixable[i]] = "paused" => i \in paused
    /\ i \in paused =>
         \/ belief[mixable[i]] = "paused"
         \/ (Adding \/ gui.pc = "waitPause") /\ gui.slot = i

\* Where the audio thread is in the chain, and what still holds of the slot
\* it has tested.
HandlerKnows ==
  LET i == audio.slot IN
  /\ audio.pc \in {"clearRemoval", "clearMixable"} =>
       gui.pc = "waitRemove" /\ gui.slot = audio.slot /\ mixable[i] # NULL
  /\ audio.pc \in {"clearPause", "setPaused"} =>
       gui.pc = "waitPause" /\ gui.slot = audio.slot /\ i \notin paused
  /\ audio.pc = "clearMixable" => i \notin markedForRemoval
  /\ audio.pc = "setPaused" => i \notin markedForPause
  /\ audio.pc \in {"call", "mix"} =>
       audio.dev # NULL /\ audio.dev = mixable[i] /\ i \notin paused

IInv ==
  /\ TypeOK
  /\ LifeCycle
  /\ Answered
  /\ Registered
  /\ CallInProgress
  /\ MarksOwned
  /\ PausedAgrees
  /\ HandlerKnows

-----------------------------------------------------------------------------
(* Type correctness. *)

LEMMA Values ==
  /\ Idle \in GuiState
  /\ Out \in AudioState
  /\ \A pc \in GuiPC, d \in Mixables, i \in Slots :
       [pc |-> pc, dev |-> d, slot |-> i, time |-> 0] \in GuiState
  /\ \A d \in Mixables \union {NULL} :
       [pc |-> "check", slot |-> 1, dev |-> d] \in AudioState
  BY MixerAssumption
  DEF MixerAssumption, Slots, Idle, Out, GuiState, AudioState, GuiPC, AudioPC

LEMMA NextSlotType == audio \in AudioState => NextSlot \in AudioState
  BY Values, MixerAssumption
  DEF MixerAssumption, Slots, NextSlot, AudioState, AudioPC

LEMMA TypeInit == Init => TypeOK
  BY Values DEF Init, TypeOK, Beliefs

LEMMA TypeNext == TypeOK /\ [Next]_vars => TypeOK'
  <1> SUFFICES ASSUME TypeOK, [Next]_vars PROVE TypeOK'
    OBVIOUS
  <1> USE Values DEF TypeOK, devices, flags, driver
  <1>1. CASE Start
    BY <1>1 DEF Start
  <1>2. ASSUME NEW f \in BOOLEAN, CloseAudioDevice(f) PROVE TypeOK'
    BY <1>2 DEF CloseAudioDevice
  <1>3. ASSUME NEW d \in Mixables, AddDevice(d) PROVE TypeOK'
    BY <1>3 DEF AddDevice, Beliefs, GuiPC
  <1>4. ASSUME NEW d \in Mixables, RemoveDevice(d) PROVE TypeOK'
    BY <1>4 DEF RemoveDevice, Beliefs, GuiPC
  <1>5. ASSUME NEW d \in Mixables, PauseDevice(d) PROVE TypeOK'
    BY <1>5 DEF PauseDevice, Beliefs, GuiPC
  <1>6. ASSUME NEW d \in Mixables, ResumeDevice(d) PROVE TypeOK'
    BY <1>6 DEF ResumeDevice, Beliefs
  <1>7. CASE AddClearRemoval \/ AddClearPause \/ AddSetPaused
    BY <1>7 DEF AddClearRemoval, AddClearPause, AddSetPaused, GuiState, GuiPC
  <1>8. CASE Wait
    <2>1. CASE RemoveAnswered \/ PauseAnswered
      BY <2>1 DEF RemoveAnswered, PauseAnswered, Beliefs
    <2>2. CASE SleepRemove \/ SleepPause
      BY <2>2 DEF SleepRemove, SleepPause, Sleep, SleepTime, GuiState
    <2>3. CASE RemoveExpired
      <3>1. gui' \in GuiState
        BY <2>3 DEF RemoveExpired, GuiState, GuiPC
      <3>2. belief' \in [Mixables -> Beliefs]
        BY <2>3 DEF RemoveExpired, Beliefs
      <3> QED BY <2>3, <3>1, <3>2 DEF RemoveExpired, GuiState
    <2>4. CASE PauseExpired
      BY <2>4 DEF PauseExpired, Beliefs, GuiState, GuiPC
    <2>5. CASE ForceRemove \/ ForcePause
      BY <2>5 DEF ForceRemove, ForcePause
    <2> QED BY <1>8, <2>1, <2>2, <2>3, <2>4, <2>5 DEF Wait
  <1>9. CASE AudioThread
    <2> USE NextSlotType
    <2>1. CASE EnterHandler
      BY <2>1 DEF EnterHandler
    <2>2. CASE CheckSlot
      BY <2>2 DEF CheckSlot, AudioState, AudioPC
    <2>3. CASE AckClearRemoval \/ AckClearPause
      BY <2>3 DEF AckClearRemoval, AckClearPause, AudioState, AudioPC
    <2>4. CASE AckClearMixable \/ AckSetPaused
      BY <2>4 DEF AckClearMixable, AckSetPaused, AudioState
    <2>5. CASE BeginMix
      BY <2>5 DEF BeginMix, AudioState, AudioPC
    <2>6. CASE EndMix
      BY <2>6 DEF EndMix
    <2> QED BY <1>9, <2>1, <2>2, <2>3, <2>4, <2>5, <2>6 DEF AudioThread
  <1>10. CASE UNCHANGED vars
    BY <1>10 DEF vars
  <1> QED
    BY <1>1, <1>2, <1>3, <1>4, <1>5, <1>6, <1>7, <1>8, <1>9, <1>10 DEF Next, Editor

\* Every reachable state is well typed, whatever the timing: the table walk
\* of mixerHandler and the slot searches of the editor stay inside the table.
THEOREM TypeCorrect == Spec => []TypeOK
  BY TypeInit, TypeNext, PTL DEF Spec

-----------------------------------------------------------------------------
(* The mix buffer: no assumption on the timing. *)

Running ==
  /\ initialized \/ started => bufferAlloc
  /\ audio.pc # "out" => started

LEMMA RunningNext == TypeOK /\ Running /\ [Next]_vars => Running'
  <1> SUFFICES ASSUME TypeOK, Running, [Next]_vars PROVE Running'
    OBVIOUS
  <1> USE DEF TypeOK, Running, driver
  <1>1. CASE Start
    <2>1. audio' = audio /\ audio.pc = "out"
      BY <1>1 DEF Start
    <2>2. ASSUME initialized' \/ started' PROVE bufferAlloc'
      <3>1. CASE ~initialized /\ bufferAlloc' = FALSE /\ UNCHANGED <<initialized, started>>
        BY <1>1, <2>2, <3>1 DEF Start
      <3>2. CASE bufferAlloc' = (initialized => bufferAlloc)
        BY <3>2
      <3> QED BY <1>1, <3>1, <3>2 DEF Start
    <2> QED BY <2>1, <2>2
  <1>6. ASSUME NEW f \in BOOLEAN, CloseAudioDevice(f) PROVE Running'
    BY <1>6 DEF CloseAudioDevice
  <1>2. CASE \E d \in Mixables :
               AddDevice(d) \/ RemoveDevice(d) \/ PauseDevice(d) \/ ResumeDevice(d)
    BY <1>2 DEF AddDevice, RemoveDevice, PauseDevice, ResumeDevice
  <1>3. CASE AddClearRemoval \/ AddClearPause \/ AddSetPaused \/ Wait
    BY <1>3
    DEF AddClearRemoval, AddClearPause, AddSetPaused, Wait, RemoveAnswered, SleepRemove,
        RemoveExpired, ForceRemove, PauseAnswered, SleepPause, PauseExpired, ForcePause, Sleep
  <1>4. CASE AudioThread
    BY <1>4
    DEF AudioThread, EnterHandler, CheckSlot, AckClearRemoval, AckClearMixable,
        AckClearPause, AckSetPaused, BeginMix, EndMix, CallbacksRun, AtSlot
  <1>5. CASE UNCHANGED vars
    BY <1>5 DEF vars
  <1> QED BY <1>1, <1>2, <1>3, <1>4, <1>5, <1>6 DEF Next, Editor

\* The handler never runs without its mix buffer, however late callbacks come:
\* openAudioDevice and start against closeAudioDevice and setBufferSize.
THEOREM BufferSafe == Spec => []BufferWhileMixing
  <1>1. Init => Running
    BY DEF Init, Running, Out
  <1>2. Running => BufferWhileMixing
    BY DEF Running, BufferWhileMixing
  <1> QED BY <1>1, <1>2, RunningNext, TypeCorrect, PTL DEF Spec

-----------------------------------------------------------------------------
(* The wait. *)

\* A wait that has just begun goes on: waitMillis is at least one.
LEMMA WaitBegins == InWait(0)
  <1>1. WaitNum \in Nat /\ WaitNum >= SampleRate
    BY MixerAssumption DEF MixerAssumption, WaitNum, BlockTimeOut
  <1>2. WaitNum \div SampleRate >= 1
    BY <1>1, MixerAssumption DEF MixerAssumption
  <1> QED BY <1>1, <1>2, MixerAssumption DEF MixerAssumption, InWait

-----------------------------------------------------------------------------
(* The invariant is inductive when callbacks answer in time. *)

LEMMA InvInit == Init => IInv
  BY TypeInit, MixerAssumption
  DEF MixerAssumption, Init, Slots, Idle, Out, IInv, LifeCycle, Answered, Registered,
      CallInProgress, MarksOwned, PausedAgrees, HandlerKnows, Adding, Waiting

\* the steps that leave the slots alone
LEMMA DriverNext ==
  ASSUME IInv, TypeOK', Start \/ \E f \in BOOLEAN : CloseAudioDevice(f)
  PROVE  IInv'
  <1> USE DEF Start, CloseAudioDevice, devices, Adding, Waiting, IInv
  <1>1. LifeCycle'
    <2>1. CASE Start
      BY <2>1 DEF LifeCycle, TypeOK
    <2>2. ASSUME NEW f \in BOOLEAN, CloseAudioDevice(f) PROVE LifeCycle'
      BY <2>2 DEF LifeCycle, TypeOK
    <2> QED BY <2>1, <2>2
  <1>2. Answered' BY DEF Answered
  <1>3. Registered' BY DEF Registered
  <1>4. CallInProgress' BY DEF CallInProgress
  <1>5. MarksOwned' BY DEF MarksOwned
  <1>6. PausedAgrees' BY DEF PausedAgrees
  <1>7. HandlerKnows' BY DEF HandlerKnows
  <1> QED BY <1>1, <1>2, <1>3, <1>4, <1>5, <1>6, <1>7

LEMMA AddDeviceNext ==
  ASSUME IInv, TypeOK', NEW d \in Mixables, AddDevice(d)
  PROVE  IInv'
  <1> USE DEF driver, flags, Adding, Waiting, IInv
  <1>0. d # NULL
    BY MixerAssumption DEF MixerAssumption
  <1>00. gui.pc = "idle" /\ belief[d] = "detached"
    BY DEF AddDevice, Answered
  <1>a. PICK i \in Slots :
          /\ mixable[i] = NULL
          /\ mixable' = [mixable EXCEPT ![i] = d]
          /\ gui' = [pc |-> "addRemoval", dev |-> d, slot |-> i, time |-> 0]
    BY DEF AddDevice, IsFirst, FreeSlots
  <1>b. /\ belief' = [belief EXCEPT ![d] = "live"]
        /\ UNCHANGED <<markedForRemoval, markedForPause, paused, initialized,
                       started, bufferAlloc, audio>>
    BY DEF AddDevice
  <1> USE <1>0, <1>00, <1>a, <1>b
  <1>1. LifeCycle' BY DEF LifeCycle
  <1>2. Answered' BY DEF Answered, TypeOK
  <1>3. Registered'
    <2> USE DEF Registered, TypeOK
    <2>1. \A j \in Slots : mixable'[j] = IF j = i THEN d ELSE mixable[j]
      OBVIOUS
    <2>2. \A j \in Slots : mixable[j] # d
      OBVIOUS
    <2>3. \A e \in Mixables : belief'[e] = IF e = d THEN "live" ELSE belief[e]
      OBVIOUS
    <2>4. \A j, k \in Slots : mixable'[j] = mixable'[k] /\ mixable'[j] # NULL => j = k
      BY <2>1, <2>2
    <2>5. \A e \in Mixables, j \in Slots : mixable'[j] = e => belief'[e] # "detached"
      BY <2>1, <2>3
    <2>6. ASSUME NEW e \in Mixables, belief'[e] # "detached"
          PROVE  \E j \in Slots : mixable'[j] = e
      <3>1. CASE e = d
        BY <2>1, <3>1
      <3>2. CASE e # d
        <4>1. PICK j \in Slots : mixable[j] = e
          BY <2>6, <2>3, <3>2
        <4> QED BY <4>1, <2>1, MixerAssumption DEF MixerAssumption
      <3> QED BY <3>1, <3>2
    <2> QED BY <2>4, <2>5, <2>6
  <1>4. CallInProgress' BY DEF CallInProgress, TypeOK
  <1>5. MarksOwned' BY DEF MarksOwned, TypeOK
  <1>6. PausedAgrees' BY DEF PausedAgrees, Registered, Answered, TypeOK
  <1>7. HandlerKnows' BY DEF HandlerKnows, TypeOK, AudioState
  <1> QED BY <1>1, <1>2, <1>3, <1>4, <1>5, <1>6, <1>7

LEMMA AddNext ==
  ASSUME IInv, TypeOK', AddClearRemoval \/ AddClearPause \/ AddSetPaused
  PROVE  IInv'
  <1> USE DEF Idle, driver, Adding, Waiting, IInv
  <1>a. /\ UNCHANGED <<mixable, driver, audio, belief>>
        /\ Adding
        /\ (gui'.slot = gui.slot /\ gui'.dev = gui.dev /\ Adding') \/ gui' = Idle
    BY DEF AddClearRemoval, AddClearPause, AddSetPaused, TypeOK, GuiState
  <1>b. /\ markedForRemoval' \subseteq markedForRemoval
        /\ markedForPause' \subseteq markedForPause
        /\ paused' = IF gui' = Idle THEN paused \ {gui.slot} ELSE paused
    BY DEF AddClearRemoval, AddClearPause, AddSetPaused, TypeOK, GuiState
  <1> USE <1>a, <1>b
  <1>1. LifeCycle' BY DEF LifeCycle
  <1>2. Answered' BY DEF Answered, TypeOK
  <1>3. Registered' BY DEF Registered, TypeOK
  <1>4. CallInProgress' BY DEF CallInProgress, TypeOK, GuiState
  <1>5. MarksOwned' BY DEF MarksOwned, TypeOK
  <1>6. PausedAgrees' BY DEF PausedAgrees, CallInProgress, TypeOK
  <1>7. HandlerKnows' BY DEF HandlerKnows, TypeOK
  <1> QED BY <1>1, <1>2, <1>3, <1>4, <1>5, <1>6, <1>7

\* what the search for a player's slot finds
LEMMA SlotFound ==
  ASSUME IInv, NEW d \in Mixables, NEW i \in Slots, IsFirst(i, SlotsOf(d))
  PROVE  /\ mixable[i] = d /\ d # NULL
         /\ \A j \in Slots \ {i} : mixable[j] # d
  BY MixerAssumption
  DEF MixerAssumption, IInv, Registered, IsFirst, SlotsOf

LEMMA RemoveDeviceNext ==
  ASSUME IInv, TypeOK', NEW d \in Mixables, RemoveDevice(d)
  PROVE  IInv'
  <1> USE DEF devices, driver, Adding, Waiting, IInv
  <1>0. /\ gui.pc = "idle" /\ belief[d] # "detached" /\ gui.dev = NULL
        /\ UNCHANGED <<initialized, started, bufferAlloc, audio>>
    BY DEF RemoveDevice, CallInProgress
  <1>e. SlotsOf(d) # {}
    BY <1>0 DEF Registered, SlotsOf
  <1>1. PICK i \in Slots :
          /\ IsFirst(i, SlotsOf(d))
          /\ IF started
             THEN /\ markedForRemoval' = markedForRemoval \union {i}
                  /\ gui' = [pc |-> "waitRemove", dev |-> d, slot |-> i, time |-> 0]
                  /\ UNCHANGED <<mixable, markedForPause, paused, belief>>
             ELSE /\ markedForRemoval' = markedForRemoval \ {i}
                  /\ mixable' = [mixable EXCEPT ![i] = NULL]
                  /\ UNCHANGED <<markedForPause, paused, gui>>
                  /\ belief' = [belief EXCEPT ![d] = "detached"]
    BY <1>e DEF RemoveDevice
  <1>2. /\ mixable[i] = d /\ d # NULL
        /\ \A j \in Slots \ {i} : mixable[j] # d
    BY <1>1, SlotFound
  <1>3. CASE started
    <2> USE <1>0, <1>1, <1>2, <1>3
    <2>1. LifeCycle' BY WaitBegins DEF LifeCycle
    <2>2. Answered' BY DEF Answered, TypeOK
    <2>3. Registered' BY DEF Registered, TypeOK
    <2>4. CallInProgress' BY DEF CallInProgress, TypeOK
    <2>5. MarksOwned' BY DEF MarksOwned, TypeOK
    <2>6. PausedAgrees' BY DEF PausedAgrees, TypeOK
    <2>7. HandlerKnows' BY DEF HandlerKnows, TypeOK
    <2> QED BY <2>1, <2>2, <2>3, <2>4, <2>5, <2>6, <2>7
  <1>4. CASE ~started
    <2> USE <1>0, <1>1, <1>2, <1>4
    <2>0. /\ \A j \in Slots : mixable'[j] = IF j = i THEN NULL ELSE mixable[j]
          /\ \A e \in Mixables : belief'[e] = IF e = d THEN "detached" ELSE belief[e]
      BY DEF TypeOK
    <2>1. LifeCycle' BY DEF LifeCycle
    <2>2. Answered' BY <2>0 DEF Answered
    <2>3. Registered'
      <3> USE <2>0 DEF Registered
      <3>1. \A j, k \in Slots : mixable'[j] = mixable'[k] /\ mixable'[j] # NULL => j = k
        OBVIOUS
      <3>2. \A e \in Mixables, j \in Slots : mixable'[j] = e => belief'[e] # "detached"
        BY MixerAssumption DEF MixerAssumption
      <3>3. ASSUME NEW e \in Mixables, belief'[e] # "detached"
            PROVE  \E j \in Slots : mixable'[j] = e
        <4>1. e # d /\ belief[e] # "detached"
          BY <3>3
        <4>2. PICK j \in Slots : mixable[j] = e
          BY <4>1
        <4> QED BY <4>1, <4>2
      <3> QED BY <3>1, <3>2, <3>3
    <2>4. CallInProgress' BY DEF CallInProgress
    <2>5. MarksOwned' BY <2>0 DEF MarksOwned
    <2>6. PausedAgrees' BY <2>0 DEF PausedAgrees, TypeOK
    <2>7. HandlerKnows' BY DEF HandlerKnows, LifeCycle
    <2> QED BY <2>1, <2>2, <2>3, <2>4, <2>5, <2>6, <2>7
  <1> QED BY <1>3, <1>4 DEF TypeOK

LEMMA PauseDeviceNext ==
  ASSUME IInv, TypeOK', NEW d \in Mixables, PauseDevice(d)
  PROVE  IInv'
  <1> USE DEF devices, driver, Adding, Waiting, IInv
  <1>0. /\ gui.pc = "idle" /\ belief[d] = "live" /\ gui.dev = NULL
        /\ UNCHANGED <<mixable, markedForRemoval, initialized, started, bufferAlloc, audio>>
    BY DEF PauseDevice, CallInProgress
  <1>1. PICK i \in Slots :
          /\ IsFirst(i, SlotsOf(d))
          /\ IF started
             THEN /\ markedForPause' = markedForPause \union {i}
                  /\ gui' = [pc |-> "waitPause", dev |-> d, slot |-> i, time |-> 0]
                  /\ UNCHANGED <<paused, belief>>
             ELSE /\ markedForPause' = markedForPause \ {i}
                  /\ paused' = paused \union {i}
                  /\ belief' = [belief EXCEPT ![d] = "paused"]
                  /\ UNCHANGED gui
    BY DEF PauseDevice
  <1>2. /\ mixable[i] = d /\ d # NULL
        /\ \A j \in Slots \ {i} : mixable[j] # d
    BY <1>1, SlotFound
  <1>3. CASE started
    <2> USE <1>0, <1>1, <1>2, <1>3
    <2>1. LifeCycle' BY WaitBegins DEF LifeCycle
    <2>2. Answered' BY DEF Answered, TypeOK
    <2>3. Registered' BY DEF Registered, TypeOK
    <2>4. CallInProgress' BY DEF CallInProgress, TypeOK
    <2>5. MarksOwned' BY DEF MarksOwned, PausedAgrees, TypeOK
    <2>6. PausedAgrees' BY DEF PausedAgrees, TypeOK
    <2>7. HandlerKnows' BY DEF HandlerKnows, TypeOK
    <2> QED BY <2>1, <2>2, <2>3, <2>4, <2>5, <2>6, <2>7
  <1>4. CASE ~started
    <2> USE <1>0, <1>1, <1>2, <1>4
    <2>0. /\ paused' = paused \union {i}
          /\ \A e \in Mixables : belief'[e] = IF e = d THEN "paused" ELSE belief[e]
      BY DEF TypeOK
    <2>1. LifeCycle' BY DEF LifeCycle
    <2>2. Answered' BY <2>0 DEF Answered
    <2>3. Registered' BY <2>0 DEF Registered
    <2>4. CallInProgress' BY DEF CallInProgress
    <2>5. MarksOwned' BY <2>0 DEF MarksOwned
    <2>6. PausedAgrees' BY <2>0 DEF PausedAgrees, TypeOK
    <2>7. HandlerKnows' BY DEF HandlerKnows, LifeCycle
    <2> QED BY <2>1, <2>2, <2>3, <2>4, <2>5, <2>6, <2>7
  <1> QED BY <1>3, <1>4 DEF TypeOK

LEMMA ResumeDeviceNext ==
  ASSUME IInv, TypeOK', NEW d \in Mixables, ResumeDevice(d)
  PROVE  IInv'
  <1> USE DEF devices, driver, Adding, Waiting, IInv
  <1>0. /\ gui.pc = "idle" /\ belief[d] = "paused" /\ gui.dev = NULL
        /\ UNCHANGED <<mixable, markedForRemoval, markedForPause,
                       initialized, started, bufferAlloc, gui, audio>>
        /\ belief' = [belief EXCEPT ![d] = "live"]
    BY DEF ResumeDevice, CallInProgress, Answered
  <1>1. \A i \in Slots : i \in paused' <=> i \in paused /\ mixable[i] # d
    <2>1. \A i \in Slots : mixable[i] = d => i \in paused
      BY <1>0, MixerAssumption DEF PausedAgrees, MixerAssumption
    <2>2. PICK j \in Slots : mixable[j] = d
      BY <1>0 DEF Registered
    <2>3. \A i \in Slots \ {j} : mixable[i] # d
      BY <2>2, MixerAssumption DEF Registered, MixerAssumption
    <2>4. {i \in SlotsOf(d) : i \in paused} = {j}
      BY <2>1, <2>2, <2>3 DEF SlotsOf
    <2>5. paused' = paused \ {j}
      BY <2>4 DEF ResumeDevice, IsFirst
    <2> QED BY <2>2, <2>3, <2>5
  <1>a. \A e \in Mixables : belief'[e] = IF e = d THEN "live" ELSE belief[e]
    BY <1>0 DEF TypeOK
  <1> USE <1>0, <1>1, <1>a
  <1>2. LifeCycle' BY DEF LifeCycle
  <1>3. Answered' BY DEF Answered
  <1>4. Registered' BY DEF Registered
  <1>5. CallInProgress' BY DEF CallInProgress
  <1>6. MarksOwned' BY DEF MarksOwned
  <1>7. PausedAgrees' BY DEF PausedAgrees, TypeOK
  <1>8. HandlerKnows' BY DEF HandlerKnows, TypeOK, AudioState
  <1> QED BY <1>2, <1>3, <1>4, <1>5, <1>6, <1>7, <1>8

LEMMA WaitNext ==
  ASSUME Prompt = TRUE, IInv, TypeOK', Wait
  PROVE  IInv'
  <1> USE DEF devices, driver, Adding, Waiting, IInv
  <1>1. CASE RemoveAnswered
    <2>1. /\ gui.pc = "waitRemove" /\ gui.dev \in Mixables /\ mixable[gui.slot] = NULL
          /\ gui' = Idle
          /\ UNCHANGED <<mixable, markedForRemoval, markedForPause, paused,
                         initialized, started, bufferAlloc, audio>>
      BY <1>1 DEF RemoveAnswered, CallInProgress, TypeOK, GuiState
    <2>2. \A e \in Mixables : belief'[e] = IF e = gui.dev THEN "detached" ELSE belief[e]
      BY <1>1 DEF RemoveAnswered, TypeOK
    <2>3. \A j \in Slots : mixable[j] # gui.dev
      BY <2>1, MixerAssumption DEF CallInProgress, MixerAssumption
    <2> USE <2>1, <2>2, <2>3 DEF Idle
    <2>4. LifeCycle' BY DEF LifeCycle
    <2>5. Answered' BY DEF Answered
    <2>6. Registered' BY DEF Registered
    <2>7. CallInProgress' BY DEF CallInProgress
    <2>8. MarksOwned' BY DEF MarksOwned
    <2>9. PausedAgrees' BY DEF PausedAgrees, TypeOK
    <2>10. HandlerKnows' BY DEF HandlerKnows
    <2> QED BY <2>4, <2>5, <2>6, <2>7, <2>8, <2>9, <2>10
  <1>2. CASE PauseAnswered
    <2>1. /\ gui.pc = "waitPause" /\ gui.dev \in Mixables /\ gui.slot \in paused
          /\ gui.slot \in Slots
          /\ gui' = Idle
          /\ UNCHANGED <<mixable, markedForRemoval, markedForPause, paused,
                         initialized, started, bufferAlloc, audio>>
      BY <1>2 DEF PauseAnswered, CallInProgress, TypeOK, GuiState
    <2>2. \A e \in Mixables : belief'[e] = IF e = gui.dev THEN "paused" ELSE belief[e]
      BY <1>2 DEF PauseAnswered, TypeOK
    <2>3. /\ mixable[gui.slot] = gui.dev /\ belief[gui.dev] = "live"
          /\ \A j \in Slots \ {gui.slot} : mixable[j] # gui.dev
      BY <2>1, MixerAssumption DEF CallInProgress, Registered, MixerAssumption
    <2> USE <2>1, <2>2, <2>3 DEF Idle
    <2>4. LifeCycle' BY DEF LifeCycle
    <2>5. Answered' BY DEF Answered
    <2>6. Registered' BY DEF Registered
    <2>7. CallInProgress' BY DEF CallInProgress
    <2>8. MarksOwned' BY DEF MarksOwned
    <2>9. PausedAgrees' BY DEF PausedAgrees, TypeOK
    <2>10. HandlerKnows' BY DEF HandlerKnows
    <2> QED BY <2>4, <2>5, <2>6, <2>7, <2>8, <2>9, <2>10
  <1>3. CASE SleepRemove \/ SleepPause
    <2>1. /\ Waiting
          /\ gui' = [gui EXCEPT !.time = @ + SleepTime]
          /\ InWait(gui.time + SleepTime)
          /\ UNCHANGED <<mixable, markedForRemoval, markedForPause, paused,
                         initialized, started, bufferAlloc, audio, belief>>
      BY <1>3 DEF SleepRemove, SleepPause, Sleep, LifeCycle, CallbacksRun
    <2>2. /\ gui'.pc = gui.pc /\ gui'.dev = gui.dev /\ gui'.slot = gui.slot
          /\ InWait(gui'.time)
      BY <2>1 DEF TypeOK, GuiState
    <2> USE <2>1, <2>2
    <2>4. LifeCycle' BY DEF LifeCycle
    <2>5. Answered' BY DEF Answered
    <2>6. Registered' BY DEF Registered
    <2>7. CallInProgress' BY DEF CallInProgress
    <2>8. MarksOwned' BY DEF MarksOwned
    <2>9. PausedAgrees' BY DEF PausedAgrees
    <2>10. HandlerKnows' BY DEF HandlerKnows
    <2> QED BY <2>4, <2>5, <2>6, <2>7, <2>8, <2>9, <2>10
  <1>4. CASE RemoveExpired \/ PauseExpired
    BY <1>4 DEF RemoveExpired, PauseExpired, LifeCycle
  <1>5. CASE ForceRemove \/ ForcePause
    BY <1>5 DEF ForceRemove, ForcePause, Answered
  <1> QED BY <1>1, <1>2, <1>3, <1>4, <1>5 DEF Wait

\* leaving a slot: nothing is known of the next one yet
LEMMA NextSlotPC ==
  /\ NextSlot.pc \in {"out", "check"}
  BY DEF NextSlot, Out

LEMMA AudioNext ==
  ASSUME IInv, TypeOK', AudioThread
  PROVE  IInv'
  <1> USE DEF devices, flags, driver, Adding, Waiting, IInv
  <1>i. audio.slot \in Slots
    BY DEF TypeOK, AudioState
  <1>1. CASE EnterHandler \/ CheckSlot \/ BeginMix \/ EndMix
    <2>1. UNCHANGED <<mixable, markedForRemoval, markedForPause, paused,
                      initialized, started, bufferAlloc, gui, belief>>
      BY <1>1 DEF EnterHandler, CheckSlot, BeginMix, EndMix
    <2>2. started
      BY <1>1 DEF EnterHandler, CheckSlot, BeginMix, EndMix, CallbacksRun, LifeCycle, AtSlot
    <2>3. HandlerKnows'
      <3>1. CASE EnterHandler
        BY <2>1, <3>1 DEF EnterHandler, HandlerKnows
      <3>2. CASE CheckSlot
        BY <2>1, <3>2, <1>i, NextSlotPC
        DEF CheckSlot, AtSlot, HandlerKnows, MarksOwned, TypeOK, AudioState
      <3>3. CASE BeginMix
        BY <2>1, <3>3 DEF BeginMix, AtSlot, HandlerKnows, TypeOK, AudioState
      <3>4. CASE EndMix
        BY <2>1, <3>4, NextSlotPC DEF EndMix, HandlerKnows
      <3> QED BY <1>1, <3>1, <3>2, <3>3, <3>4
    <2> USE <2>1, <2>2
    <2>4. LifeCycle' BY DEF LifeCycle
    <2>5. Answered' BY DEF Answered
    <2>6. Registered' BY DEF Registered
    <2>7. CallInProgress' BY DEF CallInProgress
    <2>8. MarksOwned' BY DEF MarksOwned
    <2>9. PausedAgrees' BY DEF PausedAgrees
    <2> QED BY <2>3, <2>4, <2>5, <2>6, <2>7, <2>8, <2>9
  <1>2. CASE AckClearRemoval \/ AckClearPause
    <2>1. /\ UNCHANGED <<mixable, paused, initialized, started, bufferAlloc, gui, belief>>
          /\ markedForRemoval' \subseteq markedForRemoval
          /\ markedForPause' \subseteq markedForPause
          /\ audio.pc # "out"
          /\ audio'.slot = audio.slot
      BY <1>2 DEF AckClearRemoval, AckClearPause, AtSlot, TypeOK, AudioState
    <2>2. \/ /\ audio.pc = "clearRemoval" /\ audio'.pc = "clearMixable"
             /\ audio.slot \notin markedForRemoval'
          \/ /\ audio.pc = "clearPause" /\ audio'.pc = "setPaused"
             /\ audio.slot \notin markedForPause'
      BY <1>2 DEF AckClearRemoval, AckClearPause, AtSlot, TypeOK, AudioState
    <2> USE <2>1, <2>2
    <2>4. LifeCycle' BY DEF LifeCycle
    <2>5. Answered' BY DEF Answered
    <2>6. Registered' BY DEF Registered
    <2>7. CallInProgress' BY DEF CallInProgress
    <2>8. MarksOwned' BY DEF MarksOwned
    <2>9. PausedAgrees' BY DEF PausedAgrees
    <2>10. HandlerKnows' BY DEF HandlerKnows
    <2> QED BY <2>4, <2>5, <2>6, <2>7, <2>8, <2>9, <2>10
  <1>3. CASE AckClearMixable
    <2>1. /\ audio.pc = "clearMixable" /\ gui.pc = "waitRemove" /\ gui.slot = audio.slot
          /\ mixable[audio.slot] = gui.dev /\ gui.dev \in Mixables
          /\ audio.slot \notin markedForRemoval
          /\ audio'.pc \in {"out", "check"}
          /\ UNCHANGED <<markedForRemoval, markedForPause, paused,
                         initialized, started, bufferAlloc, gui, belief>>
      BY <1>3, NextSlotPC
      DEF AckClearMixable, AtSlot, HandlerKnows, CallInProgress, TypeOK, GuiState
    <2>2. \A j \in Slots : mixable'[j] = IF j = gui.slot THEN NULL ELSE mixable[j]
      BY <1>3, <2>1 DEF AckClearMixable, TypeOK
    <2> USE <2>1, <2>2, <1>i
    <2>4. LifeCycle' BY DEF LifeCycle
    <2>5. Answered' BY DEF Answered
    <2>6. Registered'
      <3> USE DEF Registered
      <3>1. \A j, k \in Slots : mixable'[j] = mixable'[k] /\ mixable'[j] # NULL => j = k
        OBVIOUS
      <3>2. \A e \in Mixables, j \in Slots : mixable'[j] = e => belief'[e] # "detached"
        BY MixerAssumption DEF MixerAssumption
      <3>3. ASSUME NEW e \in Mixables, belief'[e] # "detached", gui.dev # e
            PROVE  \E j \in Slots : mixable'[j] = e
        <4>1. PICK j \in Slots : mixable[j] = e
          BY <3>3
        <4> QED BY <4>1, <3>3
      <3> QED BY <3>1, <3>2, <3>3
    <2>7. CallInProgress' BY DEF CallInProgress
    <2>8. MarksOwned' BY DEF MarksOwned
    <2>9. PausedAgrees' BY DEF PausedAgrees
    <2>10. HandlerKnows' BY DEF HandlerKnows
    <2> QED BY <2>4, <2>5, <2>6, <2>7, <2>8, <2>9, <2>10
  <1>4. CASE AckSetPaused
    <2>1. /\ audio.pc = "setPaused" /\ gui.pc = "waitPause" /\ gui.slot = audio.slot
          /\ audio.slot \notin markedForPause
          /\ audio'.pc \in {"out", "check"}
          /\ paused' = paused \union {gui.slot}
          /\ UNCHANGED <<mixable, markedForRemoval, markedForPause,
                         initialized, started, bufferAlloc, gui, belief>>
      BY <1>4, NextSlotPC DEF AckSetPaused, AtSlot, HandlerKnows
    <2> USE <2>1, <1>i
    <2>4. LifeCycle' BY DEF LifeCycle
    <2>5. Answered' BY DEF Answered
    <2>6. Registered' BY DEF Registered
    <2>7. CallInProgress' BY DEF CallInProgress
    <2>8. MarksOwned' BY DEF MarksOwned
    <2>9. PausedAgrees' BY DEF PausedAgrees
    <2>10. HandlerKnows' BY DEF HandlerKnows
    <2> QED BY <2>4, <2>5, <2>6, <2>7, <2>8, <2>9, <2>10
  <1> QED BY <1>1, <1>2, <1>3, <1>4 DEF AudioThread

LEMMA InvNext ==
  ASSUME Prompt = TRUE
  PROVE  IInv /\ [Next]_vars => IInv'
  <1> SUFFICES ASSUME IInv, [Next]_vars PROVE IInv'
    OBVIOUS
  <1>0. TypeOK'
    BY TypeNext DEF IInv
  <1>1. CASE Editor
    BY <1>0, <1>1, DriverNext, AddDeviceNext, RemoveDeviceNext, PauseDeviceNext,
       ResumeDeviceNext, AddNext, WaitNext DEF Editor
  <1>2. CASE AudioThread
    BY <1>0, <1>2, AudioNext
  <1>3. CASE UNCHANGED vars
    BY <1>0, <1>3
    DEF vars, IInv, LifeCycle, Answered, Registered, CallInProgress, MarksOwned,
        PausedAgrees, HandlerKnows, Adding, Waiting
  <1> QED BY <1>1, <1>2, <1>3 DEF Next

\* While answers come within the wait, a call that has returned was answered,
\* its player is where the editor believes it, and a mark in a slot belongs to
\* the call that waits for it (addDevice, removeDevice, pauseDevice).
THEOREM Invariance ==
  ASSUME Prompt = TRUE
  PROVE  Spec => []IInv
  BY InvInit, InvNext, PTL DEF Spec

-----------------------------------------------------------------------------
(* What follows for the editor. *)

LEMMA InvImplies ==
  ASSUME IInv
  PROVE  /\ NoNullCall
         /\ NoStaleRequest
         /\ BufferWhileMixing
         /\ AnsweredMeansSilent
  <1> USE MixerAssumption DEF MixerAssumption, IInv
  <1>1. NoNullCall
    BY DEF NoNullCall, HandlerKnows
  <1>2. NoStaleRequest
    BY DEF NoStaleRequest, MarksOwned, PausedAgrees, CallInProgress, Adding, TypeOK, GuiState
  <1>3. BufferWhileMixing
    BY DEF BufferWhileMixing, LifeCycle
  <1>4. AnsweredMeansSilent
    <2> SUFFICES ASSUME NEW d \in Mixables, Rendering(d)
                 PROVE  belief[d] \notin {"paused", "detached"}
      BY DEF AnsweredMeansSilent
    <2>1. mixable[audio.slot] = d /\ audio.slot \in Slots /\ audio.slot \notin paused
      BY DEF Rendering, HandlerKnows, TypeOK, AudioState
    <2> QED BY <2>1 DEF Registered, PausedAgrees
  <1> QED BY <1>1, <1>2, <1>3, <1>4

LEMMA InvImpliesRegistered == IInv => RegisteredOnce
  <1> SUFFICES ASSUME IInv, NEW d \in Mixables
               PROVE  /\ belief[d] \notin {"detached", "dropped"} /\ gui.dev # d
                           => Cardinality(SlotsOf(d)) = 1
                      /\ belief[d] = "detached" => SlotsOf(d) = {}
    BY DEF RegisteredOnce
  <1> USE MixerAssumption DEF MixerAssumption, IInv
  <1>1. ASSUME belief[d] \notin {"detached", "dropped"}, gui.dev # d
        PROVE  Cardinality(SlotsOf(d)) = 1
    <2>1. PICK i \in Slots : mixable[i] = d
      BY <1>1 DEF Registered
    <2>2. SlotsOf(d) = {i}
      BY <2>1 DEF SlotsOf, Registered
    <2> QED BY <2>2, FS_Singleton
  <1>2. belief[d] = "detached" => SlotsOf(d) = {}
    BY DEF SlotsOf, Registered
  <1> QED BY <1>1, <1>2

\* With callbacks in time, for any number of players and slots: mix() is never
\* called through a null pointer (mixerHandler against removeDevice).
THEOREM NeverNullCall ==
  ASSUME Prompt = TRUE
  PROVE  Spec => []NoNullCall
  BY Invariance, InvImplies, PTL

\* With callbacks in time a player that pauseDevice or removeDevice has
\* returned from is not being rendered.
THEOREM AnsweredSilence ==
  ASSUME Prompt = TRUE
  PROVE  Spec => []AnsweredMeansSilent
  BY Invariance, InvImplies, PTL

\* With callbacks in time no request outlives the call that made it.
THEOREM NoRequestLeft ==
  ASSUME Prompt = TRUE
  PROVE  Spec => []NoStaleRequest
  BY Invariance, InvImplies, PTL

\* With callbacks in time an attached player holds exactly one slot and a
\* detached one none.
THEOREM OneSlotEach ==
  ASSUME Prompt = TRUE
  PROVE  Spec => []RegisteredOnce
  BY Invariance, InvImpliesRegistered, PTL

-----------------------------------------------------------------------------
(* The mixer keeps the contract: every step is a step of MixerContract or  *)
(* leaves its state alone.                                                 *)

LEMMA ContractInit == Init => Contract!Init
  BY DEF Init, Out, Rendering, Contract!Init

\* what the abstract state sees of a concrete step
LEMMA ContractStep ==
  ASSUME Prompt = TRUE, IInv, [Next]_vars
  PROVE  [Contract!Next]_(Contract!vars)
  <1> USE MixerAssumption DEF MixerAssumption
  <1>i. IInv'
    BY InvNext
  <1> DEFINE A == {d \in Mixables : belief[d] \notin {"detached", "dropped"}}
             S == {d \in Mixables : belief[d] \in {"paused", "forced", "unanswered"}}
             R == {d \in Mixables : Rendering(d)}
  <1>s. ASSUME UNCHANGED <<belief, audio>> PROVE UNCHANGED Contract!vars
    BY <1>s DEF Contract!vars, Rendering
  <1>1. CASE Start \/ \E f \in BOOLEAN : CloseAudioDevice(f)
    BY <1>1, <1>s DEF Start, CloseAudioDevice
  <1>2. CASE AddClearRemoval \/ AddClearPause \/ AddSetPaused
    BY <1>2, <1>s DEF AddClearRemoval, AddClearPause, AddSetPaused
  <1>3. ASSUME NEW d \in Mixables, AddDevice(d) PROVE Contract!Attach(d)
    <2>1. d \notin A
      BY <1>3 DEF AddDevice
    <2>2. \A e \in Mixables : belief'[e] = IF e = d THEN "live" ELSE belief[e]
      BY <1>3 DEF AddDevice, IInv, TypeOK
    <2>3. A' = A \union {d} /\ S' = S \ {d}
      BY <2>2
    <2>4. R' = R
      BY <1>3 DEF AddDevice, Rendering
    <2> QED BY <2>1, <2>3, <2>4 DEF Contract!Attach
  <1>4. ASSUME NEW d \in Mixables, belief[d] \notin {"detached", "dropped"},
               belief' = [belief EXCEPT ![d] = "detached"], UNCHANGED audio
        PROVE  Contract!Detach(d)
    <2>1. \A e \in Mixables : belief'[e] = IF e = d THEN "detached" ELSE belief[e]
      BY <1>4 DEF IInv, TypeOK
    <2>2. d \in A /\ A' = A \ {d} /\ S' = S \ {d}
      BY <1>4, <2>1
    <2>3. d \notin R /\ R' = R
      <3>1. AnsweredMeansSilent'
        BY <1>i, InvImplies, PTL
      <3> QED BY <1>4, <2>1, <3>1 DEF AnsweredMeansSilent, Rendering
    <2> QED BY <2>2, <2>3 DEF Contract!Detach
  <1>5. ASSUME NEW d \in Mixables, belief[d] \notin {"detached", "dropped"},
               belief' = [belief EXCEPT ![d] = "paused"], UNCHANGED audio
        PROVE  Contract!Silence(d)
    <2>1. \A e \in Mixables : belief'[e] = IF e = d THEN "paused" ELSE belief[e]
      BY <1>5 DEF IInv, TypeOK
    <2>2. d \in A /\ A' = A /\ S' = S \union {d}
      BY <1>5, <2>1
    <2>3. d \notin R /\ R' = R
      <3>1. AnsweredMeansSilent'
        BY <1>i, InvImplies, PTL
      <3> QED BY <1>5, <2>1, <3>1 DEF AnsweredMeansSilent, Rendering
    <2> QED BY <2>2, <2>3 DEF Contract!Silence
  <1>6. ASSUME NEW d \in Mixables, ResumeDevice(d) PROVE Contract!Resume(d)
    <2>1. \A e \in Mixables : belief'[e] = IF e = d THEN "live" ELSE belief[e]
      BY <1>6 DEF ResumeDevice, IInv, TypeOK
    <2>2. d \in S /\ A' = A /\ S' = S \ {d} /\ R' = R
      BY <1>6, <2>1 DEF ResumeDevice, Rendering
    <2> QED BY <2>2 DEF Contract!Resume
  <1>7. CASE EnterHandler \/ CheckSlot \/ AckClearRemoval \/ AckClearMixable
             \/ AckClearPause \/ AckSetPaused
    <2>1. UNCHANGED belief /\ audio.pc # "mix" /\ audio'.pc # "mix"
      <3> USE NextSlotPC DEF AtSlot, IInv, TypeOK, AudioState
      <3>1. CASE EnterHandler
        BY <3>1 DEF EnterHandler
      <3>2. CASE CheckSlot
        BY <3>2 DEF CheckSlot
      <3>3. CASE AckClearRemoval \/ AckClearPause
        BY <3>3 DEF AckClearRemoval, AckClearPause
      <3>4. CASE AckClearMixable \/ AckSetPaused
        BY <3>4 DEF AckClearMixable, AckSetPaused
      <3> QED BY <1>7, <3>1, <3>2, <3>3, <3>4
    <2> QED BY <2>1 DEF Contract!vars, Rendering
  <1>8. CASE BeginMix
    <2>1. /\ audio.pc = "call" /\ audio.slot \in Slots /\ audio.dev \in Mixables
          /\ audio.dev = mixable[audio.slot] /\ audio.slot \notin paused
          /\ audio'.pc = "mix" /\ audio'.dev = audio.dev /\ UNCHANGED belief
      BY <1>8 DEF BeginMix, AtSlot, IInv, HandlerKnows, TypeOK, AudioState
    <2>2. belief[audio.dev] = "live"
      BY <2>1 DEF IInv, Registered, PausedAgrees, Answered
    <2>3. audio.dev \in A \ S /\ A' = A /\ S' = S /\ R = {} /\ R' = {audio.dev}
      BY <2>1, <2>2 DEF Rendering
    <2> QED BY <2>1, <2>3 DEF Contract!Next, Contract!BeginRender
  <1>9. CASE EndMix
    <2>1. /\ audio.pc = "mix" /\ audio.dev \in Mixables /\ audio'.pc # "mix"
          /\ UNCHANGED belief
      BY <1>9, NextSlotPC DEF EndMix, AtSlot, IInv, TypeOK, AudioState
    <2>2. A' = A /\ S' = S /\ R # {} /\ R' = {}
      BY <2>1 DEF Rendering
    <2> QED BY <2>2 DEF Contract!Next, Contract!EndRender
  <1>10. ASSUME NEW d \in Mixables, RemoveDevice(d) PROVE [Contract!Next]_(Contract!vars)
    <2>1. /\ belief[d] \notin {"detached", "dropped"} /\ UNCHANGED audio
          /\ belief' = [belief EXCEPT ![d] = "detached"] \/ UNCHANGED belief
      BY <1>10 DEF RemoveDevice
    <2> QED BY <2>1, <1>4, <1>s DEF Contract!Next
  <1>11. ASSUME NEW d \in Mixables, PauseDevice(d) PROVE [Contract!Next]_(Contract!vars)
    <2>1. /\ belief[d] = "live" /\ UNCHANGED audio
          /\ belief' = [belief EXCEPT ![d] = "paused"] \/ UNCHANGED belief
      BY <1>11 DEF PauseDevice
    <2> QED BY <2>1, <1>5, <1>s DEF Contract!Next
  <1>12. CASE Wait
    <2>1. CASE RemoveAnswered
      <3>1. /\ gui.dev \in Mixables /\ belief[gui.dev] \notin {"detached", "dropped"}
            /\ belief' = [belief EXCEPT ![gui.dev] = "detached"] /\ UNCHANGED audio
        BY <2>1 DEF RemoveAnswered, IInv, CallInProgress, Answered, TypeOK, GuiState
      <3> QED BY <3>1, <1>4 DEF Contract!Next
    <2>2. CASE PauseAnswered
      <3>1. /\ gui.dev \in Mixables /\ belief[gui.dev] \notin {"detached", "dropped"}
            /\ belief' = [belief EXCEPT ![gui.dev] = "paused"] /\ UNCHANGED audio
        BY <2>2 DEF PauseAnswered, IInv, CallInProgress, TypeOK, GuiState
      <3> QED BY <3>1, <1>5 DEF Contract!Next
    <2>3. CASE SleepRemove \/ SleepPause
      BY <2>3, <1>s DEF SleepRemove, SleepPause, Sleep
    <2>4. CASE RemoveExpired \/ PauseExpired
      BY <2>4 DEF RemoveExpired, PauseExpired, IInv, LifeCycle, Waiting
    <2>5. CASE ForceRemove \/ ForcePause
      BY <2>5 DEF ForceRemove, ForcePause, IInv, Answered
    <2> QED BY <1>12, <2>1, <2>2, <2>3, <2>4, <2>5 DEF Wait
  <1>13. CASE UNCHANGED vars
    BY <1>13, <1>s DEF vars
  <1>14. CASE Editor
    BY <1>1, <1>2, <1>3, <1>6, <1>10, <1>11, <1>12, <1>14 DEF Editor, Contract!Next
  <1>15. CASE AudioThread
    BY <1>7, <1>8, <1>9, <1>15 DEF AudioThread
  <1> QED BY <1>13, <1>14, <1>15 DEF Next

\* With callbacks in time MasterMixer implements MixerContract: a player is
\* rendered only while it is attached and not silenced, and pauseDevice and
\* removeDevice return only when it is not being rendered.
THEOREM KeepsContract ==
  ASSUME Prompt = TRUE
  PROVE  Spec => ContractSpec
  BY ContractInit, ContractStep, Invariance, PTL DEF Spec, ContractSpec, Contract!Spec
=============================================================================
