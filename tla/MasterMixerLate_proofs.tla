------------------------ MODULE MasterMixerLate_proofs ------------------------
(***************************************************************************)
(* Proofs about MasterMixer when callbacks may come as late as they like:  *)
(* waits run out, and the editor writes slots the audio thread is using.   *)
(* What an answered call promises still holds, and so does what pauseDevice*)
(* promises, if only a wait that has run out is seen to have run out.  The *)
(* code tests that with waitMillis after a loop over its whole part; they  *)
(* agree exactly when WholeWait holds.  At 48 kHz with 512 frames it does  *)
(* not, and the run mixer_48k shows what happens then.                     *)
(***************************************************************************)
EXTENDS MasterMixer_proofs

\* waitMillis is whole, or its whole part is not a multiple of the sleep.
WholeWait ==
  \/ WaitNum % SampleRate = 0
  \/ (WaitNum \div SampleRate) % SleepTime # 0

-----------------------------------------------------------------------------
(* The inductive invariant. *)

\* A player is in one slot at most, and in none once it is given up.
Placed ==
  /\ \A i, j \in Slots : mixable[i] = mixable[j] /\ mixable[i] # NULL => i = j
  /\ \A d \in Mixables, i \in Slots :
       mixable[i] = d => belief[d] \notin {"detached", "dropped"}

\* The call in progress: its player is in its slot or, when the audio thread
\* has answered an earlier request late, in none; it has slept whole sleeps.
Calling ==
  /\ gui.time % SleepTime = 0
  /\ gui.pc # "idle" =>
       /\ gui.dev \in Mixables
       /\ mixable[gui.slot] \in {gui.dev, NULL}
       /\ \A j \in Slots \ {gui.slot} : mixable[j] # gui.dev
  /\ Adding \/ gui.pc = "waitPause" => belief[gui.dev] = "live"
  /\ gui.pc = "waitRemove" => belief[gui.dev] \notin {"detached", "dropped"}

\* No pause is left open, and a paused player's slot has the flag.
PausesDone ==
  /\ \A d \in Mixables : belief[d] # "unanswered"
  /\ \A d \in Mixables, i \in Slots :
       belief[d] \in {"paused", "forced"} /\ mixable[i] = d => i \in paused

\* The handler is rendering the player, or may yet choose it: the slot's
\* pointer is loaded a second time for the call.
Held(d) ==
  /\ audio.pc \in {"call", "mix"}
  /\ audio.dev = d \/ (audio.pc = "call" /\ mixable[audio.slot] = d)

\* The editor takes no such player for answered; it is in its slot unless the
\* editor has forced it out; and while it is live its slot has no flag yet, so
\* that a pause has to wait for the handler to come by.
HeldKnown ==
  \A d \in Mixables : Held(d) =>
    /\ belief[d] \notin {"paused", "detached"}
    /\ belief[d] = "dropped" \/ \E i \in Slots : mixable[i] = d
    /\ belief[d] = "live" /\ ~(Adding /\ gui.dev = d) =>
         \A i \in Slots : mixable[i] = d => i \notin paused

LateInv ==
  /\ TypeOK
  /\ Running
  /\ Placed
  /\ Calling
  /\ PausesDone
  /\ HeldKnown

-----------------------------------------------------------------------------
(* The wait. *)

LEMMA WaitNumType == WaitNum \in Nat
  BY MixerAssumption DEF MixerAssumption, WaitNum, BlockTimeOut

\* A wait in steps of SleepTime that has left the loop has timed out.
LEMMA ExpiredIsTimedOut ==
  ASSUME WholeWait, NEW t \in Nat, t % SleepTime = 0, ~InWait(t)
  PROVE  TimedOut(t)
  <1> DEFINE w == WaitNum \div SampleRate
             r == WaitNum % SampleRate
  <1>1. /\ SampleRate \in Nat \ {0} /\ w \in Nat /\ r \in Nat /\ r < SampleRate
        /\ WaitNum = w * SampleRate + r
    BY WaitNumType, MixerAssumption DEF MixerAssumption
  <1>2. w <= t
    BY <1>1 DEF InWait
  <1>3. r = 0 \/ w # t
    BY DEF WholeWait
  <1> HIDE DEF w, r
  <1>4. PICK k \in Nat : t = w + k
    BY <1>1, <1>2
  <1>5. t * SampleRate = w * SampleRate + k * SampleRate
    BY <1>1, <1>4
  <1>6. k = 0 \/ k * SampleRate >= SampleRate
    BY <1>1
  <1>7. t * SampleRate >= WaitNum
    BY <1>1, <1>3, <1>4, <1>5, <1>6
  <1> QED BY <1>7 DEF TimedOut

-----------------------------------------------------------------------------
(* The invariant is inductive. *)

LEMMA LateInit == Init => LateInv
  BY TypeInit, MixerAssumption
  DEF MixerAssumption, Init, Idle, Out, Adding, LateInv, Running, Placed, Calling,
      PausesDone, HeldKnown, Held, SleepTime, Slots

\* the steps that leave the slots and the two threads' calls alone
LEMMA LateDriver ==
  ASSUME LateInv, TypeOK', Running', Start \/ \E f \in BOOLEAN : CloseAudioDevice(f)
  PROVE  LateInv'
  <1>1. UNCHANGED <<devices, gui, audio, belief>>
    BY DEF Start, CloseAudioDevice
  <1> USE <1>1 DEF devices, Adding, LateInv
  <1>2. Placed' BY DEF Placed
  <1>3. Calling' BY DEF Calling
  <1>4. PausesDone' BY DEF PausesDone
  <1>5. HeldKnown' BY DEF HeldKnown, Held
  <1> QED BY <1>2, <1>3, <1>4, <1>5

LEMMA LateAddDevice ==
  ASSUME LateInv, TypeOK', Running', NEW d \in Mixables, AddDevice(d)
  PROVE  LateInv'
  <1> USE DEF flags, driver, LateInv
  <1>0. d # NULL
    BY MixerAssumption DEF MixerAssumption
  <1>1. PICK i \in Slots :
          /\ mixable[i] = NULL
          /\ mixable' = [mixable EXCEPT ![i] = d]
          /\ gui' = [pc |-> "addRemoval", dev |-> d, slot |-> i, time |-> 0]
    BY DEF AddDevice, IsFirst, FreeSlots
  <1>2. /\ gui.pc = "idle" /\ belief[d] \in {"detached", "dropped"}
        /\ UNCHANGED <<paused, audio>>
    BY DEF AddDevice
  <1>3. \A j \in Slots : mixable'[j] = IF j = i THEN d ELSE mixable[j]
    BY <1>1 DEF TypeOK
  <1>4. \A e \in Mixables : belief'[e] = IF e = d THEN "live" ELSE belief[e]
    BY DEF AddDevice, TypeOK
  <1>5. \A j \in Slots : mixable[j] # d
    BY <1>2 DEF Placed
  <1>6. Placed'
    BY <1>0, <1>1, <1>3, <1>4, <1>5 DEF Placed
  <1>7. Calling'
    BY <1>1, <1>3, <1>4, <1>5 DEF Calling, SleepTime
  <1>8. PausesDone'
    BY <1>1, <1>2, <1>3, <1>4 DEF PausesDone
  <1>9. HeldKnown'
    <2> SUFFICES ASSUME NEW e \in Mixables, Held(e)'
                 PROVE  /\ belief'[e] \notin {"paused", "detached"}
                        /\ belief'[e] = "dropped" \/ \E j \in Slots : mixable'[j] = e
                        /\ belief'[e] = "live" /\ ~(Adding' /\ gui'.dev = e) =>
                             \A j \in Slots : mixable'[j] = e => j \notin paused'
      BY DEF HeldKnown
    <2>1. CASE e = d
      BY <1>1, <1>3, <1>4, <2>1 DEF Adding
    <2>2. CASE e # d
      <3>1. Held(e)
        BY <1>2, <1>3, <2>2 DEF Held, TypeOK, AudioState
      <3>2. \A j \in Slots : mixable'[j] = e <=> mixable[j] = e
        BY <1>0, <1>1, <1>3, <2>2, MixerAssumption DEF MixerAssumption
      <3> QED BY <1>2, <1>4, <2>2, <3>1, <3>2 DEF HeldKnown, Adding
    <2> QED BY <2>1, <2>2
  <1> QED BY <1>6, <1>7, <1>8, <1>9

LEMMA LateAdd ==
  ASSUME LateInv, TypeOK', Running', AddClearRemoval \/ AddClearPause \/ AddSetPaused
  PROVE  LateInv'
  <1> USE DEF Idle, driver, LateInv
  <1>1. /\ UNCHANGED <<mixable, audio, belief>> /\ Adding
        /\ \/ /\ gui' = [gui EXCEPT !.pc = gui'.pc] /\ Adding' /\ UNCHANGED paused
           \/ gui' = Idle /\ paused' = paused \ {gui.slot}
    BY DEF AddClearRemoval, AddClearPause, AddSetPaused, TypeOK, GuiState, Adding
  <1>2. Placed'
    BY <1>1 DEF Placed
  <1>3. Calling'
    BY <1>1 DEF Calling, TypeOK, GuiState, Adding, SleepTime
  <1>4. PausesDone'
    <2> SUFFICES ASSUME NEW d \in Mixables, NEW i \in Slots,
                        belief[d] \in {"paused", "forced"}, mixable[i] = d
                 PROVE  i \in paused'
      BY <1>1 DEF PausesDone
    <2>1. i \in paused
      BY DEF PausesDone
    <2>2. i # gui.slot
      BY <1>1, MixerAssumption DEF MixerAssumption, Calling, Adding
    <2> QED BY <1>1, <2>1, <2>2
  <1>5. HeldKnown'
    <2> SUFFICES ASSUME NEW d \in Mixables, Held(d)
                 PROVE  /\ belief[d] \notin {"paused", "detached"}
                        /\ belief[d] = "dropped" \/ \E i \in Slots : mixable[i] = d
                        /\ belief[d] = "live" /\ ~(Adding' /\ gui'.dev = d) =>
                             \A i \in Slots : mixable[i] = d => i \notin paused'
      BY <1>1 DEF HeldKnown, Held
    <2>1. /\ belief[d] \notin {"paused", "detached"}
          /\ belief[d] = "dropped" \/ \E i \in Slots : mixable[i] = d
      BY DEF HeldKnown
    <2>2. ASSUME belief[d] = "live", ~(Adding' /\ gui'.dev = d),
                 NEW i \in Slots, mixable[i] = d
          PROVE  i \notin paused'
      <3>1. CASE gui.dev = d
        BY <1>1, <2>2, <3>1 DEF Calling, Adding, TypeOK, GuiState
      <3>2. CASE gui.dev # d
        <4>1. i \notin paused
          BY <2>2, <3>2 DEF HeldKnown
        <4> QED BY <1>1, <4>1
      <3> QED BY <3>1, <3>2
    <2> QED BY <2>1, <2>2
  <1> QED BY <1>2, <1>3, <1>4, <1>5

\* what the search for a player's slot finds
LEMMA LateSlotFound ==
  ASSUME LateInv, NEW d \in Mixables, NEW i \in Slots, IsFirst(i, SlotsOf(d))
  PROVE  /\ mixable[i] = d /\ d # NULL
         /\ \A j \in Slots \ {i} : mixable[j] # d
  BY MixerAssumption
  DEF MixerAssumption, LateInv, Placed, IsFirst, SlotsOf

\* A player that the editor gives up, its slot being cleared if it has one.
LEMMA GivenUp ==
  ASSUME LateInv, TypeOK', Running', NEW d \in Mixables, NEW b \in {"detached", "dropped"},
         belief[d] \notin {"detached", "dropped"},
         belief' = [belief EXCEPT ![d] = b],
         \A j \in Slots : mixable'[j] = IF mixable[j] = d THEN NULL ELSE mixable[j],
         b = "detached" => ~Held(d),
         Calling', gui'.pc \in {"idle", "forceRemove"},
         UNCHANGED <<paused, audio>>,
         gui.pc \in {"idle", "waitRemove"}
  PROVE  LateInv'
  <1> USE DEF LateInv
  <1>0. d # NULL
    BY MixerAssumption DEF MixerAssumption
  <1>1. \A e \in Mixables : belief'[e] = IF e = d THEN b ELSE belief[e]
    BY DEF TypeOK
  <1>2. \A e \in Mixables, j \in Slots : mixable'[j] = e <=> mixable[j] = e /\ e # d
    BY MixerAssumption DEF MixerAssumption
  <1>3. Placed'
    BY <1>0, <1>1, <1>2 DEF Placed
  <1>4. PausesDone'
    BY <1>1, <1>2 DEF PausesDone
  <1>5. HeldKnown'
    <2> SUFFICES ASSUME NEW e \in Mixables, Held(e)'
                 PROVE  /\ belief'[e] \notin {"paused", "detached"}
                        /\ belief'[e] = "dropped" \/ \E j \in Slots : mixable'[j] = e
                        /\ belief'[e] = "live" /\ ~(Adding' /\ gui'.dev = e) =>
                             \A j \in Slots : mixable'[j] = e => j \notin paused'
      BY DEF HeldKnown
    <2>1. Held(e)
      BY <1>2 DEF Held, TypeOK, AudioState
    <2>2. CASE e = d
      BY <1>1, <2>1, <2>2
    <2>3. CASE e # d
      BY <1>1, <1>2, <2>1, <2>3 DEF HeldKnown, Adding
    <2> QED BY <2>2, <2>3
  <1> QED BY <1>3, <1>4, <1>5

LEMMA LateRemoveDevice ==
  ASSUME LateInv, TypeOK', Running', NEW d \in Mixables, RemoveDevice(d)
  PROVE  LateInv'
  <1> USE DEF devices, driver, LateInv
  <1>0. /\ gui.pc = "idle" /\ belief[d] \notin {"detached", "dropped"}
        /\ UNCHANGED <<initialized, started, bufferAlloc, audio>>
    BY DEF RemoveDevice
  <1>1. CASE SlotsOf(d) = {} /\ belief' = [belief EXCEPT ![d] = "detached"]
             /\ UNCHANGED <<devices, gui>>
    <2>1. \A j \in Slots : mixable[j] # d
      BY <1>1 DEF SlotsOf
    <2>2. ~Held(d)
      BY <1>0, <2>1 DEF HeldKnown
    <2>3. Calling'
      BY <1>0, <1>1 DEF Calling, Adding
    <2> QED BY <1>0, <1>1, <2>1, <2>2, <2>3, GivenUp
  <1>2. ASSUME NEW i \in Slots, IsFirst(i, SlotsOf(d)),
               IF started
               THEN /\ gui' = [pc |-> "waitRemove", dev |-> d, slot |-> i, time |-> 0]
                    /\ UNCHANGED <<mixable, paused, belief>>
               ELSE /\ mixable' = [mixable EXCEPT ![i] = NULL]
                    /\ UNCHANGED <<paused, gui>>
                    /\ belief' = [belief EXCEPT ![d] = "detached"]
        PROVE  LateInv'
    <2>1. mixable[i] = d /\ d # NULL /\ \A j \in Slots \ {i} : mixable[j] # d
      BY <1>2, LateSlotFound
    <2>2. CASE started
      <3>1. Placed'
        BY <1>2, <2>2 DEF Placed
      <3>2. Calling'
        BY <1>0, <1>2, <2>1, <2>2 DEF Calling, Adding, SleepTime
      <3>3. PausesDone'
        BY <1>2, <2>2 DEF PausesDone
      <3>4. HeldKnown'
        BY <1>0, <1>2, <2>2 DEF HeldKnown, Held, Adding
      <3> QED BY <3>1, <3>2, <3>3, <3>4
    <2>3. CASE ~started
      <3>1. ~Held(d)
        BY <2>3 DEF Running, Held
      <3>2. \A j \in Slots : mixable'[j] = IF mixable[j] = d THEN NULL ELSE mixable[j]
        BY <1>2, <2>1, <2>3 DEF TypeOK
      <3>3. Calling'
        BY <1>0, <1>2, <2>3 DEF Calling, Adding
      <3> QED BY <1>0, <1>2, <2>3, <3>1, <3>2, <3>3, GivenUp
    <2> QED BY <2>2, <2>3 DEF TypeOK
  <1>3. \/ SlotsOf(d) = {} /\ belief' = [belief EXCEPT ![d] = "detached"]
           /\ UNCHANGED <<devices, gui>>
        \/ \E i \in Slots :
             /\ IsFirst(i, SlotsOf(d))
             /\ IF started
                THEN /\ gui' = [pc |-> "waitRemove", dev |-> d, slot |-> i, time |-> 0]
                     /\ UNCHANGED <<mixable, paused, belief>>
                ELSE /\ mixable' = [mixable EXCEPT ![i] = NULL]
                     /\ UNCHANGED <<paused, gui>>
                     /\ belief' = [belief EXCEPT ![d] = "detached"]
    BY DEF RemoveDevice
  <1> QED BY <1>1, <1>2, <1>3

LEMMA LatePauseDevice ==
  ASSUME LateInv, TypeOK', Running', NEW d \in Mixables, PauseDevice(d)
  PROVE  LateInv'
  <1> USE DEF devices, driver, LateInv
  <1>0. /\ gui.pc = "idle" /\ belief[d] = "live"
        /\ UNCHANGED <<mixable, started, audio>>
    BY DEF PauseDevice
  <1>1. PICK i \in Slots :
          /\ IsFirst(i, SlotsOf(d))
          /\ IF started
             THEN /\ gui' = [pc |-> "waitPause", dev |-> d, slot |-> i, time |-> 0]
                  /\ UNCHANGED <<paused, belief>>
             ELSE /\ paused' = paused \union {i}
                  /\ belief' = [belief EXCEPT ![d] = "paused"]
                  /\ UNCHANGED gui
    BY DEF PauseDevice
  <1>2. mixable[i] = d /\ d # NULL /\ \A j \in Slots \ {i} : mixable[j] # d
    BY <1>1, LateSlotFound
  <1>3. CASE started
    <2>1. Placed'
      BY <1>0, <1>1, <1>3 DEF Placed
    <2>2. Calling'
      BY <1>0, <1>1, <1>2, <1>3 DEF Calling, Adding, SleepTime
    <2>3. PausesDone'
      BY <1>0, <1>1, <1>3 DEF PausesDone
    <2>4. HeldKnown'
      BY <1>0, <1>1, <1>3 DEF HeldKnown, Held, Adding
    <2> QED BY <2>1, <2>2, <2>3, <2>4
  <1>4. CASE ~started
    <2>1. \A e \in Mixables : ~Held(e)'
      BY <1>0, <1>4 DEF Running, Held
    <2>2. \A e \in Mixables : belief'[e] = IF e = d THEN "paused" ELSE belief[e]
      BY <1>1, <1>4 DEF TypeOK
    <2>3. Placed'
      BY <1>0, <2>2 DEF Placed
    <2>4. Calling'
      BY <1>0, <1>1, <1>4 DEF Calling, Adding
    <2>5. PausesDone'
      BY <1>0, <1>1, <1>2, <1>4, <2>2 DEF PausesDone
    <2>6. HeldKnown'
      BY <2>1 DEF HeldKnown
    <2> QED BY <2>3, <2>4, <2>5, <2>6
  <1> QED BY <1>3, <1>4 DEF TypeOK

LEMMA LateResumeDevice ==
  ASSUME LateInv, TypeOK', Running', NEW d \in Mixables, ResumeDevice(d)
  PROVE  LateInv'
  <1> USE DEF devices, driver, LateInv
  <1>0. /\ gui.pc = "idle" /\ belief[d] \in {"paused", "forced", "unanswered"}
        /\ UNCHANGED <<mixable, gui, audio>>
    BY DEF ResumeDevice
  <1>1. \A e \in Mixables : belief'[e] = IF e = d THEN "live" ELSE belief[e]
    BY DEF ResumeDevice, TypeOK
  <1>2. \A i \in Slots : i \in paused' <=> i \in paused /\ mixable[i] # d
    <2>1. \A i, j \in Slots : mixable[i] = d /\ mixable[j] = d => i = j
      BY MixerAssumption DEF Placed, MixerAssumption
    <2>2. CASE {i \in SlotsOf(d) : i \in paused} = {} /\ paused' = paused
      BY <2>2 DEF SlotsOf
    <2>3. ASSUME NEW j \in Slots, IsFirst(j, {i \in SlotsOf(d) : i \in paused}),
                 paused' = paused \ {j}
          PROVE  \A i \in Slots : i \in paused' <=> i \in paused /\ mixable[i] # d
      BY <2>1, <2>3 DEF IsFirst, SlotsOf
    <2> QED BY <2>2, <2>3 DEF ResumeDevice
  <1>3. Placed'
    BY <1>0, <1>1 DEF Placed
  <1>4. Calling'
    BY <1>0 DEF Calling, Adding
  <1>5. PausesDone'
    BY <1>0, <1>1, <1>2 DEF PausesDone
  <1>6. HeldKnown'
    BY <1>0, <1>1, <1>2 DEF HeldKnown, Held, Adding
  <1> QED BY <1>3, <1>4, <1>5, <1>6

\* A player whose pause is over, answered or not.
LEMMA PauseOver ==
  ASSUME LateInv, TypeOK', Running', gui.pc = "waitPause", NEW b \in {"paused", "forced"},
         belief' = [belief EXCEPT ![gui.dev] = b],
         paused' = paused \union {gui.slot},
         b = "paused" => ~Held(gui.dev),
         gui' = Idle \/ gui' = [gui EXCEPT !.pc = "forcePause"],
         UNCHANGED <<mixable, audio>>
  PROVE  LateInv'
  <1> USE DEF LateInv
  <1>0. gui.dev \in Mixables /\ \A j \in Slots \ {gui.slot} : mixable[j] # gui.dev
    BY DEF Calling
  <1>1. \A e \in Mixables : belief'[e] = IF e = gui.dev THEN b ELSE belief[e]
    BY DEF TypeOK
  <1>2. belief[gui.dev] = "live"
    BY DEF Calling
  <1>3. Placed'
    BY <1>1, <1>2 DEF Placed
  <1>4. Calling'
    BY DEF Calling, Adding, TypeOK, GuiState, Idle, SleepTime
  <1>5. PausesDone'
    BY <1>0, <1>1 DEF PausesDone
  <1>6. HeldKnown'
    <2> SUFFICES ASSUME NEW e \in Mixables, Held(e)
                 PROVE  /\ belief'[e] \notin {"paused", "detached"}
                        /\ belief'[e] = "dropped" \/ \E j \in Slots : mixable[j] = e
                        /\ belief'[e] = "live" /\ ~(Adding' /\ gui'.dev = e) =>
                             \A j \in Slots : mixable[j] = e => j \notin paused'
      BY DEF HeldKnown, Held
    <2>1. CASE e = gui.dev
      BY <1>1, <1>2, <2>1 DEF HeldKnown
    <2>2. CASE e # gui.dev
      <3>1. mixable[gui.slot] # e
        BY <2>2, MixerAssumption DEF Calling, MixerAssumption
      <3> QED BY <1>1, <2>2, <3>1 DEF HeldKnown
    <2> QED BY <2>1, <2>2
  <1> QED BY <1>3, <1>4, <1>5, <1>6

LEMMA LateWait ==
  ASSUME WholeWait, LateInv, TypeOK', Running', Wait
  PROVE  LateInv'
  <1> USE DEF devices, driver, flags, LateInv
  <1>g. gui.time \in Nat /\ gui.slot \in Slots
    BY DEF TypeOK, GuiState
  <1>1. CASE RemoveAnswered
    <2>1. /\ gui.pc = "waitRemove" /\ gui.dev \in Mixables
          /\ belief[gui.dev] \notin {"detached", "dropped"}
          /\ \A j \in Slots : mixable[j] # gui.dev
          /\ gui' = Idle /\ UNCHANGED <<mixable, paused, audio>>
          /\ belief' = [belief EXCEPT ![gui.dev] = "detached"]
      BY <1>1, MixerAssumption DEF RemoveAnswered, Calling, MixerAssumption
    <2>2. ~Held(gui.dev)
      BY <2>1 DEF HeldKnown
    <2>3. Calling'
      BY <2>1 DEF Calling, Idle, Adding, SleepTime
    <2> QED BY <2>1, <2>2, <2>3, GivenUp DEF Idle
  <1>2. CASE RemoveExpired
    <2>1. TimedOut(gui.time)
      BY <1>2, <1>g, ExpiredIsTimedOut DEF RemoveExpired, Calling
    <2>2. /\ gui.pc = "waitRemove" /\ gui.dev \in Mixables
          /\ belief[gui.dev] \notin {"detached", "dropped"}
          /\ mixable[gui.slot] = gui.dev /\ \A j \in Slots \ {gui.slot} : mixable[j] # gui.dev
      BY <1>2 DEF RemoveExpired, Calling
    <2>3. /\ mixable' = [mixable EXCEPT ![gui.slot] = NULL]
          /\ gui' = [gui EXCEPT !.pc = "forceRemove"]
          /\ belief' = [belief EXCEPT ![gui.dev] = "dropped"]
          /\ UNCHANGED <<paused, audio>>
      BY <1>2, <2>1 DEF RemoveExpired
    <2>4. \A j \in Slots : mixable'[j] = IF mixable[j] = gui.dev THEN NULL ELSE mixable[j]
      BY <2>2, <2>3 DEF TypeOK
    <2>5. Calling'
      BY <1>g, <2>2, <2>3 DEF Calling, Adding, TypeOK, GuiState
    <2>6. gui'.pc = "forceRemove"
      BY <2>3 DEF TypeOK, GuiState
    <2> QED BY <2>2, <2>3, <2>4, <2>5, <2>6, GivenUp
  <1>3. CASE PauseAnswered
    <2>1. /\ gui.pc = "waitPause" /\ gui.dev \in Mixables /\ gui.slot \in paused
          /\ belief[gui.dev] = "live" /\ mixable[gui.slot] \in {gui.dev, NULL}
          /\ \A j \in Slots \ {gui.slot} : mixable[j] # gui.dev
          /\ gui' = Idle /\ UNCHANGED <<mixable, paused, audio>>
          /\ belief' = [belief EXCEPT ![gui.dev] = "paused"]
      BY <1>3 DEF PauseAnswered, Calling
    <2>2. ~Held(gui.dev)
      <3> SUFFICES ASSUME Held(gui.dev) PROVE FALSE
        OBVIOUS
      <3>1. mixable[gui.slot] = gui.dev
        BY <2>1 DEF HeldKnown
      <3> QED BY <1>g, <2>1, <3>1 DEF HeldKnown, Adding
    <2>3. paused' = paused \union {gui.slot}
      BY <2>1
    <2> QED BY <2>1, <2>2, <2>3, PauseOver
  <1>4. CASE PauseExpired
    <2>1. TimedOut(gui.time)
      BY <1>4, <1>g, ExpiredIsTimedOut DEF PauseExpired, Calling
    <2>2. /\ gui.pc = "waitPause"
          /\ belief' = [belief EXCEPT ![gui.dev] = "forced"]
          /\ paused' = paused \union {gui.slot}
          /\ gui' = [gui EXCEPT !.pc = "forcePause"]
          /\ UNCHANGED <<mixable, audio>>
      BY <1>4, <2>1 DEF PauseExpired
    <2> QED BY <2>2, PauseOver
  <1>5. CASE SleepRemove \/ SleepPause \/ ForceRemove \/ ForcePause
    <2>1. /\ gui.pc \in {"waitRemove", "waitPause", "forceRemove", "forcePause"}
          /\ gui' = Idle \/ gui' = [gui EXCEPT !.time = @ + SleepTime]
          /\ UNCHANGED <<mixable, paused, audio, belief>>
      BY <1>5 DEF SleepRemove, SleepPause, ForceRemove, ForcePause, Sleep
    <2>2. Placed'
      BY <2>1 DEF Placed
    <2>3. Calling'
      <3>1. CASE gui' = Idle
        BY <3>1 DEF Calling, Idle, Adding, SleepTime
      <3>2. CASE gui' = [gui EXCEPT !.time = @ + SleepTime]
        <4>1. /\ gui'.pc = gui.pc /\ gui'.dev = gui.dev /\ gui'.slot = gui.slot
              /\ gui'.time = gui.time + 10
          BY <3>2 DEF TypeOK, GuiState, SleepTime
        <4>2. gui'.time % 10 = 0
          BY <4>1, <1>g DEF Calling, SleepTime
        <4> QED BY <2>1, <4>1, <4>2 DEF Calling, Adding, SleepTime
      <3> QED BY <2>1, <3>1, <3>2
    <2>4. PausesDone'
      BY <2>1 DEF PausesDone
    <2>5. HeldKnown'
      BY <2>1 DEF HeldKnown, Held, Adding
    <2> QED BY <2>2, <2>3, <2>4, <2>5
  <1> QED BY <1>1, <1>2, <1>3, <1>4, <1>5 DEF Wait

LEMMA LateAudio ==
  ASSUME LateInv, TypeOK', Running', AudioThread
  PROVE  LateInv'
  <1> USE DEF devices, driver, flags, LateInv
  <1>i. audio.slot \in Slots /\ \A e \in Mixables : e # NULL
    BY MixerAssumption DEF TypeOK, AudioState, MixerAssumption
  <1>1. CASE EnterHandler \/ CheckSlot \/ BeginMix \/ EndMix
    <2>1. UNCHANGED <<mixable, paused, gui, belief>>
      BY <1>1 DEF EnterHandler, CheckSlot, BeginMix, EndMix
    <2>2. HeldKnown'
      <3> SUFFICES ASSUME NEW d \in Mixables, Held(d)'
                   PROVE  /\ belief[d] \notin {"paused", "detached"}
                          /\ belief[d] = "dropped" \/ \E i \in Slots : mixable[i] = d
                          /\ belief[d] = "live" /\ ~(Adding /\ gui.dev = d) =>
                               \A i \in Slots : mixable[i] = d => i \notin paused
        BY <2>1 DEF HeldKnown, Adding
      <3>1. CASE EnterHandler
        BY <3>1 DEF EnterHandler, Held
      <3>2. CASE CheckSlot
        <4>1. /\ mixable[audio.slot] = d /\ audio.slot \notin paused
          <5>1. audio' = [audio EXCEPT !.pc = "call", !.dev = mixable[audio.slot]]
                /\ mixable[audio.slot] # NULL /\ audio.slot \notin paused
            BY <3>2, NextSlotPC DEF CheckSlot, Held, TypeOK, AudioState
          <5>2. audio'.dev = mixable[audio.slot] /\ audio'.slot = audio.slot
            BY <5>1 DEF TypeOK, AudioState
          <5> QED BY <2>1, <5>1, <5>2 DEF Held
        <4>2. \A i \in Slots : mixable[i] = d => i = audio.slot
          BY <1>i, <4>1 DEF Placed
        <4>3. belief[d] \notin {"paused", "detached"}
          BY <1>i, <4>1 DEF Placed, PausesDone
        <4> QED BY <1>i, <4>1, <4>2, <4>3
      <3>3. CASE BeginMix
        <4>1. Held(d)
          BY <2>1, <3>3 DEF BeginMix, AtSlot, Held, TypeOK, AudioState
        <4> QED BY <4>1 DEF HeldKnown
      <3>4. CASE EndMix
        BY <3>4, NextSlotPC DEF EndMix, Held
      <3> QED BY <1>1, <3>1, <3>2, <3>3, <3>4
    <2>3. Placed'
      BY <2>1 DEF Placed
    <2>4. Calling'
      BY <2>1 DEF Calling, Adding
    <2>5. PausesDone'
      BY <2>1 DEF PausesDone
    <2> QED BY <2>2, <2>3, <2>4, <2>5
  <1>2. CASE AckClearRemoval \/ AckClearPause \/ AckClearMixable \/ AckSetPaused
    <2>1. /\ audio'.pc \notin {"call", "mix"}
          /\ UNCHANGED <<gui, belief>>
          /\ paused \subseteq paused'
      BY <1>2, NextSlotPC
      DEF AckClearRemoval, AckClearPause, AckClearMixable, AckSetPaused, TypeOK, AudioState
    <2>2. \A i \in Slots : mixable'[i] \in {mixable[i], NULL}
      BY <1>2 DEF AckClearRemoval, AckClearPause, AckClearMixable, AckSetPaused, TypeOK
    <2>3. HeldKnown'
      BY <2>1 DEF HeldKnown, Held
    <2>4. Placed'
      BY <1>i, <2>1, <2>2 DEF Placed
    <2>5. Calling'
      BY <1>i, <2>1, <2>2 DEF Calling, Adding, TypeOK, GuiState
    <2>6. PausesDone'
      BY <1>i, <2>1, <2>2 DEF PausesDone
    <2> QED BY <2>3, <2>4, <2>5, <2>6
  <1> QED BY <1>1, <1>2 DEF AudioThread

LEMMA LateNext ==
  ASSUME WholeWait
  PROVE  LateInv /\ [Next]_vars => LateInv'
  <1> SUFFICES ASSUME LateInv, [Next]_vars PROVE LateInv'
    OBVIOUS
  <1>0. TypeOK' /\ Running'
    BY TypeNext, RunningNext DEF LateInv
  <1>1. CASE Editor
    BY <1>0, <1>1, LateDriver, LateAddDevice, LateRemoveDevice, LatePauseDevice,
       LateResumeDevice, LateAdd, LateWait DEF Editor
  <1>2. CASE AudioThread
    BY <1>0, <1>2, LateAudio
  <1>3. CASE UNCHANGED vars
    BY <1>0, <1>3 DEF vars, LateInv, Placed, Calling, PausesDone, HeldKnown, Held, Adding
  <1> QED BY <1>1, <1>2, <1>3 DEF Next

\* Whatever mixerHandler and the calls of the editor thread do to a slot
\* between each other's steps: a player stays in its slot or is given up, and
\* one that may still be rendered is not taken for silent.
THEOREM LateInvariance ==
  ASSUME WholeWait
  PROVE  Spec => []LateInv
  BY LateInit, LateNext, PTL DEF Spec

-----------------------------------------------------------------------------
(* What follows, however late callbacks come.                              *)

\* When pauseDevice returns, answered or timed out, and until the player is
\* resumed, its slot has the flag that keeps the handler from choosing it:
\* no late answer to an earlier call and no other call takes it away.
THEOREM PausesTakeEffect ==
  ASSUME WholeWait
  PROVE  Spec => []PauseTakesEffect
  <1>1. LateInv => PauseTakesEffect
    BY DEF LateInv, PausesDone, PauseTakesEffect
  <1> QED BY <1>1, LateInvariance, PTL

\* A player whose pause or removal has been answered is not inside mix(),
\* though others were forced out of their slots while the handler was using
\* them, and their slots were given to new players.
THEOREM AnsweredSilenceLate ==
  ASSUME WholeWait
  PROVE  Spec => []AnsweredMeansSilent
  <1>1. LateInv => AnsweredMeansSilent
    BY DEF LateInv, HeldKnown, Held, Rendering, AnsweredMeansSilent
  <1> QED BY <1>1, LateInvariance, PTL
===============================================================================
