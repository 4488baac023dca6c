------------------------- MODULE PlayerStatusTracker -------------------------
(***************************************************************************)
(* What the editor hands to the audio thread without stopping it           *)
(* (class PlayerStatusTracker in tracker/PlayerController.cpp):            *)
(*                                                                         *)
(*   - notes and samples to be played, in a ring buffer that the audio     *)
(*     thread empties at every tick (playerTickStarted);                   *)
(*   - the order or the pattern to go on with, two plain integers that it  *)
(*     reads and resets at the end of a pattern (handleQueuedPositions).   *)
(*                                                                         *)
(* There is no lock: a store or a load that the other thread can come      *)
(* between is a step.  Stores are taken in the order of the source.        *)
(*                                                                         *)
(* A command stands for its number, counted from 1; MaxCommands bounds     *)
(* them.  Room and Quiet are assumptions on the user that can be made or   *)
(* left out.                                                               *)
(***************************************************************************)
EXTENDS Integers

CONSTANTS
  Size,          \* UPDATEBUFFSIZE
  MaxCommands,   \* bound of the model: commands ever sent
  Room,          \* TRUE: no more than Size commands wait for a tick
  Orders,        \* order list positions
  Patterns,      \* pattern indices
  Quiet          \* TRUE: nothing is queued while a queued position is taken

ASSUME TrackerAssumption ==
  /\ Size \in Nat \ {0}
  /\ MaxCommands \in Nat
  /\ Room \in BOOLEAN
  /\ Quiet \in BOOLEAN
  /\ Orders \subseteq Nat
  /\ Patterns \subseteq Nat

VARIABLES
  code, word, smp,            \* the cells: see WritePayload
  rbReadIndex, rbWriteIndex,
  sender,        \* editor thread, in playNote or playSample
  heard,         \* number of the command that was played last
  nextOrder,     \* nextOrderIndexToPlay
  nextPattern,   \* nextPatternIndexToPlay
  queuer,        \* editor thread, in setNextOrderToPlay or setNextPatternToPlay
  position,      \* the order position the player goes on with
  patternToPlay, \* the pattern it repeats, or -1
  patternPlay,   \* the controller's own record of the same: it repeats a
  patternIndex,  \* pattern, and which one
  request,       \* what the user has asked for last and not got yet
  audio          \* audio thread: where it is in its callbacks

ring == <<code, word, smp, rbReadIndex, rbWriteIndex>>
queue == <<nextOrder, nextPattern, queuer, request>>
player == <<position, patternToPlay, patternPlay, patternIndex>>
vars == <<ring, sender, heard, queue, player, audio>>

None == -1
Cells == 0 .. Size - 1
Codes == {"invalid", "note", "sample"}

\* the audio thread in the loop of playerTickStarted, and in
\* handleQueuedPositions
InTick == {"note", "sample", "clearNote", "clearSample", "advance"}
InQueue == {"takeOrder", "resetOrder", "testPattern", "takePattern",
            "notePattern", "resetPattern"}

Init ==
  /\ code = [c \in Cells |-> "invalid"]
  /\ word = [c \in Cells |-> 0]
  /\ smp = [c \in Cells |-> 0]
  /\ rbReadIndex = 0
  /\ rbWriteIndex = 0
  /\ sender = [pc |-> "idle", code |-> "invalid"]
  /\ heard = 0
  /\ nextOrder = None
  /\ nextPattern = None
  /\ queuer = "idle"
  /\ position \in Orders
  /\ patternToPlay = None
  /\ patternPlay = FALSE
  /\ patternIndex = 0
  /\ request = <<>>
  /\ audio = "out"

\* index & (UPDATEBUFFSIZE-1)
Cell(index) == index % Size

EditorIdle == sender.pc = "idle" /\ queuer = "idle"

-----------------------------------------------------------------------------
(* Editor thread: playNote and playSample. *)

\* (mutant: the index goes ahead of the entry)
PublishFirst(kind) ==
  /\ EditorIdle
  /\ rbWriteIndex < MaxCommands
  /\ Room => rbWriteIndex - rbReadIndex < Size
  /\ rbWriteIndex' = rbWriteIndex + 1
  /\ sender' = [pc |-> "code", code |-> kind]
  /\ UNCHANGED <<code, word, smp, rbReadIndex, heard, queue, player, audio>>

\* The two kinds of command overlay the same memory: the note of the one is
\* currentSamplePlayNote of the other; smp is a field of the second only.
WritePayload(kind) ==
  /\ EditorIdle
  /\ rbWriteIndex < MaxCommands
  /\ Room => rbWriteIndex - rbReadIndex < Size
  /\ word' = [word EXCEPT ![Cell(rbWriteIndex)] = rbWriteIndex + 1]
  /\ smp' = IF kind = "sample"
            THEN [smp EXCEPT ![Cell(rbWriteIndex)] = rbWriteIndex + 1]
            ELSE smp
  /\ sender' = [pc |-> "code", code |-> kind]
  /\ UNCHANGED <<code, rbReadIndex, rbWriteIndex, heard, queue, player, audio>>

WriteCode ==
  /\ sender.pc = "code"
  /\ code' = [code EXCEPT ![Cell(rbWriteIndex)] = sender.code]
  /\ sender' = [sender EXCEPT !.pc = "publish"]
  /\ UNCHANGED <<word, smp, rbReadIndex, rbWriteIndex, heard, queue, player, audio>>

Publish ==
  /\ sender.pc = "publish"
  /\ rbWriteIndex' = rbWriteIndex + 1
  /\ sender' = [sender EXCEPT !.pc = "idle"]
  /\ UNCHANGED <<code, word, smp, rbReadIndex, heard, queue, player, audio>>

-----------------------------------------------------------------------------
(* Audio thread: playerTickStarted.  The other callback may come between    *)
(* two rounds of the loop here; in the code it comes after the last one.    *)

\* the condition of the loop, and the switch over the code
Fetch ==
  /\ audio = "out"
  /\ rbReadIndex < rbWriteIndex
  /\ audio' = IF code[Cell(rbReadIndex)] = "invalid" THEN "advance"
              ELSE code[Cell(rbReadIndex)]
  /\ UNCHANGED <<ring, sender, heard, queue, player>>

PlayNote ==
  /\ audio = "note"
  /\ heard' = IF word[Cell(rbReadIndex)] # 0 THEN word[Cell(rbReadIndex)] ELSE heard
  /\ audio' = IF word[Cell(rbReadIndex)] # 0 THEN "clearNote" ELSE "advance"
  /\ UNCHANGED <<ring, sender, queue, player>>

PlaySample ==
  /\ audio = "sample"
  /\ heard' = IF smp[Cell(rbReadIndex)] # 0 THEN smp[Cell(rbReadIndex)] ELSE heard
  /\ audio' = IF smp[Cell(rbReadIndex)] # 0 THEN "clearSample" ELSE "advance"
  /\ UNCHANGED <<ring, sender, queue, player>>

\* command->note = 0, command->smp = NULL
ClearNote ==
  /\ audio = "clearNote"
  /\ word' = [word EXCEPT ![Cell(rbReadIndex)] = 0]
  /\ audio' = "advance"
  /\ UNCHANGED <<code, smp, rbReadIndex, rbWriteIndex, sender, heard, queue, player>>

ClearSample ==
  /\ audio = "clearSample"
  /\ smp' = [smp EXCEPT ![Cell(rbReadIndex)] = 0]
  /\ audio' = "advance"
  /\ UNCHANGED <<code, word, rbReadIndex, rbWriteIndex, sender, heard, queue, player>>

\* (mutant: the loop never ends a command)
AdvanceNot ==
  /\ audio = "advance"
  /\ audio' = "out"
  /\ UNCHANGED <<ring, sender, heard, queue, player>>

Advance ==
  /\ audio = "advance"
  /\ rbReadIndex' = rbReadIndex + 1
  /\ audio' = "out"
  /\ UNCHANGED <<code, word, smp, rbWriteIndex, sender, heard, queue, player>>

-----------------------------------------------------------------------------
(* Editor thread: setNextOrderToPlay and setNextPatternToPlay; -1 takes a   *)
(* request back (resetQueuedPositions, stop, playSong, playPattern).        *)

MayGoOn == Quiet => audio \in {"out"} \union InTick
MayQueue == EditorIdle /\ MayGoOn

Asked(kind, index) == IF index = None THEN <<>> ELSE <<kind, index>>

SetNextOrder(o) ==
  /\ MayQueue
  /\ nextOrder' = o
  /\ queuer' = IF o = None THEN "idle" ELSE "clearPattern"
  /\ request' = IF o = None /\ nextPattern # None THEN request ELSE Asked("order", o)
  /\ UNCHANGED <<ring, sender, heard, nextPattern, player, audio>>

SetNextPattern(p) ==
  /\ MayQueue
  /\ nextPattern' = p
  /\ queuer' = IF p = None THEN "idle" ELSE "clearOrder"
  /\ request' = IF p = None /\ nextOrder # None THEN request ELSE Asked("pattern", p)
  /\ UNCHANGED <<ring, sender, heard, nextOrder, player, audio>>

ClearOther ==
  /\ MayGoOn
  /\ \/ /\ queuer = "clearPattern"
        /\ nextPattern' = None
        /\ UNCHANGED nextOrder
     \/ /\ queuer = "clearOrder"
        /\ nextOrder' = None
        /\ UNCHANGED nextPattern
  /\ queuer' = "idle"
  /\ UNCHANGED <<ring, sender, heard, request, player, audio>>

-----------------------------------------------------------------------------
(* Audio thread: handleQueuedPositions.  Both members are loaded again for  *)
(* each use.                                                                *)

PatternEnd ==
  /\ audio = "out"
  /\ audio' = IF nextOrder # None THEN "takeOrder" ELSE "testPattern"
  /\ UNCHANGED <<ring, sender, heard, queue, player>>

\* (mutant: the order after the queued one)
TakeOrderAfter ==
  /\ audio = "takeOrder"
  /\ position' = nextOrder + 1
  /\ audio' = "resetOrder"
  /\ UNCHANGED <<ring, sender, heard, queue, patternToPlay, patternPlay, patternIndex>>

TakeOrder ==
  /\ audio = "takeOrder"
  /\ position' = nextOrder
  /\ request' = IF request = <<"order", nextOrder>> THEN <<>> ELSE request
  /\ audio' = "resetOrder"
  /\ UNCHANGED <<ring, sender, heard, nextOrder, nextPattern, queuer,
                 patternToPlay, patternPlay, patternIndex>>

\* (mutant: the queued order stays)
ResetOrderNot ==
  /\ audio = "resetOrder"
  /\ patternPlay' = FALSE
  /\ patternIndex' = None
  /\ patternToPlay' = None
  /\ audio' = "out"
  /\ UNCHANGED <<ring, sender, heard, queue, position>>

ResetOrder ==
  /\ audio = "resetOrder"
  /\ nextOrder' = None
  /\ patternPlay' = FALSE
  /\ patternIndex' = None
  /\ patternToPlay' = None
  /\ audio' = "out"
  /\ UNCHANGED <<ring, sender, heard, nextPattern, queuer, request, position>>

TestPattern ==
  /\ audio = "testPattern"
  /\ audio' = IF nextPattern # None THEN "takePattern" ELSE "out"
  /\ UNCHANGED <<ring, sender, heard, queue, player>>

TakePattern ==
  /\ audio = "takePattern"
  /\ patternToPlay' = nextPattern
  /\ request' = IF request = <<"pattern", nextPattern>> THEN <<>> ELSE request
  /\ audio' = "notePattern"
  /\ UNCHANGED <<ring, sender, heard, nextOrder, nextPattern, queuer,
                 position, patternPlay, patternIndex>>

\* (mutant: the queued pattern is reset before it is noted)
NotePatternLate ==
  /\ audio = "notePattern"
  /\ patternPlay' = TRUE
  /\ nextPattern' = None
  /\ patternIndex' = nextPattern'
  /\ audio' = "resetPattern"
  /\ UNCHANGED <<ring, sender, heard, nextOrder, queuer, request,
                 position, patternToPlay>>

NotePattern ==
  /\ audio = "notePattern"
  /\ patternPlay' = TRUE
  /\ patternIndex' = nextPattern
  /\ audio' = "resetPattern"
  /\ UNCHANGED <<ring, sender, heard, queue, position, patternToPlay>>

ResetPattern ==
  /\ audio = "resetPattern"
  /\ nextPattern' = None
  /\ audio' = "out"
  /\ UNCHANGED <<ring, sender, heard, nextOrder, queuer, request, player>>

-----------------------------------------------------------------------------
Send == \E kind \in {"note", "sample"} : WritePayload(kind)
Queue == \/ \E o \in Orders \union {None} : SetNextOrder(o)
         \/ \E p \in Patterns \union {None} : SetNextPattern(p)

GoOn == WriteCode \/ Publish \/ ClearOther
Tick == Fetch \/ PlayNote \/ PlaySample \/ ClearNote \/ ClearSample \/ Advance
HandleQueued == PatternEnd \/ TakeOrder \/ ResetOrder
                \/ TestPattern \/ TakePattern \/ NotePattern \/ ResetPattern

Next == Send \/ Queue \/ GoOn \/ Tick \/ HandleQueued

Spec == Init /\ [][Next]_vars

(***************************************************************************)
(* A call that was begun goes on; ticks come again and again, and patterns *)
(* end again and again between them.                                       *)
(***************************************************************************)
FairSpec ==
  /\ Spec
  /\ WF_vars(GoOn)
  /\ SF_vars(Fetch)
  /\ WF_vars(PlayNote \/ PlaySample \/ ClearNote \/ ClearSample \/ Advance)
  /\ SF_vars(PatternEnd)
  /\ WF_vars(TakeOrder \/ ResetOrder \/ TestPattern \/ TakePattern
             \/ NotePattern \/ ResetPattern)

-----------------------------------------------------------------------------
(* Properties. *)

\* The cells hold numbers of commands, the indices count them, and a queued
\* position is one of the song's or none.
TypeOK ==
  /\ code \in [Cells -> Codes]
  /\ word \in [Cells -> Nat]
  /\ smp \in [Cells -> Nat]
  /\ rbReadIndex \in Nat
  /\ rbWriteIndex \in Nat
  /\ sender \in [pc : {"idle", "code", "publish"}, code : Codes]
  /\ heard \in Nat
  /\ nextOrder \in Orders \union {None}
  /\ nextPattern \in Patterns \union {None}
  /\ queuer \in {"idle", "clearPattern", "clearOrder"}
  /\ position \in Orders \union {None}
  /\ patternToPlay \in Patterns \union {None}
  /\ patternPlay \in BOOLEAN
  /\ patternIndex \in Patterns \union {None, 0}
  /\ audio \in {"out"} \union InTick \union InQueue

\* Every command is played once, in the order of the calls: between two
\* rounds of its loop the audio thread has played as many commands as it has
\* passed, and the last of them last (playNote, playSample, playerTickStarted).
PlayedInOrder ==
  audio \notin {"clearNote", "clearSample", "advance"} => heard = rbReadIndex

\* Between calls the queue holds what the user has asked for last and not
\* got: a request is neither lost nor served twice (handleQueuedPositions).
RequestKept ==
  EditorIdle /\ audio = "out" =>
    request = IF nextOrder # None THEN <<"order", nextOrder>>
              ELSE IF nextPattern # None THEN <<"pattern", nextPattern>> ELSE <<>>

\* The pattern the player repeats is the one the controller records, to be
\* continued after an edit (patternPlay, patternIndex; continuePlaying).
SamePattern ==
  audio = "out" =>
    IF patternPlay THEN patternToPlay = patternIndex /\ patternIndex \in Patterns
                   ELSE patternToPlay = None

\* Every command sent is heard in the end (playNote, playSample: "the callback
\* will query these notes and play them").
EventuallyHeard == \A n \in 1 .. MaxCommands : (rbWriteIndex = n) ~> (heard >= n)
=============================================================================
