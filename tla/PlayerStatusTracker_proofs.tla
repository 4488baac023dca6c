--------------------- MODULE PlayerStatusTracker_proofs ---------------------
(***************************************************************************)
(* Proofs about PlayerStatusTracker, for a ring of any size.               *)
(*                                                                         *)
(* PlayedInOrder needs an invariant of the whole ring: the cell of every   *)
(* command that waits holds that command, whatever has been written since. *)
(* It rests on two commands that wait together having different cells,     *)
(* which is arithmetic of % (CellsDiffer), and on there never being more   *)
(* than Size of them (Room), which the code leaves to the user.            *)
(***************************************************************************)
EXTENDS PlayerStatusTracker, TLAPS

-----------------------------------------------------------------------------
(* Arithmetic. *)

\* The cells of fewer than Size successive commands are different.
LEMMA CellsDiffer ==
  ASSUME NEW a \in Nat, NEW b \in Nat, a < b, b - a < Size
  PROVE  Cell(a) # Cell(b)
<1>1. Size \in Nat \ {0}
  BY TrackerAssumption
<1> DEFINE p == a \div Size
           q == b \div Size
<1>2. a = Size * p + (a % Size) /\ b = Size * q + (b % Size) /\ p \in Int /\ q \in Int
  BY <1>1
<1> HIDE DEF p, q
<1>3. SUFFICES ASSUME a % Size = b % Size PROVE FALSE
  BY DEF Cell
<1>4. b - a = Size * q - Size * p
  BY <1>2, <1>3, <1>1
<1>5. Size * q - Size * p = Size * (q - p)
  BY <1>1, <1>2
<1>6. CASE q <= p
  <2>1. p - q \in Nat
    BY <1>6, <1>2
  <2>2. Size * (p - q) >= 0
    BY <2>1, <1>1
  <2>3. Size * (q - p) = -(Size * (p - q))
    BY <1>1, <1>2
  <2> QED BY <2>2, <2>3, <1>4, <1>5, <1>1, <1>2
<1>7. CASE q > p
  <2>1. q - p - 1 \in Nat
    BY <1>7, <1>2
  <2>2. Size * (q - p - 1) >= 0
    BY <2>1, <1>1
  <2>3. Size * (q - p - 1) = Size * (q - p) - Size
    BY <1>1, <1>2
  <2> QED BY <2>2, <2>3, <1>4, <1>5, <1>1, <1>2
<1> QED BY <1>6, <1>7, <1>2

LEMMA CellsExist == \A n \in Nat : Cell(n) \in Cells
<1>1. \A n \in Nat : n % Size \in 0 .. Size - 1
  BY TrackerAssumption
<1> QED BY <1>1 DEF Cell, Cells

-----------------------------------------------------------------------------
(* Types. *)

LEMMA TypeStart == Init => TypeOK
<1> SUFFICES ASSUME Init PROVE TypeOK
  OBVIOUS
<1>1. code \in [Cells -> Codes] /\ word \in [Cells -> Nat] /\ smp \in [Cells -> Nat]
  BY DEF Init, Codes
<1>2. sender \in [pc : {"idle", "code", "publish"}, code : Codes]
  BY DEF Init, Codes
<1> QED BY <1>1, <1>2 DEF Init, TypeOK

LEMMA TypeStep == TypeOK /\ [Next]_vars => TypeOK'
<1> SUFFICES ASSUME TypeOK, [Next]_vars PROVE TypeOK'
  OBVIOUS
<1> USE DEF TypeOK
<1>1. ASSUME NEW kind \in {"note", "sample"}, WritePayload(kind) PROVE TypeOK'
  <2>1. word' \in [Cells -> Nat] /\ smp' \in [Cells -> Nat]
    <3>1. /\ word' = [word EXCEPT ![Cell(rbWriteIndex)] = rbWriteIndex + 1]
          /\ \/ smp' = [smp EXCEPT ![Cell(rbWriteIndex)] = rbWriteIndex + 1]
             \/ smp' = smp
      BY <1>1 DEF WritePayload
    <3>2. word \in [Cells -> Nat] /\ smp \in [Cells -> Nat] /\ rbWriteIndex + 1 \in Nat
      OBVIOUS
    <3> HIDE DEF TypeOK
    <3> QED BY <3>1, <3>2
  <2>2. sender' \in [pc : {"idle", "code", "publish"}, code : Codes]
    BY <1>1 DEF WritePayload, Codes
  <2> QED BY <1>1, <2>1, <2>2 DEF WritePayload, queue, player
<1>2. CASE WriteCode
  BY <1>2 DEF WriteCode, queue, player
<1>3. CASE Publish
  BY <1>3 DEF Publish, queue, player
<1>4. CASE Fetch
  BY <1>4, CellsExist DEF Fetch, ring, queue, player, Codes, InTick
<1>5. CASE PlayNote
  BY <1>5, CellsExist DEF PlayNote, ring, queue, player, InTick
<1>6. CASE PlaySample
  BY <1>6, CellsExist DEF PlaySample, ring, queue, player, InTick
<1>7. CASE ClearNote
  BY <1>7 DEF ClearNote, queue, player, InTick
<1>8. CASE ClearSample
  BY <1>8 DEF ClearSample, queue, player, InTick
<1>9. CASE Advance
  BY <1>9 DEF Advance, queue, player
<1>10. ASSUME NEW o \in Orders \union {None}, SetNextOrder(o) PROVE TypeOK'
  BY <1>10 DEF SetNextOrder, ring, player
<1>11. ASSUME NEW p \in Patterns \union {None}, SetNextPattern(p) PROVE TypeOK'
  BY <1>11 DEF SetNextPattern, ring, player
<1>12. CASE ClearOther
  BY <1>12 DEF ClearOther, ring, player
<1>13. CASE PatternEnd
  BY <1>13 DEF PatternEnd, ring, queue, player, InQueue
<1>14. CASE TakeOrder
  BY <1>14 DEF TakeOrder, ring, InQueue
<1>15. CASE ResetOrder
  BY <1>15 DEF ResetOrder, ring
<1>16. CASE TestPattern
  BY <1>16 DEF TestPattern, ring, queue, player, InQueue
<1>17. CASE TakePattern
  BY <1>17 DEF TakePattern, ring, InQueue
<1>18. CASE NotePattern
  BY <1>18 DEF NotePattern, ring, queue, InQueue
<1>19. CASE ResetPattern
  BY <1>19 DEF ResetPattern, ring, player
<1>20. CASE UNCHANGED vars
  BY <1>20 DEF vars, ring, queue, player
<1> QED
  BY <1>1, <1>2, <1>3, <1>4, <1>5, <1>6, <1>7, <1>8, <1>9, <1>10, <1>11, <1>12, <1>13,
     <1>14, <1>15, <1>16, <1>17, <1>18, <1>19, <1>20
     DEF Next, Send, Queue, GoOn, Tick, HandleQueued

\* Type correctness, whoever races with whom.
THEOREM TypeCorrect == Spec => []TypeOK
<1> QED BY TypeStart, TypeStep, PTL DEF Spec

-----------------------------------------------------------------------------
(* The ring. *)

Played == {"clearNote", "clearSample", "advance"}

\* the commands that wait, the one that is being played included
Waiting == {n \in Nat : rbReadIndex <= n /\ n < rbWriteIndex}

Holds(n) ==
  /\ word[Cell(n)] = n + 1
  /\ code[Cell(n)] = "sample" => smp[Cell(n)] = n + 1

RingInv ==
  /\ rbReadIndex <= rbWriteIndex /\ rbWriteIndex - rbReadIndex <= Size
  /\ audio \in InTick => rbReadIndex < rbWriteIndex
  /\ \A n \in Waiting : code[Cell(n)] \in {"note", "sample"}
  /\ \A n \in Waiting : n # rbReadIndex \/ audio \notin Played => Holds(n)
  /\ audio \in {"note", "sample"} => code[Cell(rbReadIndex)] = audio
  /\ heard = IF audio \in Played THEN rbReadIndex + 1 ELSE rbReadIndex

\* the cell that the editor is filling
SenderInv ==
  sender.pc # "idle" =>
    /\ rbWriteIndex - rbReadIndex < Size
    /\ word[Cell(rbWriteIndex)] = rbWriteIndex + 1
    /\ sender.code \in {"note", "sample"}
    /\ sender.code = "sample" => smp[Cell(rbWriteIndex)] = rbWriteIndex + 1
    /\ sender.pc = "publish" => code[Cell(rbWriteIndex)] = sender.code

\* The cell being filled is not that of a waiting command.
LEMMA WriteApart ==
  ASSUME TypeOK, RingInv, rbWriteIndex - rbReadIndex < Size
  PROVE  \A n \in Waiting : Cell(n) # Cell(rbWriteIndex)
<1> SUFFICES ASSUME NEW n \in Waiting PROVE Cell(n) # Cell(rbWriteIndex)
  OBVIOUS
<1>1. n \in Nat /\ rbWriteIndex \in Nat /\ n < rbWriteIndex
  BY DEF Waiting, TypeOK
<1>2. rbWriteIndex - n < Size
  BY <1>1, TrackerAssumption DEF Waiting, TypeOK
<1> QED BY <1>1, <1>2, CellsDiffer

\* Nor is the cell being emptied that of a command that still waits.
LEMMA ReadApart ==
  ASSUME TypeOK, RingInv
  PROVE  \A n \in Waiting : n # rbReadIndex => Cell(n) # Cell(rbReadIndex)
<1> SUFFICES ASSUME NEW n \in Waiting, n # rbReadIndex PROVE Cell(n) # Cell(rbReadIndex)
  OBVIOUS
<1>1. n \in Nat /\ rbReadIndex \in Nat /\ rbReadIndex < n
  BY DEF Waiting, TypeOK
<1>2. n - rbReadIndex < Size
  BY <1>1, TrackerAssumption DEF Waiting, TypeOK, RingInv
<1> QED BY <1>1, <1>2, CellsDiffer

\* The steps of the audio thread empty the command at rbReadIndex only.
LEMMA SenderApart ==
  ASSUME TypeOK, RingInv, SenderInv, sender.pc # "idle", rbReadIndex < rbWriteIndex
  PROVE  Cell(rbReadIndex) # Cell(rbWriteIndex)
<1>1. rbReadIndex \in Waiting /\ rbWriteIndex - rbReadIndex < Size
  BY DEF Waiting, TypeOK, SenderInv
<1> QED BY <1>1, WriteApart

RInv == TypeOK /\ RingInv /\ SenderInv

LEMMA RingStart == Init => RingInv /\ SenderInv
BY TrackerAssumption DEF Init, RingInv, SenderInv, Waiting, Played, InTick

\* A step that leaves the ring alone, and the audio thread outside its loop.
LEMMA RingUntouched ==
  ASSUME RInv, ring' = ring, heard' = heard, sender' = sender,
         \/ audio' = audio
         \/ audio \notin InTick /\ audio' \notin InTick
  PROVE  RingInv' /\ SenderInv'
<1>1. /\ rbReadIndex' = rbReadIndex /\ rbWriteIndex' = rbWriteIndex
      /\ word' = word /\ code' = code /\ smp' = smp
  BY DEF ring
<1>2. Waiting' = Waiting /\ \A n : Holds(n)' = Holds(n)
  BY <1>1 DEF Waiting, Holds
<1>3. SenderInv'
  BY <1>1 DEF RInv, SenderInv
<1>4. RingInv'
  BY <1>1, <1>2 DEF RInv, RingInv, InTick, Played
<1> QED BY <1>3, <1>4

LEMMA RingStep ==
  ASSUME Room = TRUE, RInv, [Next]_vars
  PROVE  RingInv' /\ SenderInv'
<1> DEFINE r == rbReadIndex
           w == rbWriteIndex
<1>1. /\ r \in Nat /\ w \in Nat /\ Size \in Nat \ {0}
      /\ word \in [Cells -> Nat] /\ smp \in [Cells -> Nat] /\ code \in [Cells -> Codes]
      /\ Cell(r) \in Cells /\ Cell(w) \in Cells
      /\ \A n \in Waiting : n \in Nat /\ Cell(n) \in Cells
  BY TrackerAssumption, CellsExist DEF RInv, TypeOK, Waiting
<1>2. ASSUME NEW kind \in {"note", "sample"}, WritePayload(kind)
      PROVE  RingInv' /\ SenderInv'
  <2>1. w - r < Size /\ sender.pc = "idle"
    BY <1>2 DEF WritePayload, EditorIdle
  <2>2. \A n \in Waiting : Cell(n) # Cell(w)
    BY <2>1, WriteApart DEF RInv
  <2>3. Waiting' = Waiting /\ r' = r /\ w' = w /\ code' = code /\ heard' = heard
        /\ audio' = audio
    BY <1>2 DEF WritePayload, Waiting, queue, player
  <2>4. word'[Cell(w)] = w + 1 /\ (kind = "sample" => smp'[Cell(w)] = w + 1)
    BY <1>1, <1>2 DEF WritePayload
  <2>5. \A n \in Waiting : word'[Cell(n)] = word[Cell(n)] /\ smp'[Cell(n)] = smp[Cell(n)]
    BY <1>1, <1>2, <2>2 DEF WritePayload
  <2>6. \A n \in Waiting : Holds(n)' = Holds(n)
    BY <2>3, <2>5 DEF Holds
  <2>7. RingInv'
    BY <2>3, <2>6 DEF RInv, RingInv
  <2>8. sender'.pc = "code" /\ sender'.code = kind
    BY <1>2 DEF WritePayload
  <2>9. SenderInv'
    BY <2>1, <2>3, <2>4, <2>8 DEF SenderInv
  <2> QED BY <2>7, <2>9
<1>3. ASSUME WriteCode PROVE RingInv' /\ SenderInv'
  <2>1. /\ w - r < Size /\ sender.pc = "code" /\ sender.code \in {"note", "sample"}
        /\ word[Cell(w)] = w + 1 /\ (sender.code = "sample" => smp[Cell(w)] = w + 1)
    BY <1>3 DEF WriteCode, RInv, SenderInv
  <2>2. \A n \in Waiting : Cell(n) # Cell(w)
    BY <2>1, WriteApart DEF RInv
  <2>3. Waiting' = Waiting /\ r' = r /\ w' = w /\ word' = word /\ smp' = smp
        /\ heard' = heard /\ audio' = audio
    BY <1>3 DEF WriteCode, Waiting, queue, player
  <2>4. code' = [code EXCEPT ![Cell(w)] = sender.code]
    BY <1>3 DEF WriteCode
  <2>5. \A n \in Waiting : code'[Cell(n)] = code[Cell(n)]
    BY <1>1, <2>2, <2>4
  <2>6. \A n \in Waiting : Holds(n)' = Holds(n)
    BY <2>3, <2>5 DEF Holds
  <2>7. audio \in InTick => r \in Waiting
    BY <1>1 DEF RInv, RingInv, Waiting
  <2>8. audio \in {"note", "sample"} => code'[Cell(r)] = audio
    BY <2>5, <2>7 DEF RInv, RingInv, InTick
  <2>9. RingInv'
    BY <2>3, <2>5, <2>6, <2>8 DEF RInv, RingInv
  <2>10. sender'.pc = "publish" /\ sender'.code = sender.code
    BY <1>3 DEF WriteCode, RInv, TypeOK
  <2>11. SenderInv'
    BY <1>1, <2>1, <2>3, <2>4, <2>10 DEF SenderInv
  <2> QED BY <2>9, <2>11
<1>4. ASSUME Publish PROVE RingInv' /\ SenderInv'
  <2>1. /\ w - r < Size /\ sender.code \in {"note", "sample"} /\ code[Cell(w)] = sender.code
        /\ word[Cell(w)] = w + 1 /\ (sender.code = "sample" => smp[Cell(w)] = w + 1)
    BY <1>4 DEF Publish, RInv, SenderInv
  <2>2. /\ r' = r /\ w' = w + 1 /\ code' = code /\ word' = word /\ smp' = smp
        /\ heard' = heard /\ audio' = audio
    BY <1>4 DEF Publish, queue, player
  <2>3. \A n \in Waiting' : n \in Waiting \/ n = w
    BY <1>1, <2>2 DEF Waiting
  <2>4. Holds(w) /\ code[Cell(w)] \in {"note", "sample"}
    BY <2>1 DEF Holds
  <2>5. \A n : Holds(n)' = Holds(n)
    BY <2>2 DEF Holds
  <2>6. r <= w /\ r' <= w' /\ w' - r' <= Size
    BY <1>1, <2>1, <2>2 DEF RInv, RingInv
  <2>7. audio' \in InTick => r' < w'
    BY <1>1, <2>2 DEF RInv, RingInv
  <2>8. \A n \in Waiting' : code'[Cell(n)] \in {"note", "sample"}
    BY <2>2, <2>3, <2>4 DEF RInv, RingInv
  <2>9. \A n \in Waiting' : n # r' \/ audio' \notin Played => Holds(n)'
    BY <2>2, <2>3, <2>4, <2>5 DEF RInv, RingInv
  <2>10. RingInv'
    BY <2>2, <2>6, <2>7, <2>8, <2>9 DEF RInv, RingInv
  <2>11. SenderInv'
    BY <1>4 DEF Publish, SenderInv, RInv, TypeOK
  <2> QED BY <2>10, <2>11
<1>5. ASSUME Fetch PROVE RingInv' /\ SenderInv'
  <2>1. r < w /\ audio = "out" /\ ring' = ring /\ heard' = heard /\ sender' = sender
    BY <1>5 DEF Fetch
  <2>2. r \in Waiting
    BY <1>1, <2>1 DEF Waiting
  <2>3. code[Cell(r)] \in {"note", "sample"}
    BY <2>2 DEF RInv, RingInv
  <2>4. audio' = code[Cell(r)]
    BY <1>5, <2>3 DEF Fetch
  <2>5. /\ r' = r /\ w' = w /\ code' = code /\ word' = word /\ smp' = smp
    BY <2>1 DEF ring
  <2>6. Waiting' = Waiting /\ \A n : Holds(n)' = Holds(n)
    BY <2>5 DEF Waiting, Holds
  <2>7. audio \notin Played /\ audio' \notin Played
    BY <2>1, <2>3, <2>4 DEF Played
  <2>8. RingInv'
    BY <2>1, <2>3, <2>4, <2>5, <2>6, <2>7 DEF RInv, RingInv
  <2>9. SenderInv'
    BY <2>1, <2>5 DEF RInv, SenderInv
  <2> QED BY <2>8, <2>9
<1>6. ASSUME PlayNote \/ PlaySample PROVE RingInv' /\ SenderInv'
  <2>1. audio \in {"note", "sample"} /\ ring' = ring /\ sender' = sender
    BY <1>6 DEF PlayNote, PlaySample
  <2>2. r < w /\ r \in Waiting /\ Holds(r) /\ code[Cell(r)] = audio
    BY <1>1, <2>1 DEF RInv, RingInv, Waiting, InTick, Played
  <2>3. heard' = r + 1 /\ audio' \in {"clearNote", "clearSample"}
    BY <1>1, <1>6, <2>2 DEF PlayNote, PlaySample, Holds
  <2>4. /\ r' = r /\ w' = w /\ code' = code /\ word' = word /\ smp' = smp
    BY <2>1 DEF ring
  <2>5. Waiting' = Waiting /\ \A n : Holds(n)' = Holds(n)
    BY <2>4 DEF Waiting, Holds
  <2>6. audio' \in Played /\ audio \notin Played /\ audio' \notin {"note", "sample"}
    BY <2>1, <2>3 DEF Played
  <2>7. RingInv'
    BY <2>2, <2>3, <2>4, <2>5, <2>6 DEF RInv, RingInv
  <2>8. SenderInv'
    BY <2>1, <2>4 DEF RInv, SenderInv
  <2> QED BY <2>7, <2>8
<1>7. ASSUME ClearNote \/ ClearSample PROVE RingInv' /\ SenderInv'
  <2>1. /\ audio \in {"clearNote", "clearSample"} /\ audio' = "advance"
        /\ sender' = sender /\ heard' = heard /\ code' = code /\ r' = r /\ w' = w
    BY <1>7 DEF ClearNote, ClearSample, queue, player
  <2>2. \A c \in Cells \ {Cell(r)} : word'[c] = word[c] /\ smp'[c] = smp[c]
    BY <1>1, <1>7 DEF ClearNote, ClearSample
  <2>3. r < w
    BY <2>1 DEF RInv, RingInv, InTick
  <2>4. \A n \in Waiting : n # r => Cell(n) # Cell(r)
    BY ReadApart DEF RInv
  <2>5. \A n \in Waiting : n # r => Holds(n)' = Holds(n)
    BY <1>1, <2>1, <2>2, <2>4 DEF Holds
  <2>6. Waiting' = Waiting
    BY <2>1 DEF Waiting
  <2>7. audio \in Played /\ audio' \in Played /\ audio' \notin {"note", "sample"}
    BY <2>1 DEF Played
  <2>8. RingInv'
    BY <2>1, <2>3, <2>5, <2>6, <2>7 DEF RInv, RingInv
  <2>9. sender.pc # "idle" => Cell(r) # Cell(w)
    BY <2>3, SenderApart DEF RInv
  <2>10. SenderInv'
    BY <1>1, <2>1, <2>2, <2>9 DEF RInv, SenderInv
  <2> QED BY <2>8, <2>10
<1>8. ASSUME Advance PROVE RingInv' /\ SenderInv'
  <2>1. /\ audio = "advance" /\ audio' = "out" /\ r' = r + 1 /\ w' = w /\ heard' = heard
        /\ code' = code /\ word' = word /\ smp' = smp /\ sender' = sender
    BY <1>8 DEF Advance, queue, player
  <2>2. r < w /\ heard = r + 1
    BY <2>1 DEF RInv, RingInv, InTick, Played
  <2>3. \A n \in Waiting' : n \in Waiting /\ n # r
    BY <1>1, <2>1 DEF Waiting
  <2>4. \A n : Holds(n)' = Holds(n)
    BY <2>1 DEF Holds
  <2>5. audio' \notin Played /\ audio' \notin {"note", "sample"} /\ audio' \notin InTick
    BY <2>1 DEF Played, InTick
  <2>6. r' <= w' /\ w' - r' <= Size
    BY <1>1, <2>1, <2>2 DEF RInv, RingInv
  <2>7. RingInv'
    BY <2>1, <2>2, <2>3, <2>4, <2>5, <2>6 DEF RInv, RingInv
  <2>8. sender.pc # "idle" => w' - r' < Size
    BY <1>1, <2>1 DEF RInv, SenderInv
  <2>9. SenderInv'
    BY <2>1, <2>8 DEF RInv, SenderInv
  <2> QED BY <2>7, <2>9
<1>9. ASSUME Queue \/ ClearOther PROVE RingInv' /\ SenderInv'
  BY <1>9, RingUntouched DEF Queue, SetNextOrder, SetNextPattern, ClearOther
<1>10. ASSUME HandleQueued PROVE RingInv' /\ SenderInv'
  <2>1. ring' = ring /\ heard' = heard /\ sender' = sender
    BY <1>10 DEF HandleQueued, PatternEnd, TakeOrder, ResetOrder, TestPattern,
                 TakePattern, NotePattern, ResetPattern
  <2>2. audio \notin InTick /\ audio' \notin InTick
    BY <1>10 DEF HandleQueued, PatternEnd, TakeOrder, ResetOrder, TestPattern,
                 TakePattern, NotePattern, ResetPattern, InTick
  <2> QED BY <2>1, <2>2, RingUntouched
<1>11. ASSUME UNCHANGED vars PROVE RingInv' /\ SenderInv'
  BY <1>11, RingUntouched DEF vars
<1> QED
  BY <1>2, <1>3, <1>4, <1>5, <1>6, <1>7, <1>8, <1>9, <1>10, <1>11
     DEF Next, Send, GoOn, Tick

\* Every command is played once and in the order of the calls, whatever the
\* size of the ring, as long as no more than that many wait for a tick.
THEOREM NotesInOrder ==
  ASSUME Room = TRUE
  PROVE  Spec => []PlayedInOrder
<1>1. Init => RInv
  BY TypeStart, RingStart DEF RInv
<1>2. RInv /\ [Next]_vars => RInv'
  BY TypeStep, RingStep DEF RInv
<1>3. RInv => PlayedInOrder
  BY DEF RInv, RingInv, PlayedInOrder, Played
<1> QED BY <1>1, <1>2, <1>3, PTL DEF Spec

-----------------------------------------------------------------------------
(* The queued positions. *)

\* What the user still waits for.  While a call is between its two stores,
\* the integer it has yet to reset does not count.
Expected ==
  IF nextOrder # None /\ queuer # "clearOrder" THEN <<"order", nextOrder>>
  ELSE IF nextPattern # None /\ queuer # "clearPattern" THEN <<"pattern", nextPattern>>
  ELSE <<>>

QueueInv ==
  /\ queuer = "idle" => nextOrder = None \/ nextPattern = None
  /\ audio \in {"takeOrder", "resetOrder"} => nextOrder # None
  /\ audio \in {"testPattern", "takePattern", "notePattern", "resetPattern"} =>
       nextOrder = None
  /\ audio \in {"takePattern", "notePattern", "resetPattern"} => nextPattern # None
  /\ audio \notin {"resetOrder", "notePattern", "resetPattern"} => request = Expected
  /\ audio = "resetOrder" =>
       request = IF nextPattern # None /\ queuer = "clearOrder"
                 THEN <<"pattern", nextPattern>> ELSE <<>>
  /\ audio \in {"notePattern", "resetPattern"} => request = <<>>

PlayInv ==
  /\ audio # "notePattern" =>
       IF patternPlay THEN patternToPlay = patternIndex /\ patternIndex \in Patterns
                      ELSE patternToPlay = None
  /\ audio = "notePattern" => patternToPlay = nextPattern

QInv == TypeOK /\ QueueInv /\ PlayInv

\* Steps of the ring leave the queue alone.
LEMMA QueueUntouched ==
  ASSUME QInv, queue' = queue, player' = player,
         \/ audio' = audio
         \/ audio' \in {"out"} \union InTick /\ audio \in {"out"} \union InTick
  PROVE  QueueInv' /\ PlayInv'
<1>1. /\ nextOrder' = nextOrder /\ nextPattern' = nextPattern
      /\ queuer' = queuer /\ request' = request
  BY DEF queue
<1>2. /\ patternToPlay' = patternToPlay /\ patternPlay' = patternPlay
      /\ patternIndex' = patternIndex
  BY DEF player
<1>3. Expected' = Expected
  BY <1>1 DEF Expected
<1>4. QueueInv'
  BY <1>1, <1>3 DEF QInv, QueueInv, InTick
<1>5. PlayInv'
  BY <1>1, <1>2 DEF QInv, PlayInv, InTick
<1> QED BY <1>4, <1>5

LEMMA QueueStep ==
  ASSUME Quiet = TRUE, QInv, [Next]_vars
  PROVE  QueueInv' /\ PlayInv'
<1> USE DEF QueueInv, PlayInv, Expected
<1>1. nextOrder \in Orders \union {None} /\ nextPattern \in Patterns \union {None}
      /\ QueueInv /\ PlayInv /\ queuer \in {"idle", "clearPattern", "clearOrder"}
  BY DEF QInv, TypeOK
<1>2. ASSUME NEW o \in Orders \union {None}, SetNextOrder(o) PROVE QueueInv' /\ PlayInv'
  <2>1. queuer = "idle" /\ audio \in {"out"} \union InTick
    BY <1>2 DEF SetNextOrder, MayQueue, MayGoOn, EditorIdle
  <2>2. PlayInv'
    BY <1>1, <1>2, <2>1 DEF SetNextOrder, player, InTick
  <2>3. QueueInv'
    BY <1>1, <1>2, <2>1 DEF SetNextOrder, Asked, InTick
  <2> QED BY <2>2, <2>3
<1>3. ASSUME NEW p \in Patterns \union {None}, SetNextPattern(p)
      PROVE  QueueInv' /\ PlayInv'
  <2>1. queuer = "idle" /\ audio \in {"out"} \union InTick
    BY <1>3 DEF SetNextPattern, MayQueue, MayGoOn, EditorIdle
  <2>2. PlayInv'
    BY <1>1, <1>3, <2>1 DEF SetNextPattern, player, InTick
  <2>3. QueueInv'
    BY <1>1, <1>3, <2>1 DEF SetNextPattern, Asked, InTick
  <2> QED BY <2>2, <2>3
<1>4. ASSUME ClearOther PROVE QueueInv' /\ PlayInv'
  <2>1. audio \in {"out"} \union InTick
    BY <1>4 DEF ClearOther, MayGoOn
  <2>2. PlayInv'
    BY <1>1, <1>4, <2>1 DEF ClearOther, player, InTick
  <2>3. QueueInv'
    BY <1>1, <1>4, <2>1 DEF ClearOther, InTick
  <2> QED BY <2>2, <2>3
<1>5. ASSUME PatternEnd PROVE QueueInv' /\ PlayInv'
  BY <1>1, <1>5 DEF PatternEnd, queue, player
<1>6. ASSUME TakeOrder PROVE QueueInv' /\ PlayInv'
  BY <1>1, <1>6 DEF TakeOrder
<1>7. ASSUME ResetOrder PROVE QueueInv' /\ PlayInv'
  BY <1>1, <1>7 DEF ResetOrder
<1>8. ASSUME TestPattern PROVE QueueInv' /\ PlayInv'
  BY <1>1, <1>8 DEF TestPattern, queue, player
<1>9. ASSUME TakePattern PROVE QueueInv' /\ PlayInv'
  BY <1>1, <1>9 DEF TakePattern
<1>10. ASSUME NotePattern PROVE QueueInv' /\ PlayInv'
  BY <1>1, <1>10 DEF NotePattern, queue
<1>11. ASSUME ResetPattern PROVE QueueInv' /\ PlayInv'
  BY <1>1, <1>11 DEF ResetPattern, player
<1>12. ASSUME Send \/ WriteCode \/ Publish PROVE QueueInv' /\ PlayInv'
  <2>1. queue' = queue /\ player' = player /\ audio' = audio
    BY <1>12 DEF Send, WritePayload, WriteCode, Publish
  <2> QED BY <2>1, QueueUntouched
<1>13. ASSUME Tick PROVE QueueInv' /\ PlayInv'
  <2>1. queue' = queue /\ player' = player
    BY <1>13 DEF Tick, Fetch, PlayNote, PlaySample, ClearNote, ClearSample, Advance
  <2>2. audio \in {"out"} \union InTick
    BY <1>13 DEF Tick, Fetch, PlayNote, PlaySample, ClearNote, ClearSample, Advance, InTick
  <2>3. audio' \in {"out"} \union InTick
    <3>1. CASE Fetch
      <4>1. code[Cell(rbReadIndex)] \in Codes
        BY CellsExist DEF QInv, TypeOK
      <4> QED BY <3>1, <4>1 DEF Fetch, Codes, InTick
    <3>2. CASE PlayNote \/ PlaySample \/ ClearNote \/ ClearSample \/ Advance
      BY <3>2 DEF PlayNote, PlaySample, ClearNote, ClearSample, Advance, InTick
    <3> QED BY <3>1, <3>2, <1>13 DEF Tick
  <2> QED BY <2>1, <2>2, <2>3, QueueUntouched
<1>14. ASSUME UNCHANGED vars PROVE QueueInv' /\ PlayInv'
  BY <1>14, QueueUntouched DEF vars
<1> QED
  BY <1>2, <1>3, <1>4, <1>5, <1>6, <1>7, <1>8, <1>9, <1>10, <1>11, <1>12, <1>13, <1>14
     DEF Next, Queue, GoOn, HandleQueued

LEMMA QueueInvariance ==
  ASSUME Quiet = TRUE
  PROVE  Spec => []QInv
<1>1. Init => QInv
  BY TypeStart DEF QInv, Init, QueueInv, PlayInv, Expected
<1>2. QInv /\ [Next]_vars => QInv'
  BY TypeStep, QueueStep DEF QInv
<1> QED BY <1>1, <1>2, PTL DEF Spec

\* A queued position is neither lost nor served twice, when the user does not
\* queue another one within the few stores of handleQueuedPositions.
THEOREM RequestsServed ==
  ASSUME Quiet = TRUE
  PROVE  Spec => []RequestKept
<1>1. QInv => RequestKept
  BY DEF QInv, QueueInv, Expected, RequestKept, EditorIdle
<1> QED BY <1>1, QueueInvariance, PTL

\* Then the controller knows which pattern the player repeats.
THEOREM PatternsAgree ==
  ASSUME Quiet = TRUE
  PROVE  Spec => []SamePattern
<1>1. QInv => SamePattern
  BY DEF QInv, PlayInv, SamePattern
<1> QED BY <1>1, QueueInvariance, PTL
=============================================================================
