--------------------------- MODULE PlayerSequencer ---------------------------
(***************************************************************************)
(* Which row of a song the player reads next (milkyplay/PlayerSTD.cpp,     *)
(* PlayerBase.cpp): the order list, pattern breaks and position jumps,     *)
(* pattern loops on every channel, pattern delay, the stop command, the    *)
(* test for rows that have been played, and the positions the editor       *)
(* queues (tracker/PlayerController.cpp).                                  *)
(*                                                                         *)
(* The audio thread's step is one call of tickhandler.  The editor starts, *)
(* stops and moves the player and changes the song between two ticks;      *)
(* setPatternPos, which takes no section, writes the order in one step and *)
(* the row in another.                                                     *)
(*                                                                         *)
(* Of a pattern slot only the effect matters here, one for each channel;   *)
(* notes, speed and volume are left out, and so is a delayed slot.         *)
(***************************************************************************)
EXTENDS Integers, FiniteSets, Sequences

CONSTANTS
  EditSongs,   \* the songs an editor changes into each other, see IsSong
  ExportSongs, \* the songs that are exported
  Channels,   \* number of channels
  Orders,     \* positions of the order list: 0 .. Orders-1
  Patterns,   \* the patterns
  TickSpeed,  \* ticks of a row
  StartRows,  \* bound of the model: the rows the cursor can be at
  Commands,   \* what the editor does in this instance
  MaxPlays    \* bound of the model: how often the playing of a row is counted

None == -1
Chan == 1 .. Channels
Positions == 0 .. Orders - 1

\* [op, arg, row]: Bxx and the far jump, Dxx, E6x, EEx, F00
Effects == [op : {"none", "jump", "break", "loop", "delay", "stop"},
            arg : Nat, row : Nat]

\* ord has more entries than the song is long; a pattern is the sequence of
\* its rows, empty when it has no data; ft2 is playModeFT2, set by the type of
\* the module
IsSong(s) ==
  /\ s.ordnum \in 1 .. Orders
  /\ s.restart \in Positions
  /\ s.ft2 \in BOOLEAN
  /\ s.ord \in [Positions -> Patterns]
  /\ s.pattern \in [Patterns -> Seq([Chan -> Effects])]

ASSUME SequencerAssumption ==
  /\ Channels \in Nat
  /\ Orders \in Nat \ {0}
  /\ None \notin Patterns
  /\ TickSpeed \in Nat \ {0}
  /\ MaxPlays \in Nat
  /\ StartRows \subseteq 0 .. 255
  /\ Commands \subseteq {"play", "stop", "move", "speed", "queue", "edit"}

ASSUME SongsAssumption == \A s \in EditSongs \union ExportSongs : IsSong(s)

VARIABLES
  song,     \* the module
  player,   \* the members of PlayerSTD, and of its controller the two
            \* queued positions
  moving,   \* editor thread, in setPatternPos: the row still to be written
  reads,    \* the row the last tick read, as [pattern, row], or NoRow
  plays     \* exporter's: how often each row of the song has been played

vars == <<song, player, moving, reads, plays>>

Rows(i) == Len(song.pattern[i])
Slot(i, row, c) == song.pattern[i][row + 1][c]

NoRow == [pattern |-> None, row |-> None]
NoBreak == [on |-> FALSE, row |-> 0, chn |-> 0]
NoJump == [on |-> FALSE, pos |-> 0, row |-> 0, chn |-> 0]

-----------------------------------------------------------------------------
(* Operations on the player.  A step is their composition. *)

\* RESETLOOPING, RESET_ALL_LOOPING
NoLoop(pos) == [start |-> 0, count |-> 0, exec |-> FALSE, looping |-> FALSE, valid |-> pos]
NoLoops(pos) == [c \in Chan |-> NoLoop(pos)]

RowsBefore(pos, row) ==
  ((0 .. pos - 1) \X (0 .. 255)) \union ({pos} \X (0 .. row - 1))

\* the rows before the start count as visited; without effect when repeating
Visited(p, pos, row) == IF p.repeat THEN {} ELSE RowsBefore(pos, row)

Restart(p, pos, row, only) ==
  [p EXCEPT !.pos = pos, !.row = row, !.ticker = 0, !.delay = 0, !.nextRow = None,
            !.loop = NoLoops(pos), !.haltFlag = FALSE, !.halted = FALSE,
            !.clock = TRUE, !.only = only, !.visited = Visited(p, pos, row)]

\* a halted player gets no ticks: adder is 0
Halt(p) == [p EXCEPT !.halted = TRUE, !.clock = FALSE]

\* patternEndReached -> handleQueuedPositions.  The position is passed by
\* reference: QueuedPosition is its value afterwards.
QueuedPosition(p, pos) == IF p.nextOrder # None THEN p.nextOrder ELSE pos

PatternEndReached(p) ==
  IF p.nextOrder # None
  THEN [p EXCEPT !.nextOrder = None, !.pattern = None]
  ELSE IF p.nextPattern # None
  THEN [p EXCEPT !.nextPattern = None, !.pattern = p.nextPattern]
  ELSE p

\* (mutants: the loops survive the pattern; the position behind the end of the
\* list is let through; the position is passed by value)
SetNewPositionKeepsLoops(p, pos) ==
  LET asked == QueuedPosition(p, pos)
      to == IF asked >= song.ordnum THEN song.restart ELSE asked
  IN IF asked = p.pos THEN PatternEndReached(p)
     ELSE [PatternEndReached(p) EXCEPT !.pos = to]

SetNewPositionPastEnd(p, pos) ==
  LET asked == QueuedPosition(p, pos)
      to == IF asked > song.ordnum THEN song.restart ELSE asked
  IN IF asked = p.pos THEN PatternEndReached(p)
     ELSE [PatternEndReached(p) EXCEPT !.pos = to, !.loop = NoLoops(to)]

SetNewPositionByValue(p, pos) ==
  LET to == IF pos >= song.ordnum THEN song.restart ELSE pos
  IN IF pos = p.pos THEN PatternEndReached(p)
     ELSE [PatternEndReached(p) EXCEPT !.pos = to, !.loop = NoLoops(to)]

SetNewPosition(p, pos) ==
  LET asked == QueuedPosition(p, pos)
      to == IF asked >= song.ordnum THEN song.restart ELSE asked
  IN IF asked = p.pos THEN PatternEndReached(p)
     ELSE [PatternEndReached(p) EXCEPT !.pos = to, !.loop = NoLoops(to)]

\* (mutant: the loop is not counted)
PatternLoopForever(p, c, times) ==
  IF times = 0
  THEN [p EXCEPT !.loop[c] = [@ EXCEPT !.exec = FALSE, !.start = p.row, !.valid = p.pos]]
  ELSE [p EXCEPT !.loop[c] = [@ EXCEPT !.exec = TRUE]]

\* doEffect
PatternLoop(p, c, times) ==
  LET l == p.loop[c] IN
  CASE times = 0 ->
         [p EXCEPT !.loop[c] = [l EXCEPT !.exec = FALSE, !.start = p.row, !.valid = p.pos]]
    [] times # 0 /\ l.count = times ->
         [p EXCEPT !.loop[c] = NoLoop(p.pos),
                   !.nextRow = IF song.ft2 THEN l.start ELSE @]
    [] OTHER ->
         [p EXCEPT !.loop[c] = [l EXCEPT !.exec = TRUE, !.count = @ + 1]]

DoEffect(p, c, e) ==
  CASE e.op = "none"  -> p
    [] e.op = "jump"  -> [p EXCEPT !.jump = [on |-> TRUE, pos |-> e.arg, row |-> e.row, chn |-> c]]
    [] e.op = "break" -> [p EXCEPT !.brk = [on |-> TRUE, row |-> e.arg, chn |-> c]]
    [] e.op = "loop"  -> PatternLoop(p, c, e.arg)
    [] e.op = "delay" -> [p EXCEPT !.delay = TickSpeed * (e.arg + 1)]
    [] e.op = "stop"  -> [p EXCEPT !.haltFlag = TRUE]

\* progressRow: the effects of row p.row, channel after channel
DoEffects(p, i) ==
  LET upTo[c \in 0 .. Channels] ==
        IF c = 0 THEN p ELSE DoEffect(upTo[c - 1], c, Slot(i, p.row, c))
  IN upTo[Channels]

InLoop(p) == \E c \in Chan : p.loop[c].looping /\ p.loop[c].valid = p.pos

\* a row that was played already ends the song, unless a loop plays it again
SongIsOver(p) == ~p.repeat /\ <<p.pos, p.row>> \in p.visited /\ ~InLoop(p)

Visit(p) == IF p.repeat THEN p ELSE [p EXCEPT !.visited = @ \union {<<p.pos, p.row>>}]

\* tick 0
ReadRow(p, i) == DoEffects([Visit(p) EXCEPT !.brk = NoBreak, !.jump = NoJump], i)

-----------------------------------------------------------------------------
(* The end of a row. *)

\* jump and break on the same row: the one on the later channel decides
JumpWins(p) == p.jump.on /\ (~p.brk.on \/ p.jump.chn > p.brk.chn)

Break(p) ==
  IF ~p.brk.on THEN p
  ELSE LET next == IF p.pos < song.ordnum - 1 THEN p.pos + 1 ELSE song.restart
           q == IF p.jump.on /\ ~JumpWins(p) THEN p ELSE SetNewPosition(p, next)
       IN [q EXCEPT !.row = p.brk.row - 1, !.nextRow = None]

Jump(p) ==
  IF ~p.jump.on THEN p
  ELSE LET q == IF JumpWins(p) THEN [p EXCEPT !.row = p.jump.row - 1] ELSE p
       IN [SetNewPosition(q, p.jump.pos) EXCEPT !.nextRow = None]

\* a single pattern begins again
BeginAgain(p) ==
  [PatternEndReached(p) EXCEPT !.row = -1, !.nextRow = None,
                               !.pos = QueuedPosition(p, p.pos)]

Executing(p) == {c \in Chan : p.loop[c].exec}
LastExecuting(p) == CHOOSE c \in Executing(p) : \A d \in Executing(p) : d <= c

\* (mutant: the loop plays from the row after its first)
ExecLoopsLate(p) ==
  IF Executing(p) = {} THEN p
  ELSE [p EXCEPT !.row = p.loop[LastExecuting(p)].start,
                 !.loop = [c \in Chan |->
                             IF c \in Executing(p)
                             THEN [p.loop[c] EXCEPT !.exec = FALSE, !.looping = TRUE]
                             ELSE p.loop[c]]]

\* loops on several channels: the last one decides
ExecLoops(p) ==
  IF Executing(p) = {} THEN p
  ELSE [p EXCEPT !.row = p.loop[LastExecuting(p)].start - 1,
                 !.loop = [c \in Chan |->
                             IF c \in Executing(p)
                             THEN [p.loop[c] EXCEPT !.exec = FALSE, !.looping = TRUE]
                             ELSE p.loop[c]]]

\* (mutant: the start row is taken without a test)
NextRowUntested(p, i) ==
  LET first == [p EXCEPT !.row = p.nextRow, !.nextRow = None]
  IN IF p.row < Rows(i) THEN p
     ELSE IF p.pattern = None THEN SetNewPosition(first, p.pos + 1) ELSE [p EXCEPT !.row = 0]

\* label nextrow: i is the pattern whose length counts
NextRow(p, i) ==
  LET first == [p EXCEPT !.row = IF p.nextRow # None THEN p.nextRow ELSE 0,
                         !.nextRow = None]
      again == [first EXCEPT !.row = 0, !.loop = NoLoops(p.pos)]
      after == CASE p.row < Rows(i)     -> p
                 [] p.row >= Rows(i) /\ p.pattern = None ->
                      SetNewPosition(first, p.pos + 1)
                 [] OTHER ->
                      [PatternEndReached(again) EXCEPT !.pos = QueuedPosition(p, p.pos)]
  IN IF p.row >= Rows(i) /\ p.pattern # None /\ ~p.repeat THEN Halt(first)
     ELSE IF p.haltFlag THEN Halt(after) ELSE after

EndRow(p, i) ==
  LET q == [p EXCEPT !.ticker = 0, !.delay = 0]
      moved == IF q.pattern = None THEN Jump(Break(q))
               ELSE IF q.jump.on \/ q.brk.on THEN BeginAgain(q) ELSE q
      looped == ExecLoops(moved)
  IN IF q.only THEN [q EXCEPT !.clock = FALSE]
     ELSE NextRow([looped EXCEPT !.row = @ + 1],
                  IF q.pattern = None THEN song.ord[looped.pos] ELSE i)

-----------------------------------------------------------------------------
(* Audio thread: tickhandler. *)

PatternNow(p) == IF p.pattern = None THEN song.ord[p.pos] ELSE p.pattern

\* sanity check 1, and a pattern without data
NothingToPlay(p) ==
  \/ p.pattern = None /\ p.pos >= song.ordnum
  \/ Rows(PatternNow(p)) = 0

\* sanity check 2: the pattern has become shorter than the row
RowIsGone(p) == p.row >= Rows(PatternNow(p))

MaxTicks(p) == IF p.delay # 0 THEN p.delay ELSE TickSpeed

RowBegun(p, i) == IF p.ticker = 0 THEN ReadRow(p, i) ELSE p

Ticked(p, i) ==
  IF p.ticker + 1 >= MaxTicks(p) THEN EndRow(p, i) ELSE [p EXCEPT !.ticker = @ + 1]

\* a single pattern that has become shorter is begun again
Begun(p) == IF p.pattern # None /\ RowIsGone(p) THEN [p EXCEPT !.row = 0, !.ticker = 0] ELSE p

\* plays is a history variable
Counted(p) ==
  IF ~p.repeat /\ p.ticker = 0 /\ <<p.pos, p.row>> \in DOMAIN plays
  THEN [plays EXCEPT ![<<p.pos, p.row>>] = IF @ < MaxPlays THEN @ + 1 ELSE @]
  ELSE plays

Ticking == player.clock /\ ~player.idle

TickIdle ==
  /\ player.clock /\ player.idle
  /\ reads' = NoRow
  /\ UNCHANGED <<song, player, moving, plays>>

TickHalts ==
  /\ Ticking
  /\ NothingToPlay(player)
  /\ player' = Halt(player)
  /\ reads' = NoRow
  /\ UNCHANGED <<song, moving, plays>>

\* the rest of the pattern is gone: on to the next order
TickSkips ==
  /\ Ticking
  /\ ~NothingToPlay(player)
  /\ player.pattern = None
  /\ RowIsGone(player)
  /\ player' = NextRow([player EXCEPT !.ticker = 0], PatternNow(player))
  /\ reads' = NoRow
  /\ UNCHANGED <<song, moving, plays>>

TickEndsSong ==
  /\ Ticking
  /\ ~NothingToPlay(player)
  /\ player.pattern = None => ~RowIsGone(player)
  /\ Begun(player).ticker = 0 /\ SongIsOver(Begun(player))
  /\ player' = Halt(Begun(player))
  /\ reads' = NoRow
  /\ UNCHANGED <<song, moving, plays>>

\* (mutant: without sanity check 2)
TickPlaysUnchecked ==
  /\ Ticking
  /\ ~NothingToPlay(player)
  /\ reads' = [pattern |-> PatternNow(player), row |-> player.row]
  /\ player' = IF RowIsGone(player) THEN [player EXCEPT !.ticker = 0]
               ELSE Ticked(RowBegun(player, PatternNow(player)), PatternNow(player))
  /\ UNCHANGED <<song, moving, plays>>

TickPlays ==
  /\ Ticking
  /\ ~NothingToPlay(player)
  /\ (player.pattern = None => ~RowIsGone(player))
  /\ \E p \in {Begun(player)} :
        /\ ~(p.ticker = 0 /\ SongIsOver(p))
        /\ \E q \in {RowBegun(p, PatternNow(p))} : player' = Ticked(q, PatternNow(p))
        /\ reads' = [pattern |-> PatternNow(p), row |-> p.row]
        /\ plays' = Counted(p)
  /\ UNCHANGED <<song, moving>>

Tick == TickIdle \/ TickHalts \/ TickSkips \/ TickEndsSong \/ TickPlays

-----------------------------------------------------------------------------
(* Editor thread. *)

EditorOnly == UNCHANGED <<song, moving, reads, plays>>

Dequeued(p) == [p EXCEPT !.nextOrder = None, !.nextPattern = None]

\* PlayerController::playSong, playPattern; the song starts at the
\* cursor or at a row that is given
PlaySong(o, r) ==
  /\ player' = [Restart(Dequeued(player), o, r, FALSE) EXCEPT !.pattern = None, !.idle = FALSE]
  /\ EditorOnly

PlayPattern(i, o, r, only) ==
  /\ player' = [Restart(Dequeued(player), o, r, only) EXCEPT !.pattern = i, !.idle = FALSE]
  /\ EditorOnly

Stop ==
  /\ player' = [Restart(Dequeued(player), 0, 0, FALSE) EXCEPT !.idle = TRUE]
  /\ EditorOnly

\* PlayerBase::setPatternPos, without resetting the effect memory
MoveToOrder(o, r) ==
  /\ player' = [player EXCEPT !.pos = o]
  /\ moving' = r
  /\ UNCHANGED <<song, reads, plays>>

MoveToRow ==
  /\ moving # None
  /\ player' = [player EXCEPT !.row = moving]
  /\ moving' = None
  /\ UNCHANGED <<song, reads, plays>>

\* setSpeed: adder gets a value whether or not the player is halted
SetSpeed ==
  /\ player' = [player EXCEPT !.clock = TRUE]
  /\ EditorOnly

\* setNextOrderToPlay, setNextPatternToPlay
QueueOrder(o) ==
  /\ player' = [player EXCEPT !.nextOrder = o, !.nextPattern = None]
  /\ EditorOnly

QueuePattern(i) ==
  /\ player' = [player EXCEPT !.nextOrder = None, !.nextPattern = i]
  /\ EditorOnly

\* patterns are resized and rewritten, orders inserted and deleted
EditSong(s) ==
  /\ song' = s
  /\ UNCHANGED <<player, moving, reads, plays>>

SongPositions == 0 .. song.ordnum - 1

Plays ==
  \E o \in SongPositions, r \in StartRows :
    \/ PlaySong(o, r)
    \/ \E i \in Patterns, only \in BOOLEAN : PlayPattern(i, o, r, only)

Queues ==
  \/ \E o \in SongPositions : QueueOrder(o)
  \/ \E i \in Patterns : QueuePattern(i)

\* the handlers of the editor run one at a time; an export is left alone
Editor ==
  \/ MoveToRow
  \/ /\ moving = None
     /\ player.repeat
     /\ \/ "play" \in Commands /\ Plays
        \/ "stop" \in Commands /\ Stop
        \/ "move" \in Commands /\ \E o \in SongPositions, r \in StartRows : MoveToOrder(o, r)
        \/ "speed" \in Commands /\ SetSpeed
        \/ "queue" \in Commands /\ Queues
        \/ "edit" \in Commands /\ \E s \in EditSongs \ {song} : EditSong(s)

\* startPlaying: the editor's player repeats and begins idle, the exporter's
\* plays the song once
NewPlayer(repeat) ==
  [repeat |-> repeat, pos |-> 0, row |-> 0, ticker |-> 0, delay |-> 0, nextRow |-> None,
   loop |-> NoLoops(0), brk |-> NoBreak, jump |-> NoJump,
   haltFlag |-> FALSE, halted |-> FALSE, clock |-> TRUE, idle |-> repeat,
   only |-> FALSE, pattern |-> None, visited |-> {},
   nextOrder |-> None, nextPattern |-> None]

RowsOf(s) ==
  UNION {{o} \X (0 .. Len(s.pattern[s.ord[o]]) - 1) : o \in 0 .. s.ordnum - 1}

Init ==
  /\ \/ song \in EditSongs /\ player = NewPlayer(TRUE)
     \/ song \in ExportSongs /\ player = NewPlayer(FALSE)
  /\ moving = None
  /\ reads = NoRow
  /\ plays = [at \in RowsOf(song) |-> 0]

Next == Tick \/ Editor

Spec == Init /\ [][Next]_vars

\* ticks keep coming
FairSpec == Spec /\ WF_vars(Tick)

-----------------------------------------------------------------------------
(* Properties. *)

\* The members hold positions of the order list, rows, and the loops of all
\* channels; a queued position is one or none.
TypeOK ==
  /\ moving \in Nat \union {None}
  /\ player.pos \in Positions /\ player.row \in Nat
  /\ player.ticker \in Nat /\ player.delay \in Nat
  /\ player.nextRow \in Nat \union {None}
  /\ player.pattern \in Patterns \union {None}
  /\ player.nextOrder \in Positions \union {None}
  /\ player.nextPattern \in Patterns \union {None}
  /\ \A c \in Chan : player.loop[c].start \in Nat /\ player.loop[c].count \in Nat

\* A tick reads a row its pattern has, whatever the editor has done to the
\* pattern, the order list or the position since the last one ("sanity check").
RowInPattern ==
  [][Tick => \/ reads' = NoRow
             \/ reads'.row < Len(song.pattern[reads'.pattern])]_vars

\* A song whose restart position lies inside its order list goes on inside the
\* list after every row: breaks, jumps, the end of the list and a queued order
\* lead to one of its positions (setNewPosition, tickhandler).
PositionInSong ==
  [][Tick /\ player.pattern = None
           /\ player.pos < song.ordnum /\ song.restart < song.ordnum
       => player'.pos < song.ordnum]_vars

\* When the player takes a queued order from the queue, it goes on with that
\* order (handleQueuedPositions: "the new order [is] the queued one").
QueuedOrderPlayed ==
  [][Tick /\ player.nextOrder # None /\ player'.nextOrder = None
       => /\ player'.pattern = None
          /\ player'.pos = IF player.pattern = None /\ player.nextOrder >= song.ordnum
                           THEN song.restart ELSE player.nextOrder]_vars

\* The loop marks of the channels are those of the position that is played: no
\* loop goes back to a row that was marked in another pattern (RESET_ALL_LOOPING).
LoopsOfPosition == ~player.repeat => \A c \in Chan : player.loop[c].valid = player.pos

\* the loop commands of a pattern as <<row, channel, count>>
LoopCommands(s, i) ==
  LET at(place) == s.pattern[i][place[1] + 1][place[2]]
      places == {place \in (0 .. Len(s.pattern[i]) - 1) \X Chan : at(place).op = "loop"}
  IN {<<place[1], place[2], at(place).arg>> : place \in places}

\* only loops and delays, and one loop a pattern, from its mark or from row 0
Simple(s) ==
  \A i \in Patterns :
    /\ \A r \in 1 .. Len(s.pattern[i]), c \in Chan :
         s.pattern[i][r][c].op \in {"none", "loop", "delay"}
    /\ \E c \in Chan : \A l \in LoopCommands(s, i) : l[2] = c
    /\ \A l, k \in LoopCommands(s, i) :
         l # k => (l[3] = 0) # (k[3] = 0) /\ (l[3] = 0 <=> l[1] < k[1])

Times(s, i, row) ==
  LET ends == {l \in LoopCommands(s, i) : l[3] # 0}
      starts == {l[1] : l \in {l \in LoopCommands(s, i) : l[3] = 0}}
      looped == {l \in ends : row <= l[1] /\ \A start \in starts : start <= row}
  IN IF looped = {} THEN 1 ELSE 1 + (CHOOSE l \in looped : TRUE)[3]

\* A song without jumps, breaks and stops, with one loop a pattern, is played
\* from its first row to its last before it halts, and a loop as many times more
\* as it says (xmeffects.html: "looped from a loop start by a given number of times").
\* The songs it is checked for are not FastTracker 2's (ft2 = FALSE), nor is it
\* proved for those (SongsPlain): there the row a loop went back to is the row the
\* next pattern begins with.
PlayedAsWritten ==
  ~player.repeat /\ player.halted /\ Simple(song) =>
    plays = [at \in RowsOf(song) |-> Times(song, song.ord[at[1]], at[2])]

\* "[The song halts if it] hit a position that was already played and if it's
\* not in repeat mode" (hasSongHalted; the exporter waits for nothing else).
SongHalts == ~player.repeat => <>player.halted
=============================================================================
