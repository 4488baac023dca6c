------------------------ MODULE PlayerSequencer_proofs ------------------------
(***************************************************************************)
(* Proofs about PlayerSequencer for any songs, number of channels, order   *)
(* list, speed and commands of the editor.                                 *)
(*                                                                         *)
(* The effects of a row are a function by recursion over the channels.     *)
(* What it computes is found from the least number of channels for which   *)
(* the claim would fail: that a set of naturals has a least element needs  *)
(* no induction principle with an operator as its parameter.               *)
(*                                                                         *)
(* The last part proves that a simple song is played as it is written:     *)
(* which turn of its loop an exporter's player is in follows from the loop *)
(* marks and the row, and so how often each row has been played.           *)
(***************************************************************************)
EXTENDS PlayerSequencer, WellFoundedInduction, TLAPS

-----------------------------------------------------------------------------
(* Least elements. *)

LEMMA LeastNatural ==
  ASSUME NEW T, T \subseteq Nat, T # {}
  PROVE  \E n \in T : \A m \in T : n <= m
<1> DEFINE Less == {s \in Nat \X Nat : s[1] < s[2]}
<1>1. IsWellFoundedOn(Less, Nat)
  BY NatLessThanWellFounded DEF OpToRel
<1> HIDE DEF Less
<1>2. PICK n \in T : \A m \in T : <<m, n>> \notin Less
  BY <1>1, WFMin
<1>3. ASSUME NEW m \in T PROVE n <= m
  <2>1. <<m, n>> \notin Less
    BY <1>2
  <2> QED BY <2>1 DEF Less
<1> QED BY <1>3

-----------------------------------------------------------------------------
(* The types of the members. *)

Loops == [start : Nat, count : Nat, exec : BOOLEAN, looping : BOOLEAN, valid : Positions]

\* A player whose row is in R; within a step it may be -1.
Players(R) ==
  [repeat : BOOLEAN, pos : Positions, row : R, ticker : Nat, delay : Nat,
   nextRow : Nat \union {None}, loop : [Chan -> Loops],
   brk : [on : BOOLEAN, row : Nat, chn : Nat],
   jump : [on : BOOLEAN, pos : Nat, row : Nat, chn : Nat],
   haltFlag : BOOLEAN, halted : BOOLEAN, clock : BOOLEAN, idle : BOOLEAN,
   only : BOOLEAN, pattern : Patterns \union {None}, visited : SUBSET (Nat \X Nat),
   nextOrder : Positions \union {None}, nextPattern : Patterns \union {None}]

RowsOrBefore == Nat \union {-1}

\* An exporter's player plays the order list, has nothing queued, and its loop
\* marks are those of the position it plays.
Exported(p) ==
  ~p.repeat => /\ p.pattern = None /\ p.nextOrder = None /\ p.nextPattern = None
               /\ \A c \in Chan : p.loop[c].valid = p.pos

\* The position is in the order list and stays there: no order is taken from
\* the queue at the end of a single pattern.
InList(p) == p.pos < song.ordnum /\ (p.pattern = None \/ p.nextOrder = None)

\* What every part of a step keeps.
Follows(p, q) ==
  /\ q.repeat = p.repeat
  /\ Exported(p) => Exported(q)
  /\ song.restart < song.ordnum /\ InList(p) => InList(q)

SeqInv ==
  /\ IsSong(song)
  /\ player \in Players(Nat)
  /\ moving \in Nat \union {None}
  /\ Exported(player)
  /\ ~player.repeat => moving = None

-----------------------------------------------------------------------------
(* Constants and small values. *)

LEMMA Numbers ==
  /\ Channels \in Nat /\ Orders \in Nat \ {0} /\ TickSpeed \in Nat \ {0}
  /\ None = -1 /\ None \notin Patterns
  /\ \A pos \in Positions : pos \in Nat /\ pos # None
  /\ \A c \in Chan : c \in Nat
  /\ 0 \in Positions
  BY SequencerAssumption DEF SequencerAssumption, None, Positions, Chan

LEMMA SongNumbers ==
  ASSUME IsSong(song)
  PROVE  /\ song.ordnum \in Nat /\ song.restart \in Positions
         /\ \A pos \in Nat : pos < song.ordnum => pos \in Positions
         /\ \A i \in Patterns : Rows(i) \in Nat
         /\ \A pos \in Positions : song.ord[pos] \in Patterns
         /\ \A i \in Patterns, row \in Nat, c \in Chan :
              row < Rows(i) => Slot(i, row, c) \in Effects
<1> USE Numbers DEF IsSong
<1>1. song.ordnum \in 1 .. Orders /\ song.restart \in Positions
  OBVIOUS
<1>2. \A pos \in Nat : pos < song.ordnum => pos \in Positions
  BY <1>1 DEF Positions
<1>3. \A i \in Patterns : song.pattern[i] \in Seq([Chan -> Effects])
  OBVIOUS
<1>4. ASSUME NEW i \in Patterns, NEW row \in Nat, NEW c \in Chan, row < Rows(i)
      PROVE  Slot(i, row, c) \in Effects
  <2>1. row + 1 \in 1 .. Len(song.pattern[i])
    BY <1>3, <1>4 DEF Rows
  <2>2. song.pattern[i][row + 1] \in [Chan -> Effects]
    BY <1>3, <2>1
  <2> QED BY <2>2 DEF Slot
<1> QED BY <1>1, <1>2, <1>3, <1>4 DEF Rows

LEMMA NoLoopsType ==
  ASSUME NEW pos \in Positions
  PROVE  NoLoops(pos) \in [Chan -> Loops] /\ \A c \in Chan : NoLoops(pos)[c].valid = pos
  BY DEF NoLoops, NoLoop, Loops

\* Parts of a step that follow each other.
LEMMA FollowsOn ==
  ASSUME NEW p, NEW q, NEW r, Follows(p, q), Follows(q, r)
  PROVE  Follows(p, r)
  BY DEF Follows

LEMMA FollowsItself == \A p : Follows(p, p)
  BY DEF Follows

-----------------------------------------------------------------------------
(* The queue, and a new position. *)

LEMMA QueuedPositionType ==
  ASSUME NEW R, NEW p \in Players(R), NEW pos \in Nat
  PROVE  QueuedPosition(p, pos) \in Nat /\ (pos \in Positions => QueuedPosition(p, pos) \in Positions)
  BY Numbers DEF QueuedPosition, Players

\* patternEndReached changes the queue and what is played, nothing else.
LEMMA PatternEndReachedDoes ==
  ASSUME NEW R, NEW p \in Players(R)
  PROVE  LET e == PatternEndReached(p) IN
         /\ e \in Players(R)
         /\ e.repeat = p.repeat /\ e.pos = p.pos /\ e.row = p.row /\ e.nextRow = p.nextRow
         /\ e.brk = p.brk /\ e.jump = p.jump /\ e.haltFlag = p.haltFlag /\ e.loop = p.loop
         /\ e.nextOrder = None
         /\ p.nextOrder # None => e.pattern = None
         /\ p.nextOrder = None /\ p.nextPattern = None => e = p
<1>1. CASE p.nextOrder # None
  BY <1>1 DEF PatternEndReached, Players
<1>2. CASE p.nextOrder = None /\ p.nextPattern # None
  BY <1>2 DEF PatternEndReached, Players
<1>3. CASE p.nextOrder = None /\ p.nextPattern = None
  BY <1>3 DEF PatternEndReached
<1> QED BY <1>1, <1>2, <1>3

\* setNewPosition lands in the order list, keeps the row, and begins no loop.
LEMMA SetNewPositionDoes ==
  ASSUME IsSong(song), NEW R, NEW p \in Players(R), NEW pos \in Nat
  PROVE  LET q == SetNewPosition(p, pos) IN
         /\ q \in Players(R)
         /\ q.row = p.row /\ q.nextRow = p.nextRow /\ q.brk = p.brk /\ q.jump = p.jump
         /\ q.haltFlag = p.haltFlag
         /\ Follows(p, q)
<1> DEFINE asked == QueuedPosition(p, pos)
           to == IF asked >= song.ordnum THEN song.restart ELSE asked
           e == PatternEndReached(p)
           q == SetNewPosition(p, pos)
<1>0. asked \in Nat
  BY QueuedPositionType
<1>1. to \in Positions
  BY <1>0, SongNumbers, Numbers
<1>2. /\ e \in Players(R)
      /\ e.repeat = p.repeat /\ e.pos = p.pos /\ e.row = p.row /\ e.nextRow = p.nextRow
      /\ e.brk = p.brk /\ e.jump = p.jump /\ e.haltFlag = p.haltFlag /\ e.loop = p.loop
      /\ e.nextOrder = None
      /\ p.nextOrder = None /\ p.nextPattern = None => e = p
  BY PatternEndReachedDoes
<1>3. q = IF asked = p.pos THEN e ELSE [e EXCEPT !.pos = to, !.loop = NoLoops(to)]
  BY DEF SetNewPosition
<1>4. song.restart < song.ordnum => to < song.ordnum
  BY <1>0, SongNumbers
<1> HIDE DEF e, q, asked, to
<1>5. CASE asked = p.pos
  <2>1. q = e
    BY <1>3, <1>5
  <2>2. Exported(p) => Exported(q)
    BY <1>2, <2>1 DEF Exported
  <2>3. InList(p) => InList(q)
    BY <1>2, <2>1 DEF InList
  <2>4. Follows(p, q)
    BY <1>2, <2>1, <2>2, <2>3 DEF Follows
  <2> QED BY <1>2, <2>1, <2>4 DEF q
<1>6. CASE asked # p.pos
  <2>1. q = [e EXCEPT !.pos = to, !.loop = NoLoops(to)]
    BY <1>3, <1>6
  <2>0. NoLoops(to) \in [Chan -> Loops]
    BY <1>1, NoLoopsType
  <2>2. q \in Players(R)
    <3>1. e \in Players(R)
      BY <1>2
    <3> QED BY <1>1, <2>0, <2>1, <3>1 DEF Players
  <2>3. /\ q.repeat = p.repeat /\ q.pos = to /\ q.row = p.row /\ q.nextRow = p.nextRow
        /\ q.brk = p.brk /\ q.jump = p.jump /\ q.haltFlag = p.haltFlag
        /\ q.loop = NoLoops(to) /\ q.nextOrder = e.nextOrder
        /\ q.nextPattern = e.nextPattern /\ q.pattern = e.pattern
    BY <1>2, <2>1 DEF Players
  <2>4. Exported(p) => Exported(q)
    BY <1>1, <1>2, <2>3, NoLoopsType DEF Exported
  <2>5. song.restart < song.ordnum => InList(q)
    BY <1>2, <1>4, <2>3 DEF InList
  <2>6. Follows(p, q)
    BY <2>3, <2>4, <2>5 DEF Follows
  <2> QED BY <2>2, <2>3, <2>6 DEF q
<1> QED BY <1>5, <1>6

-----------------------------------------------------------------------------
(* The effects of a row. *)

\* doEffect stays at its row and position; a loop mark is one of this position.
DoesEffects(p, q) ==
  /\ q.repeat = p.repeat /\ q.pos = p.pos /\ q.row = p.row /\ q.pattern = p.pattern
  /\ q.nextOrder = p.nextOrder /\ q.nextPattern = p.nextPattern
  /\ \A c \in Chan : q.loop[c].valid \in {p.loop[c].valid, p.pos}

LEMMA PatternLoopDoes ==
  ASSUME NEW p \in Players(Nat), NEW c \in Chan, NEW times \in Nat
  PROVE  /\ PatternLoop(p, c, times) \in Players(Nat)
         /\ DoesEffects(p, PatternLoop(p, c, times))
<1> DEFINE l == p.loop[c]
           q == PatternLoop(p, c, times)
<1>0. l \in Loops /\ p.row \in Nat /\ p.pos \in Positions /\ NoLoop(p.pos) \in Loops
  BY DEF Players, NoLoop, Loops
<1>1. CASE times = 0
  <2> DEFINE m == [l EXCEPT !.exec = FALSE, !.start = p.row, !.valid = p.pos]
  <2>1. m \in Loops /\ m.valid = p.pos
    BY <1>0 DEF Loops
  <2>2. q = [p EXCEPT !.loop[c] = m]
    BY <1>1 DEF PatternLoop
  <2> HIDE DEF m, q
  <2>3. q \in Players(Nat) /\ DoesEffects(p, q)
    BY <2>1, <2>2 DEF Players, DoesEffects
  <2> QED BY <2>3 DEF q
<1>2. CASE times # 0 /\ l.count = times
  <2>1. q = [p EXCEPT !.loop[c] = NoLoop(p.pos),
                      !.nextRow = IF song.ft2 THEN l.start ELSE p.nextRow]
    BY <1>2 DEF PatternLoop
  <2>2. (IF song.ft2 THEN l.start ELSE p.nextRow) \in Nat \union {None}
    BY <1>0 DEF Players, Loops
  <2>3. NoLoop(p.pos).valid = p.pos
    BY DEF NoLoop
  <2> HIDE DEF q
  <2>4. q \in Players(Nat) /\ DoesEffects(p, q)
    BY <1>0, <2>1, <2>2, <2>3 DEF Players, DoesEffects
  <2> QED BY <2>4 DEF q
<1>3. CASE times # 0 /\ l.count # times
  <2> DEFINE m == [l EXCEPT !.exec = TRUE, !.count = l.count + 1]
  <2>1. m \in Loops /\ m.valid = l.valid
    <3> HIDE DEF l
    <3>1. l.count + 1 \in Nat
      BY <1>0 DEF Loops
    <3> QED BY <1>0, <3>1 DEF Loops
  <2>2. q = [p EXCEPT !.loop[c] = m]
    BY <1>3 DEF PatternLoop
  <2> HIDE DEF m, q
  <2>3. q \in Players(Nat) /\ DoesEffects(p, q)
    BY <2>1, <2>2 DEF Players, DoesEffects
  <2> QED BY <2>3 DEF q
<1> QED BY <1>1, <1>2, <1>3

LEMMA DoEffectDoes ==
  ASSUME NEW p \in Players(Nat), NEW c \in Chan, NEW e \in Effects
  PROVE  DoEffect(p, c, e) \in Players(Nat) /\ DoesEffects(p, DoEffect(p, c, e))
<1> DEFINE q == DoEffect(p, c, e)
<1>0. /\ e.op \in {"none", "jump", "break", "loop", "delay", "stop"}
      /\ e.arg \in Nat /\ e.row \in Nat /\ c \in Nat
  BY Numbers DEF Effects
<1>1. CASE e.op = "none"
  BY <1>1 DEF DoEffect, DoesEffects
<1>2. CASE e.op = "jump"
  BY <1>0, <1>2 DEF DoEffect, DoesEffects, Players
<1>3. CASE e.op = "break"
  BY <1>0, <1>3 DEF DoEffect, DoesEffects, Players
<1>4. CASE e.op = "loop"
  BY <1>0, <1>4, PatternLoopDoes DEF DoEffect
<1>5. CASE e.op = "delay"
  <2>1. TickSpeed * (e.arg + 1) \in Nat
    BY <1>0, Numbers
  <2> QED BY <1>5, <2>1 DEF DoEffect, DoesEffects, Players
<1>6. CASE e.op = "stop"
  BY <1>6 DEF DoEffect, DoesEffects, Players
<1> QED BY <1>0, <1>1, <1>2, <1>3, <1>4, <1>5, <1>6

\* One step of the walk over the channels, g being the players so far.
Walked(p, i, g, c) == IF c = 0 THEN p ELSE DoEffect(g[c - 1], c, Slot(i, p.row, c))

\* The walk is defined for any number of channels.
LEMMA WalkExists ==
  ASSUME NEW p, NEW i, NEW n \in Nat
  PROVE  \E g : g = [c \in 0 .. n |-> Walked(p, i, g, c)]
<1> DEFINE Fails == {k \in Nat : ~ \E g : g = [c \in 0 .. k |-> Walked(p, i, g, c)]}
<1>1. SUFFICES ASSUME Fails # {} PROVE FALSE
  OBVIOUS
<1>2. PICK k \in Fails : \A m \in Fails : k <= m
  BY <1>1, LeastNatural
<1>3. k \in Nat /\ ~ \E g : g = [c \in 0 .. k |-> Walked(p, i, g, c)]
  OBVIOUS
<1>4. CASE k = 0
  <2> DEFINE g == [c \in 0 .. 0 |-> p]
  <2>1. g = [c \in 0 .. 0 |-> Walked(p, i, g, c)]
    BY DEF Walked
  <2> QED BY <1>3, <1>4, <2>1
<1>5. CASE k # 0
  <2>1. k - 1 \in Nat /\ k - 1 \notin Fails
    BY <1>2, <1>3, <1>5
  <2>2. PICK h : h = [c \in 0 .. k - 1 |-> Walked(p, i, h, c)]
    BY <2>1
  <2> DEFINE g == [c \in 0 .. k |-> IF c = k THEN Walked(p, i, h, k) ELSE h[c]]
  <2>3. ASSUME NEW c \in 0 .. k PROVE g[c] = Walked(p, i, g, c)
    <3>1. c = 0 \/ g[c - 1] = h[c - 1]
      BY <1>3
    <3>2. Walked(p, i, g, c) = Walked(p, i, h, c)
      BY <3>1 DEF Walked
    <3>3. c # k => c \in 0 .. k - 1
      BY <1>3
    <3>4. c # k => h[c] = Walked(p, i, h, c)
      BY <2>2, <3>3
    <3> QED BY <3>2, <3>4
  <2>4. g = [c \in 0 .. k |-> Walked(p, i, g, c)]
    BY <2>3
  <2> QED BY <1>3, <2>4
<1> QED BY <1>4, <1>5

LEMMA EffectsAreWalk ==
  ASSUME NEW p, NEW i
  PROVE  \E g : /\ g = [c \in 0 .. Channels |-> Walked(p, i, g, c)]
                /\ DoEffects(p, i) = g[Channels]
<1> DEFINE f == CHOOSE g : g = [c \in 0 .. Channels |->
                  IF c = 0 THEN p ELSE DoEffect(g[c - 1], c, Slot(i, p.row, c))]
<1>1. DoEffects(p, i) = f[Channels]
  BY DEF DoEffects
<1>2. \E g : g = [c \in 0 .. Channels |->
                    IF c = 0 THEN p ELSE DoEffect(g[c - 1], c, Slot(i, p.row, c))]
  <2>1. PICK g : g = [c \in 0 .. Channels |-> Walked(p, i, g, c)]
    BY Numbers, WalkExists
  <2> QED BY <2>1 DEF Walked
<1>3. f = [c \in 0 .. Channels |->
             IF c = 0 THEN p ELSE DoEffect(f[c - 1], c, Slot(i, p.row, c))]
  BY <1>2
<1> HIDE DEF f
<1> QED BY <1>1, <1>3 DEF Walked

\* All the effects of a row together do what each of them may do.
LEMMA DoEffectsDoes ==
  ASSUME IsSong(song), NEW p \in Players(Nat), NEW i \in Patterns, p.row < Rows(i)
  PROVE  DoEffects(p, i) \in Players(Nat) /\ DoesEffects(p, DoEffects(p, i))
<1>1. PICK g : /\ g = [c \in 0 .. Channels |-> Walked(p, i, g, c)]
               /\ DoEffects(p, i) = g[Channels]
  BY EffectsAreWalk
<1> DEFINE Fails == {c \in 0 .. Channels : ~ (g[c] \in Players(Nat) /\ DoesEffects(p, g[c]))}
<1>2. ASSUME Fails # {} PROVE FALSE
  <2>0. Fails \subseteq Nat
    BY Numbers
  <2>1. PICK k \in Fails : \A m \in Fails : k <= m
    BY <1>2, <2>0, LeastNatural
  <2>2. /\ k \in 0 .. Channels /\ ~ (g[k] \in Players(Nat) /\ DoesEffects(p, g[k]))
        /\ g[k] = Walked(p, i, g, k)
    BY <1>1
  <2>3. CASE k = 0
    BY <2>2, <2>3 DEF Walked, DoesEffects
  <2>4. CASE k # 0
    <3>1. k - 1 \in 0 .. Channels /\ k - 1 \notin Fails /\ k \in Chan
      BY <2>1, <2>2, <2>4, Numbers DEF Chan
    <3>2. g[k - 1] \in Players(Nat) /\ DoesEffects(p, g[k - 1])
      BY <3>1
    <3> DEFINE e == Slot(i, p.row, k)
    <3>3. e \in Effects
      BY <3>1, SongNumbers DEF Players
    <3>4. g[k] = DoEffect(g[k - 1], k, e)
      BY <2>2, <2>4 DEF Walked
    <3> HIDE DEF e
    <3>5. g[k] \in Players(Nat) /\ DoesEffects(g[k - 1], g[k])
      BY <3>1, <3>2, <3>3, <3>4, DoEffectDoes
    <3>6. DoesEffects(p, g[k])
      BY <3>2, <3>5 DEF DoesEffects
    <3> QED BY <2>2, <3>5, <3>6
  <2> QED BY <2>3, <2>4
<1>3. Channels \in 0 .. Channels
  BY Numbers
<1> QED BY <1>1, <1>2, <1>3

\* A change of other members than those `Follows' is about.
Aside(p, q) ==
  /\ q.repeat = p.repeat /\ q.pos = p.pos /\ q.pattern = p.pattern
  /\ q.nextOrder = p.nextOrder /\ q.nextPattern = p.nextPattern /\ q.loop = p.loop

LEMMA FollowsAside ==
  ASSUME NEW p, NEW q, Aside(p, q)
  PROVE  Follows(p, q)
  BY DEF Follows, Exported, InList, Aside

LEMMA EffectsFollow ==
  ASSUME NEW p, NEW q, DoesEffects(p, q)
  PROVE  Follows(p, q)
  BY DEF Follows, Exported, InList, DoesEffects

\* Tick 0: the row is marked as visited and its effects are done.
LEMMA ReadRowDoes ==
  ASSUME IsSong(song), NEW p \in Players(Nat), NEW i \in Patterns, p.row < Rows(i)
  PROVE  ReadRow(p, i) \in Players(Nat) /\ Follows(p, ReadRow(p, i))
<1> DEFINE v == Visit(p)
           w == [v EXCEPT !.brk = NoBreak, !.jump = NoJump]
<1>1. v \in Players(Nat) /\ v.row = p.row /\ Follows(p, v)
  <2>1. CASE p.repeat
    BY <2>1, FollowsItself DEF Visit
  <2>2. CASE ~p.repeat
    <3>1. v = [p EXCEPT !.visited = p.visited \union {<<p.pos, p.row>>}]
      BY <2>2 DEF Visit
    <3>2. p.visited \union {<<p.pos, p.row>>} \in SUBSET (Nat \X Nat)
      BY Numbers DEF Players
    <3> HIDE DEF v
    <3>3. v \in Players(Nat)
      BY <3>1, <3>2 DEF Players
    <3>4. v.row = p.row /\ Aside(p, v)
      BY <3>1 DEF Players, Aside
    <3> QED BY <3>3, <3>4, FollowsAside
  <2> QED BY <2>1, <2>2
<1>2. NoBreak \in [on : BOOLEAN, row : Nat, chn : Nat]
  BY DEF NoBreak
<1>3. NoJump \in [on : BOOLEAN, pos : Nat, row : Nat, chn : Nat]
  BY DEF NoJump
<1> HIDE DEF v
<1>4. w \in Players(Nat)
  BY <1>1, <1>2, <1>3 DEF Players
<1>5. w.row = p.row /\ Aside(v, w)
  BY <1>1 DEF Players, Aside
<1>6. ReadRow(p, i) = DoEffects(w, i)
  BY DEF ReadRow, v
<1> HIDE DEF w
<1>7. DoEffects(w, i) \in Players(Nat) /\ Follows(w, DoEffects(w, i))
  BY <1>4, <1>5, DoEffectsDoes, EffectsFollow
<1> QED BY <1>1, <1>5, <1>6, <1>7, FollowsAside, FollowsOn

-----------------------------------------------------------------------------
(* The end of a row. *)

LEMMA BreakDoes ==
  ASSUME IsSong(song), NEW p \in Players(Nat)
  PROVE  Break(p) \in Players(RowsOrBefore) /\ Follows(p, Break(p))
<1>1. CASE ~p.brk.on
  BY <1>1, FollowsItself DEF Break, Players, RowsOrBefore
<1>2. CASE p.brk.on
  <2> DEFINE next == IF p.pos < song.ordnum - 1 THEN p.pos + 1 ELSE song.restart
             q == IF p.jump.on /\ ~JumpWins(p) THEN p ELSE SetNewPosition(p, next)
             r == [q EXCEPT !.row = p.brk.row - 1, !.nextRow = None]
  <2>1. next \in Nat
    BY SongNumbers, Numbers DEF Players
  <2> HIDE DEF next
  <2>2. q \in Players(Nat) /\ Follows(p, q)
    BY <2>1, SetNewPositionDoes, FollowsItself
  <2>3. p.brk.row - 1 \in RowsOrBefore
    BY DEF Players, RowsOrBefore
  <2> HIDE DEF q
  <2>4. r \in Players(RowsOrBefore)
    BY <2>2, <2>3 DEF Players
  <2>5. Aside(q, r)
    BY <2>2 DEF Players, Aside
  <2>6. Break(p) = r
    BY <1>2 DEF Break, q, next
  <2> HIDE DEF r
  <2> QED BY <2>2, <2>4, <2>5, <2>6, FollowsAside, FollowsOn
<1> QED BY <1>1, <1>2

LEMMA JumpDoes ==
  ASSUME IsSong(song), NEW p \in Players(RowsOrBefore)
  PROVE  Jump(p) \in Players(RowsOrBefore) /\ Follows(p, Jump(p))
<1>1. CASE ~p.jump.on
  BY <1>1, FollowsItself DEF Jump
<1>2. CASE p.jump.on
  <2> DEFINE q == IF JumpWins(p) THEN [p EXCEPT !.row = p.jump.row - 1] ELSE p
             r == SetNewPosition(q, p.jump.pos)
             t == [r EXCEPT !.nextRow = None]
  <2>1. p.jump.pos \in Nat /\ p.jump.row - 1 \in RowsOrBefore
    BY DEF Players, RowsOrBefore
  <2>2. q \in Players(RowsOrBefore)
    BY <2>1 DEF Players
  <2>3. Follows(p, q)
    <3>1. JumpWins(p) => Aside(p, q)
      BY DEF Players, Aside
    <3> QED BY <3>1, FollowsAside, FollowsItself
  <2> HIDE DEF q
  <2>4. r \in Players(RowsOrBefore) /\ Follows(q, r)
    BY <2>1, <2>2, SetNewPositionDoes
  <2> HIDE DEF r
  <2>5. t \in Players(RowsOrBefore)
    BY <2>4 DEF Players
  <2>6. Aside(r, t)
    BY <2>4 DEF Players, Aside
  <2>7. Jump(p) = t
    BY <1>2 DEF Jump, q, r
  <2> HIDE DEF t
  <2> QED BY <2>3, <2>4, <2>5, <2>6, <2>7, FollowsAside, FollowsOn
<1> QED BY <1>1, <1>2

\* A queued order ends the playing of a single pattern, which only a player of
\* the editor does.
LEMMA SingleGoesOn ==
  ASSUME NEW R, NEW p \in Players(R), p.pattern # None,
         NEW q, q.repeat = p.repeat, q.pos = QueuedPosition(p, p.pos), q.nextOrder = None
  PROVE  Follows(p, q)
<1>1. Exported(p) => Exported(q)
  BY DEF Exported
<1>2. InList(p) => InList(q)
  BY DEF InList, QueuedPosition
<1> QED BY <1>1, <1>2 DEF Follows

LEMMA BeginAgainDoes ==
  ASSUME NEW p \in Players(Nat), p.pattern # None
  PROVE  BeginAgain(p) \in Players(RowsOrBefore) /\ Follows(p, BeginAgain(p))
<1> DEFINE e == PatternEndReached(p)
           to == QueuedPosition(p, p.pos)
           q == [e EXCEPT !.row = -1, !.nextRow = None, !.pos = to]
<1>1. e \in Players(Nat) /\ e.repeat = p.repeat /\ e.nextOrder = None
  BY PatternEndReachedDoes
<1>2. to \in Positions
  BY QueuedPositionType, Numbers DEF Players
<1>3. BeginAgain(p) = q
  BY DEF BeginAgain
<1>4. -1 \in RowsOrBefore
  BY DEF RowsOrBefore
<1> HIDE DEF e, to
<1>5. q \in Players(RowsOrBefore)
  BY <1>1, <1>2, <1>4 DEF Players
<1>6. q.repeat = p.repeat /\ q.pos = QueuedPosition(p, p.pos) /\ q.nextOrder = None
  BY <1>1 DEF Players, to
<1> HIDE DEF q
<1> QED BY <1>3, <1>5, <1>6, SingleGoesOn

\* The last of the channels that loop.
LEMMA LastOne ==
  ASSUME NEW p, Executing(p) # {}
  PROVE  LastExecuting(p) \in Executing(p)
<1> DEFINE behind == {Channels - c : c \in Executing(p)}
<1>1. \A c \in Executing(p) : c \in Nat /\ c <= Channels
  BY Numbers DEF Executing, Chan
<1>2. behind \subseteq Nat /\ behind # {}
  BY <1>1, Numbers
<1>3. PICK n \in behind : \A m \in behind : n <= m
  BY <1>2, LeastNatural
<1>4. PICK c \in Executing(p) : n = Channels - c
  BY <1>3
<1>5. \A d \in Executing(p) : d <= c
  <2> TAKE d \in Executing(p)
  <2>1. Channels - c <= Channels - d
    BY <1>3, <1>4
  <2> QED BY <1>1, <2>1, Numbers
<1> QED BY <1>5 DEF LastExecuting

LEMMA ExecLoopsDoes ==
  ASSUME NEW p \in Players(RowsOrBefore)
  PROVE  ExecLoops(p) \in Players(RowsOrBefore) /\ Follows(p, ExecLoops(p))
<1>1. CASE Executing(p) = {}
  BY <1>1, FollowsItself DEF ExecLoops
<1>2. CASE Executing(p) # {}
  <2> DEFINE row == p.loop[LastExecuting(p)].start - 1
             loop == [c \in Chan |-> IF c \in Executing(p)
                                     THEN [p.loop[c] EXCEPT !.exec = FALSE, !.looping = TRUE]
                                     ELSE p.loop[c]]
             q == [p EXCEPT !.row = row, !.loop = loop]
  <2>1. row \in RowsOrBefore
    <3>1. LastExecuting(p) \in Chan
      BY <1>2, LastOne DEF Executing
    <3>2. p.loop[LastExecuting(p)] \in Loops
      BY <3>1 DEF Players
    <3>3. p.loop[LastExecuting(p)].start \in Nat
      BY <3>2 DEF Loops
    <3> QED BY <3>3 DEF RowsOrBefore
  <2>2. ASSUME NEW c \in Chan PROVE loop[c] \in Loops /\ loop[c].valid = p.loop[c].valid
    <3>1. p.loop[c] \in Loops
      BY DEF Players
    <3> QED BY <3>1 DEF Loops
  <2>3. ExecLoops(p) = q
    BY <1>2 DEF ExecLoops
  <2>4. loop \in [Chan -> Loops]
    BY <2>2
  <2> HIDE DEF row, loop
  <2>5. q \in Players(RowsOrBefore)
    BY <2>1, <2>4 DEF Players
  <2>6. /\ q.repeat = p.repeat /\ q.pos = p.pos /\ q.pattern = p.pattern
        /\ q.nextOrder = p.nextOrder /\ q.nextPattern = p.nextPattern /\ q.loop = loop
    BY DEF Players
  <2> HIDE DEF q
  <2>7. Follows(p, q)
    BY <2>2, <2>6 DEF Follows, Exported, InList
  <2> QED BY <2>3, <2>5, <2>7
<1> QED BY <1>1, <1>2

LEMMA HaltDoes ==
  ASSUME NEW p \in Players(Nat)
  PROVE  Halt(p) \in Players(Nat) /\ Follows(p, Halt(p))
<1>1. Halt(p) \in Players(Nat)
  BY DEF Halt, Players
<1>2. Aside(p, Halt(p))
  BY DEF Halt, Players, Aside
<1> QED BY <1>1, <1>2, FollowsAside

LEMMA NextRowDoes ==
  ASSUME IsSong(song), NEW p \in Players(Nat), NEW i \in Patterns
  PROVE  NextRow(p, i) \in Players(Nat) /\ Follows(p, NextRow(p, i))
<1> DEFINE first == [p EXCEPT !.row = IF p.nextRow # None THEN p.nextRow ELSE 0,
                              !.nextRow = None]
           again == [first EXCEPT !.row = 0, !.loop = NoLoops(p.pos)]
           to == QueuedPosition(p, p.pos)
           single == [PatternEndReached(again) EXCEPT !.pos = to]
           after == CASE p.row < Rows(i)     -> p
                      [] p.row >= Rows(i) /\ p.pattern = None ->
                           SetNewPosition(first, p.pos + 1)
                      [] OTHER -> single
<1>0. /\ p.row \in Nat /\ p.pos \in Positions /\ p.pos + 1 \in Nat /\ Rows(i) \in Nat
      /\ p.nextRow \in Nat \union {None} /\ p.pattern \in Patterns \union {None}
  BY SongNumbers, Numbers DEF Players
<1>1. NextRow(p, i) =
        IF p.row >= Rows(i) /\ p.pattern # None /\ ~p.repeat THEN Halt(first)
        ELSE IF p.haltFlag THEN Halt(after) ELSE after
  BY DEF NextRow
<1>2. first \in Players(Nat)
  <2>1. (IF p.nextRow # None THEN p.nextRow ELSE 0) \in Nat
    BY <1>0
  <2> QED BY <2>1 DEF Players
<1>3. Aside(p, first)
  BY DEF Players, Aside
<1>4. /\ first.repeat = p.repeat /\ first.nextOrder = p.nextOrder
  BY DEF Players
<1> HIDE DEF first
<1>5. again \in Players(Nat)
  <2>1. NoLoops(p.pos) \in [Chan -> Loops]
    BY <1>0, NoLoopsType
  <2> QED BY <1>2, <2>1 DEF Players
<1>6. again.repeat = p.repeat
  BY <1>2, <1>4 DEF Players
<1> HIDE DEF again
<1>7. to \in Positions
  BY <1>0, QueuedPositionType, Numbers
<1>8. PatternEndReached(again) \in Players(Nat) /\ PatternEndReached(again).repeat = p.repeat
      /\ PatternEndReached(again).nextOrder = None
  BY <1>5, <1>6, PatternEndReachedDoes
<1> HIDE DEF to
<1>9. single \in Players(Nat) /\ single.repeat = p.repeat /\ single.pos = to
      /\ single.nextOrder = None
  BY <1>7, <1>8 DEF Players
<1> HIDE DEF single
<1>10. after \in Players(Nat) /\ Follows(p, after)
  <2>1. CASE p.row < Rows(i)
    <3>1. ~(p.row >= Rows(i))
      BY <1>0, <2>1
    <3>2. after = p
      BY <2>1, <3>1
    <3> HIDE DEF after
    <3> QED BY <3>2, FollowsItself
  <2>2. CASE ~(p.row < Rows(i)) /\ p.pattern = None
    <3>0. p.row >= Rows(i)
      BY <1>0, <2>2
    <3>1. after = SetNewPosition(first, p.pos + 1)
      BY <2>2, <3>0
    <3> HIDE DEF after
    <3> QED BY <1>0, <1>2, <1>3, <3>1, SetNewPositionDoes, FollowsAside, FollowsOn
  <2>3. CASE ~(p.row < Rows(i)) /\ p.pattern # None
    <3>1. after = single
      BY <1>0, <2>3
    <3> HIDE DEF after
    <3>2. Follows(p, single)
      BY <1>9, <2>3, SingleGoesOn DEF to
    <3> QED BY <1>9, <3>1, <3>2
  <2> QED BY <2>1, <2>2, <2>3
<1> HIDE DEF after
<1>11. Halt(first) \in Players(Nat) /\ Follows(p, Halt(first))
  BY <1>2, <1>3, HaltDoes, FollowsAside, FollowsOn
<1>12. Halt(after) \in Players(Nat) /\ Follows(p, Halt(after))
  BY <1>10, HaltDoes, FollowsOn
<1> QED BY <1>1, <1>10, <1>11, <1>12

LEMMA PatternNowType ==
  ASSUME IsSong(song), NEW p \in Players(Nat)
  PROVE  PatternNow(p) \in Patterns
  BY SongNumbers DEF PatternNow, Players

LEMMA EndRowDoes ==
  ASSUME IsSong(song), NEW p \in Players(Nat), NEW i \in Patterns
  PROVE  EndRow(p, i) \in Players(Nat) /\ Follows(p, EndRow(p, i))
<1> DEFINE q == [p EXCEPT !.ticker = 0, !.delay = 0]
           moved == IF q.pattern = None THEN Jump(Break(q))
                    ELSE IF q.jump.on \/ q.brk.on THEN BeginAgain(q) ELSE q
           looped == ExecLoops(moved)
           next == [looped EXCEPT !.row = @ + 1]
           halted == [q EXCEPT !.clock = FALSE]
           j == IF q.pattern = None THEN song.ord[looped.pos] ELSE i
<1>1. EndRow(p, i) = IF q.only THEN halted ELSE NextRow(next, j)
  BY DEF EndRow
<1>2. q \in Players(Nat)
  BY DEF Players
<1>3. Aside(p, q)
  BY DEF Players, Aside
<1> HIDE DEF q
<1>4. halted \in Players(Nat)
  BY <1>2 DEF Players
<1>5. Aside(q, halted)
  BY <1>2 DEF Players, Aside
<1>6. moved \in Players(RowsOrBefore) /\ Follows(q, moved)
  <2>1. CASE q.pattern = None
    <3>1. Break(q) \in Players(RowsOrBefore) /\ Follows(q, Break(q))
      BY <1>2, BreakDoes
    <3>2. Jump(Break(q)) \in Players(RowsOrBefore) /\ Follows(Break(q), Jump(Break(q)))
      BY <3>1, JumpDoes
    <3> QED BY <2>1, <3>1, <3>2, FollowsOn
  <2>2. CASE q.pattern # None /\ (q.jump.on \/ q.brk.on)
    BY <1>2, <2>2, BeginAgainDoes
  <2>3. CASE q.pattern # None /\ ~(q.jump.on \/ q.brk.on)
    <3>1. moved = q
      BY <2>3
    <3>2. q \in Players(RowsOrBefore)
      BY <1>2 DEF Players, RowsOrBefore
    <3> QED BY <3>1, <3>2, FollowsItself
  <2> QED BY <2>1, <2>2, <2>3
<1> HIDE DEF moved
<1>7. looped \in Players(RowsOrBefore) /\ Follows(moved, looped)
  BY <1>6, ExecLoopsDoes
<1> HIDE DEF looped
<1>8. next \in Players(Nat)
  <2>1. looped.row + 1 \in Nat
    BY <1>7 DEF Players, RowsOrBefore
  <2> QED BY <1>7, <2>1 DEF Players
<1>9. Aside(looped, next)
  BY <1>7 DEF Players, Aside
<1>10. j \in Patterns
  <2>1. looped.pos \in Positions
    BY <1>7 DEF Players
  <2> QED BY <2>1, SongNumbers
<1> HIDE DEF next, halted, j
<1>11. NextRow(next, j) \in Players(Nat) /\ Follows(next, NextRow(next, j))
  BY <1>8, <1>10, NextRowDoes
<1>12. Follows(p, halted)
  BY <1>3, <1>5, FollowsAside, FollowsOn
<1>13. Follows(p, moved)
  BY <1>3, <1>6, FollowsAside, FollowsOn
<1>14. Follows(moved, next)
  BY <1>7, <1>9, FollowsAside, FollowsOn
<1>15. Follows(p, NextRow(next, j))
  BY <1>11, <1>13, <1>14, FollowsOn
<1> QED BY <1>1, <1>4, <1>11, <1>12, <1>15

-----------------------------------------------------------------------------
(* The steps. *)

LEMMA TickedDoes ==
  ASSUME IsSong(song), NEW p \in Players(Nat), NEW i \in Patterns
  PROVE  Ticked(p, i) \in Players(Nat) /\ Follows(p, Ticked(p, i))
<1>1. CASE p.ticker + 1 >= MaxTicks(p)
  BY <1>1, EndRowDoes DEF Ticked
<1>2. CASE ~(p.ticker + 1 >= MaxTicks(p))
  <2> DEFINE q == [p EXCEPT !.ticker = @ + 1]
  <2>1. Ticked(p, i) = q
    BY <1>2 DEF Ticked
  <2>2. p.ticker + 1 \in Nat
    BY DEF Players
  <2>3. q \in Players(Nat)
    BY <2>2 DEF Players
  <2>4. Aside(p, q)
    BY DEF Players, Aside
  <2> HIDE DEF q
  <2> QED BY <2>1, <2>3, <2>4, FollowsAside
<1> QED BY <1>1, <1>2

LEMMA BegunDoes ==
  ASSUME NEW p \in Players(Nat)
  PROVE  /\ Begun(p) \in Players(Nat) /\ Aside(p, Begun(p))
         /\ Begun(p).row = IF p.pattern # None /\ RowIsGone(p) THEN 0 ELSE p.row
<1>1. CASE p.pattern # None /\ RowIsGone(p)
  <2> DEFINE q == [p EXCEPT !.row = 0, !.ticker = 0]
  <2>1. Begun(p) = q
    BY <1>1 DEF Begun
  <2>2. q \in Players(Nat) /\ q.row = 0
    BY DEF Players
  <2>3. Aside(p, q)
    BY DEF Players, Aside
  <2> HIDE DEF q
  <2> QED BY <1>1, <2>1, <2>2, <2>3
<1>2. CASE ~(p.pattern # None /\ RowIsGone(p))
  <2>1. Begun(p) = p
    BY <1>2 DEF Begun
  <2> QED BY <1>2, <2>1 DEF Aside
<1> QED BY <1>1, <1>2

\* Wherever the player is, a row that it plays is one of the pattern's.
LEMMA RowIsThere ==
  ASSUME SeqInv, ~NothingToPlay(player), player.pattern = None => ~RowIsGone(player),
         NEW p, p = Begun(player)
  PROVE  p.row < Rows(PatternNow(p))
<1>1. player \in Players(Nat) /\ IsSong(song)
  BY DEF SeqInv
<1>2. PatternNow(p) = PatternNow(player)
  BY <1>1, BegunDoes DEF Aside, PatternNow
<1>3. PatternNow(player) \in Patterns
  BY <1>1, PatternNowType
<1>4. Rows(PatternNow(player)) \in Nat /\ Rows(PatternNow(player)) # 0 /\ player.row \in Nat
  BY <1>1, <1>3, SongNumbers DEF NothingToPlay, Players
<1>5. p.row = IF player.pattern # None /\ RowIsGone(player) THEN 0 ELSE player.row
  BY <1>1, BegunDoes
<1>6. ~RowIsGone(player) => player.row < Rows(PatternNow(player))
  BY <1>4 DEF RowIsGone
<1> QED BY <1>2, <1>4, <1>5, <1>6

LEMMA TickDoes ==
  ASSUME SeqInv, Tick
  PROVE  player' \in Players(Nat) /\ Follows(player, player')
<1>0. player \in Players(Nat) /\ IsSong(song)
  BY DEF SeqInv
<1>1. CASE TickIdle
  BY <1>0, <1>1, FollowsItself DEF TickIdle
<1>2. CASE TickHalts
  BY <1>0, <1>2, HaltDoes DEF TickHalts
<1>3. CASE TickSkips
  <2> DEFINE p == [player EXCEPT !.ticker = 0]
  <2>1. player' = NextRow(p, PatternNow(player))
    BY <1>3 DEF TickSkips
  <2>2. p \in Players(Nat)
    BY <1>0 DEF Players
  <2>3. Aside(player, p)
    BY <1>0 DEF Players, Aside
  <2> HIDE DEF p
  <2> QED BY <1>0, <2>1, <2>2, <2>3, PatternNowType, NextRowDoes, FollowsAside, FollowsOn
<1>4. CASE TickEndsSong
  BY <1>0, <1>4, BegunDoes, HaltDoes, FollowsAside, FollowsOn DEF TickEndsSong
<1>5. CASE TickPlays
  <2>0. PICK p \in {Begun(player)} :
          \E q \in {RowBegun(p, PatternNow(p))} : player' = Ticked(q, PatternNow(p))
    BY <1>5 DEF TickPlays
  <2>1. PICK q \in {RowBegun(p, PatternNow(p))} : player' = Ticked(q, PatternNow(p))
    BY <2>0
  <2>2. p \in Players(Nat) /\ Follows(player, p)
    BY <1>0, <2>1, BegunDoes, FollowsAside
  <2>3. PatternNow(p) \in Patterns
    BY <1>0, <2>2, PatternNowType
  <2>4. p.row < Rows(PatternNow(p))
    BY <1>5, <2>1, RowIsThere DEF TickPlays
  <2>5. q \in Players(Nat) /\ Follows(p, q)
    BY <1>0, <2>1, <2>2, <2>3, <2>4, ReadRowDoes, FollowsItself DEF RowBegun
  <2>6. player' \in Players(Nat) /\ Follows(q, player')
    BY <1>0, <2>1, <2>3, <2>5, TickedDoes
  <2> QED BY <2>2, <2>5, <2>6, FollowsOn
<1> QED BY <1>1, <1>2, <1>3, <1>4, <1>5 DEF Tick

\* What the editor starts is a player at a row of the song.
LEMMA RestartDoes ==
  ASSUME NEW p \in Players(Nat), NEW pos \in Positions, NEW row \in Nat, NEW only \in BOOLEAN
  PROVE  /\ Restart(Dequeued(p), pos, row, only) \in Players(Nat)
         /\ Restart(Dequeued(p), pos, row, only).repeat = p.repeat
<1> DEFINE d == Dequeued(p)
           v == Visited(d, pos, row)
<1>1. d \in Players(Nat) /\ d.repeat = p.repeat
  BY DEF Dequeued, Players
<1>2. v \in SUBSET (Nat \X Nat)
  <2>1. RowsBefore(pos, row) \subseteq Nat \X Nat
    <3>1. 0 .. pos - 1 \subseteq Nat /\ 0 .. 255 \subseteq Nat /\ 0 .. row - 1 \subseteq Nat
      BY Numbers
    <3>2. {pos} \subseteq Nat
      BY Numbers
    <3> HIDE DEF d, v
    <3> QED BY <3>1, <3>2 DEF RowsBefore
  <2> QED BY <2>1 DEF Visited
<1>3. NoLoops(pos) \in [Chan -> Loops]
  BY NoLoopsType
<1> HIDE DEF d
<1> HIDE DEF v
<1> DEFINE a == [d EXCEPT !.pos = pos, !.row = row, !.ticker = 0, !.delay = 0]
           b == [a EXCEPT !.nextRow = None, !.loop = NoLoops(pos), !.haltFlag = FALSE,
                          !.halted = FALSE]
           c == [b EXCEPT !.clock = TRUE, !.only = only, !.visited = v]
<1>4. Restart(d, pos, row, only) = c
  BY DEF Restart, v
<1>5. a \in Players(Nat) /\ a.repeat = p.repeat
  BY <1>1 DEF Players
<1> HIDE DEF a
<1>6. b \in Players(Nat) /\ b.repeat = p.repeat
  BY <1>3, <1>5 DEF Players
<1> HIDE DEF b
<1>7. c \in Players(Nat) /\ c.repeat = p.repeat
  BY <1>2, <1>6 DEF Players
<1> HIDE DEF c
<1> QED BY <1>4, <1>7 DEF d

\* The editor leaves an export alone; its own player stays its own.
LEMMA EditorDoes ==
  ASSUME SeqInv, Editor
  PROVE  SeqInv' /\ player'.repeat
<1>0. player \in Players(Nat) /\ IsSong(song) /\ Exported(player)
      /\ moving \in Nat \union {None} /\ (~player.repeat => moving = None)
  BY DEF SeqInv
<1>p. /\ \A o \in SongPositions : o \in Positions
      /\ \A r \in StartRows : r \in Nat
  <2>1. \A o \in SongPositions : o \in Nat /\ o < song.ordnum
    BY <1>0, SongNumbers DEF SongPositions
  <2> QED BY <1>0, <2>1, SongNumbers, SequencerAssumption DEF SequencerAssumption
\* every command leaves the editor a player of its own
<1>s. ASSUME player' \in Players(Nat), player'.repeat, IsSong(song'), moving' \in Nat \union {None}
      PROVE  SeqInv' /\ player'.repeat
  BY <1>s DEF SeqInv, Exported
<1>1. CASE MoveToRow
  <2>1. /\ player' = [player EXCEPT !.row = moving] /\ moving \in Nat /\ player.repeat = TRUE
        /\ moving' = None /\ song' = song
    BY <1>0, <1>1 DEF MoveToRow, Players
  <2>2. player' \in Players(Nat) /\ player'.repeat
    BY <1>0, <2>1 DEF Players
  <2> QED BY <1>0, <1>s, <2>1, <2>2
<1>2. CASE player.repeat /\ Plays
  <2>1. PICK o \in SongPositions, r \in StartRows :
          PlaySong(o, r) \/ \E i \in Patterns, only \in BOOLEAN : PlayPattern(i, o, r, only)
    BY <1>2 DEF Plays
  <2>2. o \in Positions /\ r \in Nat
    BY <1>p
  <2>3. ASSUME NEW i \in Patterns \union {None}, NEW only \in BOOLEAN,
               player' = [Restart(Dequeued(player), o, r, only)
                            EXCEPT !.pattern = i, !.idle = FALSE],
               EditorOnly
        PROVE  SeqInv' /\ player'.repeat
    <3> DEFINE q == Restart(Dequeued(player), o, r, only)
    <3>1. q \in Players(Nat) /\ q.repeat = TRUE
      BY <1>0, <1>2, <2>2, RestartDoes DEF Players
    <3>2. player' = [q EXCEPT !.pattern = i, !.idle = FALSE]
      BY <2>3
    <3> HIDE DEF q
    <3>3. player' \in Players(Nat) /\ player'.repeat
      BY <3>1, <3>2 DEF Players
    <3> QED BY <1>0, <1>s, <2>3, <3>3 DEF EditorOnly
  <2> QED BY <2>1, <2>3 DEF PlaySong, PlayPattern
<1>3. CASE player.repeat /\ Stop
  <2> DEFINE q == Restart(Dequeued(player), 0, 0, FALSE)
  <2>1. q \in Players(Nat) /\ q.repeat = TRUE
    BY <1>0, <1>3, RestartDoes, Numbers DEF Players
  <2>2. player' = [q EXCEPT !.idle = TRUE]
    BY <1>3 DEF Stop
  <2> HIDE DEF q
  <2>3. player' \in Players(Nat) /\ player'.repeat
    BY <2>1, <2>2 DEF Players
  <2> QED BY <1>0, <1>3, <1>s, <2>3 DEF Stop, EditorOnly
<1>4. CASE player.repeat /\ \E o \in SongPositions, r \in StartRows : MoveToOrder(o, r)
  <2>1. PICK o \in SongPositions, r \in StartRows : MoveToOrder(o, r)
    BY <1>4
  <2>2. o \in Positions /\ r \in Nat
    BY <1>p
  <2>3. player' \in Players(Nat) /\ player'.repeat
    BY <1>0, <1>4, <2>1, <2>2 DEF MoveToOrder, Players
  <2> QED BY <1>0, <1>s, <2>1, <2>2, <2>3 DEF MoveToOrder
<1>5. CASE player.repeat /\ SetSpeed
  <2>1. player' \in Players(Nat) /\ player'.repeat
    BY <1>0, <1>5 DEF SetSpeed, Players
  <2> QED BY <1>0, <1>5, <1>s, <2>1 DEF SetSpeed, EditorOnly
<1>6. CASE player.repeat /\ Queues
  <2>1. ASSUME NEW o \in Positions \union {None}, NEW i \in Patterns \union {None},
               player' = [player EXCEPT !.nextOrder = o, !.nextPattern = i], EditorOnly
        PROVE  SeqInv' /\ player'.repeat
    <3>1. player' \in Players(Nat) /\ player'.repeat
      BY <1>0, <1>6, <2>1 DEF Players
    <3> QED BY <1>0, <1>s, <2>1, <3>1 DEF EditorOnly
  <2>2. ASSUME NEW o \in SongPositions, QueueOrder(o) PROVE SeqInv' /\ player'.repeat
    BY <1>p, <2>1, <2>2 DEF QueueOrder
  <2>3. ASSUME NEW i \in Patterns, QueuePattern(i) PROVE SeqInv' /\ player'.repeat
    BY <2>1, <2>3 DEF QueuePattern
  <2> QED BY <1>6, <2>2, <2>3 DEF Queues
<1>7. CASE player.repeat /\ \E s \in EditSongs \ {song} : EditSong(s)
  BY <1>0, <1>7, <1>s, SongsAssumption DEF EditSong
<1> QED BY <1>1, <1>2, <1>3, <1>4, <1>5, <1>6, <1>7 DEF Editor

LEMMA SeqInit == Init => SeqInv
<1> SUFFICES ASSUME Init PROVE SeqInv
  OBVIOUS
<1>1. IsSong(song) /\ moving = None
  BY SongsAssumption DEF Init
<1>2. PICK repeat \in BOOLEAN : player = NewPlayer(repeat)
  BY DEF Init
<1>3. NoLoops(0) \in [Chan -> Loops] /\ \A c \in Chan : NoLoops(0)[c].valid = 0
  BY NoLoopsType, Numbers
<1>4. NewPlayer(repeat) \in Players(Nat)
  BY <1>3, Numbers DEF NewPlayer, Players, NoBreak, NoJump
<1>5. Exported(NewPlayer(repeat))
  BY <1>3 DEF Exported, NewPlayer
<1> QED BY <1>1, <1>2, <1>4, <1>5 DEF SeqInv

LEMMA SeqNext == SeqInv /\ [Next]_vars => SeqInv'
<1> SUFFICES ASSUME SeqInv, [Next]_vars PROVE SeqInv'
  OBVIOUS
<1>1. CASE Tick
  <2>1. player' \in Players(Nat) /\ Follows(player, player')
    BY <1>1, TickDoes
  <2>2. song' = song /\ moving' = moving
    BY <1>1 DEF Tick, TickIdle, TickHalts, TickSkips, TickEndsSong, TickPlays
  <2> QED BY <2>1, <2>2 DEF SeqInv, Follows, Exported
<1>2. CASE Editor
  BY <1>2, EditorDoes
<1>3. CASE UNCHANGED vars
  BY <1>3 DEF vars, SeqInv, Exported
<1> QED BY <1>1, <1>2, <1>3 DEF Next

\* Between two ticks the player's members are of their types whatever the
\* editor has done to song and player, and an exporter's player plays the order
\* list with the loop marks of its position (tickhandler, setNewPosition).
THEOREM SequencerInvariance == Spec => []SeqInv
  BY SeqInit, SeqNext, PTL DEF Spec

-----------------------------------------------------------------------------
(* What follows. *)

\* Whatever the songs and the editor's commands, the player's members hold
\* positions of the order list, rows and counts: no break, jump, loop or queued
\* position leads tickhandler to an index before the first.
THEOREM TypeCorrect == Spec => []TypeOK
<1>1. ASSUME SeqInv PROVE TypeOK
  <2>1. player \in Players(Nat) /\ moving \in Nat \union {None}
    BY <1>1 DEF SeqInv
  <2>2. \A c \in Chan : player.loop[c] \in Loops
    BY <2>1 DEF Players
  <2> QED BY <2>1, <2>2 DEF TypeOK, Players, Loops
<1> QED BY <1>1, SequencerInvariance, PTL

\* While a song is exported the loop marks of all channels belong to the
\* position that is played (RESET_ALL_LOOPING in setNewPosition).
THEOREM LoopsBelong == Spec => []LoopsOfPosition
<1>1. SeqInv => LoopsOfPosition
  BY DEF SeqInv, Exported, LoopsOfPosition
<1> QED BY <1>1, SequencerInvariance, PTL

\* A tick reads a row its pattern has, whatever was resized, rewritten, moved
\* and queued since the last one: the sanity checks of tickhandler suffice.
THEOREM RowsAreThere == Spec => RowInPattern
<1>1. ASSUME SeqInv, Tick
      PROVE  reads' = NoRow \/ reads'.row < Len(song.pattern[reads'.pattern])
  <2>1. CASE TickPlays
    <3>1. PICK p \in {Begun(player)} : reads' = [pattern |-> PatternNow(p), row |-> p.row]
      BY <2>1 DEF TickPlays
    <3>2. p.row < Rows(PatternNow(p))
      BY <1>1, <2>1, <3>1, RowIsThere DEF TickPlays
    <3> QED BY <3>1, <3>2 DEF Rows
  <2>2. CASE TickIdle \/ TickHalts \/ TickSkips \/ TickEndsSong
    BY <2>2 DEF TickIdle, TickHalts, TickSkips, TickEndsSong
  <2> QED BY <1>1, <2>1, <2>2 DEF Tick
<1> QED BY <1>1, SequencerInvariance, PTL DEF Spec, RowInPattern

\* A song whose restart position lies inside its list goes on inside the list
\* after every row, wherever breaks, jumps, loops and the queue lead.
THEOREM StaysInSong == Spec => PositionInSong
<1>1. ASSUME SeqInv, Tick, player.pattern = None, player.pos < song.ordnum,
             song.restart < song.ordnum
      PROVE  player'.pos < song.ordnum
  BY <1>1, TickDoes DEF Follows, InList
<1> QED BY <1>1, SequencerInvariance, PTL DEF Spec, PositionInSong

-----------------------------------------------------------------------------
(* The queue. *)

\* Every row that a break, a jump or a loop leads to is one that every pattern
\* has, and no break stands before a jump in its row.
Lands(rows) ==
  \A s \in EditSongs, i \in Patterns :
    /\ rows <= Len(s.pattern[i])
    /\ \A r \in 1 .. Len(s.pattern[i]), c \in Chan :
         LET e == s.pattern[i][r][c] IN
         /\ e.op = "break" => e.arg < rows
         /\ e.op = "jump" => /\ e.row < rows
                             /\ \A d \in Chan : d < c => s.pattern[i][r][d].op # "break"
         /\ e.op = "loop" /\ e.arg = 0 => r <= rows

SongsLand == \E rows \in Nat \ {0} : Lands(rows)

\* The marks of the row and of the loops lead to such a row, and a break that
\* was met with a jump stands behind it.
Steady(rows, p) ==
  /\ p.brk.on => p.brk.row < rows
  /\ p.jump.on => p.jump.row < rows
  /\ p.brk.on /\ p.jump.on => p.jump.chn < p.brk.chn
  /\ \A c \in Chan : p.loop[c].start < rows

KnownSong == song \in EditSongs

\* Nothing is ever queued for the player of an export.
SteadyInv(rows) == SeqInv /\ (player.repeat => KnownSong /\ Steady(rows, player))

\* The song as it stands.
LEMMA SongLands ==
  ASSUME NEW rows \in Nat, Lands(rows), KnownSong, IsSong(song), NEW i \in Patterns
  PROVE  /\ Rows(i) \in Nat /\ rows <= Rows(i)
         /\ \A row \in Nat, c \in Chan : row < Rows(i) =>
              /\ Slot(i, row, c).op = "break" => Slot(i, row, c).arg < rows
              /\ Slot(i, row, c).op = "jump" =>
                   /\ Slot(i, row, c).row < rows
                   /\ \A d \in Chan : d < c => Slot(i, row, d).op # "break"
              /\ Slot(i, row, c).op = "loop" /\ Slot(i, row, c).arg = 0 => row < rows
<1>1. Rows(i) \in Nat /\ rows <= Rows(i)
  BY SongNumbers DEF KnownSong, Lands, Rows
<1>2. ASSUME NEW row \in Nat, NEW c \in Chan, row < Rows(i)
      PROVE  /\ Slot(i, row, c).op = "break" => Slot(i, row, c).arg < rows
             /\ Slot(i, row, c).op = "jump" =>
                   /\ Slot(i, row, c).row < rows
                   /\ \A d \in Chan : d < c => Slot(i, row, d).op # "break"
             /\ Slot(i, row, c).op = "loop" /\ Slot(i, row, c).arg = 0 => row < rows
  <2>1. row + 1 \in 1 .. Len(song.pattern[i]) /\ (row + 1 <= rows => row < rows)
    BY <1>1, <1>2 DEF Rows
  <2> QED BY <2>1 DEF KnownSong, Lands, Slot
<1> QED BY <1>1, <1>2

\* What Steady is about is left alone.
Undisturbed(p, q) == q.brk = p.brk /\ q.jump = p.jump /\ q.loop = p.loop

LEMMA SteadyUndisturbed ==
  ASSUME NEW rows, NEW p, NEW q, Steady(rows, p), Undisturbed(p, q)
  PROVE  Steady(rows, q)
  BY DEF Steady, Undisturbed

\* The marks the effects of a row have left are those of its slots.
Marks(rows, i, row, q) ==
  /\ q.brk.on => /\ q.brk.chn \in Chan
                 /\ Slot(i, row, q.brk.chn).op = "break"
                 /\ q.brk.row = Slot(i, row, q.brk.chn).arg
  /\ q.jump.on => /\ q.jump.chn \in Chan
                  /\ Slot(i, row, q.jump.chn).op = "jump"
                  /\ q.jump.row = Slot(i, row, q.jump.chn).row
  /\ \A c \in Chan : q.loop[c].start < rows

LEMMA PatternLoopMarks ==
  ASSUME NEW rows \in Nat \ {0}, NEW p \in Players(Nat), NEW c \in Chan, NEW times \in Nat,
         \A d \in Chan : p.loop[d].start < rows, times = 0 => p.row < rows
  PROVE  LET q == PatternLoop(p, c, times) IN
         /\ q.brk = p.brk /\ q.jump = p.jump
         /\ \A d \in Chan : q.loop[d].start < rows
<1> DEFINE l == p.loop[c]
           q == PatternLoop(p, c, times)
<1>0. l \in Loops /\ p.loop \in [Chan -> Loops]
  BY DEF Players
<1>1. CASE times = 0
  <2> DEFINE m == [l EXCEPT !.exec = FALSE, !.start = p.row, !.valid = p.pos]
  <2>1. m.start < rows
    BY <1>0, <1>1 DEF Loops
  <2>2. q = [p EXCEPT !.loop[c] = m]
    BY <1>1 DEF PatternLoop
  <2> HIDE DEF m, q
  <2>3. q.brk = p.brk /\ q.jump = p.jump /\ q.loop = [p.loop EXCEPT ![c] = m]
    BY <2>2 DEF Players
  <2>4. \A d \in Chan : q.loop[d].start < rows
    BY <1>0, <2>1, <2>3
  <2> QED BY <2>3, <2>4 DEF q
<1>2. CASE times # 0 /\ l.count = times
  <2>1. q = [p EXCEPT !.loop[c] = NoLoop(p.pos),
                      !.nextRow = IF song.ft2 THEN l.start ELSE p.nextRow]
    BY <1>2 DEF PatternLoop
  <2>2. NoLoop(p.pos).start < rows
    BY DEF NoLoop
  <2> HIDE DEF q
  <2>3. q.brk = p.brk /\ q.jump = p.jump /\ q.loop = [p.loop EXCEPT ![c] = NoLoop(p.pos)]
    BY <2>1 DEF Players
  <2>4. \A d \in Chan : q.loop[d].start < rows
    BY <1>0, <2>2, <2>3
  <2> QED BY <2>3, <2>4 DEF q
<1>3. CASE times # 0 /\ l.count # times
  <2> DEFINE m == [l EXCEPT !.exec = TRUE, !.count = l.count + 1]
  <2>1. m.start < rows
    BY <1>0 DEF Loops
  <2>2. q = [p EXCEPT !.loop[c] = m]
    BY <1>3 DEF PatternLoop
  <2> HIDE DEF m, q
  <2>3. q.brk = p.brk /\ q.jump = p.jump /\ q.loop = [p.loop EXCEPT ![c] = m]
    BY <2>2 DEF Players
  <2>4. \A d \in Chan : q.loop[d].start < rows
    BY <1>0, <2>1, <2>3
  <2> QED BY <2>3, <2>4 DEF q
<1> QED BY <1>1, <1>2, <1>3

LEMMA DoEffectMarks ==
  ASSUME NEW rows \in Nat \ {0}, Lands(rows), KnownSong, IsSong(song),
         NEW i \in Patterns, NEW p \in Players(Nat), p.row < Rows(i), NEW c \in Chan,
         Marks(rows, i, p.row, p)
  PROVE  Marks(rows, i, p.row, DoEffect(p, c, Slot(i, p.row, c)))
<1> DEFINE e == Slot(i, p.row, c)
           q == DoEffect(p, c, e)
<1>0. /\ e \in Effects /\ e.arg \in Nat
      /\ e.op \in {"none", "jump", "break", "loop", "delay", "stop"}
      /\ e.op = "loop" /\ e.arg = 0 => p.row < rows
  <2>1. p.row \in Nat
    BY DEF Players
  <2>2. e \in Effects
    BY <2>1, SongNumbers
  <2>3. e.op = "loop" /\ e.arg = 0 => p.row < rows
    BY <2>1, SongLands
  <2> HIDE DEF e
  <2> QED BY <2>2, <2>3 DEF Effects
<1>1. CASE e.op = "none"
  <2>1. q = p
    BY <1>1 DEF DoEffect
  <2> QED BY <2>1
<1>2. CASE e.op = "jump"
  <2>1. q = [p EXCEPT !.jump = [on |-> TRUE, pos |-> e.arg, row |-> e.row, chn |-> c]]
    BY <1>2 DEF DoEffect
  <2> HIDE DEF q
  <2>2. /\ q.jump = [on |-> TRUE, pos |-> e.arg, row |-> e.row, chn |-> c]
        /\ q.brk = p.brk /\ q.loop = p.loop
    BY <2>1 DEF Players
  <2>3. q.jump.chn = c /\ q.jump.row = e.row
    BY <2>2
  <2>4. Marks(rows, i, p.row, q)
    BY <1>2, <2>2, <2>3 DEF Marks
  <2> QED BY <2>4 DEF q
<1>3. CASE e.op = "break"
  <2>1. q = [p EXCEPT !.brk = [on |-> TRUE, row |-> e.arg, chn |-> c]]
    BY <1>3 DEF DoEffect
  <2> HIDE DEF q
  <2>2. /\ q.brk = [on |-> TRUE, row |-> e.arg, chn |-> c]
        /\ q.jump = p.jump /\ q.loop = p.loop
    BY <2>1 DEF Players
  <2>3. q.brk.chn = c /\ q.brk.row = e.arg
    BY <2>2
  <2>4. Marks(rows, i, p.row, q)
    BY <1>3, <2>2, <2>3 DEF Marks
  <2> QED BY <2>4 DEF q
<1>4. CASE e.op = "loop"
  <2>1. q = PatternLoop(p, c, e.arg)
    BY <1>4 DEF DoEffect
  <2>2. /\ q.brk = p.brk /\ q.jump = p.jump
        /\ \A d \in Chan : q.loop[d].start < rows
    <3> HIDE DEF e, q
    <3> QED BY <1>0, <1>4, <2>1, PatternLoopMarks DEF Marks
  <2> HIDE DEF q
  <2>3. Marks(rows, i, p.row, q)
    BY <2>2 DEF Marks
  <2> QED BY <2>3 DEF q
<1>5. CASE e.op = "delay" \/ e.op = "stop"
  <2>1. q.brk = p.brk /\ q.jump = p.jump /\ q.loop = p.loop
    BY <1>5 DEF DoEffect, Players
  <2> HIDE DEF q
  <2>2. Marks(rows, i, p.row, q)
    BY <2>1 DEF Marks
  <2> QED BY <2>2 DEF q
<1> QED BY <1>0, <1>1, <1>2, <1>3, <1>4, <1>5

\* All the effects of a row.
LEMMA DoEffectsMarks ==
  ASSUME NEW rows \in Nat \ {0}, Lands(rows), KnownSong, IsSong(song),
         NEW i \in Patterns, NEW p \in Players(Nat), p.row < Rows(i),
         Marks(rows, i, p.row, p)
  PROVE  Marks(rows, i, p.row, DoEffects(p, i))
<1>1. PICK g : /\ g = [c \in 0 .. Channels |-> Walked(p, i, g, c)]
               /\ DoEffects(p, i) = g[Channels]
  BY EffectsAreWalk
<1> DEFINE Good(c) == /\ g[c] \in Players(Nat) /\ DoesEffects(p, g[c])
                      /\ Marks(rows, i, p.row, g[c])
           Fails == {c \in 0 .. Channels : ~ Good(c)}
<1>2. ASSUME Fails # {} PROVE FALSE
  <2>0. Fails \subseteq Nat
    BY Numbers
  <2>1. PICK k \in Fails : \A m \in Fails : k <= m
    BY <1>2, <2>0, LeastNatural
  <2>2. k \in 0 .. Channels /\ ~ Good(k) /\ g[k] = Walked(p, i, g, k)
    BY <1>1
  <2>3. CASE k = 0
    BY <2>2, <2>3 DEF Walked, DoesEffects
  <2>4. CASE k # 0
    <3>1. k - 1 \in 0 .. Channels /\ k - 1 \notin Fails /\ k \in Chan
      BY <2>1, <2>2, <2>4, Numbers DEF Chan
    <3>2. /\ g[k - 1] \in Players(Nat) /\ DoesEffects(p, g[k - 1])
          /\ Marks(rows, i, p.row, g[k - 1])
      BY <3>1
    <3> DEFINE e == Slot(i, p.row, k)
               h == g[k - 1]
    <3>3. h.row = p.row /\ p.row \in Nat
      BY <3>2 DEF DoesEffects, Players
    <3>4. g[k] = DoEffect(h, k, Slot(i, h.row, k))
      BY <2>2, <2>4, <3>3 DEF Walked
    <3>5. Slot(i, h.row, k) \in Effects
      BY <3>1, <3>3, SongNumbers
    <3> HIDE DEF h
    <3>6. Marks(rows, i, h.row, g[k])
      BY <3>1, <3>2, <3>3, <3>4, DoEffectMarks DEF h
    <3>7. g[k] \in Players(Nat) /\ DoesEffects(h, g[k])
      BY <3>1, <3>2, <3>4, <3>5, DoEffectDoes DEF h
    <3>8. DoesEffects(p, g[k])
      BY <3>2, <3>7 DEF DoesEffects, h
    <3> QED BY <2>2, <3>3, <3>6, <3>7, <3>8
  <2> QED BY <2>3, <2>4
<1>3. Channels \in 0 .. Channels
  BY Numbers
<1> QED BY <1>1, <1>2, <1>3

LEMMA MarksAreSteady ==
  ASSUME NEW rows \in Nat \ {0}, Lands(rows), KnownSong, IsSong(song),
         NEW i \in Patterns, NEW row \in Nat, row < Rows(i), NEW q, Marks(rows, i, row, q)
  PROVE  Steady(rows, q)
<1>1. ASSUME q.brk.on, q.jump.on PROVE q.jump.chn < q.brk.chn
  <2>1. q.jump.chn \in Chan /\ q.brk.chn \in Chan /\ q.jump.chn # q.brk.chn
    BY <1>1 DEF Marks
  <2>2. ~(q.brk.chn < q.jump.chn)
    BY <1>1, <2>1, SongLands DEF Marks
  <2> QED BY <2>1, <2>2, Numbers
<1>2. q.brk.on => q.brk.row < rows
  BY SongLands DEF Marks
<1>3. q.jump.on => q.jump.row < rows
  BY SongLands DEF Marks
<1> QED BY <1>1, <1>2, <1>3 DEF Marks, Steady

LEMMA ReadRowSteady ==
  ASSUME NEW rows \in Nat \ {0}, Lands(rows), KnownSong, IsSong(song),
         NEW i \in Patterns, NEW p \in Players(Nat), p.row < Rows(i), Steady(rows, p)
  PROVE  /\ Steady(rows, ReadRow(p, i))
         /\ ReadRow(p, i).pos = p.pos /\ ReadRow(p, i).pattern = p.pattern
         /\ ReadRow(p, i).nextOrder = p.nextOrder
<1> DEFINE v == Visit(p)
           w == [v EXCEPT !.brk = NoBreak, !.jump = NoJump]
           q == DoEffects(w, i)
<1>1. /\ v \in Players(Nat) /\ v.row = p.row /\ v.loop = p.loop /\ v.pos = p.pos
      /\ v.pattern = p.pattern /\ v.nextOrder = p.nextOrder
  <2>1. CASE p.repeat
    BY <2>1 DEF Visit
  <2>2. CASE ~p.repeat
    <3>1. v = [p EXCEPT !.visited = p.visited \union {<<p.pos, p.row>>}]
      BY <2>2 DEF Visit
    <3>2. p.visited \union {<<p.pos, p.row>>} \in SUBSET (Nat \X Nat)
      BY Numbers DEF Players
    <3> HIDE DEF v
    <3> QED BY <3>1, <3>2 DEF Players
  <2> QED BY <2>1, <2>2
<1> HIDE DEF v
<1>2. /\ w \in Players(Nat) /\ w.row = p.row /\ w.loop = p.loop /\ w.pos = p.pos
      /\ w.pattern = p.pattern /\ w.nextOrder = p.nextOrder
      /\ ~w.brk.on /\ ~w.jump.on
  <2>1. NoBreak \in [on : BOOLEAN, row : Nat, chn : Nat] /\ ~NoBreak.on
    BY DEF NoBreak
  <2>2. NoJump \in [on : BOOLEAN, pos : Nat, row : Nat, chn : Nat] /\ ~NoJump.on
    BY DEF NoJump
  <2>3. w \in Players(Nat) /\ w.brk = NoBreak /\ w.jump = NoJump
    BY <1>1, <2>1, <2>2 DEF Players
  <2>4. /\ w.row = p.row /\ w.loop = p.loop /\ w.pos = p.pos
        /\ w.pattern = p.pattern /\ w.nextOrder = p.nextOrder
    BY <1>1 DEF Players
  <2> QED BY <2>1, <2>2, <2>3, <2>4
<1>3. ReadRow(p, i) = q
  BY DEF ReadRow, v
<1> HIDE DEF w
<1>4. Marks(rows, i, w.row, w)
  BY <1>2 DEF Marks, Steady
<1>5. Marks(rows, i, w.row, q) /\ DoesEffects(w, q)
  BY <1>2, <1>4, DoEffectsMarks, DoEffectsDoes
<1>6. Steady(rows, q)
  <2>1. w.row \in Nat
    BY <1>2 DEF Players
  <2> QED BY <1>2, <1>5, <2>1, MarksAreSteady
<1> QED BY <1>2, <1>3, <1>5, <1>6 DEF DoesEffects

\* What a queued order becomes when it is taken.
Order(p) ==
  IF p.pattern = None /\ p.nextOrder >= song.ordnum THEN song.restart ELSE p.nextOrder

\* A part of a step leaves the queue and the position, or plays what is queued.
Waits(p, q) == q.nextOrder = p.nextOrder /\ q.pattern = p.pattern /\ q.pos = p.pos
Serves(p, q) == q.nextOrder = None /\ q.pattern = None /\ q.pos = Order(p)

\* A player that has an order in its queue and a position to play.
Queued(p) == p.nextOrder # None /\ (p.pattern = None => p.pos < song.ordnum)

LEMMA WaitsOn ==
  ASSUME NEW p, NEW q, NEW r, Waits(p, q), Waits(q, r) \/ Serves(q, r)
  PROVE  (Waits(q, r) => Waits(p, r)) /\ (Serves(q, r) => Serves(p, r))
  BY DEF Waits, Serves, Order

LEMMA StaysServed ==
  ASSUME NEW p, NEW q, NEW r, Serves(p, q), Waits(q, r)
  PROVE  Serves(p, r)
  BY DEF Waits, Serves

LEMMA QueuedStill ==
  ASSUME NEW p, NEW q, Queued(p), Waits(p, q)
  PROVE  Queued(q)
  BY DEF Queued, Waits

\* setNewPosition takes the queued order, wherever it was to go.
LEMMA SetNewPositionServes ==
  ASSUME NEW R, NEW p \in Players(R), IsSong(song), Queued(p), p.pattern = None, NEW pos
  PROVE  Serves(p, SetNewPosition(p, pos))
<1> DEFINE e == PatternEndReached(p)
           to == IF p.nextOrder >= song.ordnum THEN song.restart ELSE p.nextOrder
           q == SetNewPosition(p, pos)
<1>1. e \in Players(R) /\ e.pos = p.pos /\ e.nextOrder = None /\ e.pattern = None
  BY PatternEndReachedDoes DEF Queued
<1>2. QueuedPosition(p, pos) = p.nextOrder
  BY DEF QueuedPosition, Queued
<1>3. q = IF p.nextOrder = p.pos THEN e ELSE [e EXCEPT !.pos = to, !.loop = NoLoops(to)]
  BY <1>2 DEF SetNewPosition
<1>4. to = Order(p)
  BY DEF Order
<1>5. CASE p.nextOrder = p.pos
  <2>1. q = e
    BY <1>3, <1>5
  <2>2. p.pos < song.ordnum /\ p.pos \in Nat /\ song.ordnum \in Nat
    BY SongNumbers, Numbers DEF Queued, Players
  <2>3. ~(p.pos >= song.ordnum)
    BY <2>2
  <2>4. Order(p) = p.pos
    BY <1>5, <2>3 DEF Order
  <2> QED BY <1>1, <2>1, <2>4 DEF Serves
<1>6. CASE p.nextOrder # p.pos
  <2> HIDE DEF e, to, q
  <2>1. q = [e EXCEPT !.pos = to, !.loop = NoLoops(to)]
    BY <1>3, <1>6
  <2>2. q.pos = to /\ q.nextOrder = e.nextOrder /\ q.pattern = e.pattern
    BY <1>1, <2>1 DEF Players
  <2>3. Serves(p, q)
    BY <1>1, <1>4, <2>2 DEF Serves
  <2> QED BY <2>3 DEF q
<1> QED BY <1>5, <1>6

\* setNewPosition leaves the marks of the row, and the loops or none of them.
LEMMA SetNewPositionSteady ==
  ASSUME NEW rows \in Nat \ {0}, IsSong(song), NEW R, NEW p \in Players(R), NEW pos \in Nat,
         Steady(rows, p)
  PROVE  Steady(rows, SetNewPosition(p, pos))
<1> DEFINE e == PatternEndReached(p)
           asked == QueuedPosition(p, pos)
           to == IF asked >= song.ordnum THEN song.restart ELSE asked
           q == SetNewPosition(p, pos)
<1>1. e \in Players(R) /\ e.brk = p.brk /\ e.jump = p.jump /\ e.loop = p.loop
  BY PatternEndReachedDoes
<1>2. q.brk = p.brk /\ q.jump = p.jump
  BY SetNewPositionDoes
<1>3. q = IF asked = p.pos THEN e ELSE [e EXCEPT !.pos = to, !.loop = NoLoops(to)]
  BY DEF SetNewPosition
<1> HIDE DEF e, asked, to, q
<1>4. q.loop = p.loop \/ q.loop = NoLoops(to)
  BY <1>1, <1>3 DEF Players
<1>5. \A c \in Chan : NoLoops(to)[c].start = 0
  BY DEF NoLoops, NoLoop
<1>6. Steady(rows, q)
  BY <1>2, <1>4, <1>5 DEF Steady
<1> QED BY <1>6 DEF q

\* A break or a jump, or both, serve the queue once, and lead to a row that
\* every pattern has.
LEMMA BreakAndJumpServe ==
  ASSUME NEW rows \in Nat \ {0}, IsSong(song), NEW p \in Players(Nat), Steady(rows, p),
         Queued(p), p.pattern = None
  PROVE  LET q == Jump(Break(p)) IN
         /\ q \in Players(RowsOrBefore) /\ Steady(rows, q)
         /\ IF p.brk.on \/ p.jump.on THEN Serves(p, q) /\ q.row + 1 < rows ELSE q = p
<1> DEFINE b == Break(p)
           q == Jump(b)
           next == IF p.pos < song.ordnum - 1 THEN p.pos + 1 ELSE song.restart
<1>0. /\ p.brk.on \in BOOLEAN /\ p.brk.row \in Nat /\ p.jump.on \in BOOLEAN
      /\ p.jump.row \in Nat /\ p.jump.pos \in Nat /\ p.brk.chn \in Nat /\ p.jump.chn \in Nat
      /\ next \in Nat
  BY SongNumbers, Numbers DEF Players
<1>1. b \in Players(RowsOrBefore) /\ q \in Players(RowsOrBefore)
  BY BreakDoes, JumpDoes
<1>2. p.jump.on /\ p.brk.on => ~JumpWins(p)
  BY <1>0 DEF JumpWins, Steady
<1>3. CASE ~p.brk.on
  <2>1. b = p
    BY <1>3 DEF Break
  <2>2. CASE ~p.jump.on
    <3>1. q = p
      BY <2>1, <2>2 DEF Jump
    <3> QED BY <1>1, <1>3, <2>2, <3>1
  <2>3. CASE p.jump.on
    <3> DEFINE j == [p EXCEPT !.row = p.jump.row - 1]
               s == SetNewPosition(j, p.jump.pos)
               t == [s EXCEPT !.nextRow = None]
    <3>1. JumpWins(p)
      BY <1>3, <2>3 DEF JumpWins
    <3>2. q = t
      BY <2>1, <2>3, <3>1 DEF Jump
    <3>3. p.jump.row - 1 \in RowsOrBefore
      BY <1>0 DEF RowsOrBefore
    <3>4. j \in Players(RowsOrBefore)
      BY <3>3 DEF Players
    <3>5. Undisturbed(p, j) /\ Waits(p, j) /\ j.row = p.jump.row - 1 /\ j.pattern = None
      BY DEF Undisturbed, Waits, Players
    <3> HIDE DEF j
    <3>6. Steady(rows, s) /\ Serves(j, s)
      BY <1>0, <3>4, <3>5, QueuedStill, SteadyUndisturbed, SetNewPositionServes,
         SetNewPositionSteady
    <3>7. s \in Players(RowsOrBefore) /\ s.row = p.jump.row - 1
      BY <1>0, <3>4, <3>5, SetNewPositionDoes
    <3> HIDE DEF s
    <3>8. Undisturbed(s, t) /\ Waits(s, t) /\ t.row = s.row
      BY <3>7 DEF Undisturbed, Waits, Players
    <3> HIDE DEF t
    <3>9. Steady(rows, t) /\ Serves(p, t)
      BY <3>5, <3>6, <3>8, SteadyUndisturbed, StaysServed, WaitsOn
    <3>10. t.row + 1 < rows
      BY <1>0, <2>3, <3>7, <3>8 DEF Steady
    <3> QED BY <1>1, <2>3, <3>2, <3>9, <3>10
  <2> QED BY <2>2, <2>3
<1>4. CASE p.brk.on /\ ~p.jump.on
  <2> DEFINE s == SetNewPosition(p, next)
             t == [s EXCEPT !.row = p.brk.row - 1, !.nextRow = None]
  <2>1. b = t
    BY <1>4 DEF Break
  <2>2. Steady(rows, s) /\ Serves(p, s)
    BY <1>0, SetNewPositionServes, SetNewPositionSteady
  <2>3. s \in Players(Nat) /\ s.jump = p.jump
    BY <1>0, SetNewPositionDoes
  <2> HIDE DEF s
  <2>4. Undisturbed(s, t) /\ Waits(s, t) /\ t.row = p.brk.row - 1 /\ t.jump = p.jump
    BY <2>3 DEF Undisturbed, Waits, Players
  <2> HIDE DEF t
  <2>5. q = b
    BY <1>4, <2>1, <2>4 DEF Jump
  <2>6. Steady(rows, t) /\ Serves(p, t)
    BY <2>2, <2>4, SteadyUndisturbed, StaysServed
  <2>7. t.row + 1 < rows
    BY <1>0, <1>4, <2>4 DEF Steady
  <2> QED BY <1>1, <1>4, <2>1, <2>5, <2>6, <2>7
<1>5. CASE p.brk.on /\ p.jump.on
  <2> DEFINE t == [p EXCEPT !.row = p.brk.row - 1, !.nextRow = None]
             s == SetNewPosition(t, p.jump.pos)
             u == [s EXCEPT !.nextRow = None]
  <2>1. b = t
    BY <1>2, <1>5 DEF Break
  <2>2. /\ Undisturbed(p, t) /\ Waits(p, t) /\ t.row = p.brk.row - 1
        /\ t.pattern = None /\ t.jump = p.jump /\ t.brk = p.brk
    BY DEF Undisturbed, Waits, Players
  <2>3. t \in Players(RowsOrBefore)
    BY <1>1, <2>1
  <2> HIDE DEF t
  <2>4. ~JumpWins(t)
    BY <1>2, <1>5, <2>2 DEF JumpWins
  <2>5. q = u
    BY <1>5, <2>1, <2>2, <2>4 DEF Jump
  <2>6. Steady(rows, s) /\ Serves(t, s)
    BY <1>0, <2>2, <2>3, QueuedStill, SteadyUndisturbed, SetNewPositionServes,
       SetNewPositionSteady
  <2>7. s \in Players(RowsOrBefore) /\ s.row = p.brk.row - 1
    BY <1>0, <2>2, <2>3, SetNewPositionDoes
  <2> HIDE DEF s
  <2>8. Undisturbed(s, u) /\ Waits(s, u) /\ u.row = s.row
    BY <2>7 DEF Undisturbed, Waits, Players
  <2> HIDE DEF u
  <2>9. Steady(rows, u) /\ Serves(p, u)
    BY <2>2, <2>6, <2>8, SteadyUndisturbed, StaysServed, WaitsOn
  <2>10. u.row + 1 < rows
    BY <1>0, <1>5, <2>7, <2>8 DEF Steady
  <2> QED BY <1>1, <1>5, <2>5, <2>9, <2>10
<1> QED BY <1>0, <1>3, <1>4, <1>5

\* Breaks and jumps leave the marks, and the loops or none of them.
LEMMA BreakSteady ==
  ASSUME NEW rows \in Nat \ {0}, IsSong(song), NEW p \in Players(Nat), Steady(rows, p)
  PROVE  Steady(rows, Break(p))
<1>1. CASE ~p.brk.on
  BY <1>1 DEF Break
<1>2. CASE p.brk.on
  <2> DEFINE next == IF p.pos < song.ordnum - 1 THEN p.pos + 1 ELSE song.restart
             q == IF p.jump.on /\ ~JumpWins(p) THEN p ELSE SetNewPosition(p, next)
             r == [q EXCEPT !.row = p.brk.row - 1, !.nextRow = None]
  <2>1. next \in Nat
    BY SongNumbers, Numbers DEF Players
  <2> HIDE DEF next
  <2>2. q \in Players(Nat) /\ Steady(rows, q)
    BY <2>1, SetNewPositionDoes, SetNewPositionSteady
  <2> HIDE DEF q
  <2>3. Undisturbed(q, r)
    BY <2>2 DEF Players, Undisturbed
  <2>4. Break(p) = r
    BY <1>2 DEF Break, q, next
  <2> HIDE DEF r
  <2> QED BY <2>2, <2>3, <2>4, SteadyUndisturbed
<1> QED BY <1>1, <1>2

LEMMA JumpSteady ==
  ASSUME NEW rows \in Nat \ {0}, IsSong(song), NEW p \in Players(RowsOrBefore),
         Steady(rows, p)
  PROVE  Steady(rows, Jump(p))
<1>1. CASE ~p.jump.on
  BY <1>1 DEF Jump
<1>2. CASE p.jump.on
  <2> DEFINE q == IF JumpWins(p) THEN [p EXCEPT !.row = p.jump.row - 1] ELSE p
             r == SetNewPosition(q, p.jump.pos)
             t == [r EXCEPT !.nextRow = None]
  <2>1. p.jump.pos \in Nat /\ p.jump.row - 1 \in RowsOrBefore
    BY DEF Players, RowsOrBefore
  <2>2. q \in Players(RowsOrBefore)
    BY <2>1 DEF Players
  <2>3. Undisturbed(p, q)
    BY DEF Players, Undisturbed
  <2> HIDE DEF q
  <2>4. r \in Players(RowsOrBefore) /\ Steady(rows, r)
    BY <2>1, <2>2, <2>3, SetNewPositionDoes, SetNewPositionSteady, SteadyUndisturbed
  <2> HIDE DEF r
  <2>5. Undisturbed(r, t)
    BY <2>4 DEF Players, Undisturbed
  <2>6. Jump(p) = t
    BY <1>2 DEF Jump, q, r
  <2> HIDE DEF t
  <2> QED BY <2>4, <2>5, <2>6, SteadyUndisturbed
<1> QED BY <1>1, <1>2

\* A single pattern that begins again ends for a queued order.
LEMMA BeginAgainServes ==
  ASSUME NEW p \in Players(Nat), p.pattern # None
  PROVE  LET q == BeginAgain(p) IN
         /\ Undisturbed(p, q) /\ q.row = -1
         /\ Queued(p) => Serves(p, q)
<1> DEFINE e == PatternEndReached(p)
           to == QueuedPosition(p, p.pos)
           q == [e EXCEPT !.row = -1, !.nextRow = None, !.pos = to]
<1>1. /\ e \in Players(Nat) /\ e.nextOrder = None
      /\ e.brk = p.brk /\ e.jump = p.jump /\ e.loop = p.loop
      /\ p.nextOrder # None => e.pattern = None
  BY PatternEndReachedDoes
<1>2. Queued(p) => to = Order(p)
  BY DEF Queued, QueuedPosition, Order
<1>3. BeginAgain(p) = q
  BY DEF BeginAgain
<1> HIDE DEF e, to
<1>4. /\ q.brk = e.brk /\ q.jump = e.jump /\ q.loop = e.loop /\ q.row = -1
      /\ q.nextOrder = e.nextOrder /\ q.pattern = e.pattern /\ q.pos = to
  BY <1>1 DEF Players
<1> HIDE DEF q
<1> QED BY <1>1, <1>2, <1>3, <1>4 DEF Undisturbed, Serves, Queued

\* A loop that goes back leads to a row that every pattern has.
LEMMA ExecLoopsServes ==
  ASSUME NEW rows \in Nat \ {0}, NEW p \in Players(RowsOrBefore), Steady(rows, p)
  PROVE  LET q == ExecLoops(p) IN
         /\ Steady(rows, q) /\ Waits(p, q)
         /\ q.row = p.row \/ q.row + 1 < rows
<1>1. CASE Executing(p) = {}
  BY <1>1 DEF ExecLoops, Waits
<1>2. CASE Executing(p) # {}
  <2> DEFINE row == p.loop[LastExecuting(p)].start - 1
             loop == [c \in Chan |-> IF c \in Executing(p)
                                     THEN [p.loop[c] EXCEPT !.exec = FALSE, !.looping = TRUE]
                                     ELSE p.loop[c]]
             q == [p EXCEPT !.row = row, !.loop = loop]
  <2>1. row + 1 < rows
    <3>1. LastExecuting(p) \in Chan
      BY <1>2, LastOne DEF Executing
    <3>2. p.loop[LastExecuting(p)] \in Loops
      BY <3>1 DEF Players
    <3>3. /\ p.loop[LastExecuting(p)].start \in Nat
          /\ p.loop[LastExecuting(p)].start < rows
      BY <3>1, <3>2 DEF Loops, Steady
    <3> QED BY <3>3
  <2>2. ASSUME NEW c \in Chan PROVE loop[c].start < rows
    <3>1. p.loop[c] \in Loops /\ p.loop[c].start < rows
      BY DEF Players, Steady
    <3> QED BY <3>1 DEF Loops
  <2>3. ExecLoops(p) = q
    BY <1>2 DEF ExecLoops
  <2> HIDE DEF row, loop
  <2>4. /\ q.row = row /\ q.loop = loop /\ q.brk = p.brk /\ q.jump = p.jump
        /\ q.pos = p.pos /\ q.pattern = p.pattern /\ q.nextOrder = p.nextOrder
    BY DEF Players
  <2> HIDE DEF q
  <2>5. Steady(rows, q) /\ Waits(p, q)
    BY <2>2, <2>4 DEF Steady, Waits
  <2> QED BY <2>1, <2>3, <2>4, <2>5
<1> QED BY <1>1, <1>2

LEMMA HaltWaits ==
  ASSUME NEW p \in Players(Nat)
  PROVE  Waits(p, Halt(p)) /\ Undisturbed(p, Halt(p))
  BY DEF Halt, Players, Waits, Undisturbed

\* At the end of the pattern the queue is served, otherwise it waits.
LEMMA NextRowServes ==
  ASSUME NEW rows \in Nat \ {0}, IsSong(song), NEW p \in Players(Nat), NEW i \in Patterns,
         Steady(rows, p)
  PROVE  LET q == NextRow(p, i) IN
         /\ Steady(rows, q)
         /\ p.row < Rows(i) => Waits(p, q)
         /\ Queued(p) => Waits(p, q) \/ Serves(p, q)
<1> DEFINE first == [p EXCEPT !.row = IF p.nextRow # None THEN p.nextRow ELSE 0,
                              !.nextRow = None]
           again == [first EXCEPT !.row = 0, !.loop = NoLoops(p.pos)]
           to == QueuedPosition(p, p.pos)
           e == PatternEndReached(again)
           single == [e EXCEPT !.pos = to]
           after == CASE p.row < Rows(i)     -> p
                      [] p.row >= Rows(i) /\ p.pattern = None ->
                           SetNewPosition(first, p.pos + 1)
                      [] OTHER -> single
           Good(q) == /\ q \in Players(Nat) /\ Steady(rows, q)
                      /\ p.row < Rows(i) => Waits(p, q)
                      /\ Queued(p) => Waits(p, q) \/ Serves(p, q)
<1>0. /\ p.row \in Nat /\ p.pos \in Positions /\ p.pos + 1 \in Nat /\ Rows(i) \in Nat
      /\ p.nextRow \in Nat \union {None} /\ p.pattern \in Patterns \union {None}
  BY SongNumbers, Numbers DEF Players
<1>1. NextRow(p, i) =
        IF p.row >= Rows(i) /\ p.pattern # None /\ ~p.repeat THEN Halt(first)
        ELSE IF p.haltFlag THEN Halt(after) ELSE after
  BY DEF NextRow
<1>2. first \in Players(Nat)
  <2>1. (IF p.nextRow # None THEN p.nextRow ELSE 0) \in Nat
    BY <1>0
  <2> QED BY <2>1 DEF Players
<1>3. /\ Waits(p, first) /\ Undisturbed(p, first)
      /\ first.nextOrder = p.nextOrder /\ first.pattern = p.pattern
  BY DEF Players, Waits, Undisturbed
<1>4. Good(first)
  BY <1>2, <1>3, SteadyUndisturbed
<1> HIDE DEF first
<1>5. again \in Players(Nat)
  <2>1. NoLoops(p.pos) \in [Chan -> Loops]
    BY <1>0, NoLoopsType
  <2> QED BY <1>2, <2>1 DEF Players
<1>6. /\ again.nextOrder = p.nextOrder /\ again.loop = NoLoops(p.pos)
      /\ again.brk = p.brk /\ again.jump = p.jump
  BY <1>2, <1>3 DEF Players, Undisturbed
<1> HIDE DEF again
<1>7. to \in Positions /\ (Queued(p) => to = p.nextOrder)
  BY <1>0, QueuedPositionType, Numbers DEF QueuedPosition, Queued
<1>8. /\ e \in Players(Nat) /\ e.loop = NoLoops(p.pos) /\ e.brk = p.brk /\ e.jump = p.jump
      /\ e.nextOrder = None /\ (p.nextOrder # None => e.pattern = None)
  BY <1>5, <1>6, PatternEndReachedDoes
<1> HIDE DEF e, to
<1>9. /\ single \in Players(Nat) /\ single.pos = to /\ single.loop = NoLoops(p.pos)
      /\ single.brk = p.brk /\ single.jump = p.jump
      /\ single.nextOrder = None /\ (p.nextOrder # None => single.pattern = None)
  BY <1>7, <1>8 DEF Players
<1>10. Steady(rows, single)
  <2>1. \A c \in Chan : NoLoops(p.pos)[c].start = 0
    BY DEF NoLoops, NoLoop
  <2> HIDE DEF single
  <2> QED BY <1>9, <2>1 DEF Steady
<1> HIDE DEF single
<1>11. Good(after)
  <2>1. CASE p.row < Rows(i)
    <3>1. ~(p.row >= Rows(i))
      BY <1>0, <2>1
    <3>2. after = p
      BY <2>1, <3>1
    <3> HIDE DEF after
    <3> QED BY <3>2 DEF Waits
  <2>2. CASE ~(p.row < Rows(i)) /\ p.pattern = None
    <3> DEFINE s == SetNewPosition(first, p.pos + 1)
    <3>0. p.row >= Rows(i)
      BY <1>0, <2>2
    <3>1. after = s
      BY <2>2, <3>0
    <3>2. s \in Players(Nat) /\ Steady(rows, s)
      BY <1>0, <1>2, <1>4, SetNewPositionDoes, SetNewPositionSteady
    <3>3. Queued(p) => Serves(first, s)
      BY <1>2, <1>3, <2>2, QueuedStill, SetNewPositionServes
    <3> HIDE DEF after, s
    <3>4. Queued(p) => Serves(p, s)
      BY <1>3, <3>3, WaitsOn
    <3> QED BY <2>2, <3>1, <3>2, <3>4
  <2>3. CASE ~(p.row < Rows(i)) /\ p.pattern # None
    <3>1. after = single
      BY <1>0, <2>3
    <3> HIDE DEF after
    <3>2. Queued(p) => Serves(p, single)
      BY <1>7, <1>9, <2>3 DEF Serves, Order, Queued
    <3> QED BY <1>9, <1>10, <2>3, <3>1, <3>2
  <2> QED BY <2>1, <2>2, <2>3
<1> HIDE DEF after
<1>12. ASSUME NEW q, Good(q) PROVE Good(Halt(q))
  <2>1. Waits(q, Halt(q)) /\ Undisturbed(q, Halt(q)) /\ Halt(q) \in Players(Nat)
    BY <1>12, HaltWaits, HaltDoes
  <2>2. Steady(rows, Halt(q))
    BY <1>12, <2>1, SteadyUndisturbed
  <2>3. Waits(p, q) => Waits(p, Halt(q))
    BY <2>1, WaitsOn
  <2>4. Serves(p, q) => Serves(p, Halt(q))
    BY <2>1, StaysServed
  <2> QED BY <1>12, <2>1, <2>2, <2>3, <2>4
<1>13. Good(Halt(first)) /\ Good(Halt(after))
  <2> HIDE DEF Good
  <2> QED BY <1>4, <1>11, <1>12
<1> QED BY <1>1, <1>11, <1>13

\* A row ends: the queue is served once, or waits.
LEMMA EndRowServes ==
  ASSUME NEW rows \in Nat \ {0}, Lands(rows), KnownSong, IsSong(song),
         NEW p \in Players(Nat), NEW i \in Patterns, Steady(rows, p)
  PROVE  LET r == EndRow(p, i) IN
         /\ Steady(rows, r)
         /\ Queued(p) => Waits(p, r) \/ Serves(p, r)
<1> DEFINE q == [p EXCEPT !.ticker = 0, !.delay = 0]
           moved == IF q.pattern = None THEN Jump(Break(q))
                    ELSE IF q.jump.on \/ q.brk.on THEN BeginAgain(q) ELSE q
           looped == ExecLoops(moved)
           next == [looped EXCEPT !.row = @ + 1]
           halted == [q EXCEPT !.clock = FALSE]
           j == IF q.pattern = None THEN song.ord[looped.pos] ELSE i
           r == NextRow(next, j)
<1>1. EndRow(p, i) = IF q.only THEN halted ELSE r
  BY DEF EndRow
<1>2. q \in Players(Nat) /\ Waits(p, q) /\ Undisturbed(p, q)
  BY DEF Players, Waits, Undisturbed
<1> HIDE DEF q
<1>3. Waits(q, halted) /\ Undisturbed(q, halted)
  BY <1>2 DEF Players, Waits, Undisturbed
<1> HIDE DEF halted
<1>4. Steady(rows, q) /\ (Queued(p) => Queued(q))
  BY <1>2, SteadyUndisturbed, QueuedStill
<1>5. /\ moved \in Players(RowsOrBefore) /\ Steady(rows, moved)
      /\ Queued(q) => \/ Waits(q, moved)
                      \/ Serves(q, moved) /\ moved.row + 1 < rows
  <2>1. CASE q.pattern = None
    <3>1. Break(q) \in Players(RowsOrBefore) /\ Steady(rows, Break(q))
      BY <1>2, <1>4, BreakDoes, BreakSteady
    <3>2. Jump(Break(q)) \in Players(RowsOrBefore) /\ Steady(rows, Jump(Break(q)))
      BY <3>1, JumpDoes, JumpSteady
    <3>3. moved = Jump(Break(q))
      BY <2>1
    <3> HIDE DEF moved
    <3>4. Queued(q) => IF q.brk.on \/ q.jump.on
                       THEN Serves(q, moved) /\ moved.row + 1 < rows ELSE moved = q
      BY <1>2, <1>4, <2>1, <3>3, BreakAndJumpServe
    <3>5. moved = q => Waits(q, moved)
      BY DEF Waits
    <3> QED BY <3>2, <3>3, <3>4, <3>5
  <2>2. CASE q.pattern # None /\ (q.jump.on \/ q.brk.on)
    <3>1. moved = BeginAgain(q)
      BY <2>2
    <3> HIDE DEF moved
    <3>2. moved \in Players(RowsOrBefore)
      BY <1>2, <2>2, <3>1, BeginAgainDoes
    <3>3. Undisturbed(q, moved) /\ moved.row = -1 /\ (Queued(q) => Serves(q, moved))
      BY <1>2, <2>2, <3>1, BeginAgainServes
    <3>4. moved.row + 1 < rows
      BY <3>3
    <3> QED BY <1>4, <3>2, <3>3, <3>4, SteadyUndisturbed
  <2>3. CASE q.pattern # None /\ ~(q.jump.on \/ q.brk.on)
    <3>1. moved = q
      BY <2>3
    <3> HIDE DEF moved
    <3>2. q \in Players(RowsOrBefore)
      BY <1>2 DEF Players, RowsOrBefore
    <3>3. Waits(q, q)
      BY DEF Waits
    <3> QED BY <1>4, <3>1, <3>2, <3>3
  <2> QED BY <2>1, <2>2, <2>3
<1> HIDE DEF moved
<1>6. /\ looped \in Players(RowsOrBefore) /\ Steady(rows, looped) /\ Waits(moved, looped)
      /\ looped.row = moved.row \/ looped.row + 1 < rows
  BY <1>5, ExecLoopsDoes, ExecLoopsServes
<1> HIDE DEF looped
<1>7. /\ next \in Players(Nat) /\ Waits(looped, next) /\ Undisturbed(looped, next)
      /\ next.row = looped.row + 1
  <2>1. looped.row + 1 \in Nat
    BY <1>6 DEF Players, RowsOrBefore
  <2> QED BY <1>6, <2>1 DEF Players, Waits, Undisturbed
<1>8. j \in Patterns
  <2>1. looped.pos \in Positions
    BY <1>6 DEF Players
  <2> QED BY <2>1, SongNumbers
<1> HIDE DEF next, j
<1>9. Rows(j) \in Nat /\ rows <= Rows(j)
  BY <1>8, SongLands
<1>10. Steady(rows, next)
  BY <1>6, <1>7, SteadyUndisturbed
<1>11. /\ Steady(rows, r) /\ (next.row < Rows(j) => Waits(next, r))
       /\ Queued(next) => Waits(next, r) \/ Serves(next, r)
  BY <1>7, <1>8, <1>10, NextRowServes
<1> HIDE DEF r
<1>12. ASSUME Queued(q) PROVE Waits(q, r) \/ Serves(q, r)
  <2>1. Waits(moved, next)
    BY <1>6, <1>7, WaitsOn
  <2>2. CASE Waits(q, moved)
    <3>1. Waits(q, next)
      BY <2>1, <2>2, WaitsOn
    <3>2. Queued(next)
      BY <1>12, <3>1, QueuedStill
    <3> QED BY <1>11, <3>1, <3>2, WaitsOn
  <2>3. CASE Serves(q, moved) /\ moved.row + 1 < rows
    <3>1. Serves(q, next)
      BY <2>1, <2>3, StaysServed
    <3>2. next.row < rows
      BY <1>6, <1>7, <2>3
    <3>3. next.row < Rows(j)
      BY <1>7, <1>9, <3>2 DEF Players
    <3> QED BY <1>11, <3>1, <3>3, StaysServed
  <2> QED BY <1>5, <1>12, <2>2, <2>3
<1>13. Queued(p) => Waits(p, r) \/ Serves(p, r)
  BY <1>2, <1>4, <1>12, WaitsOn
<1>14. Queued(p) => Waits(p, halted)
  BY <1>2, <1>3, WaitsOn
<1>15. Steady(rows, halted)
  BY <1>3, <1>4, SteadyUndisturbed
<1> QED BY <1>1, <1>11, <1>13, <1>14, <1>15

LEMMA TickedServes ==
  ASSUME NEW rows \in Nat \ {0}, Lands(rows), KnownSong, IsSong(song),
         NEW p \in Players(Nat), NEW i \in Patterns, Steady(rows, p)
  PROVE  LET r == Ticked(p, i) IN
         /\ Steady(rows, r)
         /\ Queued(p) => Waits(p, r) \/ Serves(p, r)
<1>1. CASE p.ticker + 1 >= MaxTicks(p)
  BY <1>1, EndRowServes DEF Ticked
<1>2. CASE ~(p.ticker + 1 >= MaxTicks(p))
  <2> DEFINE q == [p EXCEPT !.ticker = @ + 1]
  <2>1. Ticked(p, i) = q
    BY <1>2 DEF Ticked
  <2>2. Waits(p, q) /\ Undisturbed(p, q)
    BY DEF Players, Waits, Undisturbed
  <2> HIDE DEF q
  <2> QED BY <2>1, <2>2, SteadyUndisturbed
<1> QED BY <1>1, <1>2

LEMMA BegunWaits ==
  ASSUME NEW p \in Players(Nat)
  PROVE  Waits(p, Begun(p)) /\ Undisturbed(p, Begun(p))
<1>1. CASE p.pattern # None /\ RowIsGone(p)
  <2> DEFINE q == [p EXCEPT !.row = 0, !.ticker = 0]
  <2>1. Begun(p) = q
    BY <1>1 DEF Begun
  <2>2. Waits(p, q) /\ Undisturbed(p, q)
    BY DEF Players, Waits, Undisturbed
  <2> QED BY <2>1, <2>2
<1>2. CASE ~(p.pattern # None /\ RowIsGone(p))
  <2>1. Begun(p) = p
    BY <1>2 DEF Begun
  <2> QED BY <2>1 DEF Waits, Undisturbed
<1> QED BY <1>1, <1>2

\* A tick of the editor's player.
LEMMA TickServes ==
  ASSUME NEW rows \in Nat \ {0}, Lands(rows), SteadyInv(rows), player.repeat, Tick
  PROVE  /\ Steady(rows, player')
         /\ player.nextOrder # None =>
              Waits(player, player') \/ Serves(player, player')
<1>0. /\ SeqInv /\ player \in Players(Nat) /\ IsSong(song) /\ KnownSong
      /\ Steady(rows, player)
  BY DEF SteadyInv, SeqInv
<1>q. ASSUME ~NothingToPlay(player), player.nextOrder # None PROVE Queued(player)
  <2>1. player.pattern = None => ~(player.pos >= song.ordnum)
    BY <1>q DEF NothingToPlay
  <2>2. player.pos \in Nat /\ song.ordnum \in Nat
    BY <1>0, SongNumbers, Numbers DEF Players
  <2> QED BY <1>q, <2>1, <2>2 DEF Queued
<1>1. CASE TickIdle
  BY <1>0, <1>1 DEF TickIdle, Waits
<1>2. CASE TickHalts
  BY <1>0, <1>2, HaltWaits, SteadyUndisturbed DEF TickHalts
<1>3. CASE TickSkips
  <2> DEFINE p == [player EXCEPT !.ticker = 0]
  <2>1. player' = NextRow(p, PatternNow(player)) /\ ~NothingToPlay(player)
    BY <1>3 DEF TickSkips
  <2>2. p \in Players(Nat)
    BY <1>0 DEF Players
  <2>3. Waits(player, p) /\ Undisturbed(player, p)
    BY <1>0 DEF Players, Waits, Undisturbed
  <2> HIDE DEF p
  <2>4. Steady(rows, p)
    BY <1>0, <2>3, SteadyUndisturbed
  <2>5. /\ Steady(rows, player')
        /\ Queued(p) => Waits(p, player') \/ Serves(p, player')
    BY <1>0, <2>1, <2>2, <2>4, PatternNowType, NextRowServes
  <2>6. player.nextOrder # None => Queued(p)
    BY <1>q, <2>1, <2>3, QueuedStill
  <2> QED BY <2>3, <2>5, <2>6, WaitsOn
<1>4. CASE TickEndsSong
  <2>1. player' = Halt(Begun(player))
    BY <1>4 DEF TickEndsSong
  <2>2. Begun(player) \in Players(Nat)
    BY <1>0, BegunDoes
  <2>3. Waits(player, Begun(player)) /\ Undisturbed(player, Begun(player))
    BY <1>0, BegunWaits
  <2>4. Waits(Begun(player), player') /\ Undisturbed(Begun(player), player')
    BY <2>1, <2>2, HaltWaits
  <2>5. Steady(rows, player')
    BY <1>0, <2>3, <2>4, SteadyUndisturbed
  <2> QED BY <2>3, <2>4, <2>5, WaitsOn
<1>5. CASE TickPlays
  <2>0. PICK p \in {Begun(player)} :
          \E q \in {RowBegun(p, PatternNow(p))} : player' = Ticked(q, PatternNow(p))
    BY <1>5 DEF TickPlays
  <2>1. PICK q \in {RowBegun(p, PatternNow(p))} : player' = Ticked(q, PatternNow(p))
    BY <2>0
  <2>2. /\ p \in Players(Nat) /\ Waits(player, p) /\ Undisturbed(player, p)
    BY <1>0, <2>1, BegunDoes, BegunWaits
  <2>3. PatternNow(p) \in Patterns
    BY <1>0, <2>2, PatternNowType
  <2>4. p.row < Rows(PatternNow(p))
    BY <1>0, <1>5, <2>1, RowIsThere DEF TickPlays
  <2>5. Steady(rows, p)
    BY <1>0, <2>2, SteadyUndisturbed
  <2>6. q \in Players(Nat) /\ Steady(rows, q) /\ Waits(p, q)
    <3>1. CASE p.ticker = 0
      <4>1. q = ReadRow(p, PatternNow(p))
        BY <2>1, <3>1 DEF RowBegun
      <4> QED BY <1>0, <2>2, <2>3, <2>4, <2>5, <4>1, ReadRowDoes, ReadRowSteady DEF Waits
    <3>2. CASE p.ticker # 0
      <4>1. q = p
        BY <2>1, <3>2 DEF RowBegun
      <4> QED BY <2>2, <2>5, <4>1 DEF Waits
    <3> QED BY <3>1, <3>2
  <2>7. /\ Steady(rows, player')
        /\ Queued(q) => Waits(q, player') \/ Serves(q, player')
    BY <1>0, <2>1, <2>3, <2>6, TickedServes
  <2>8. Waits(player, q)
    BY <2>2, <2>6, WaitsOn
  <2>9. ~NothingToPlay(player)
    BY <1>5 DEF TickPlays
  <2>10. player.nextOrder # None => Queued(q)
    BY <1>q, <2>8, <2>9, QueuedStill
  <2> QED BY <2>7, <2>8, <2>10, WaitsOn
<1> QED BY <1>1, <1>2, <1>3, <1>4, <1>5 DEF Tick

LEMMA RestartSteady ==
  ASSUME NEW rows \in Nat \ {0}, NEW p \in Players(Nat), Steady(rows, p),
         NEW pos \in Positions, NEW row \in Nat, NEW only \in BOOLEAN
  PROVE  Steady(rows, Restart(Dequeued(p), pos, row, only))
<1> DEFINE d == Dequeued(p)
           v == Visited(d, pos, row)
           q == Restart(d, pos, row, only)
<1>1. d.brk = p.brk /\ d.jump = p.jump /\ d \in Players(Nat)
  BY DEF Dequeued, Players
<1> HIDE DEF d, v
<1>2. q = [d EXCEPT !.pos = pos, !.row = row, !.ticker = 0, !.delay = 0, !.nextRow = None,
                    !.loop = NoLoops(pos), !.haltFlag = FALSE, !.halted = FALSE,
                    !.clock = TRUE, !.only = only, !.visited = v]
  BY DEF Restart, v
<1> HIDE DEF q
<1>3. q.brk = d.brk /\ q.jump = d.jump /\ q.loop = NoLoops(pos)
  BY <1>1, <1>2 DEF Players
<1>4. \A c \in Chan : NoLoops(pos)[c].start = 0
  BY DEF NoLoops, NoLoop
<1>5. Steady(rows, q)
  BY <1>1, <1>3, <1>4 DEF Steady
<1> QED BY <1>5 DEF q, d

LEMMA EditorSteady ==
  ASSUME NEW rows \in Nat \ {0}, SteadyInv(rows), Editor
  PROVE  player.repeat /\ KnownSong' /\ Steady(rows, player')
<1>0. player \in Players(Nat) /\ IsSong(song) /\ (~player.repeat => moving = None)
  BY DEF SteadyInv, SeqInv
<1>1. player.repeat
  BY <1>0 DEF Editor, MoveToRow
<1>2. KnownSong /\ Steady(rows, player)
  BY <1>1 DEF SteadyInv
<1>3. CASE MoveToRow
  <2>1. Undisturbed(player, player')
    BY <1>0, <1>3 DEF MoveToRow, Players, Undisturbed
  <2> QED BY <1>1, <1>2, <1>3, <2>1, SteadyUndisturbed DEF MoveToRow, KnownSong
<1>4. ASSUME NEW o \in Positions, NEW r \in Nat, NEW only \in BOOLEAN,
             Undisturbed(Restart(Dequeued(player), o, r, only), player'), song' = song
      PROVE  KnownSong' /\ Steady(rows, player')
  <2>1. Steady(rows, Restart(Dequeued(player), o, r, only))
    BY <1>0, <1>2, RestartSteady
  <2> QED BY <1>2, <1>4, <2>1, SteadyUndisturbed DEF KnownSong
<1>p. /\ \A o \in SongPositions : o \in Positions
      /\ \A r \in StartRows : r \in Nat
  <2>1. \A o \in SongPositions : o \in Nat /\ o < song.ordnum
    BY <1>0, SongNumbers DEF SongPositions
  <2>2. \A o \in SongPositions : o \in Positions
    BY <1>0, <2>1, SongNumbers
  <2>3. \A r \in StartRows : r \in Nat
    BY SequencerAssumption DEF SequencerAssumption
  <2> QED BY <2>2, <2>3
<1>5. CASE Plays
  <2>1. PICK o \in SongPositions, r \in StartRows :
          PlaySong(o, r) \/ \E i \in Patterns, only \in BOOLEAN : PlayPattern(i, o, r, only)
    BY <1>5 DEF Plays
  <2>2. o \in Positions /\ r \in Nat
    BY <1>p
  <2>3. ASSUME NEW i, NEW only \in BOOLEAN,
               player' = [Restart(Dequeued(player), o, r, only)
                            EXCEPT !.pattern = i, !.idle = FALSE],
               EditorOnly
        PROVE  KnownSong' /\ Steady(rows, player')
    <3> DEFINE q == Restart(Dequeued(player), o, r, only)
    <3>1. q \in Players(Nat)
      BY <1>0, <2>2, RestartDoes
    <3>2. player' = [q EXCEPT !.pattern = i, !.idle = FALSE] /\ song' = song
      BY <2>3 DEF EditorOnly
    <3> HIDE DEF q
    <3>3. Undisturbed(q, player')
      BY <3>1, <3>2 DEF Players, Undisturbed
    <3> QED BY <1>4, <2>2, <3>2, <3>3 DEF q
  <2> QED BY <1>1, <2>1, <2>3 DEF PlaySong, PlayPattern
<1>6. CASE Stop
  <2> DEFINE q == Restart(Dequeued(player), 0, 0, FALSE)
  <2>1. q \in Players(Nat)
    BY <1>0, RestartDoes, Numbers
  <2>2. player' = [q EXCEPT !.idle = TRUE] /\ song' = song
    BY <1>6 DEF Stop, EditorOnly
  <2> HIDE DEF q
  <2>3. Undisturbed(q, player')
    BY <2>1, <2>2 DEF Players, Undisturbed
  <2> QED BY <1>1, <1>4, <2>2, <2>3, Numbers DEF q
<1>7. CASE \E o \in SongPositions, r \in StartRows : MoveToOrder(o, r)
  <2>1. Undisturbed(player, player') /\ song' = song
    BY <1>0, <1>7 DEF MoveToOrder, Players, Undisturbed
  <2> QED BY <1>1, <1>2, <2>1, SteadyUndisturbed DEF KnownSong
<1>8. CASE SetSpeed \/ Queues
  <2>1. Undisturbed(player, player') /\ song' = song
    BY <1>0, <1>8 DEF SetSpeed, Queues, QueueOrder, QueuePattern, EditorOnly, Players,
                      Undisturbed
  <2> QED BY <1>1, <1>2, <2>1, SteadyUndisturbed DEF KnownSong
<1>9. CASE \E s \in EditSongs \ {song} : EditSong(s)
  BY <1>1, <1>2, <1>9 DEF EditSong, KnownSong
<1> QED BY <1>3, <1>5, <1>6, <1>7, <1>8, <1>9, <1>1 DEF Editor

LEMMA SteadyInit ==
  ASSUME NEW rows \in Nat \ {0}
  PROVE  Init => SteadyInv(rows)
<1> SUFFICES ASSUME Init PROVE SteadyInv(rows)
  OBVIOUS
<1>1. PICK repeat \in BOOLEAN : player = NewPlayer(repeat) /\ (repeat => KnownSong)
  BY DEF Init, KnownSong
<1>2. player.repeat = repeat
  BY <1>1 DEF NewPlayer
<1>3. Steady(rows, player)
  <2>1. player.brk = NoBreak /\ player.jump = NoJump /\ player.loop = NoLoops(0)
    BY <1>1 DEF NewPlayer
  <2>2. ~NoBreak.on /\ ~NoJump.on /\ \A c \in Chan : NoLoops(0)[c].start = 0
    BY DEF NoBreak, NoJump, NoLoops, NoLoop
  <2> QED BY <2>1, <2>2 DEF Steady
<1> QED BY <1>1, <1>2, <1>3, SeqInit DEF SteadyInv

LEMMA SteadyNext ==
  ASSUME NEW rows \in Nat \ {0}, Lands(rows)
  PROVE  SteadyInv(rows) /\ [Next]_vars => SteadyInv(rows)'
<1> SUFFICES ASSUME SteadyInv(rows), [Next]_vars PROVE SteadyInv(rows)'
  OBVIOUS
<1>0. SeqInv /\ SeqInv'
  BY SeqNext DEF SteadyInv
<1>1. CASE Tick
  <2>1. player'.repeat = player.repeat /\ song' = song
    BY <1>0, <1>1, TickDoes
       DEF Follows, Tick, TickIdle, TickHalts, TickSkips, TickEndsSong, TickPlays
  <2>2. player.repeat => Steady(rows, player')
    BY <1>1, TickServes
  <2> QED BY <1>0, <2>1, <2>2 DEF SteadyInv, KnownSong
<1>2. CASE Editor
  BY <1>0, <1>2, EditorSteady DEF SteadyInv
<1>3. CASE UNCHANGED vars
  BY <1>0, <1>3 DEF vars, SteadyInv, KnownSong, Steady
<1> QED BY <1>1, <1>2, <1>3 DEF Next

LEMMA QueueServed ==
  ASSUME NEW rows \in Nat \ {0}, Lands(rows)
  PROVE  Spec => QueuedOrderPlayed
<1>1. Init => SteadyInv(rows)
  BY SteadyInit
<1>2. SteadyInv(rows) /\ [Next]_vars => SteadyInv(rows)'
  BY SteadyNext
<1>3. ASSUME SteadyInv(rows), Tick, player.nextOrder # None, player'.nextOrder = None
      PROVE  /\ player'.pattern = None
             /\ player'.pos = IF player.pattern = None /\ player.nextOrder >= song.ordnum
                              THEN song.restart ELSE player.nextOrder
  <2>1. player.repeat
    <3>1. Exported(player) /\ player \in Players(Nat)
      BY <1>3 DEF SteadyInv, SeqInv
    <3> QED BY <1>3, <3>1 DEF Exported
  <2>2. Waits(player, player') \/ Serves(player, player')
    BY <1>3, <2>1, TickServes
  <2>3. Serves(player, player')
    BY <1>3, <2>2 DEF Waits
  <2> QED BY <2>3 DEF Serves, Order
<1> HIDE DEF SteadyInv
<1> QED BY <1>1, <1>2, <1>3, PTL DEF Spec, QueuedOrderPlayed

\* In songs whose breaks, jumps and loops lead to rows that every pattern has,
\* and have no break before a jump in its row, an order that was queued is the
\* one that is played next, whatever else the row that ends does and however
\* the editor changes the song (handleQueuedPositions).  In other songs a
\* position that the end of a row takes from the queue may be left again at
\* the same end.
THEOREM QueueIsServed ==
  ASSUME SongsLand
  PROVE  Spec => QueuedOrderPlayed
<1>1. PICK rows \in Nat \ {0} : Lands(rows)
  BY DEF SongsLand
<1> QED BY <1>1, QueueServed

-----------------------------------------------------------------------------
(* A simple song is played as it is written. *)

\* The loop commands of a pattern of the song: where a loop ends, and where one
\* starts.  A simple song has at most one of each in a pattern.
Places(i) == (0 .. Rows(i) - 1) \X Chan
Ends(i) == {e \in Places(i) : Slot(i, e[1], e[2]).op = "loop" /\ Slot(i, e[1], e[2]).arg # 0}
Starts(i) == {s \in Places(i) : Slot(i, s[1], s[2]).op = "loop" /\ Slot(i, s[1], s[2]).arg = 0}

\* The row a loop goes back to.
First(i) == IF Starts(i) = {} THEN 0 ELSE (CHOOSE s \in Starts(i) : TRUE)[1]

\* The row has been played in this pass through the pattern.
Read(p, row) == row < p.row \/ (row = p.row /\ p.ticker # 0)

\* How often the loop that ends at e has been played to its end.
Passes(p, i, e) ==
  LET l == p.loop[e[2]] IN
  IF l.exec THEN l.count - 1
  ELSE IF Read(p, e[1]) THEN Slot(i, e[1], e[2]).arg ELSE l.count

InBody(i, e, row) == First(i) <= row /\ row <= e[1]

\* How often a row of the pattern being played has been played.
PlayedSoFar(p, i, row) ==
  (IF \E e \in Ends(i) : InBody(i, e, row)
   THEN Passes(p, i, CHOOSE e \in Ends(i) : TRUE) ELSE 0)
  + (IF Read(p, row) THEN 1 ELSE 0)

\* The mark of a channel on which no loop ends.
Unmarked(l) == ~l.exec /\ ~l.looping /\ l.count = 0

\* The mark of the channel where the loop ends at e: its count is that of the
\* passes, and it goes back to the first row once that has been read.
Marked(p, i, e) ==
  LET l == p.loop[e[2]]
      times == Slot(i, e[1], e[2]).arg
  IN /\ l.exec => /\ p.row = e[1] /\ p.ticker # 0
                  /\ l.count \in 1 .. times /\ l.start = First(i)
     /\ ~l.exec /\ Read(p, e[1]) => Unmarked(l) /\ l.start = 0
     /\ ~l.exec /\ ~Read(p, e[1]) =>
          /\ l.count \in 0 .. times
          /\ l.count > 0 => l.looping /\ First(i) <= p.row
          /\ l.count = 0 => ~l.looping
          /\ Read(p, First(i)) \/ Starts(i) = {} => l.start = First(i)

LoopsMarked(p, i) ==
  /\ \A c \in Chan : (\A e \in Ends(i) : e[2] # c) => Unmarked(p.loop[c])
  /\ \A e \in Ends(i) : Marked(p, i, e)

Written == [at \in RowsOf(song) |-> Times(song, song.ord[at[1]], at[2])]

\* A player that goes through the list from its first row to its last.
Forward(p) ==
  /\ p.pattern = None /\ p.nextOrder = None /\ p.nextPattern = None /\ p.nextRow = None
  /\ ~p.brk.on /\ ~p.jump.on /\ ~p.haltFlag /\ ~p.halted /\ ~p.idle /\ ~p.only

\* On the way the positions before this one have been played as written, those
\* behind it not at all, and this one as far as the player has come.
OnTheWay(p, ps) ==
  /\ Forward(p)
  /\ p.pos < song.ordnum /\ p.row < Rows(song.ord[p.pos])
  /\ LoopsMarked(p, song.ord[p.pos])
  /\ ps = [at \in RowsOf(song) |->
             IF at[1] < p.pos THEN Written[at]
             ELSE IF at[1] > p.pos THEN 0 ELSE PlayedSoFar(p, song.ord[p.pos], at[2])]
  /\ p.visited = {at \in RowsOf(song) : ps[at] > 0}

\* At the end of the list the player is back at the restart position.
Through(p, ps) ==
  /\ Forward(p)
  /\ p.pos = song.restart /\ p.row = 0 /\ p.ticker = 0
  /\ \A c \in Chan : ~p.loop[c].looping
  /\ ps = Written /\ p.visited = RowsOf(song)

\* An export of a simple song is on the way, through, or halted, and then all
\* has been played as written.
PlaysInv ==
  ~player.repeat =>
    /\ song \in ExportSongs
    /\ Simple(song) =>
         \/ OnTheWay(player, plays)
         \/ Through(player, plays)
         \/ player.halted /\ ~player.clock /\ plays = Written

\* What is taken for granted of a simple song that is exported: it is not one of
\* FastTracker 2 (there the row a loop went back to is where the next pattern
\* begins), its patterns have rows, and the model counts as far as its loops do.
Plain(s) ==
  /\ ~s.ft2
  /\ \A o \in 0 .. s.ordnum - 1 : s.pattern[s.ord[o]] # <<>>
  /\ \A at \in RowsOf(s) : Times(s, s.ord[at[1]], at[2]) <= MaxPlays

SongsPlain == \A s \in ExportSongs : Simple(s) => Plain(s)

-----------------------------------------------------------------------------
(* The loop of a pattern. *)

\* A simple pattern has one loop at most, on one channel, and its start is before its end.
LEMMA OneLoop ==
  ASSUME IsSong(song), Simple(song), NEW i \in Patterns
  PROVE  /\ \A e \in Ends(i), f \in Ends(i) : e = f
         /\ \A s \in Starts(i), t \in Starts(i) : s = t
         /\ \A s \in Starts(i), e \in Ends(i) : s[1] < e[1] /\ s[2] = e[2]
         /\ \A row \in Nat, c \in Chan :
              row < Rows(i) => Slot(i, row, c).op \in {"none", "loop", "delay"}
<1> DEFINE Com(e) == <<e[1], e[2], Slot(i, e[1], e[2]).arg>>
<1>1. ASSUME NEW e \in Ends(i) \union Starts(i) PROVE Com(e) \in LoopCommands(song, i)
  <2>1. /\ e \in (0 .. Len(song.pattern[i]) - 1) \X Chan
        /\ song.pattern[i][e[1] + 1][e[2]].op = "loop"
    BY <1>1 DEF Ends, Starts, Places, Rows, Slot
  <2> QED BY <2>1 DEF LoopCommands, Slot
<1>2. /\ \E c \in Chan : \A l \in LoopCommands(song, i) : l[2] = c
      /\ \A l, k \in LoopCommands(song, i) :
           l # k => (l[3] = 0) # (k[3] = 0) /\ (l[3] = 0 <=> l[1] < k[1])
  BY DEF Simple
<1>3. ASSUME NEW e \in Ends(i) \union Starts(i)
      PROVE  /\ Com(e)[1] = e[1] /\ Com(e)[2] = e[2]
             /\ e \in Ends(i) => Com(e)[3] # 0
             /\ e \in Starts(i) => Com(e)[3] = 0
             /\ e = <<e[1], e[2]>> 
  BY <1>3 DEF Ends, Starts, Places
<1> HIDE DEF Com
<1>4. ASSUME NEW e \in Ends(i), NEW f \in Ends(i) PROVE e = f
  BY <1>1, <1>2, <1>3
<1>5. ASSUME NEW s \in Starts(i), NEW t \in Starts(i) PROVE s = t
  BY <1>1, <1>2, <1>3
<1>6. ASSUME NEW s \in Starts(i), NEW e \in Ends(i) PROVE s[1] < e[1] /\ s[2] = e[2]
  <2>1. Com(s) # Com(e)
    BY <1>3
  <2> QED BY <1>1, <1>2, <1>3, <2>1
<1>7. ASSUME NEW row \in Nat, NEW c \in Chan, row < Rows(i)
      PROVE  Slot(i, row, c).op \in {"none", "loop", "delay"}
  <2>1. row + 1 \in 1 .. Len(song.pattern[i])
    BY <1>7, SongNumbers DEF Rows
  <2> QED BY <2>1 DEF Simple, Slot
<1> QED BY <1>4, <1>5, <1>6, <1>7

\* Ends and starts are places of the pattern.
LEMMA PlaceTypes ==
  ASSUME IsSong(song), NEW i \in Patterns, NEW e \in Ends(i) \union Starts(i)
  PROVE  /\ e[1] \in Nat /\ e[1] < Rows(i) /\ e[2] \in Chan /\ e = <<e[1], e[2]>>
         /\ Slot(i, e[1], e[2]).op = "loop" /\ Slot(i, e[1], e[2]).arg \in Nat
         /\ e \in Ends(i) => Slot(i, e[1], e[2]).arg \in Nat \ {0}
<1>1. e \in Places(i) /\ Slot(i, e[1], e[2]).op = "loop"
      /\ (e \in Ends(i) => Slot(i, e[1], e[2]).arg # 0)
  BY DEF Ends, Starts
<1>2. e[1] \in Nat /\ e[1] < Rows(i) /\ e[2] \in Chan /\ e = <<e[1], e[2]>>
  BY <1>1, SongNumbers DEF Places
<1>3. Slot(i, e[1], e[2]) \in Effects
  BY <1>2, SongNumbers
<1> QED BY <1>1, <1>2, <1>3 DEF Effects

LEMMA FirstIs ==
  ASSUME IsSong(song), Simple(song), NEW i \in Patterns
  PROVE  /\ First(i) \in Nat
         /\ Starts(i) = {} => First(i) = 0
         /\ \A s \in Starts(i) : First(i) = s[1]
         /\ \A e \in Ends(i) : First(i) <= e[1]
<1>1. ASSUME NEW s \in Starts(i) PROVE First(i) = s[1] /\ s[1] \in Nat
  <2>1. (CHOOSE t \in Starts(i) : TRUE) = s
    BY OneLoop
  <2> QED BY <2>1, PlaceTypes DEF First
<1>2. Starts(i) = {} => First(i) = 0
  BY DEF First
<1>3. First(i) \in Nat
  BY <1>1, <1>2
<1>4. ASSUME NEW e \in Ends(i) PROVE First(i) <= e[1]
  BY <1>1, <1>2, OneLoop, PlaceTypes
<1> QED BY <1>1, <1>2, <1>3, <1>4

\* A row in the loop is to be played as often as the loop says and once more.
LEMMA TimesAre ==
  ASSUME IsSong(song), Simple(song), NEW i \in Patterns, NEW row \in Nat
  PROVE  /\ \A e \in Ends(i) :
              InBody(i, e, row) => Times(song, i, row) = 1 + Slot(i, e[1], e[2]).arg
         /\ (\A e \in Ends(i) : ~InBody(i, e, row)) => Times(song, i, row) = 1
<1> DEFINE Com(e) == <<e[1], e[2], Slot(i, e[1], e[2]).arg>>
           coms == LoopCommands(song, i)
           starts == {l[1] : l \in {l \in coms : l[3] = 0}}
           looped == {l \in {l \in coms : l[3] # 0} :
                        row <= l[1] /\ \A start \in starts : start <= row}
<1>1. coms = {Com(e) : e \in {e \in Places(i) : Slot(i, e[1], e[2]).op = "loop"}}
  BY DEF LoopCommands, Places, Rows, Slot
<1>2. Times(song, i, row) = IF looped = {} THEN 1 ELSE 1 + (CHOOSE l \in looped : TRUE)[3]
  BY DEF Times
<1>3. \A e : /\ Com(e)[1] = e[1] /\ Com(e)[2] = e[2]
             /\ Com(e)[3] = Slot(i, e[1], e[2]).arg
  OBVIOUS
<1> HIDE DEF Com, coms
<1>4. \A l \in coms : /\ l[3] # 0 => \E e \in Ends(i) : l = Com(e)
                      /\ l[3] = 0 => \E s \in Starts(i) : l = Com(s)
  BY <1>1, <1>3 DEF Ends, Starts
<1>5. /\ \A e \in Ends(i) : Com(e) \in coms /\ Com(e)[3] # 0
      /\ \A s \in Starts(i) : Com(s) \in coms /\ Com(s)[3] = 0
  BY <1>1, <1>3 DEF Ends, Starts
<1>6. (\A start \in starts : start <= row) <=> First(i) <= row
  <2>1. ASSUME NEW l \in coms, l[3] = 0 PROVE l[1] = First(i)
    <3>1. PICK s \in Starts(i) : l = Com(s)
      BY <1>4, <2>1
    <3> QED BY <1>3, <3>1, FirstIs
  <2>2. \A start \in starts : start = First(i)
    BY <2>1
  <2>3. starts = {} => Starts(i) = {}
    <3>1. ASSUME NEW s \in Starts(i) PROVE Com(s)[1] \in starts
      BY <1>5
    <3> QED BY <3>1
  <2>4. starts = {} => First(i) <= row
    BY <2>3, FirstIs
  <2> HIDE DEF starts
  <2> QED BY <2>2, <2>4
<1> HIDE DEF starts
<1>7. \A e \in Ends(i) : Com(e) \in looped <=> InBody(i, e, row)
  BY <1>3, <1>5, <1>6 DEF InBody
<1>8. \A l \in looped : \E e \in Ends(i) : l = Com(e)
  BY <1>4
<1> HIDE DEF looped
<1>9. ASSUME NEW e \in Ends(i), InBody(i, e, row)
      PROVE  Times(song, i, row) = 1 + Slot(i, e[1], e[2]).arg
  <2>1. Com(e) \in looped
    BY <1>7, <1>9
  <2>2. (CHOOSE l \in looped : TRUE) = Com(e)
    BY <1>8, <2>1, OneLoop
  <2> QED BY <1>2, <1>3, <2>1, <2>2
<1>10. ASSUME \A e \in Ends(i) : ~InBody(i, e, row) PROVE Times(song, i, row) = 1
  <2>1. looped = {}
    BY <1>7, <1>8, <1>10
  <2> QED BY <1>2, <2>1
<1> QED BY <1>9, <1>10

\* How often it has been played, seen from a row of the loop and from another.
LEMMA PlayedAre ==
  ASSUME IsSong(song), Simple(song), NEW i \in Patterns, NEW p, NEW row
  PROVE  /\ \A e \in Ends(i) :
              InBody(i, e, row) =>
                PlayedSoFar(p, i, row) = Passes(p, i, e) + (IF Read(p, row) THEN 1 ELSE 0)
         /\ (\A e \in Ends(i) : ~InBody(i, e, row)) =>
              PlayedSoFar(p, i, row) = IF Read(p, row) THEN 1 ELSE 0
<1>1. ASSUME NEW e \in Ends(i), InBody(i, e, row)
      PROVE  PlayedSoFar(p, i, row) = Passes(p, i, e) + (IF Read(p, row) THEN 1 ELSE 0)
  <2>1. (CHOOSE f \in Ends(i) : TRUE) = e
    BY <1>1, OneLoop
  <2> QED BY <1>1, <2>1 DEF PlayedSoFar
<1>2. ASSUME \A e \in Ends(i) : ~InBody(i, e, row)
      PROVE  PlayedSoFar(p, i, row) = IF Read(p, row) THEN 1 ELSE 0
  BY <1>2 DEF PlayedSoFar
<1> QED BY <1>1, <1>2

\* Two players that agree on the passes and the rows read agree on the rest.
LEMMA SamePlayed ==
  ASSUME IsSong(song), Simple(song), NEW i \in Patterns, NEW p, NEW q, NEW row,
         \A e \in Ends(i) : Passes(q, i, e) = Passes(p, i, e),
         Read(q, row) <=> Read(p, row)
  PROVE  PlayedSoFar(q, i, row) = PlayedSoFar(p, i, row)
<1>1. CASE \E e \in Ends(i) : InBody(i, e, row)
  BY <1>1, PlayedAre
<1>2. CASE ~ \E e \in Ends(i) : InBody(i, e, row)
  BY <1>2, PlayedAre
<1> QED BY <1>1, <1>2

\* A loop has been played as often as it says at most.
LEMMA PassesBounded ==
  ASSUME IsSong(song), NEW i \in Patterns, NEW p \in Players(Nat), NEW e \in Ends(i),
         Marked(p, i, e)
  PROVE  /\ Passes(p, i, e) \in Nat /\ Passes(p, i, e) <= Slot(i, e[1], e[2]).arg
         /\ p.loop[e[2]] \in Loops
<1>1. /\ e[2] \in Chan /\ Slot(i, e[1], e[2]).arg \in Nat \ {0}
  BY PlaceTypes
<1>2. p.loop[e[2]] \in Loops
  BY <1>1 DEF Players
<1> DEFINE l == p.loop[e[2]]
           times == Slot(i, e[1], e[2]).arg
<1>3. Passes(p, i, e) = IF l.exec THEN l.count - 1
                        ELSE IF Read(p, e[1]) THEN times ELSE l.count
  BY DEF Passes
<1>4. /\ l.exec => l.count \in 1 .. times
      /\ ~l.exec /\ ~Read(p, e[1]) => l.count \in 0 .. times
  BY DEF Marked
<1> HIDE DEF l, times
<1>5. times \in Nat
  BY <1>1 DEF times
<1> QED BY <1>2, <1>3, <1>4, <1>5 DEF l, times

\* So a row of the pattern is never played more often than is written, and less
\* often as long as it is still to be read.
LEMMA PlayedBounded ==
  ASSUME IsSong(song), Simple(song), NEW i \in Patterns, NEW p \in Players(Nat),
         LoopsMarked(p, i), NEW row \in Nat
  PROVE  /\ PlayedSoFar(p, i, row) \in Nat
         /\ ~Read(p, row) => PlayedSoFar(p, i, row) < Times(song, i, row)
<1>1. CASE \E e \in Ends(i) : InBody(i, e, row)
  <2>1. PICK e \in Ends(i) : InBody(i, e, row)
    BY <1>1
  <2>2. Passes(p, i, e) \in Nat /\ Passes(p, i, e) <= Slot(i, e[1], e[2]).arg
    BY PassesBounded DEF LoopsMarked
  <2>3. Slot(i, e[1], e[2]).arg \in Nat
    BY PlaceTypes
  <2>4. /\ PlayedSoFar(p, i, row) = Passes(p, i, e) + (IF Read(p, row) THEN 1 ELSE 0)
        /\ Times(song, i, row) = 1 + Slot(i, e[1], e[2]).arg
    BY <2>1, PlayedAre, TimesAre
  <2> QED BY <2>2, <2>3, <2>4
<1>2. CASE ~ \E e \in Ends(i) : InBody(i, e, row)
  BY <1>2, PlayedAre, TimesAre
<1> QED BY <1>1, <1>2

-----------------------------------------------------------------------------
(* The effects of a simple row. *)

\* All but the loops and the delay.
Same(p, q) ==
  /\ q.repeat = p.repeat /\ q.pos = p.pos /\ q.row = p.row /\ q.ticker = p.ticker
  /\ q.nextRow = p.nextRow /\ q.brk = p.brk /\ q.jump = p.jump
  /\ q.haltFlag = p.haltFlag /\ q.halted = p.halted /\ q.idle = p.idle
  /\ q.only = p.only /\ q.pattern = p.pattern /\ q.visited = p.visited
  /\ q.nextOrder = p.nextOrder /\ q.nextPattern = p.nextPattern

\* What the effect e of channel c makes of its loop mark.
MarkAfter(p, c, e) ==
  LET l == p.loop[c] IN
  IF e.op # "loop" THEN l
  ELSE IF e.arg = 0 THEN [l EXCEPT !.exec = FALSE, !.start = p.row, !.valid = p.pos]
  ELSE IF l.count = e.arg THEN NoLoop(p.pos)
  ELSE [l EXCEPT !.exec = TRUE, !.count = @ + 1]

LEMMA SimpleEffect ==
  ASSUME ~song.ft2, NEW p \in Players(Nat), NEW g \in Players(Nat), NEW c \in Chan,
         Same(p, g), g.loop[c] = p.loop[c],
         NEW e \in Effects, e.op \in {"none", "loop", "delay"}
  PROVE  LET q == DoEffect(g, c, e) IN
         Same(p, q) /\ q.loop = [g.loop EXCEPT ![c] = MarkAfter(p, c, e)]
<1> DEFINE q == DoEffect(g, c, e)
           l == p.loop[c]
<1>0. g.row = p.row /\ g.pos = p.pos /\ g.loop \in [Chan -> Loops] /\ e.arg \in Nat
  BY DEF Same, Players, Effects
<1>1. CASE e.op = "none"
  <2>1. q = g /\ MarkAfter(p, c, e) = g.loop[c]
    BY <1>1 DEF DoEffect, MarkAfter
  <2> QED BY <1>0, <2>1
<1>2. CASE e.op = "delay"
  <2>1. q = [g EXCEPT !.delay = TickSpeed * (e.arg + 1)] /\ MarkAfter(p, c, e) = g.loop[c]
    BY <1>2 DEF DoEffect, MarkAfter
  <2> HIDE DEF q
  <2>2. Same(p, q) /\ q.loop = g.loop
    BY <2>1 DEF Same, Players
  <2> QED BY <1>0, <2>1, <2>2 DEF q
<1>3. CASE e.op = "loop"
  <2>0. q = PatternLoop(g, c, e.arg)
    BY <1>3 DEF DoEffect
  <2>1. CASE e.arg = 0
    <3>1. q = [g EXCEPT !.loop[c] = [g.loop[c] EXCEPT !.exec = FALSE, !.start = g.row,
                                                      !.valid = g.pos]]
      BY <2>0, <2>1 DEF PatternLoop
    <3>2. MarkAfter(p, c, e) = [g.loop[c] EXCEPT !.exec = FALSE, !.start = g.row,
                                                 !.valid = g.pos]
      BY <1>0, <1>3, <2>1 DEF MarkAfter
    <3>3. q = [g EXCEPT !.loop[c] = MarkAfter(p, c, e)]
      BY <3>1, <3>2
    <3> HIDE DEF q
    <3>4. Same(p, q) /\ q.loop = [g.loop EXCEPT ![c] = MarkAfter(p, c, e)]
      BY <3>3 DEF Same, Players
    <3> QED BY <3>4 DEF q
  <2>2. CASE e.arg # 0 /\ l.count = e.arg
    <3>1. q = [g EXCEPT !.loop[c] = NoLoop(g.pos), !.nextRow = g.nextRow]
      BY <2>0, <2>2 DEF PatternLoop
    <3>2. MarkAfter(p, c, e) = NoLoop(g.pos)
      BY <1>0, <1>3, <2>2 DEF MarkAfter
    <3>3. q = [g EXCEPT !.loop[c] = MarkAfter(p, c, e), !.nextRow = g.nextRow]
      BY <3>1, <3>2
    <3> HIDE DEF q
    <3>4. Same(p, q) /\ q.loop = [g.loop EXCEPT ![c] = MarkAfter(p, c, e)]
      BY <3>3 DEF Same, Players
    <3> QED BY <3>4 DEF q
  <2>3. CASE e.arg # 0 /\ l.count # e.arg
    <3>1. q = [g EXCEPT !.loop[c] = [g.loop[c] EXCEPT !.exec = TRUE, !.count = @ + 1]]
      BY <2>0, <2>3 DEF PatternLoop
    <3>2. MarkAfter(p, c, e) = [g.loop[c] EXCEPT !.exec = TRUE, !.count = @ + 1]
      BY <1>0, <1>3, <2>3 DEF MarkAfter
    <3>3. q = [g EXCEPT !.loop[c] = MarkAfter(p, c, e)]
      BY <3>1, <3>2
    <3> HIDE DEF q
    <3>4. Same(p, q) /\ q.loop = [g.loop EXCEPT ![c] = MarkAfter(p, c, e)]
      BY <3>3 DEF Same, Players
    <3> QED BY <3>4 DEF q
  <2> QED BY <2>1, <2>2, <2>3
<1> QED BY <1>1, <1>2, <1>3

\* Every channel does its own, whatever the channels before it did.
LEMMA SimpleEffects ==
  ASSUME IsSong(song), ~song.ft2, Simple(song), NEW p \in Players(Nat), NEW i \in Patterns,
         p.row < Rows(i)
  PROVE  LET q == DoEffects(p, i) IN
         Same(p, q) /\ q.loop = [c \in Chan |-> MarkAfter(p, c, Slot(i, p.row, c))]
<1>1. PICK g : /\ g = [c \in 0 .. Channels |-> Walked(p, i, g, c)]
               /\ DoEffects(p, i) = g[Channels]
  BY EffectsAreWalk
<1> DEFINE Holds(c) ==
             /\ g[c] \in Players(Nat) /\ Same(p, g[c])
             /\ g[c].loop = [d \in Chan |-> IF d <= c THEN MarkAfter(p, d, Slot(i, p.row, d))
                                            ELSE p.loop[d]]
           Fails == {c \in 0 .. Channels : ~Holds(c)}
<1>2. ASSUME Fails # {} PROVE FALSE
  <2>0. Fails \subseteq Nat
    BY Numbers
  <2>1. PICK k \in Fails : \A m \in Fails : k <= m
    BY <1>2, <2>0, LeastNatural
  <2>2. /\ k \in 0 .. Channels /\ ~Holds(k)
        /\ g[k] = Walked(p, i, g, k)
    BY <1>1
  <2>3. CASE k = 0
    <3>1. g[k] = p
      BY <2>2, <2>3 DEF Walked
    <3>2. \A d \in Chan : ~(d <= k)
      BY <2>3 DEF Chan
    <3>3. p.loop = [d \in Chan |-> p.loop[d]]
      BY DEF Players
    <3>4. g[k].loop = [d \in Chan |-> IF d <= k THEN MarkAfter(p, d, Slot(i, p.row, d))
                                      ELSE p.loop[d]]
      BY <3>1, <3>2, <3>3
    <3>5. Same(p, g[k])
      BY <3>1 DEF Same
    <3> QED BY <2>2, <3>1, <3>4, <3>5
  <2>4. CASE k # 0
    <3>1. k - 1 \in 0 .. Channels /\ k - 1 \notin Fails /\ k \in Chan
      BY <2>1, <2>2, <2>4, Numbers DEF Chan
    <3>2. Holds(k - 1)
      BY <3>1
    <3> DEFINE e == Slot(i, p.row, k)
               h == g[k - 1]
    <3>3. e \in Effects /\ e.op \in {"none", "loop", "delay"}
      <4>1. p.row \in Nat
        BY DEF Players
      <4> QED BY <3>1, <4>1, SongNumbers, OneLoop
    <3>4. g[k] = DoEffect(h, k, e)
      BY <2>2, <2>4 DEF Walked
    <3>5. k \in Nat /\ ~(k <= k - 1)
      BY <2>2, Numbers
    <3>6. h \in Players(Nat) /\ Same(p, h) /\ h.loop[k] = p.loop[k]
      BY <3>1, <3>2, <3>5
    <3>7. h.loop = [d \in Chan |-> IF d <= k - 1 THEN MarkAfter(p, d, Slot(i, p.row, d))
                                   ELSE p.loop[d]]
      BY <3>2
    <3> HIDE DEF e, h
    <3>8. Same(p, g[k]) /\ g[k].loop = [h.loop EXCEPT ![k] = MarkAfter(p, k, e)]
      BY <3>1, <3>3, <3>4, <3>6, SimpleEffect
    <3>9. g[k] \in Players(Nat)
      BY <3>1, <3>3, <3>4, <3>6, DoEffectDoes
    <3>10. ASSUME NEW d \in Chan
           PROVE  g[k].loop[d] = IF d <= k THEN MarkAfter(p, d, Slot(i, p.row, d)) ELSE p.loop[d]
      <4>1. CASE d = k
        BY <3>5, <3>7, <3>8, <4>1 DEF e
      <4>2. CASE d # k
        <5>1. (d <= k) <=> (d <= k - 1)
          BY <2>2, <4>2, Numbers DEF Chan
        <5> QED BY <3>7, <3>8, <4>2, <5>1
      <4> QED BY <4>1, <4>2
    <3>11. g[k].loop = [d \in Chan |-> IF d <= k THEN MarkAfter(p, d, Slot(i, p.row, d))
                                       ELSE p.loop[d]]
      BY <3>9, <3>10 DEF Players
    <3> QED BY <2>2, <3>8, <3>9, <3>11
  <2> QED BY <2>3, <2>4
<1>3. Holds(Channels)
  BY <1>2, Numbers
<1>4. \A d \in Chan : d <= Channels
  BY DEF Chan
<1> QED BY <1>1, <1>3, <1>4

\* The row is marked as visited, and its effects change the loops.
LEMMA SimpleRowRead ==
  ASSUME IsSong(song), ~song.ft2, Simple(song), NEW p \in Players(Nat), ~p.repeat,
         NEW i \in Patterns, p.row < Rows(i)
  PROVE  LET q == ReadRow(p, i) IN
         /\ q.pos = p.pos /\ q.row = p.row /\ q.ticker = p.ticker /\ q.nextRow = p.nextRow
         /\ q.haltFlag = p.haltFlag /\ q.halted = p.halted /\ q.idle = p.idle
         /\ q.only = p.only /\ q.pattern = p.pattern
         /\ q.nextOrder = p.nextOrder /\ q.nextPattern = p.nextPattern
         /\ ~q.brk.on /\ ~q.jump.on
         /\ q.visited = p.visited \union {<<p.pos, p.row>>}
         /\ q.loop = [c \in Chan |-> MarkAfter(p, c, Slot(i, p.row, c))]
<1> DEFINE seen == p.visited \union {<<p.pos, p.row>>}
           w == [p EXCEPT !.visited = seen, !.brk = NoBreak, !.jump = NoJump]
           q == ReadRow(p, i)
<1>1. seen \in SUBSET (Nat \X Nat)
  BY Numbers DEF Players
<1>2. q = DoEffects(w, i)
  <2>1. Visit(p) = [p EXCEPT !.visited = seen]
    BY DEF Visit
  <2> HIDE DEF seen
  <2>2. [Visit(p) EXCEPT !.brk = NoBreak, !.jump = NoJump] = w
    BY <2>1
  <2> QED BY <2>2 DEF ReadRow
<1> HIDE DEF seen
<1>3. NoBreak \in [on : BOOLEAN, row : Nat, chn : Nat] /\ ~NoBreak.on
  BY DEF NoBreak
<1>4. NoJump \in [on : BOOLEAN, pos : Nat, row : Nat, chn : Nat] /\ ~NoJump.on
  BY DEF NoJump
<1>5. w \in Players(Nat)
  BY <1>1, <1>3, <1>4 DEF Players
<1>6. /\ w.pos = p.pos /\ w.row = p.row /\ w.ticker = p.ticker /\ w.nextRow = p.nextRow
      /\ w.haltFlag = p.haltFlag /\ w.halted = p.halted /\ w.idle = p.idle
      /\ w.only = p.only /\ w.pattern = p.pattern
      /\ w.nextOrder = p.nextOrder /\ w.nextPattern = p.nextPattern
      /\ w.brk = NoBreak /\ w.jump = NoJump /\ w.visited = seen /\ w.loop = p.loop
  BY DEF Players
<1> HIDE DEF w, q
<1>7. Same(w, q) /\ q.loop = [c \in Chan |-> MarkAfter(w, c, Slot(i, w.row, c))]
  BY <1>2, <1>5, <1>6, SimpleEffects
<1>8. \A c : MarkAfter(w, c, Slot(i, w.row, c)) = MarkAfter(p, c, Slot(i, p.row, c))
  BY <1>6 DEF MarkAfter
<1>9. q.loop = [c \in Chan |-> MarkAfter(p, c, Slot(i, p.row, c))]
  BY <1>7, <1>8
<1> QED BY <1>3, <1>4, <1>6, <1>7, <1>9 DEF Same, seen, q

\* Where no loop ends, a mark that says so goes on saying so; at most its row is set.
LEMMA UnmarkedAfter ==
  ASSUME NEW p \in Players(Nat), NEW c \in Chan, NEW e, Unmarked(p.loop[c]),
         e.op = "loop" => e.arg = 0
  PROVE  Unmarked(MarkAfter(p, c, e))
<1>1. p.loop[c] \in Loops
  BY DEF Players
<1> QED BY <1>1 DEF MarkAfter, Unmarked, Loops

\* Reading a row keeps the count of the passes, also at the end of the loop.
LEMMA MarkRead ==
  ASSUME IsSong(song), Simple(song), NEW i \in Patterns, NEW p \in Players(Nat),
         NEW r \in Players(Nat), r.row = p.row, p.ticker = 0, r.ticker # 0, p.row < Rows(i),
         r.loop = [c \in Chan |-> MarkAfter(p, c, Slot(i, p.row, c))],
         NEW e \in Ends(i), Marked(p, i, e)
  PROVE  Marked(r, i, e) /\ Passes(r, i, e) = Passes(p, i, e)
<1> DEFINE c == e[2]
           l == p.loop[c]
           m == r.loop[c]
           times == Slot(i, e[1], c).arg
           fx == Slot(i, p.row, c)
           first == First(i)
<1>1. /\ c \in Chan /\ e[1] \in Nat /\ e[1] < Rows(i) /\ e = <<e[1], c>>
      /\ Slot(i, e[1], c).op = "loop" /\ times \in Nat \ {0}
  BY PlaceTypes
<1>2. l \in Loops /\ p.row \in Nat
  BY <1>1 DEF Players
<1>3. m = MarkAfter(p, c, fx)
  BY <1>1
<1>4. /\ first \in Nat /\ first <= e[1]
      /\ Starts(i) = {} => first = 0
      /\ \A s \in Starts(i) : s[1] = first /\ s[2] = c /\ first < e[1] /\ s = <<first, c>>
  BY FirstIs, OneLoop, PlaceTypes
<1>5. /\ ~l.exec
      /\ Read(p, e[1]) => Unmarked(l) /\ l.start = 0
      /\ ~Read(p, e[1]) => /\ l.count \in 0 .. times
                           /\ l.count > 0 => l.looping /\ first <= p.row
                           /\ l.count = 0 => ~l.looping
                           /\ Read(p, first) \/ Starts(i) = {} => l.start = first
  BY DEF Marked
<1>6. \A row : /\ Read(p, row) <=> row < p.row
               /\ Read(r, row) <=> (row < p.row \/ row = p.row)
  BY DEF Read
<1>7. /\ Marked(r, i, e) <=>
           /\ m.exec => /\ p.row = e[1] /\ m.count \in 1 .. times /\ m.start = first
           /\ ~m.exec /\ Read(r, e[1]) => Unmarked(m) /\ m.start = 0
           /\ ~m.exec /\ ~Read(r, e[1]) =>
                /\ m.count \in 0 .. times
                /\ m.count > 0 => m.looping /\ first <= p.row
                /\ m.count = 0 => ~m.looping
                /\ Read(r, first) \/ Starts(i) = {} => m.start = first
      /\ Passes(r, i, e) = IF m.exec THEN m.count - 1
                           ELSE IF Read(r, e[1]) THEN times ELSE m.count
      /\ Passes(p, i, e) = IF l.exec THEN l.count - 1
                           ELSE IF Read(p, e[1]) THEN times ELSE l.count
  BY DEF Marked, Passes
\* at another row of the channel there is at most the start of the loop
<1>8. ASSUME p.row # e[1]
      PROVE  fx.op = "loop" => fx.arg = 0 /\ <<p.row, c>> \in Starts(i)
  <2>1. <<p.row, c>> \in Places(i)
    BY <1>1, <1>2, SongNumbers DEF Places
  <2>2. <<p.row, c>> \notin Ends(i)
    BY <1>1, <1>8, OneLoop
  <2> QED BY <2>1, <2>2 DEF Ends, Starts
<1>9. \A s \in Places(i) : s = <<p.row, c>> => (s \in Starts(i) <=> fx.op = "loop" /\ fx.arg = 0)
  BY DEF Starts
<1> DEFINE Goal == Marked(r, i, e) /\ Passes(r, i, e) = Passes(p, i, e)
<1> HIDE DEF l, m, times, fx, first, c
<1>10. CASE p.row = e[1]
  <2>1. fx.op = "loop" /\ fx.arg = times /\ times # 0
    BY <1>1, <1>10 DEF fx, times
  <2>2. ~Read(p, e[1]) /\ Read(r, e[1])
    BY <1>2, <1>6, <1>10
  <2>3. l.start = first
    <3>1. ASSUME NEW s \in Starts(i) PROVE Read(p, first)
      BY <1>4, <1>6, <1>10
    <3> QED BY <1>5, <2>2, <3>1
  <2>4. CASE l.count = times
    <3>1. m = NoLoop(p.pos)
      BY <1>3, <2>1, <2>4 DEF MarkAfter, l
    <3>2. ~m.exec /\ Unmarked(m) /\ m.start = 0
      BY <3>1 DEF NoLoop, Unmarked
    <3> QED BY <1>5, <1>7, <2>2, <2>4, <3>2
  <2>5. CASE l.count # times
    <3>1. m = [l EXCEPT !.exec = TRUE, !.count = @ + 1]
      BY <1>3, <2>1, <2>5 DEF MarkAfter, l
    <3>2. m.exec = TRUE /\ m.count = l.count + 1 /\ m.start = l.start
      BY <1>2, <3>1 DEF Loops
    <3>3. l.count \in 0 .. times /\ times \in Nat
      BY <1>1, <1>5, <2>2
    <3>4. m.count \in 1 .. times /\ m.count - 1 = l.count
      BY <2>5, <3>2, <3>3
    <3> QED BY <1>5, <1>7, <1>10, <2>2, <2>3, <3>2, <3>4
  <2> QED BY <2>4, <2>5
<1>11. CASE p.row # e[1] /\ fx.op # "loop"
  <2>1. m = l
    BY <1>3, <1>11 DEF MarkAfter, l
  <2>2. Read(r, e[1]) <=> Read(p, e[1])
    BY <1>6, <1>11
  <2>3. Read(r, first) => Read(p, first) \/ Starts(i) = {}
    <3>1. ASSUME NEW s \in Starts(i) PROVE p.row # first
      <4>1. s \in Places(i)
        BY DEF Starts
      <4> QED BY <1>4, <1>9, <1>11, <4>1
    <3> QED BY <1>6, <3>1
  <2> QED BY <1>5, <1>7, <2>1, <2>2, <2>3
<1>12. CASE p.row # e[1] /\ fx.op = "loop"
  <2>1. fx.arg = 0 /\ <<p.row, c>> \in Starts(i)
    BY <1>8, <1>12
  <2>2. p.row = first /\ first < e[1]
    BY <1>4, <2>1
  <2>3. m = [l EXCEPT !.exec = FALSE, !.start = p.row, !.valid = p.pos]
    BY <1>3, <1>12, <2>1 DEF MarkAfter, l
  <2>4. m.exec = FALSE /\ m.start = p.row /\ m.count = l.count /\ m.looping = l.looping
    BY <1>2, <2>3 DEF Loops
  <2>5. ~Read(p, e[1]) /\ ~Read(r, e[1])
    BY <1>1, <1>2, <1>6, <2>2
  <2> QED BY <1>5, <1>7, <2>2, <2>4, <2>5
<1> QED BY <1>10, <1>11, <1>12

LEMMA MarksRead ==
  ASSUME IsSong(song), Simple(song), NEW i \in Patterns, NEW p \in Players(Nat),
         NEW r \in Players(Nat), r.row = p.row, p.ticker = 0, r.ticker # 0, p.row < Rows(i),
         r.loop = [c \in Chan |-> MarkAfter(p, c, Slot(i, p.row, c))],
         LoopsMarked(p, i)
  PROVE  LoopsMarked(r, i) /\ \A e \in Ends(i) : Passes(r, i, e) = Passes(p, i, e)
<1>1. \A e \in Ends(i) : Marked(r, i, e) /\ Passes(r, i, e) = Passes(p, i, e)
  BY MarkRead DEF LoopsMarked
<1>2. ASSUME NEW c \in Chan, \A e \in Ends(i) : e[2] # c PROVE Unmarked(r.loop[c])
  <2> DEFINE fx == Slot(i, p.row, c)
  <2>1. <<p.row, c>> \in Places(i)
    <3>1. p.row \in Nat
      BY DEF Players
    <3> QED BY <3>1, SongNumbers DEF Places
  <2>2. fx.op = "loop" => fx.arg = 0
    BY <1>2, <2>1 DEF Ends
  <2>3. Unmarked(p.loop[c])
    BY <1>2 DEF LoopsMarked
  <2> HIDE DEF fx
  <2>4. r.loop[c] = MarkAfter(p, c, fx)
    BY DEF fx
  <2> QED BY <2>2, <2>3, <2>4, UnmarkedAfter
<1> QED BY <1>1, <1>2 DEF LoopsMarked

-----------------------------------------------------------------------------
(* Through the list. *)

LEMMA RowsAre ==
  ASSUME IsSong(song)
  PROVE  /\ \A o \in Nat, row \in Nat :
              o < song.ordnum /\ row < Rows(song.ord[o]) => <<o, row>> \in RowsOf(song)
         /\ \A at \in RowsOf(song) :
              /\ at[1] \in Nat /\ at[1] < song.ordnum /\ at[1] \in Positions
              /\ song.ord[at[1]] \in Patterns
              /\ at[2] \in Nat /\ at[2] < Rows(song.ord[at[1]])
              /\ at = <<at[1], at[2]>>
<1>1. song.ordnum \in Nat /\ \A o \in Nat : o < song.ordnum => Rows(song.ord[o]) \in Nat
  BY SongNumbers
<1>2. ASSUME NEW o \in Nat, NEW row \in Nat, o < song.ordnum, row < Rows(song.ord[o])
      PROVE  <<o, row>> \in RowsOf(song)
  <2>1. o \in 0 .. song.ordnum - 1 /\ row \in 0 .. Rows(song.ord[o]) - 1
    BY <1>1, <1>2
  <2>2. <<o, row>> \in {o} \X (0 .. Len(song.pattern[song.ord[o]]) - 1)
    BY <2>1 DEF Rows
  <2> QED BY <2>1, <2>2 DEF RowsOf
<1>3. ASSUME NEW at \in RowsOf(song)
      PROVE  /\ at[1] \in Nat /\ at[1] < song.ordnum /\ at[1] \in Positions
             /\ song.ord[at[1]] \in Patterns
             /\ at[2] \in Nat /\ at[2] < Rows(song.ord[at[1]])
             /\ at = <<at[1], at[2]>>
  <2>1. PICK o \in 0 .. song.ordnum - 1 :
          at \in {o} \X (0 .. Len(song.pattern[song.ord[o]]) - 1)
    BY DEF RowsOf
  <2>2. at[1] = o /\ at[2] \in 0 .. Rows(song.ord[o]) - 1 /\ at = <<at[1], at[2]>>
    BY <2>1 DEF Rows
  <2>3. o \in Nat /\ o < song.ordnum
    BY <1>1
  <2>4. o \in Positions
    BY <2>3, SongNumbers
  <2> QED BY <1>1, <2>2, <2>3, <2>4, SongNumbers
<1> QED BY <1>2, <1>3

LEMMA OnceMore ==
  ASSUME IsSong(song), Simple(song), NEW i \in Patterns, NEW p \in Players(Nat),
         LoopsMarked(p, i), NEW q, NEW row \in Nat,
         \A e \in Ends(i) : Passes(q, i, e) = Passes(p, i, e),
         ~Read(p, row), Read(q, row)
  PROVE  PlayedSoFar(q, i, row) = PlayedSoFar(p, i, row) + 1
<1>1. CASE \E e \in Ends(i) : InBody(i, e, row)
  <2>1. PICK e \in Ends(i) : InBody(i, e, row)
    BY <1>1
  <2>2. Passes(p, i, e) \in Nat
    BY PassesBounded DEF LoopsMarked
  <2>3. PlayedSoFar(p, i, row) = Passes(p, i, e) + 0
    BY <2>1, PlayedAre
  <2>4. PlayedSoFar(q, i, row) = Passes(p, i, e) + 1
    BY <2>1, PlayedAre
  <2> QED BY <2>2, <2>3, <2>4
<1>2. CASE ~ \E e \in Ends(i) : InBody(i, e, row)
  BY <1>2, PlayedAre
<1> QED BY <1>1, <1>2

\* A row is as often to be played as is written, once at least.
LEMMA WrittenIs ==
  ASSUME IsSong(song), Simple(song), NEW at \in RowsOf(song)
  PROVE  /\ Written[at] = Times(song, song.ord[at[1]], at[2])
         /\ Written[at] \in Nat \ {0}
<1> DEFINE i == song.ord[at[1]]
           row == at[2]
<1>1. i \in Patterns /\ row \in Nat
  BY RowsAre
<1> HIDE DEF i, row
<1>2. Times(song, i, row) \in Nat \ {0}
  <2>1. CASE \E e \in Ends(i) : InBody(i, e, row)
    <3>1. PICK e \in Ends(i) : InBody(i, e, row)
      BY <2>1
    <3>2. Slot(i, e[1], e[2]).arg \in Nat
      BY <1>1, PlaceTypes
    <3>3. Times(song, i, row) = 1 + Slot(i, e[1], e[2]).arg
      BY <1>1, <3>1, TimesAre
    <3> QED BY <3>2, <3>3
  <2>2. CASE ~ \E e \in Ends(i) : InBody(i, e, row)
    BY <1>1, <2>2, TimesAre
  <2> QED BY <2>1, <2>2
<1> QED BY <1>2 DEF Written, i, row

\* Of a position on the way.
LEMMA HereIs ==
  ASSUME IsSong(song), NEW p \in Players(Nat), NEW ps, OnTheWay(p, ps)
  PROVE  /\ p.pos \in Nat /\ p.pos \in Positions /\ p.row \in Nat /\ p.ticker \in Nat
         /\ song.ord[p.pos] \in Patterns /\ Rows(song.ord[p.pos]) \in Nat
         /\ p.row < Rows(song.ord[p.pos]) /\ p.pos < song.ordnum
         /\ <<p.pos, p.row>> \in RowsOf(song)
         /\ song.ordnum \in Nat
<1>1. p.pos \in Nat /\ p.pos \in Positions /\ p.row \in Nat /\ p.ticker \in Nat
  BY Numbers DEF Players
<1>2. p.row < Rows(song.ord[p.pos]) /\ p.pos < song.ordnum
  BY DEF OnTheWay
<1> QED BY <1>1, <1>2, SongNumbers, RowsAre

\* Reading a row counts it.
LEMMA ReadOnTheWay ==
  ASSUME IsSong(song), Simple(song), Plain(song), NEW p \in Players(Nat), ~p.repeat,
         OnTheWay(p, plays), p.ticker = 0,
         NEW r \in Players(Nat), r = [ReadRow(p, song.ord[p.pos]) EXCEPT !.ticker = 1]
  PROVE  OnTheWay(r, Counted(p))
<1> DEFINE i == song.ord[p.pos]
           q == ReadRow(p, i)
           here == <<p.pos, p.row>>
           Count(s, at) == IF at[1] < p.pos THEN Written[at]
                           ELSE IF at[1] > p.pos THEN 0 ELSE PlayedSoFar(s, i, at[2])
           counted == [plays EXCEPT ![here] = @ + 1]
<1>1. /\ p.pos \in Nat /\ p.row \in Nat /\ i \in Patterns
      /\ p.row < Rows(i) /\ p.pos < song.ordnum /\ here \in RowsOf(song)
  BY HereIs
<1>2. /\ Forward(p) /\ LoopsMarked(p, i)
      /\ plays = [at \in RowsOf(song) |-> Count(p, at)]
      /\ p.visited = {at \in RowsOf(song) : plays[at] > 0}
  BY DEF OnTheWay
<1>3. /\ q.pos = p.pos /\ q.row = p.row /\ q.nextRow = p.nextRow
      /\ q.haltFlag = p.haltFlag /\ q.halted = p.halted /\ q.idle = p.idle
      /\ q.only = p.only /\ q.pattern = p.pattern
      /\ q.nextOrder = p.nextOrder /\ q.nextPattern = p.nextPattern
      /\ ~q.brk.on /\ ~q.jump.on
      /\ q.visited = p.visited \union {here}
      /\ q.loop = [c \in Chan |-> MarkAfter(p, c, Slot(i, p.row, c))]
      /\ q \in Players(Nat)
  BY <1>1, SimpleRowRead, ReadRowDoes DEF Plain
<1> HIDE DEF q
<1>4. /\ r.pos = p.pos /\ r.row = p.row /\ r.ticker = 1 /\ r.nextRow = p.nextRow
      /\ r.haltFlag = p.haltFlag /\ r.halted = p.halted /\ r.idle = p.idle
      /\ r.only = p.only /\ r.pattern = p.pattern
      /\ r.nextOrder = p.nextOrder /\ r.nextPattern = p.nextPattern
      /\ ~r.brk.on /\ ~r.jump.on
      /\ r.visited = p.visited \union {here}
      /\ r.loop = [c \in Chan |-> MarkAfter(p, c, Slot(i, p.row, c))]
  BY <1>3 DEF Players, q
<1> HIDE DEF i, here
<1>5. Forward(r)
  BY <1>2, <1>4 DEF Forward
<1>6. LoopsMarked(r, i) /\ \A e \in Ends(i) : Passes(r, i, e) = Passes(p, i, e)
  <2>1. r.ticker # 0
    BY <1>4
  <2>2. /\ r.row = p.row
        /\ r.loop = [c \in Chan |-> MarkAfter(p, c, Slot(i, p.row, c))]
    BY <1>4
  <2>3. i \in Patterns /\ p.row < Rows(i) /\ LoopsMarked(p, i)
    BY <1>1, <1>2
  <2> QED BY <2>1, <2>2, <2>3, MarksRead
<1>7. plays[here] = PlayedSoFar(p, i, p.row)
  BY <1>1, <1>2 DEF here
<1>8. ~Read(p, p.row) /\ Read(r, p.row)
  BY <1>1, <1>4 DEF Read
<1>9. PlayedSoFar(p, i, p.row) \in Nat /\ PlayedSoFar(p, i, p.row) < MaxPlays
  <2>1. PlayedSoFar(p, i, p.row) \in Nat /\ PlayedSoFar(p, i, p.row) < Times(song, i, p.row)
    BY <1>1, <1>2, <1>8, PlayedBounded
  <2>2. Times(song, i, p.row) <= MaxPlays
    BY <1>1 DEF Plain, here, i
  <2>3. Times(song, i, p.row) \in Nat
    <3>1. here[1] = p.pos /\ here[2] = p.row
      BY DEF here
    <3> QED BY <1>1, <3>1, WrittenIs DEF i
  <2> QED BY <2>1, <2>2, <2>3, SequencerAssumption DEF SequencerAssumption
<1>10. Counted(p) = counted
  <2>1. here \in DOMAIN plays
    BY <1>1, <1>2
  <2> QED BY <1>7, <1>9, <2>1 DEF Counted, here, OnTheWay
<1>11. ASSUME NEW at \in RowsOf(song) PROVE counted[at] = Count(r, at)
  <2>0. /\ at[1] \in Nat /\ at[2] \in Nat /\ at = <<at[1], at[2]>>
    BY RowsAre
  <2>1. CASE at = here
    <3>1. at[1] = p.pos /\ at[2] = p.row
      BY <2>1 DEF here
    <3>2. counted[at] = PlayedSoFar(p, i, p.row) + 1
      BY <1>1, <1>2, <1>7, <2>1
    <3>3. PlayedSoFar(r, i, p.row) = PlayedSoFar(p, i, p.row) + 1
      BY <1>1, <1>2, <1>6, <1>8, OnceMore
    <3> QED BY <1>1, <3>1, <3>2, <3>3
  <2>2. CASE at # here
    <3>1. counted[at] = Count(p, at)
      BY <1>2, <2>2
    <3>2. CASE at[1] # p.pos
      BY <1>1, <2>0, <3>1, <3>2
    <3>3. CASE at[1] = p.pos
      <4>1. at[2] # p.row
        BY <2>0, <2>2, <3>3 DEF here
      <4>2. Read(r, at[2]) <=> Read(p, at[2])
        BY <1>1, <1>4, <2>0, <4>1 DEF Read
      <4>3. PlayedSoFar(r, i, at[2]) = PlayedSoFar(p, i, at[2])
        BY <1>1, <1>6, <4>2, SamePlayed
      <4> QED BY <1>1, <3>1, <3>3, <4>3
    <3> QED BY <3>2, <3>3
  <2> QED BY <2>1, <2>2
<1>12. counted = [at \in RowsOf(song) |-> Count(r, at)]
  BY <1>2, <1>11
<1>13. r.visited = {at \in RowsOf(song) : counted[at] > 0}
  <2>1. counted[here] > 0
    BY <1>1, <1>2, <1>7, <1>9
  <2>2. \A at \in RowsOf(song) : at # here => counted[at] = plays[at]
    BY <1>2
  <2> HIDE DEF counted
  <2> QED BY <1>1, <1>2, <1>4, <2>1, <2>2
<1> HIDE DEF counted
<1> QED BY <1>1, <1>4, <1>5, <1>6, <1>10, <1>12, <1>13 DEF OnTheWay, i

\* Still at the same position, with as much played.
LEMMA StillOnTheWay ==
  ASSUME IsSong(song), NEW p \in Players(Nat), NEW ps, OnTheWay(p, ps),
         NEW q, Forward(q), q.pos = p.pos, q.visited = p.visited,
         NEW i, i = song.ord[p.pos], q.row < Rows(i), LoopsMarked(q, i),
         \A row \in Nat : row < Rows(i) => PlayedSoFar(q, i, row) = PlayedSoFar(p, i, row)
  PROVE  OnTheWay(q, ps)
<1> DEFINE Count(s, at) == IF at[1] < p.pos THEN Written[at]
                           ELSE IF at[1] > p.pos THEN 0 ELSE PlayedSoFar(s, i, at[2])
<1>1. p.pos \in Nat
  BY HereIs
<1>2. ASSUME NEW at \in RowsOf(song) PROVE Count(q, at) = Count(p, at)
  <2>1. at[1] \in Nat /\ at[2] \in Nat /\ at[2] < Rows(song.ord[at[1]])
    BY RowsAre
  <2>2. CASE at[1] = p.pos
    BY <1>1, <2>1, <2>2
  <2>3. CASE at[1] # p.pos
    BY <1>1, <2>1, <2>3
  <2> QED BY <2>2, <2>3
<1>3. ps = [at \in RowsOf(song) |-> Count(p, at)]
  BY DEF OnTheWay
<1>4. ps = [at \in RowsOf(song) |-> Count(q, at)]
  BY <1>2, <1>3
<1> QED BY <1>4 DEF OnTheWay

\* At the end of a row that neither breaks nor jumps.
LEMMA EndRowIs ==
  ASSUME NEW p \in Players(Nat), NEW i, Forward(p)
  PROVE  LET q == [p EXCEPT !.ticker = 0, !.delay = 0]
             looped == ExecLoops(q)
         IN EndRow(p, i) = NextRow([looped EXCEPT !.row = @ + 1], song.ord[looped.pos])
<1> DEFINE q == [p EXCEPT !.ticker = 0, !.delay = 0]
<1>1. ~q.only /\ q.pattern = None /\ ~q.brk.on /\ ~q.jump.on
  BY DEF Forward, Players
<1> HIDE DEF q
<1>2. Jump(Break(q)) = q
  BY <1>1 DEF Jump, Break
<1>3. EndRow(p, i) = NextRow([ExecLoops(q) EXCEPT !.row = @ + 1], song.ord[ExecLoops(q).pos])
  BY <1>1, <1>2 DEF EndRow, q
<1> QED BY <1>3 DEF q

\* After the last pass, or outside a loop, the next row follows.
LEMMA NextRowFollows ==
  ASSUME IsSong(song), Simple(song), NEW p \in Players(Nat), NEW ps, OnTheWay(p, ps),
         p.ticker # 0, NEW q \in Players(Nat), Forward(q), q.pos = p.pos, q.visited = p.visited,
         q.loop = p.loop, q.ticker = 0, q.row = p.row + 1,
         NEW i, i = song.ord[p.pos], \A c \in Chan : ~p.loop[c].exec
  PROVE  /\ LoopsMarked(q, i)
         /\ \A row \in Nat : PlayedSoFar(q, i, row) = PlayedSoFar(p, i, row)
         /\ \A e \in Ends(i) : Passes(q, i, e) = Passes(p, i, e)
<1>1. p.row \in Nat /\ i \in Patterns
  BY HereIs
<1>2. \A row \in Nat : Read(q, row) <=> Read(p, row)
  BY <1>1 DEF Read
<1>3. ASSUME NEW e \in Ends(i)
      PROVE  Marked(q, i, e) /\ Passes(q, i, e) = Passes(p, i, e)
  <2>1. e[1] \in Nat /\ e[2] \in Chan /\ First(i) \in Nat
    BY <1>1, PlaceTypes, FirstIs
  <2>2. /\ Read(q, e[1]) <=> Read(p, e[1])
        /\ Read(q, First(i)) <=> Read(p, First(i))
        /\ First(i) <= p.row => First(i) <= q.row
    BY <1>1, <1>2, <2>1
  <2>3. ~p.loop[e[2]].exec
    BY <2>1
  <2>4. Marked(p, i, e)
    BY DEF OnTheWay, LoopsMarked
  <2> QED BY <2>2, <2>3, <2>4 DEF Marked, Passes
<1>4. LoopsMarked(q, i)
  BY <1>3 DEF OnTheWay, LoopsMarked
<1>5. ASSUME NEW row \in Nat PROVE PlayedSoFar(q, i, row) = PlayedSoFar(p, i, row)
  BY <1>1, <1>2, <1>3, SamePlayed
<1> QED BY <1>3, <1>4, <1>5

\* At the end of a loop that is to be played again its first row follows, and
\* one pass more is done.
LEMMA LoopGoesBack ==
  ASSUME IsSong(song), Simple(song), NEW p \in Players(Nat), NEW ps, OnTheWay(p, ps),
         p.ticker # 0, NEW i, i = song.ord[p.pos], NEW e \in Ends(i), p.loop[e[2]].exec,
         NEW q \in Players(Nat), Forward(q), q.pos = p.pos, q.visited = p.visited,
         q.ticker = 0, q.row = p.loop[e[2]].start,
         q.loop = [p.loop EXCEPT ![e[2]] = [@ EXCEPT !.exec = FALSE, !.looping = TRUE]]
  PROVE  OnTheWay(q, ps)
<1> DEFINE chn == e[2]
           l == p.loop[chn]
           m == q.loop[chn]
           times == Slot(i, e[1], chn).arg
           first == First(i)
<1>0. i \in Patterns /\ p.row \in Nat /\ Rows(i) \in Nat
  BY HereIs
<1>1. chn \in Chan /\ e[1] \in Nat /\ e[1] < Rows(i) /\ times \in Nat \ {0}
  BY <1>0, PlaceTypes
<1>2. first \in Nat /\ first <= e[1]
  BY <1>0, FirstIs
<1>3. l \in Loops
  BY <1>1 DEF Players
<1>4. LoopsMarked(p, i)
  BY DEF OnTheWay
<1>5. p.row = e[1] /\ l.count \in 1 .. times /\ l.start = first
  BY <1>4 DEF LoopsMarked, Marked
<1>6. m = [l EXCEPT !.exec = FALSE, !.looping = TRUE]
  <2>1. p.loop \in [Chan -> Loops]
    BY DEF Players
  <2> QED BY <1>1, <2>1
<1>7. m.exec = FALSE /\ m.looping = TRUE /\ m.count = l.count /\ m.start = first
  BY <1>3, <1>5, <1>6 DEF Loops
<1>8. q.row = first
  BY <1>5
<1>9. \A row \in Nat : /\ Read(q, row) <=> row < first
                       /\ Read(p, row) <=> row <= e[1]
  BY <1>0, <1>1, <1>2, <1>5, <1>8 DEF Read
<1>10. \A f \in Ends(i) : f = e
  BY <1>0, OneLoop
<1> HIDE DEF chn, l, m, times, first
<1>11. Marked(q, i, e)
  <2>1. ~Read(q, e[1]) /\ ~Read(q, first)
    BY <1>1, <1>2, <1>9
  <2>2. m.count \in 0 .. times /\ m.count > 0
    BY <1>1, <1>5, <1>7
  <2>3. first <= q.row
    BY <1>2, <1>8
  <2> QED BY <1>7, <2>1, <2>2, <2>3 DEF Marked, m, chn, times, first
<1>12. LoopsMarked(q, i)
  <2>1. ASSUME NEW d \in Chan, \A f \in Ends(i) : f[2] # d PROVE Unmarked(q.loop[d])
    <3>1. d # chn /\ Unmarked(p.loop[d])
      BY <1>4, <2>1 DEF LoopsMarked, chn
    <3>2. p.loop \in [Chan -> Loops]
      BY DEF Players
    <3> QED BY <3>1, <3>2 DEF chn
  <2> QED BY <1>10, <1>11, <2>1 DEF LoopsMarked
<1>13. Passes(p, i, e) = l.count - 1 /\ Passes(q, i, e) = l.count
  <2>1. ~Read(q, e[1])
    BY <1>1, <1>2, <1>9
  <2> QED BY <1>7, <2>1 DEF Passes, l, m, chn
<1>14. ASSUME NEW row \in Nat PROVE PlayedSoFar(q, i, row) = PlayedSoFar(p, i, row)
  <2>1. CASE InBody(i, e, row)
    <3>1. first <= row /\ row <= e[1]
      BY <2>1 DEF InBody, first
    <3>2. ~Read(q, row) /\ Read(p, row)
      BY <1>2, <1>9, <3>1
    <3>3. /\ PlayedSoFar(q, i, row) = l.count + 0
          /\ PlayedSoFar(p, i, row) = l.count - 1 + 1
      BY <1>0, <1>13, <2>1, <3>2, PlayedAre
    <3>4. l.count \in Int
      BY <1>3 DEF Loops
    <3> QED BY <3>3, <3>4
  <2>2. CASE ~InBody(i, e, row)
    <3>1. Read(q, row) <=> Read(p, row)
      <4>1. row < first \/ row > e[1]
        BY <1>1, <1>2, <2>2 DEF InBody, first
      <4> QED BY <1>1, <1>2, <1>9, <4>1
    <3>2. \A f \in Ends(i) : ~InBody(i, f, row)
      BY <1>10, <2>2
    <3> QED BY <1>0, <3>1, <3>2, PlayedAre
  <2> QED BY <2>1, <2>2
<1>15. q.row < Rows(i)
  BY <1>0, <1>1, <1>2, <1>8
<1> QED BY <1>12, <1>14, <1>15, StillOnTheWay

\* At the first row of a position nothing of it has been played.
LEMMA NothingPlayed ==
  ASSUME IsSong(song), Simple(song), NEW i \in Patterns, NEW q, NEW pos,
         q.loop = NoLoops(pos), q.row = 0, q.ticker = 0
  PROVE  LoopsMarked(q, i) /\ \A row \in Nat : PlayedSoFar(q, i, row) = 0
<1>1. \A c \in Chan : /\ Unmarked(q.loop[c]) /\ q.loop[c].start = 0
                      /\ ~q.loop[c].exec /\ q.loop[c].count = 0 /\ ~q.loop[c].looping
  BY DEF NoLoops, NoLoop, Unmarked
<1>2. \A row \in Nat : ~Read(q, row)
  BY DEF Read
<1>3. ASSUME NEW e \in Ends(i) PROVE Marked(q, i, e) /\ Passes(q, i, e) = 0
  <2>1. e[1] \in Nat /\ e[2] \in Chan /\ Slot(i, e[1], e[2]).arg \in Nat \ {0}
    BY PlaceTypes
  <2>2. First(i) \in Nat /\ (Starts(i) = {} => First(i) = 0)
    BY FirstIs
  <2>3. ~Read(q, e[1]) /\ ~Read(q, First(i))
    BY <1>2, <2>1, <2>2
  <2>4. 0 \in 0 .. Slot(i, e[1], e[2]).arg
    BY <2>1
  <2> QED BY <1>1, <2>1, <2>2, <2>3, <2>4 DEF Marked, Passes
<1>4. LoopsMarked(q, i)
  BY <1>1, <1>3 DEF LoopsMarked
<1>5. ASSUME NEW row \in Nat PROVE PlayedSoFar(q, i, row) = 0
  <2>1. CASE \E e \in Ends(i) : InBody(i, e, row)
    BY <1>2, <1>3, <2>1, PlayedAre
  <2>2. CASE ~ \E e \in Ends(i) : InBody(i, e, row)
    BY <1>2, <2>2, PlayedAre
  <2> QED BY <2>1, <2>2
<1> QED BY <1>4, <1>5

\* At the last row of a position all of it has been played as written, unless a
\* loop ends there and is to be played again.
LEMMA AllPlayed ==
  ASSUME IsSong(song), Simple(song), NEW p \in Players(Nat), NEW ps, OnTheWay(p, ps),
         p.ticker # 0, \A c \in Chan : ~p.loop[c].exec,
         p.row + 1 >= Rows(song.ord[p.pos]),
         NEW at \in RowsOf(song)
  PROVE  ps[at] = IF at[1] <= p.pos THEN Written[at] ELSE 0
<1> DEFINE i == song.ord[p.pos]
           row == at[2]
<1>1. p.pos \in Nat /\ p.row \in Nat /\ i \in Patterns /\ Rows(i) \in Nat
  BY HereIs
<1>2. /\ at[1] \in Nat /\ row \in Nat /\ row < Rows(song.ord[at[1]])
  BY RowsAre
<1>3. ps[at] = IF at[1] < p.pos THEN Written[at]
               ELSE IF at[1] > p.pos THEN 0 ELSE PlayedSoFar(p, i, row)
  BY DEF OnTheWay
<1> HIDE DEF i, row
<1>4. CASE at[1] # p.pos
  BY <1>1, <1>2, <1>3, <1>4
<1>5. CASE at[1] = p.pos
  <2>1. row < Rows(i)
    BY <1>2, <1>5 DEF i
  <2>2. \A r \in Nat : r < Rows(i) => Read(p, r)
    BY <1>1 DEF Read, i
  <2>3. Written[at] = Times(song, i, row)
    BY <1>5, WrittenIs DEF i, row
  <2>4. PlayedSoFar(p, i, row) = Times(song, i, row)
    <3>1. CASE \E e \in Ends(i) : InBody(i, e, row)
      <4>1. PICK e \in Ends(i) : InBody(i, e, row)
        BY <3>1
      <4>2. /\ e[1] \in Nat /\ e[1] < Rows(i) /\ e[2] \in Chan
            /\ Slot(i, e[1], e[2]).arg \in Nat
        BY <1>1, PlaceTypes
      <4>3. Passes(p, i, e) = Slot(i, e[1], e[2]).arg
        BY <2>2, <4>2 DEF Passes
      <4>4. /\ PlayedSoFar(p, i, row) = Passes(p, i, e) + 1
            /\ Times(song, i, row) = 1 + Slot(i, e[1], e[2]).arg
        BY <1>1, <1>2, <2>1, <2>2, <4>1, PlayedAre, TimesAre
      <4> QED BY <4>2, <4>3, <4>4
    <3>2. CASE ~ \E e \in Ends(i) : InBody(i, e, row)
      BY <1>1, <1>2, <2>1, <2>2, <3>2, PlayedAre, TimesAre
    <3> QED BY <3>1, <3>2
  <2>5. ps[at] = PlayedSoFar(p, i, row)
    BY <1>1, <1>3, <1>5
  <2> QED BY <1>1, <1>5, <2>3, <2>4, <2>5
<1> QED BY <1>4, <1>5

\* The position after this one, or the restart position behind the last.
LEMMA NextPosition ==
  ASSUME IsSong(song), Simple(song), Plain(song), NEW p \in Players(Nat), NEW ps,
         OnTheWay(p, ps), p.ticker # 0, \A c \in Chan : ~p.loop[c].exec,
         p.row + 1 >= Rows(song.ord[p.pos]),
         NEW f \in Players(Nat), Forward(f), f.pos = p.pos, f.row = 0, f.ticker = 0,
         f.visited = p.visited
  PROVE  LET q == SetNewPosition(f, p.pos + 1) IN OnTheWay(q, ps) \/ Through(q, ps)
<1> DEFINE next == p.pos + 1
           to == IF next >= song.ordnum THEN song.restart ELSE next
           q == SetNewPosition(f, next)
<1>1. p.pos \in Nat /\ p.pos < song.ordnum /\ song.ordnum \in Nat /\ next # p.pos
  <2>1. p.pos \in Nat /\ p.pos < song.ordnum /\ song.ordnum \in Nat
    BY HereIs
  <2> QED BY <2>1
<1>2. to \in Positions
  BY <1>1, SongNumbers
<1>3. q = [f EXCEPT !.pos = to, !.loop = NoLoops(to)]
  <2>1. f.nextOrder = None /\ f.nextPattern = None
    BY DEF Forward
  <2>2. QueuedPosition(f, next) = next /\ PatternEndReached(f) = f
    BY <2>1 DEF QueuedPosition, PatternEndReached
  <2> QED BY <1>1, <2>2 DEF SetNewPosition
<1> HIDE DEF q, to
<1>4. q.pos = to /\ q.loop = NoLoops(to) /\ q.row = 0 /\ q.ticker = 0 /\ q.visited = p.visited
  BY <1>3 DEF Players
<1>5. Forward(q)
  BY <1>3 DEF Forward, Players
<1>6. ps = [at \in RowsOf(song) |-> ps[at]] /\ p.visited = {at \in RowsOf(song) : ps[at] > 0}
  BY DEF OnTheWay
<1>7. CASE next < song.ordnum
  <2>1. to = next
    BY <1>1, <1>7 DEF to
  <2> DEFINE i == song.ord[to]
  <2>2. i \in Patterns /\ Rows(i) \in Nat
    BY <1>2, SongNumbers
  <2>3. Rows(i) # 0
    <3>1. to \in 0 .. song.ordnum - 1
      BY <1>1, <1>7, <2>1
    <3>2. song.pattern[i] # <<>>
      BY <3>1 DEF Plain
    <3>3. song.pattern[i] \in Seq([Chan -> Effects])
      BY <2>2 DEF IsSong
    <3> QED BY <3>2, <3>3 DEF Rows
  <2> HIDE DEF i
  <2>4. LoopsMarked(q, i) /\ \A row \in Nat : PlayedSoFar(q, i, row) = 0
    BY <1>4, <2>2, NothingPlayed
  <2>5. ASSUME NEW at \in RowsOf(song)
        PROVE  ps[at] = IF at[1] < q.pos THEN Written[at]
                        ELSE IF at[1] > q.pos THEN 0 ELSE PlayedSoFar(q, i, at[2])
    <3>1. at[1] \in Nat /\ at[2] \in Nat
      BY RowsAre
    <3>2. ps[at] = IF at[1] <= p.pos THEN Written[at] ELSE 0
      BY AllPlayed
    <3>3. PlayedSoFar(q, i, at[2]) = 0
      BY <2>4, <3>1
    <3>4. q.pos = p.pos + 1
      BY <1>4, <2>1
    <3> QED BY <1>1, <3>1, <3>2, <3>3, <3>4
  <2>6. ps = [at \in RowsOf(song) |->
                IF at[1] < q.pos THEN Written[at]
                ELSE IF at[1] > q.pos THEN 0 ELSE PlayedSoFar(q, i, at[2])]
    BY <1>6, <2>5
  <2>7. q.pos < song.ordnum /\ q.row < Rows(i)
    BY <1>4, <1>7, <2>1, <2>2, <2>3
  <2>8. OnTheWay(q, ps)
    BY <1>4, <1>5, <1>6, <2>4, <2>6, <2>7 DEF OnTheWay, i
  <2> QED BY <2>8 DEF q
<1>8. CASE ~(next < song.ordnum)
  <2>1. to = song.restart
    BY <1>1, <1>8 DEF to
  <2>2. ASSUME NEW at \in RowsOf(song) PROVE ps[at] = Written[at] /\ ps[at] > 0
    <3>1. at[1] \in Nat /\ at[1] <= p.pos
      BY <1>1, <1>8, RowsAre
    <3> QED BY <3>1, AllPlayed, WrittenIs
  <2>3. ps = Written
    BY <1>6, <2>2 DEF Written
  <2>4. p.visited = RowsOf(song)
    BY <1>6, <2>2
  <2>5. \A c \in Chan : ~q.loop[c].looping
    BY <1>4 DEF NoLoops, NoLoop
  <2>6. Through(q, ps)
    BY <1>4, <1>5, <2>1, <2>3, <2>4, <2>5 DEF Through
  <2> QED BY <2>6 DEF q
<1> QED BY <1>7, <1>8

\* At the end of a row the player goes back in a loop, to the next row, or to
\* the next position.
LEMMA EndOnTheWay ==
  ASSUME IsSong(song), Simple(song), Plain(song), NEW p \in Players(Nat), NEW ps,
         OnTheWay(p, ps), p.ticker # 0
  PROVE  LET r == EndRow(p, song.ord[p.pos]) IN OnTheWay(r, ps) \/ Through(r, ps)
<1> DEFINE i == song.ord[p.pos]
           q == [p EXCEPT !.ticker = 0, !.delay = 0]
           looped == ExecLoops(q)
           next == [looped EXCEPT !.row = @ + 1]
           first == [next EXCEPT !.row = 0, !.nextRow = None]
           r == EndRow(p, i)
<1>0. /\ i \in Patterns /\ Rows(i) \in Nat /\ p.row \in Nat /\ p.row < Rows(i)
      /\ Forward(p) /\ LoopsMarked(p, i)
  BY HereIs DEF OnTheWay
<1>1. r = NextRow(next, song.ord[looped.pos])
  BY <1>0, EndRowIs
<1>2. /\ q \in Players(Nat) /\ Forward(q) /\ q.pos = p.pos /\ q.row = p.row /\ q.ticker = 0
      /\ q.loop = p.loop /\ q.visited = p.visited
  BY <1>0 DEF Players, Forward
<1> HIDE DEF q, i, r
<1>3. CASE Executing(q) = {}
  <2>1. looped = q
    BY <1>3 DEF ExecLoops
  <2>2. next = [q EXCEPT !.row = p.row + 1]
    BY <1>2, <2>1
  <2>3. \A c \in Chan : ~p.loop[c].exec
    BY <1>2, <1>3 DEF Executing
  <2>4. p.row + 1 \in Nat
    BY <1>0
  <2>5. /\ next \in Players(Nat) /\ next.row = p.row + 1 /\ next.pos = p.pos
        /\ next.ticker = 0 /\ next.loop = p.loop /\ next.visited = p.visited
    BY <1>2, <2>2, <2>4 DEF Players
  <2>6. Forward(next)
    BY <1>2, <2>2 DEF Forward, Players
  <2>7. r = NextRow(next, i)
    BY <1>1, <1>2, <2>1 DEF i
  <2> HIDE DEF next
  <2>8. CASE next.row < Rows(i)
    <3>1. r = next
      BY <1>0, <2>5, <2>6, <2>7, <2>8 DEF NextRow, Forward
    <3>2. /\ LoopsMarked(next, i)
          /\ \A row \in Nat : PlayedSoFar(next, i, row) = PlayedSoFar(p, i, row)
      BY <2>3, <2>5, <2>6, NextRowFollows DEF i
    <3>3. OnTheWay(next, ps)
      BY <2>5, <2>6, <2>8, <3>2, StillOnTheWay DEF i
    <3> QED BY <3>1, <3>3 DEF r, i
  <2>9. CASE ~(next.row < Rows(i))
    <3>1. next.row >= Rows(i)
      BY <1>0, <2>4, <2>5, <2>9
    <3>2. next.nextRow = None /\ next.pattern = None /\ ~next.haltFlag
      BY <2>6 DEF Forward
    <3>3. r = SetNewPosition(first, p.pos + 1)
      BY <2>5, <2>7, <2>9, <3>1, <3>2 DEF NextRow
    <3>4. /\ first \in Players(Nat) /\ first.row = 0 /\ first.pos = p.pos
          /\ first.ticker = 0 /\ first.visited = p.visited
      BY <2>5 DEF Players
    <3>5. Forward(first)
      BY <2>5, <2>6 DEF Forward, Players
    <3> HIDE DEF first
    <3>6. p.row + 1 >= Rows(song.ord[p.pos])
      BY <2>5, <3>1 DEF i
    <3> QED BY <2>3, <3>3, <3>4, <3>5, <3>6, NextPosition DEF r, i
  <2> QED BY <2>8, <2>9
<1>4. CASE Executing(q) # {}
  <2>1. PICK c \in Chan : c \in Executing(q) /\ LastExecuting(q) = c
    BY <1>4, LastOne DEF Executing
  <2>2. p.loop[c].exec
    BY <1>2, <2>1 DEF Executing
  <2>3. PICK e \in Ends(i) : e[2] = c
    BY <1>0, <2>2 DEF LoopsMarked, Unmarked
  <2>4. ASSUME NEW d \in Chan, d # c PROVE ~p.loop[d].exec
    <3>1. \A f \in Ends(i) : f[2] # d
      BY <1>0, <2>3, <2>4, OneLoop
    <3> QED BY <1>0, <3>1 DEF LoopsMarked, Unmarked
  <2>5. Executing(q) = {c}
    BY <1>2, <2>1, <2>4 DEF Executing
  <2> DEFINE back == [p.loop EXCEPT ![c] = [@ EXCEPT !.exec = FALSE, !.looping = TRUE]]
  <2>6. [d \in Chan |-> IF d \in Executing(q)
                        THEN [q.loop[d] EXCEPT !.exec = FALSE, !.looping = TRUE]
                        ELSE q.loop[d]] = back
    <3>1. p.loop \in [Chan -> Loops]
      BY DEF Players
    <3> QED BY <1>2, <2>5, <3>1
  <2>7. p.loop[c] \in Loops /\ p.loop[c].start \in Nat
    <3>1. p.loop[c] \in Loops
      BY DEF Players
    <3> QED BY <3>1 DEF Loops
  <2>8. back \in [Chan -> Loops]
    <3>1. [p.loop[c] EXCEPT !.exec = FALSE, !.looping = TRUE] \in Loops
      BY <2>7 DEF Loops
    <3> QED BY <3>1 DEF Players
  <2> HIDE DEF back
  <2>9. looped = [q EXCEPT !.row = p.loop[c].start - 1, !.loop = back]
    BY <1>2, <1>4, <2>1, <2>6 DEF ExecLoops
  <2>10. looped.pos = p.pos
    BY <1>2, <2>9 DEF Players
  <2>11. next = [q EXCEPT !.row = p.loop[c].start, !.loop = back]
    <3>1. looped.row = p.loop[c].start - 1
      BY <1>2, <2>9 DEF Players
    <3>2. looped.row + 1 = p.loop[c].start
      BY <2>7, <3>1
    <3>3. [looped EXCEPT !.row = p.loop[c].start]
            = [q EXCEPT !.row = p.loop[c].start, !.loop = back]
      BY <1>2, <2>9 DEF Players
    <3> HIDE DEF looped
    <3> QED BY <3>2, <3>3
  <2>12. /\ next \in Players(Nat) /\ next.row = p.loop[c].start /\ next.pos = p.pos
         /\ next.ticker = 0 /\ next.loop = back /\ next.visited = p.visited
    BY <1>2, <2>7, <2>8, <2>11 DEF Players
  <2>13. Forward(next)
    BY <1>2, <2>11 DEF Forward, Players
  <2> HIDE DEF next, looped
  <2>14. OnTheWay(next, ps)
    BY <2>2, <2>3, <2>12, <2>13, LoopGoesBack DEF back, i
  <2>15. next.row < Rows(i)
    BY <2>12, <2>14 DEF OnTheWay, i
  <2>16. r = next
    <3>1. ~(next.row >= Rows(i)) /\ ~next.haltFlag
      BY <1>0, <2>7, <2>12, <2>13, <2>15 DEF Forward
    <3>2. r = NextRow(next, i)
      BY <1>1, <2>10 DEF i
    <3> QED BY <2>15, <3>1, <3>2 DEF NextRow
  <2> QED BY <2>14, <2>16 DEF r, i
<1> QED BY <1>3, <1>4

-----------------------------------------------------------------------------
(* The song does not change while it is exported. *)

LEMMA RowsKept ==
  ASSUME song' = song
  PROVE  /\ \A i : Rows(i)' = Rows(i)
         /\ \A i, row, c : Slot(i, row, c)' = Slot(i, row, c)
         /\ RowsOf(song)' = RowsOf(song)
  BY DEF Rows, Slot

LEMMA PlacesKept ==
  ASSUME song' = song, NEW i
  PROVE  /\ Ends(i)' = Ends(i) /\ Starts(i)' = Starts(i) /\ First(i)' = First(i)
<1>1. Ends(i)' = Ends(i) /\ Starts(i)' = Starts(i)
  BY RowsKept DEF Ends, Starts, Places
<1> QED BY <1>1 DEF First

LEMMA PlayedKept ==
  ASSUME song' = song, NEW p, NEW i, NEW row
  PROVE  /\ \A e : Passes(p, i, e)' = Passes(p, i, e) /\ InBody(i, e, row)' = InBody(i, e, row)
         /\ PlayedSoFar(p, i, row)' = PlayedSoFar(p, i, row)
         /\ LoopsMarked(p, i)' <=> LoopsMarked(p, i)
<1>1. \A e : Passes(p, i, e)' = Passes(p, i, e)
  BY RowsKept DEF Passes, Read
<1>2. \A e : InBody(i, e, row)' = InBody(i, e, row)
  BY PlacesKept DEF InBody
<1>3. PlayedSoFar(p, i, row)' = PlayedSoFar(p, i, row)
  <2>1. (\E e \in Ends(i) : InBody(i, e, row))' <=> \E e \in Ends(i) : InBody(i, e, row)
    BY <1>2, PlacesKept
  <2>2. (CHOOSE e \in Ends(i) : TRUE)' = CHOOSE e \in Ends(i) : TRUE
    BY PlacesKept
  <2>3. Passes(p, i, CHOOSE e \in Ends(i) : TRUE)' = Passes(p, i, CHOOSE e \in Ends(i) : TRUE)
    BY <1>1, <2>2
  <2>4. Read(p, row)' <=> Read(p, row)
    BY DEF Read
  <2> QED BY <2>1, <2>3, <2>4 DEF PlayedSoFar
<1>4. \A e : Marked(p, i, e)' <=> Marked(p, i, e)
  BY RowsKept, PlacesKept DEF Marked, Read, Unmarked
<1>5. LoopsMarked(p, i)' <=> LoopsMarked(p, i)
  BY <1>4, PlacesKept DEF LoopsMarked, Unmarked
<1> QED BY <1>1, <1>2, <1>3, <1>5

LEMMA WrittenKept ==
  ASSUME song' = song
  PROVE  Written' = Written
  BY RowsKept DEF Written

LEMMA OnTheWayKept ==
  ASSUME song' = song, OnTheWay(player', plays')
  PROVE  OnTheWay(player, plays)'
<1>1. Forward(player)' /\ player'.pos < song'.ordnum
  BY DEF OnTheWay
<1>2. Rows(song.ord[player.pos])' = Rows(song.ord[player'.pos])
  BY RowsKept
<1>3. LoopsMarked(player, song.ord[player.pos])' <=> LoopsMarked(player', song.ord[player'.pos])
  BY PlayedKept
<1>4. (plays = [at \in RowsOf(song) |->
                   IF at[1] < player.pos THEN Written[at]
                   ELSE IF at[1] > player.pos THEN 0
                   ELSE PlayedSoFar(player, song.ord[player.pos], at[2])])'
  BY PlayedKept, WrittenKept, RowsKept DEF OnTheWay
<1> QED BY <1>1, <1>2, <1>3, <1>4, RowsKept DEF OnTheWay

LEMMA ThroughKept ==
  ASSUME song' = song, Through(player', plays')
  PROVE  Through(player, plays)'
<1>1. Forward(player)'
  BY DEF Through
<1> QED BY <1>1, WrittenKept, RowsKept DEF Through

-----------------------------------------------------------------------------
(* The steps of an export. *)

\* On the way the song is not over: a row that was played before is one of the
\* loop that is being played.
LEMMA NotOver ==
  ASSUME IsSong(song), Simple(song), NEW p \in Players(Nat), NEW ps, OnTheWay(p, ps),
         \A c \in Chan : p.loop[c].valid = p.pos, p.ticker = 0
  PROVE  ~SongIsOver(p)
<1> SUFFICES ASSUME <<p.pos, p.row>> \in p.visited PROVE InLoop(p)
  BY DEF SongIsOver
<1> DEFINE i == song.ord[p.pos]
           here == <<p.pos, p.row>>
<1>1. p.pos \in Nat /\ p.row \in Nat /\ i \in Patterns
  BY HereIs
<1>2. ps[here] > 0 /\ here \in RowsOf(song)
  BY DEF OnTheWay
<1>3. here[1] = p.pos /\ here[2] = p.row
  OBVIOUS
<1>4. ps[here] = PlayedSoFar(p, i, p.row)
  BY <1>1, <1>2, <1>3 DEF OnTheWay
<1>5. ~Read(p, p.row)
  BY <1>1 DEF Read
<1>6. PlayedSoFar(p, i, p.row) > 0
  BY <1>2, <1>4
<1> HIDE DEF i, here
<1>7. \E e \in Ends(i) : InBody(i, e, p.row)
  BY <1>1, <1>5, <1>6, PlayedAre
<1>8. PICK e \in Ends(i) : InBody(i, e, p.row)
  BY <1>7
<1>9. e[1] \in Nat /\ e[2] \in Chan
  BY <1>1, PlaceTypes
<1>10. Marked(p, i, e)
  BY DEF OnTheWay, LoopsMarked, i
<1>11. Passes(p, i, e) \in Nat /\ p.loop[e[2]] \in Loops
  BY <1>1, <1>10, PassesBounded
<1>12. Passes(p, i, e) > 0
  BY <1>1, <1>5, <1>6, <1>8, <1>11, PlayedAre
<1>13. ~p.loop[e[2]].exec
  BY <1>10 DEF Marked
<1>14. ~Read(p, e[1])
  BY <1>1, <1>8, <1>9 DEF Read, InBody
<1>15. p.loop[e[2]].count > 0
  BY <1>12, <1>13, <1>14 DEF Passes
<1>16. p.loop[e[2]].looping
  BY <1>10, <1>13, <1>14, <1>15 DEF Marked
<1> QED BY <1>9, <1>16 DEF InLoop

\* A tick within a row changes nothing else.
LEMMA WithinRow ==
  ASSUME IsSong(song), Simple(song), NEW p \in Players(Nat), NEW ps, OnTheWay(p, ps),
         p.ticker # 0, NEW q, q = [p EXCEPT !.ticker = @ + 1]
  PROVE  OnTheWay(q, ps)
<1> DEFINE i == song.ord[p.pos]
<1>1. /\ q.pos = p.pos /\ q.row = p.row /\ q.loop = p.loop /\ q.visited = p.visited
      /\ q.ticker = p.ticker + 1
  BY DEF Players
<1>2. Forward(q)
  BY DEF OnTheWay, Forward, Players
<1>3. p.ticker \in Nat /\ i \in Patterns /\ q.row < Rows(i)
  BY <1>1, HereIs
<1>4. q.ticker # 0
  BY <1>1, <1>3
<1>5. \A row : Read(q, row) <=> Read(p, row)
  BY <1>1, <1>4 DEF Read
<1> HIDE DEF i
<1>6. LoopsMarked(q, i)
  <2>1. LoopsMarked(p, i)
    BY DEF OnTheWay, i
  <2>2. \A e \in Ends(i) : Marked(q, i, e) <=> Marked(p, i, e)
    BY <1>1, <1>4, <1>5 DEF Marked
  <2> QED BY <1>1, <2>1, <2>2 DEF LoopsMarked
<1>7. \A e \in Ends(i) : Passes(q, i, e) = Passes(p, i, e)
  BY <1>1, <1>5 DEF Passes
<1>8. \A row \in Nat : PlayedSoFar(q, i, row) = PlayedSoFar(p, i, row)
  BY <1>3, <1>5, <1>7, SamePlayed
<1> QED BY <1>1, <1>2, <1>3, <1>6, <1>8, StillOnTheWay DEF i

\* A tick on the way plays.
LEMMA TickOnTheWay ==
  ASSUME SeqInv, Simple(song), Plain(song), ~player.repeat, OnTheWay(player, plays), Tick
  PROVE  OnTheWay(player', plays') \/ Through(player', plays')
<1> DEFINE i == song.ord[player.pos]
<1>0. /\ IsSong(song) /\ player \in Players(Nat)
      /\ \A c \in Chan : player.loop[c].valid = player.pos
  BY DEF SeqInv, Exported
<1>1. /\ player.pos \in Nat /\ player.row \in Nat /\ player.ticker \in Nat
      /\ player.row < Rows(i) /\ player.pos < song.ordnum /\ song.ordnum \in Nat
      /\ i \in Patterns /\ Rows(i) \in Nat
  BY <1>0, HereIs
<1>2. player.pattern = None /\ ~player.idle
  BY DEF OnTheWay, Forward
<1>3. PatternNow(player) = i /\ Begun(player) = player
  BY <1>2 DEF PatternNow, Begun
<1> HIDE DEF i
<1>4. ~NothingToPlay(player) /\ ~RowIsGone(player)
  BY <1>1, <1>2, <1>3 DEF NothingToPlay, RowIsGone
<1>5. player.ticker = 0 => ~SongIsOver(player)
  BY <1>0, NotOver
<1>6. TickPlays
  BY <1>2, <1>3, <1>4, <1>5 DEF Tick, TickIdle, TickHalts, TickSkips, TickEndsSong
<1>7. player' = Ticked(RowBegun(player, i), i) /\ plays' = Counted(player)
  BY <1>3, <1>6 DEF TickPlays
<1>8. CASE player.ticker = 0
  <2> DEFINE q == ReadRow(player, i)
             r == [q EXCEPT !.ticker = 1]
  <2>1. player' = Ticked(q, i)
    BY <1>7, <1>8 DEF RowBegun
  <2>2. q \in Players(Nat) /\ q.ticker = 0
    BY <1>0, <1>1, <1>8, SimpleRowRead, ReadRowDoes DEF Plain
  <2>3. r \in Players(Nat) /\ r.ticker = 1 /\ r.pos = q.pos
    BY <2>2 DEF Players
  <2>4. q.pos = player.pos
    BY <1>0, <1>1, SimpleRowRead DEF Plain
  <2>5. OnTheWay(r, plays')
    BY <1>0, <1>7, <1>8, <2>3, ReadOnTheWay DEF i
  <2>6. CASE q.ticker + 1 >= MaxTicks(q)
    <3>1. player' = EndRow(q, i)
      BY <2>1, <2>6 DEF Ticked
    <3>2. [q EXCEPT !.ticker = 0, !.delay = 0] = [r EXCEPT !.ticker = 0, !.delay = 0]
      BY <2>2 DEF Players
    <3> HIDE DEF q, r
    <3>3. EndRow(q, i) = EndRow(r, i)
      BY <3>2 DEF EndRow
    <3>4. EndRow(r, i) = EndRow(r, song.ord[r.pos])
      BY <2>3, <2>4 DEF i
    <3> QED BY <1>0, <2>3, <2>5, <3>1, <3>3, <3>4, EndOnTheWay
  <2>7. CASE ~(q.ticker + 1 >= MaxTicks(q))
    <3>1. player' = [q EXCEPT !.ticker = @ + 1]
      BY <2>1, <2>7 DEF Ticked
    <3>2. player' = r
      BY <2>2, <3>1
    <3> QED BY <2>5, <3>2
  <2> QED BY <2>6, <2>7
<1>9. CASE player.ticker # 0
  <2>1. player' = Ticked(player, i) /\ plays' = plays
    BY <1>7, <1>9 DEF RowBegun, Counted
  <2>2. CASE player.ticker + 1 >= MaxTicks(player)
    <3>1. player' = EndRow(player, i)
      BY <2>1, <2>2 DEF Ticked
    <3> QED BY <1>0, <1>9, <2>1, <3>1, EndOnTheWay DEF i
  <2>3. CASE ~(player.ticker + 1 >= MaxTicks(player))
    <3>1. player' = [player EXCEPT !.ticker = @ + 1]
      BY <2>1, <2>3 DEF Ticked
    <3> QED BY <1>0, <1>9, <2>1, <3>1, WithinRow
  <2> QED BY <2>2, <2>3
<1> QED BY <1>8, <1>9

\* A tick at the restart position ends the song: its row has been played.
LEMMA TickThrough ==
  ASSUME SeqInv, Simple(song), ~player.repeat, Through(player, plays), Tick
  PROVE  player'.halted /\ ~player'.clock /\ plays' = plays
<1>0. IsSong(song) /\ player \in Players(Nat)
  BY DEF SeqInv
<1>1. /\ player.pos = song.restart /\ player.row = 0 /\ player.ticker = 0
      /\ \A c \in Chan : ~player.loop[c].looping
      /\ player.visited = RowsOf(song)
      /\ player.pattern = None /\ ~player.idle
  BY DEF Through, Forward
<1>2. PatternNow(player) = song.ord[player.pos] /\ Begun(player) = player
  BY <1>1 DEF PatternNow, Begun
<1>3. player.pos \in Nat /\ Rows(song.ord[player.pos]) \in Nat /\ song.ordnum \in Nat
  BY <1>0, SongNumbers, Numbers DEF Players
<1>4. NothingToPlay(player) \/ (~RowIsGone(player) /\ SongIsOver(player))
  <2> SUFFICES ASSUME ~NothingToPlay(player) PROVE ~RowIsGone(player) /\ SongIsOver(player)
    OBVIOUS
  <2>1. player.pos < song.ordnum /\ 0 < Rows(song.ord[player.pos])
    BY <1>1, <1>2, <1>3 DEF NothingToPlay
  <2>2. ~RowIsGone(player)
    BY <1>1, <1>2, <1>3, <2>1 DEF RowIsGone
  <2>3. <<player.pos, player.row>> \in player.visited
    BY <1>0, <1>1, <1>3, <2>1, RowsAre
  <2> QED BY <1>1, <2>2, <2>3 DEF SongIsOver, InLoop
<1>5. player' = Halt(player) /\ plays' = plays
  <2>1. TickHalts \/ TickEndsSong
    BY <1>1, <1>2, <1>4 DEF Tick, TickIdle, TickSkips, TickPlays
  <2> QED BY <1>2, <2>1 DEF TickHalts, TickEndsSong
<1> QED BY <1>0, <1>5 DEF Halt, Players

LEMMA PlaysInit == SongsPlain /\ Init => PlaysInv
<1> SUFFICES ASSUME SongsPlain, Init, ~player.repeat PROVE PlaysInv
  BY DEF PlaysInv
<1>1. song \in ExportSongs /\ player = NewPlayer(FALSE) /\ plays = [at \in RowsOf(song) |-> 0]
  BY DEF Init, NewPlayer
<1>2. SUFFICES ASSUME Simple(song) PROVE OnTheWay(player, plays)
  BY <1>1 DEF PlaysInv
<1>3. IsSong(song) /\ Plain(song)
  BY <1>1, <1>2, SongsAssumption DEF SongsPlain
<1> DEFINE i == song.ord[0]
<1>4. /\ player.pos = 0 /\ player.row = 0 /\ player.ticker = 0 /\ player.loop = NoLoops(0)
      /\ player.visited = {} /\ Forward(player)
  BY <1>1 DEF NewPlayer, Forward, NoBreak, NoJump
<1>5. i \in Patterns /\ Rows(i) \in Nat /\ song.ordnum \in Nat /\ 0 < song.ordnum
  BY <1>3, SongNumbers, Numbers DEF IsSong
<1>6. 0 < Rows(i)
  <2>1. song.pattern[i] # <<>>
    BY <1>3, <1>5 DEF Plain
  <2>2. song.pattern[i] \in Seq([Chan -> Effects])
    BY <1>3, <1>5 DEF IsSong
  <2> QED BY <2>1, <2>2 DEF Rows
<1> HIDE DEF i
<1>7. LoopsMarked(player, i) /\ \A row \in Nat : PlayedSoFar(player, i, row) = 0
  BY <1>2, <1>3, <1>4, <1>5, NothingPlayed
<1>8. ASSUME NEW at \in RowsOf(song)
      PROVE  0 = IF at[1] < player.pos THEN Written[at]
                 ELSE IF at[1] > player.pos THEN 0 ELSE PlayedSoFar(player, i, at[2])
  <2>1. at[1] \in Nat /\ at[2] \in Nat
    BY <1>3, RowsAre
  <2> QED BY <1>4, <1>7, <2>1
<1>9. plays = [at \in RowsOf(song) |->
                 IF at[1] < player.pos THEN Written[at]
                 ELSE IF at[1] > player.pos THEN 0 ELSE PlayedSoFar(player, i, at[2])]
  BY <1>1, <1>8
<1>10. player.visited = {at \in RowsOf(song) : plays[at] > 0}
  <2>1. \A at \in RowsOf(song) : ~(plays[at] > 0)
    BY <1>1
  <2> QED BY <1>4, <2>1
<1> QED BY <1>4, <1>5, <1>6, <1>7, <1>9, <1>10 DEF OnTheWay, i

LEMMA PlaysNext == SongsPlain /\ SeqInv /\ PlaysInv /\ [Next]_vars => PlaysInv'
<1> SUFFICES ASSUME SongsPlain, SeqInv, PlaysInv, [Next]_vars, ~player'.repeat
             PROVE  PlaysInv'
  BY DEF PlaysInv
<1>1. player \in Players(Nat)
  BY DEF SeqInv
<1>2. CASE Tick
  <2>1. player'.repeat = player.repeat
    BY <1>2, TickDoes DEF Follows
  <2>2. song' = song /\ song \in ExportSongs /\ ~player.repeat
    BY <1>2, <2>1 DEF Tick, TickIdle, TickHalts, TickSkips, TickEndsSong, TickPlays, PlaysInv
  <2>3. SUFFICES ASSUME Simple(song)
                 PROVE  \/ OnTheWay(player, plays)'
                        \/ Through(player, plays)'
                        \/ (player.halted /\ ~player.clock /\ plays = Written)'
    BY <2>2 DEF PlaysInv
  <2>4. Plain(song)
    BY <2>2, <2>3 DEF SongsPlain
  <2>5. CASE OnTheWay(player, plays)
    BY <1>2, <2>2, <2>3, <2>4, <2>5, TickOnTheWay, OnTheWayKept, ThroughKept
  <2>6. CASE Through(player, plays)
    <3>1. plays = Written
      BY <2>6 DEF Through
    <3> QED BY <1>2, <2>2, <2>3, <2>6, <3>1, TickThrough, WrittenKept
  <2>7. CASE player.halted /\ ~player.clock /\ plays = Written
    BY <1>2, <2>7 DEF Tick, TickIdle, TickHalts, TickSkips, TickEndsSong, TickPlays, Ticking
  <2> QED BY <2>2, <2>3, <2>5, <2>6, <2>7 DEF PlaysInv
\* the editor leaves an export alone
<1>3. CASE Editor
  BY <1>3, EditorDoes
<1>4. CASE UNCHANGED vars
  <2>1. song' = song /\ player' = player /\ plays' = plays
    BY <1>4 DEF vars
  <2>2. song \in ExportSongs /\ ~player.repeat
    BY <2>1 DEF PlaysInv
  <2>3. SUFFICES ASSUME Simple(song)
                 PROVE  \/ OnTheWay(player, plays)'
                        \/ Through(player, plays)'
                        \/ (player.halted /\ ~player.clock /\ plays = Written)'
    BY <2>1, <2>2 DEF PlaysInv
  <2> QED BY <2>1, <2>2, <2>3, OnTheWayKept, ThroughKept, WrittenKept DEF PlaysInv
<1> QED BY <1>2, <1>3, <1>4 DEF Next

\* A simple song is played from its first row to its last before the export
\* halts, and the rows of its loops as many times more as they say, for any
\* number of channels, patterns and positions, any speed and any delays
\* (tickhandler, doEffect's pattern loop, setNewPosition, hasSongHalted).
THEOREM SimpleSongsPlayed ==
  ASSUME SongsPlain
  PROVE  Spec => []PlayedAsWritten
<1>1. Init => SeqInv /\ PlaysInv
  BY SeqInit, PlaysInit
<1>2. SeqInv /\ PlaysInv /\ [Next]_vars => (SeqInv /\ PlaysInv)'
  BY SeqNext, PlaysNext
<1>3. PlaysInv => PlayedAsWritten
  BY DEF PlaysInv, PlayedAsWritten, OnTheWay, Through, Forward, Written
<1> QED BY <1>1, <1>2, <1>3, PTL DEF Spec
===============================================================================
