-------------------------- MODULE MCPlayerSequencer --------------------------
(***************************************************************************)
(* Songs for PlayerSequencer: two patterns, of up to three rows and of up  *)
(* to two, two channels.  A song for the export has up to MaxEffects       *)
(* effects in its first pattern.                                           *)
(***************************************************************************)
EXTENDS PlayerSequencer, TLC

CONSTANT MaxEffects  \* of a song to be exported

NoEffect == [op |-> "none", arg |-> 0, row |-> 0]
Fx(op, arg) == [op |-> op, arg |-> arg, row |-> 0]
E == NoEffect

ExportEffects ==
  {Fx("loop", 0), Fx("loop", 1), Fx("loop", 2), Fx("jump", 0), Fx("jump", 1),
   Fx("break", 1), Fx("stop", 0), Fx("delay", 1)}

\* rows x channels with effects in at most n slots
Pattern(rows, n) ==
  UNION {{[r \in 1 .. rows |-> [c \in Chan |-> IF <<r, c>> \in at THEN fx[<<r, c>>] ELSE E]] :
            fx \in [at -> ExportEffects]} :
         at \in {a \in SUBSET ((1 .. rows) \X Chan) : Cardinality(a) <= n}}

Second == {<< <<E, E>>, <<E, E>> >>,
           << <<Fx("jump", 1), E>>, <<E, Fx("loop", 1)>> >>,
           << <<E, E>>, <<Fx("loop", 1), E>> >>}

AllSongs ==
  {[ft2 |-> FALSE, ord |-> [o \in Positions |-> o % 2], ordnum |-> n, restart |-> t,
    pattern |-> (0 :> first @@ 1 :> second)] :
     n \in {1, 2}, t \in {0, 1}, first \in Pattern(3, MaxEffects), second \in Second}

\* One channel of a pattern loops, and no jump or break leads from a position
\* to itself.
Tame(s) ==
  /\ \A i \in Patterns : \E c \in Chan : \A l \in LoopCommands(s, i) : l[2] = c
  /\ \A o \in 0 .. s.ordnum - 1 :
       LET rows == s.pattern[s.ord[o]]
           next == IF o = s.ordnum - 1 THEN s.restart ELSE o + 1
       IN \A r \in DOMAIN rows, c \in Chan :
            /\ rows[r][c].op = "jump" => rows[r][c].arg # o
            /\ rows[r][c].op = "break" => next # o

TameSongs == {s \in AllSongs : Tame(s)}

\* A break leads into the second pattern behind its jump to its own position;
\* its loop goes back before the jump.
HangingSongs ==
  {[ft2 |-> FALSE, ord |-> [o \in Positions |-> o % 2], ordnum |-> 2, restart |-> 0,
    pattern |-> (0 :> << <<Fx("break", 1), E>> >>
              @@ 1 :> << <<Fx("jump", 1), E>>, <<Fx("loop", 1), E>> >>)]}

\* The songs the editor changes into each other: an order and rows come and
\* go; no row both breaks and jumps, no break leads behind the end of a
\* pattern.
Edited(n, first, second) ==
  [ft2 |-> TRUE, ord |-> [o \in Positions |-> o % 2], ordnum |-> n, restart |-> 0,
   pattern |-> (0 :> first @@ 1 :> second)]

ChangedSongs ==
  {Edited(2, << <<E, E>>, <<Fx("loop", 1), E>>, <<E, E>> >>,
             << <<Fx("loop", 0), E>>, <<Fx("break", 1), E>> >>),
   Edited(1, << <<Fx("jump", 1), E>>, <<E, E>> >>,
             << <<Fx("loop", 1), E>>, <<Fx("stop", 0), E>>, <<E, E>> >>)}
=============================================================================
