---------------------------- MODULE MCPatternUndo ----------------------------
(* PatternUndo with patterns and versions that are interchangeable.  Array  *)
(* entries above the top of a stack are dead: nothing reads one before it   *)
(* is overwritten; neither is the overflow flag read.                       *)
EXTENDS PatternUndo, TLC

Interchangeable == Permutations(Patterns) \union Permutations(Entries)

Valid(s) == <<s.cur, s.top, [i \in 0 .. s.top |-> s.entry[i]]>>

ValidView ==
  <<doc, pattern, lastChange, Valid(undoStack),
    [i \in 1 .. Len(history) |-> <<history[i].key, Valid(history[i].undoStack)>>]>>
=============================================================================
