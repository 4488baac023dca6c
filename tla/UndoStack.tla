------------------------------ MODULE UndoStack ------------------------------
(***************************************************************************)
(* PPUndoStack (ppui/UndoStack.h): a bounded stack of document states with *)
(* a cursor.  Undo pops; the entry that is left above the cursor is what   *)
(* Redo returns to.  The array has one place more than the stack is deep;  *)
(* the place past the end stays empty, and entries above topIndex are left *)
(* in the array until they are overwritten.                                *)
(***************************************************************************)
EXTENDS Integers

CONSTANTS
  Entries,   \* the states of a document that can be saved
  NULL,      \* the null pointer
  Depth      \* m_nStackSize

\* A stack of depth 1 could hold the state after a change only, never the one
\* before it; the editors create stacks of depth 16 and 32 (Undo.h).
ASSUME DepthAssumption == Depth \in Nat \ {0, 1} /\ NULL \notin Entries

Stacks ==
  [entry : [0 .. Depth -> Entries \union {NULL}],
   cur : -1 .. Depth - 1,      \* m_nCurIndex
   top : 0 .. Depth - 1,       \* m_nTopIndex
   over : BOOLEAN]             \* m_bOverflow

NewStack == [entry |-> [i \in 0 .. Depth |-> NULL], cur |-> -1, top |-> 0, over |-> FALSE]

IsEmpty(s) == s.cur = -1
IsTop(s) == s.top - 1 = s.cur

\* (mutant: the stack may grow by one entry too many)
PushPastEnd(s, e) ==
  LET full == s.cur >= Depth
      at == IF full THEN s.cur ELSE s.cur + 1
      moved == [i \in 0 .. Depth |-> IF full /\ i < s.cur THEN s.entry[i + 1] ELSE s.entry[i]]
  IN  [entry |-> [moved EXCEPT ![at] = e], cur |-> at, top |-> at, over |-> full \/ s.over]

\* Push: when the stack is full the entries move down by one, the bottom one
\* is lost.  The new entry becomes the last valid one: what could be redone
\* is forgotten.
Push(s, e) ==
  LET full == s.cur >= Depth - 1
      at == IF full THEN s.cur ELSE s.cur + 1
      moved == [i \in 0 .. Depth |-> IF full /\ i <= s.cur THEN s.entry[i + 1] ELSE s.entry[i]]
  IN  [entry |-> [moved EXCEPT ![at] = e], cur |-> at, top |-> at, over |-> full \/ s.over]

\* Pop: what it returns, and the stack it leaves
Popped(s) == s.entry[s.cur]
Pop(s) == IF IsEmpty(s) THEN s ELSE [s EXCEPT !.cur = @ - 1]

\* Advance: likewise
Advance(s) == IF s.cur < s.top - 1 THEN [s EXCEPT !.cur = @ + 1] ELSE s
Advanced(s) == Advance(s).entry[Advance(s).cur + 1]
=============================================================================
