----------------------------- MODULE PatternUndo -----------------------------
(***************************************************************************)
(* Undo in the pattern editor (tracker/PatternEditor.cpp, Undo.h): the     *)
(* pattern on the screen has an undo stack; the stacks of patterns that    *)
(* were left are kept in a list of bounded length, keyed by the pattern.   *)
(*                                                                         *)
(* Every operation that changes the pattern runs between prepareUndo and   *)
(* finishUndo.  Resizing is the one whose repetitions are taken back       *)
(* together.  What a pattern holds is abstracted to a version; changes to  *)
(* a pattern made elsewhere than in this editor are not modelled.          *)
(***************************************************************************)
EXTENDS UndoStack, Sequences, FiniteSets

CONSTANTS
  Patterns,       \* TXMPattern pointers
  HistorySize     \* UNDOHISTORYSIZE_PATTERNEDITOR

ASSUME HistoryAssumption == HistorySize \in Nat \ {0}

VARIABLES
  doc,         \* what each pattern holds
  pattern,     \* the pattern in the editor
  undoStack,   \* its stack
  history,     \* patternHistory: a sequence of [key, undoStack], oldest first
  lastChange   \* the kind of the last change: "resize" or "other"

vars == <<doc, pattern, undoStack, history, lastChange>>

Kinds == {"resize", "other"}

Init ==
  /\ doc \in [Patterns -> Entries]
  /\ pattern \in Patterns
  /\ undoStack = NewStack
  /\ history = <<>>
  /\ lastChange = "other"

-----------------------------------------------------------------------------
(* Changes. *)

\* (mutants: the state after the change is left on the stack; the state
\* before it is never stored)
FinishWithoutPop(before, after, join) ==
  Push(IF join THEN undoStack ELSE Push(undoStack, before), after)

FinishWithoutBefore(before, after, join) ==
  Pop(Push(undoStack, after))

\* finishUndo: the states before and after the change are pushed; what the
\* stack holds above the cursor is then the present state
Finish(before, after, join) ==
  Pop(Push(IF join THEN undoStack ELSE Push(undoStack, before), after))

\* Any operation between prepareUndo and finishUndo(kind, nonRepeat): only
\* resizePattern passes nonRepeat, and it returns at once when the length is
\* the same.  Another one that changes nothing is still the last change.
Edit(v, kind) ==
  /\ kind = "resize" => v # doc[pattern]
  /\ doc' = [doc EXCEPT ![pattern] = v]
  /\ undoStack' = IF v = doc[pattern] THEN undoStack
                  ELSE Finish(doc[pattern], v, kind = "resize" /\ lastChange = "resize")
  /\ lastChange' = kind
  /\ UNCHANGED <<pattern, history>>

\* undo() and redo(); revoke() stores the entry into the pattern
Undo ==
  /\ ~IsEmpty(undoStack)
  /\ doc' = [doc EXCEPT ![pattern] = Popped(undoStack)]
  /\ undoStack' = Pop(undoStack)
  /\ UNCHANGED <<pattern, history, lastChange>>

Redo ==
  /\ ~IsTop(undoStack)
  /\ doc' = [doc EXCEPT ![pattern] = Advanced(undoStack)]
  /\ undoStack' = Advance(undoStack)
  /\ UNCHANGED <<pattern, history, lastChange>>

-----------------------------------------------------------------------------
(* Moving to another pattern: attachPattern and UndoHistory::getUndoStack. *)

Without(h, i) == [j \in 1 .. Len(h) - 1 |-> IF j < i THEN h[j] ELSE h[j + 1]]

\* the list with the stack of the pattern that is left; the oldest stack is
\* deleted when there is no room
Kept ==
  IF IsEmpty(undoStack) /\ IsTop(undoStack) THEN history
  ELSE Append(IF Len(history) < HistorySize THEN history ELSE Without(history, 1),
              [key |-> pattern, undoStack |-> undoStack])

\* (mutant: the stack that is handed out stays in the list)
AttachKeepsEntry(p) ==
  /\ p # pattern
  /\ pattern' = p
  /\ history' = Kept
  /\ \/ \E i \in 1 .. Len(Kept) :
          /\ Kept[i].key = p
          /\ undoStack' = Kept[i].undoStack
     \/ /\ \A i \in 1 .. Len(Kept) : Kept[i].key # p
        /\ undoStack' = NewStack
  /\ UNCHANGED <<doc, lastChange>>

AttachPattern(p) ==
  /\ p # pattern
  /\ pattern' = p
  /\ \/ \E i \in 1 .. Len(Kept) :
          /\ Kept[i].key = p
          /\ undoStack' = Kept[i].undoStack
          /\ history' = Without(Kept, i)
     \/ /\ \A i \in 1 .. Len(Kept) : Kept[i].key # p
        /\ undoStack' = NewStack
        /\ history' = Kept
  /\ UNCHANGED <<doc, lastChange>>

\* reset()
Reset ==
  /\ history' = <<>>
  /\ undoStack' = NewStack
  /\ UNCHANGED <<doc, pattern, lastChange>>

Next ==
  \/ \E v \in Entries, kind \in Kinds : Edit(v, kind)
  \/ Undo \/ Redo
  \/ \E p \in Patterns : AttachPattern(p)
  \/ Reset

Spec == Init /\ [][Next]_vars

-----------------------------------------------------------------------------
(* Properties. *)

\* The indices stay within the array, the list within its size.
TypeOK ==
  /\ doc \in [Patterns -> Entries]
  /\ pattern \in Patterns
  /\ undoStack \in Stacks
  /\ history \in Seq([key : Patterns, undoStack : Stacks])
  /\ Len(history) <= HistorySize
  /\ lastChange \in Kinds

\* The entries of a stack up to its top exist, and the one above the cursor
\* is what the pattern holds: undo and redo never follow a null pointer, and
\* redo after undo brings back what was undone (Push, Pop, Advance).
Agrees(s, d) ==
  /\ s.cur < s.top \/ s.cur = -1
  /\ s.cur <= Depth - 2
  /\ s.top > 0 =>
       /\ s.cur < s.top
       /\ \A i \in 0 .. s.top : s.entry[i] \in Entries
       /\ s.entry[s.cur + 1] = d
  /\ s.top = 0 => s.cur = -1

StacksAgree ==
  /\ Agrees(undoStack, doc[pattern])
  /\ \A i \in 1 .. Len(history) : Agrees(history[i].undoStack, doc[history[i].key])

\* Every pattern has one stack: the list holds none for the pattern in the
\* editor, and no two for another one (getUndoStack).
OneStackEach ==
  /\ \A i \in 1 .. Len(history) : history[i].key # pattern
  /\ \A i, j \in 1 .. Len(history) : history[i].key = history[j].key => i = j

\* After a change the pattern can be changed back (the comment in
\* resizePattern: only a resize that follows a resize is not stored).
ChangeCanBeUndone ==
  [][\A v \in Entries \ {doc[pattern]}, kind \in Kinds :
       Edit(v, kind) => ~IsEmpty(undoStack')]_vars

\* The stacks implement the line of states that undo promises.
StackOf(p) ==
  IF p = pattern THEN undoStack
  ELSE IF \E i \in 1 .. Len(history) : history[i].key = p
  THEN history[CHOOSE i \in 1 .. Len(history) : history[i].key = p].undoStack
  ELSE NewStack

Line(s, first, last) == [i \in 1 .. last - first + 1 |-> s.entry[first + i - 1]]

History == INSTANCE EditHistory WITH
  Documents <- Patterns,
  Versions <- Entries,
  Limit <- Depth - 1,
  present <- doc,
  past <- [p \in Patterns |-> Line(StackOf(p), 0, StackOf(p).cur)],
  future <- [p \in Patterns |-> Line(StackOf(p), StackOf(p).cur + 2, StackOf(p).top)],
  joins <- (lastChange = "resize")

HistorySpec == History!Spec
=============================================================================
