-------------------------- MODULE PatternUndo_proofs --------------------------
(***************************************************************************)
(* For every depth of the stack, every size of the list and every set of   *)
(* patterns: the indices stay in the array, undo and redo never follow a   *)
(* null pointer and return what the pattern held, and a pattern never has  *)
(* two stacks.                                                             *)
(***************************************************************************)
EXTENDS PatternUndo, SequenceTheorems, TLAPS

\* the entries up to the cursor exist
LiveToCursor(s) == \A i \in 0 .. s.cur : s.entry[i] \in Entries

Pushed(s, e) ==
  /\ s \in Stacks
  /\ s.cur = s.top
  /\ s.entry[s.cur] = e
  /\ LiveToCursor(s)

-----------------------------------------------------------------------------
(* The stack. *)

\* A new stack agrees with any state of the pattern.
LEMMA NewStackAgrees ==
  ASSUME NEW d \in Entries
  PROVE  NewStack \in Stacks /\ Agrees(NewStack, d)
BY DepthAssumption DEF NewStack, Stacks, Agrees

\* Push stores the entry at the cursor, full or not.
LEMMA PushStores ==
  ASSUME NEW s \in Stacks, NEW e \in Entries, LiveToCursor(s)
  PROVE  Pushed(Push(s, e), e)
<1> DEFINE full == s.cur >= Depth - 1
           at == IF full THEN s.cur ELSE s.cur + 1
           moved == [i \in 0 .. Depth |->
                       IF full /\ i <= s.cur THEN s.entry[i + 1] ELSE s.entry[i]]
           new == [moved EXCEPT ![at] = e]
<1>1. Push(s, e) = [entry |-> new, cur |-> at, top |-> at, over |-> full \/ s.over]
  BY DEF Push
<1>2. /\ s.entry \in [0 .. Depth -> Entries \union {NULL}]
      /\ s.cur \in -1 .. Depth - 1
      /\ s.over \in BOOLEAN
      /\ Depth \in Nat /\ Depth >= 2
  BY DepthAssumption DEF Stacks
<1>3. at \in 0 .. Depth - 1
  BY <1>2
<1>4. moved \in [0 .. Depth -> Entries \union {NULL}]
  BY <1>2
<1>5. new \in [0 .. Depth -> Entries \union {NULL}] /\ new[at] = e
  <2>1. at \in 0 .. Depth
    BY <1>3, <1>2
  <2> HIDE DEF full, at, moved
  <2> QED BY <1>4, <2>1
<1>6. ASSUME NEW i \in 0 .. at PROVE new[i] \in Entries
  <2>1. CASE i = at
    BY <2>1, <1>5
  <2>2. CASE i # at /\ full
    <3>1. i \in 0 .. Depth /\ i + 1 \in 0 .. s.cur
      BY <2>2, <1>2, <1>3
    <3>2. new[i] = s.entry[i + 1]
      BY <2>2, <3>1, <1>4, <1>3, <1>2
    <3> QED BY <3>1, <3>2 DEF LiveToCursor
  <2>3. CASE i # at /\ ~full
    <3>1. i \in 0 .. Depth /\ i \in 0 .. s.cur
      BY <2>3, <1>2, <1>3
    <3>2. new[i] = s.entry[i]
      BY <2>3, <3>1, <1>4, <1>3, <1>2
    <3> QED BY <3>1, <3>2 DEF LiveToCursor
  <2> QED BY <2>1, <2>2, <2>3
<1>7. (full \/ s.over) \in BOOLEAN
  BY <1>2
<1> HIDE DEF full, at, moved, new
<1>8. Push(s, e) \in Stacks
  <2>1. at \in -1 .. Depth - 1
    BY <1>3, <1>2
  <2> QED BY <1>1, <1>3, <1>5, <1>7, <2>1 DEF Stacks
<1> QED BY <1>1, <1>8, <1>5, <1>6 DEF Pushed, LiveToCursor

\* A pop after a push leaves the pushed state above the cursor.
LEMMA PopAfterPush ==
  ASSUME NEW s, NEW e \in Entries, Pushed(s, e)
  PROVE  Pop(s) \in Stacks /\ Agrees(Pop(s), e)
<1>1. /\ s \in Stacks /\ s.cur = s.top /\ s.entry[s.cur] = e
      /\ \A i \in 0 .. s.cur : s.entry[i] \in Entries
  BY DEF Pushed, LiveToCursor
<1>2. s.cur \in 0 .. Depth - 1 /\ Depth \in Nat
  BY <1>1, DepthAssumption DEF Stacks
<1>3. Pop(s) = [s EXCEPT !.cur = s.cur - 1]
  BY <1>2 DEF Pop, IsEmpty
<1>4. Pop(s) \in Stacks
  BY <1>1, <1>2, <1>3 DEF Stacks
<1>5. /\ Pop(s).cur = s.cur - 1 /\ Pop(s).top = s.top /\ Pop(s).entry = s.entry
  BY <1>1, <1>3 DEF Stacks
<1> QED BY <1>1, <1>2, <1>4, <1>5 DEF Agrees

\* A stack that agrees with the pattern has its entries up to the cursor.
LEMMA AgreesIsLive ==
  ASSUME NEW s \in Stacks, NEW d, Agrees(s, d)
  PROVE  LiveToCursor(s)
BY DepthAssumption DEF Stacks, Agrees, LiveToCursor

\* finishUndo leaves a stack that agrees with the pattern after the change.
LEMMA FinishAgrees ==
  ASSUME undoStack \in Stacks, NEW before \in Entries, NEW after \in Entries,
         NEW join \in BOOLEAN, Agrees(undoStack, before)
  PROVE  Finish(before, after, join) \in Stacks /\ Agrees(Finish(before, after, join), after)
<1>1. LiveToCursor(undoStack)
  BY AgreesIsLive
<1>2. CASE join
  <2>1. Pushed(Push(undoStack, after), after)
    BY <1>1, PushStores
  <2> QED BY <1>2, <2>1, PopAfterPush DEF Finish
<1>3. CASE ~join
  <2>1. Push(undoStack, before) \in Stacks /\ LiveToCursor(Push(undoStack, before))
    BY <1>1, PushStores DEF Pushed
  <2>2. Pushed(Push(Push(undoStack, before), after), after)
    BY <2>1, PushStores
  <2> QED BY <1>3, <2>2, PopAfterPush DEF Finish
<1> QED BY <1>2, <1>3

\* undo() finds an entry, and the stack then agrees with it.
LEMMA UndoAgrees ==
  ASSUME NEW s \in Stacks, NEW d, Agrees(s, d), ~IsEmpty(s)
  PROVE  Popped(s) \in Entries /\ Pop(s) \in Stacks /\ Agrees(Pop(s), Popped(s))
<1>1. /\ s.cur \in 0 .. Depth - 2 /\ s.top \in 1 .. Depth - 1 /\ s.cur < s.top
      /\ Depth \in Nat
      /\ \A i \in 0 .. s.top : s.entry[i] \in Entries
  BY DepthAssumption DEF Stacks, Agrees, IsEmpty
<1>2. Pop(s) = [s EXCEPT !.cur = s.cur - 1]
  BY DEF Pop
<1>3. Pop(s) \in Stacks
  BY <1>1, <1>2 DEF Stacks
<1>4. /\ Pop(s).cur = s.cur - 1 /\ Pop(s).top = s.top /\ Pop(s).entry = s.entry
  BY <1>2 DEF Stacks
<1> QED BY <1>1, <1>3, <1>4 DEF Agrees, Popped

\* redo() likewise.
LEMMA RedoAgrees ==
  ASSUME NEW s \in Stacks, NEW d, Agrees(s, d), ~IsTop(s)
  PROVE  Advanced(s) \in Entries /\ Advance(s) \in Stacks /\ Agrees(Advance(s), Advanced(s))
<1>1. /\ s.cur \in -1 .. Depth - 3 /\ s.top \in 1 .. Depth - 1 /\ s.cur < s.top - 1
      /\ Depth \in Nat
      /\ \A i \in 0 .. s.top : s.entry[i] \in Entries
  BY DepthAssumption DEF Stacks, Agrees, IsTop
<1>2. Advance(s) = [s EXCEPT !.cur = s.cur + 1]
  BY <1>1 DEF Advance
<1>3. Advance(s) \in Stacks
  BY <1>1, <1>2 DEF Stacks
<1>4. /\ Advance(s).cur = s.cur + 1 /\ Advance(s).top = s.top
      /\ Advance(s).entry = s.entry
  BY <1>2 DEF Stacks
<1>5. Advanced(s) = s.entry[s.cur + 2]
  BY <1>1, <1>4 DEF Advanced
<1> QED BY <1>1, <1>3, <1>4, <1>5 DEF Agrees

-----------------------------------------------------------------------------
(* The list of stacks. *)

Item == [key : Patterns, undoStack : Stacks]

\* Taking an item out of a sequence keeps the others, in their order.
LEMMA WithoutKeeps ==
  ASSUME NEW h \in Seq(Item), NEW i \in 1 .. Len(h)
  PROVE  /\ Without(h, i) \in Seq(Item)
         /\ Len(Without(h, i)) = Len(h) - 1
         /\ \A j \in 1 .. Len(h) - 1 :
              Without(h, i)[j] = IF j < i THEN h[j] ELSE h[j + 1]
<1>1. Len(h) - 1 \in Nat
  OBVIOUS
<1>2. \A j \in 1 .. Len(h) - 1 : (IF j < i THEN h[j] ELSE h[j + 1]) \in Item
  OBVIOUS
<1> QED BY <1>1, <1>2 DEF Without

\* The items of a list belong together with the patterns, each key once.
Ordered(h) ==
  /\ h \in Seq(Item)
  /\ \A i \in 1 .. Len(h) : Agrees(h[i].undoStack, doc[h[i].key])
  /\ \A i, j \in 1 .. Len(h) : h[i].key = h[j].key => i = j

LEMMA WithoutOrdered ==
  ASSUME NEW h, Ordered(h), NEW i \in 1 .. Len(h)
  PROVE  /\ Ordered(Without(h, i))
         /\ \A j \in 1 .. Len(Without(h, i)) : Without(h, i)[j].key # h[i].key
         /\ \A j \in 1 .. Len(Without(h, i)) :
              \E k \in 1 .. Len(h) : Without(h, i)[j] = h[k]
<1> DEFINE w == Without(h, i)
<1>1. /\ h \in Seq(Item) /\ w \in Seq(Item) /\ Len(w) = Len(h) - 1 /\ Len(h) \in Nat
      /\ \A j \in 1 .. Len(w) : w[j] = IF j < i THEN h[j] ELSE h[j + 1]
  BY WithoutKeeps DEF Ordered
<1> HIDE DEF w
<1> DEFINE from(j) == IF j < i THEN j ELSE j + 1
<1>2. \A j \in 1 .. Len(w) : from(j) \in 1 .. Len(h) /\ from(j) # i /\ w[j] = h[from(j)]
  BY <1>1
<1>3. \A j, k \in 1 .. Len(w) : from(j) = from(k) => j = k
  BY <1>1
<1> HIDE DEF from
<1>4. Ordered(w)
  <2>1. ASSUME NEW j \in 1 .. Len(w)
        PROVE  Agrees(w[j].undoStack, doc[w[j].key])
    <3>1. from(j) \in 1 .. Len(h) /\ w[j] = h[from(j)]
      BY <1>2
    <3>2. Agrees(h[from(j)].undoStack, doc[h[from(j)].key])
      BY <3>1 DEF Ordered
    <3> QED BY <3>1, <3>2
  <2>2. ASSUME NEW j \in 1 .. Len(w), NEW k \in 1 .. Len(w), w[j].key = w[k].key
        PROVE  j = k
    <3>1. /\ from(j) \in 1 .. Len(h) /\ w[j] = h[from(j)]
          /\ from(k) \in 1 .. Len(h) /\ w[k] = h[from(k)]
      BY <1>2
    <3>2. from(j) = from(k)
      BY <3>1, <2>2 DEF Ordered
    <3> QED BY <3>2, <1>3
  <2> QED BY <1>1, <2>1, <2>2 DEF Ordered
<1>5. \A j \in 1 .. Len(w) : w[j].key # h[i].key
  BY <1>1, <1>2 DEF Ordered
<1>6. \A j \in 1 .. Len(w) : \E k \in 1 .. Len(h) : w[j] = h[k]
  BY <1>2
<1> QED BY <1>4, <1>5, <1>6 DEF w

LEMMA AppendOrdered ==
  ASSUME NEW h, Ordered(h), NEW item \in Item,
         Agrees(item.undoStack, doc[item.key]),
         \A i \in 1 .. Len(h) : h[i].key # item.key
  PROVE  Ordered(Append(h, item))
<1>1. h \in Seq(Item) /\ Len(h) \in Nat
  BY DEF Ordered
<1>2. /\ Append(h, item) \in Seq(Item)
      /\ Len(Append(h, item)) = Len(h) + 1
      /\ \A i \in 1 .. Len(h) : Append(h, item)[i] = h[i]
      /\ Append(h, item)[Len(h) + 1] = item
  BY <1>1
<1> DEFINE a == Append(h, item)
<1> HIDE DEF a
<1>3. \A i \in 1 .. Len(a) : i \in 1 .. Len(h) \/ i = Len(h) + 1
  BY <1>1, <1>2 DEF a
<1>4. \A i \in 1 .. Len(a) : Agrees(a[i].undoStack, doc[a[i].key])
  BY <1>2, <1>3 DEF a, Ordered
<1>5. ASSUME NEW i \in 1 .. Len(a), NEW j \in 1 .. Len(a), a[i].key = a[j].key
      PROVE  i = j
  BY <1>2, <1>3, <1>5 DEF a, Ordered
<1> QED BY <1>2, <1>4, <1>5 DEF a, Ordered

-----------------------------------------------------------------------------
(* The invariant: what the runs check, together. *)

IInv == TypeOK /\ StacksAgree /\ OneStackEach

LEMMA Unfold ==
  ASSUME IInv
  PROVE  /\ doc \in [Patterns -> Entries] /\ pattern \in Patterns
         /\ doc[pattern] \in Entries
         /\ undoStack \in Stacks /\ Agrees(undoStack, doc[pattern])
         /\ Ordered(history) /\ Len(history) <= HistorySize /\ Len(history) \in Nat
         /\ \A i \in 1 .. Len(history) : history[i].key # pattern
         /\ lastChange \in Kinds
BY DEF IInv, TypeOK, StacksAgree, OneStackEach, Ordered, Item

\* What attachPattern keeps is an ordered list within its size.
LEMMA KeptOrdered ==
  ASSUME IInv
  PROVE  Ordered(Kept) /\ Len(Kept) <= HistorySize /\ Len(Kept) \in Nat
<1>1. /\ undoStack \in Stacks /\ pattern \in Patterns /\ Agrees(undoStack, doc[pattern])
      /\ Ordered(history) /\ Len(history) <= HistorySize /\ Len(history) \in Nat
      /\ history \in Seq(Item)
      /\ \A i \in 1 .. Len(history) : history[i].key # pattern
  BY Unfold DEF Ordered
<1> DEFINE item == [key |-> pattern, undoStack |-> undoStack]
<1>2. item \in Item /\ item.key = pattern /\ item.undoStack = undoStack
  BY <1>1 DEF Item
<1>3. CASE IsEmpty(undoStack) /\ IsTop(undoStack)
  BY <1>3, <1>1 DEF Kept
<1>4. CASE ~(IsEmpty(undoStack) /\ IsTop(undoStack)) /\ Len(history) < HistorySize
  <2>1. Kept = Append(history, item)
    BY <1>4 DEF Kept
  <2>2. Ordered(Append(history, item))
    BY <1>1, <1>2, AppendOrdered
  <2>3. Len(Append(history, item)) = Len(history) + 1
    BY <1>1
  <2> QED BY <2>1, <2>2, <2>3, <1>4, <1>1, HistoryAssumption
<1>5. CASE ~(IsEmpty(undoStack) /\ IsTop(undoStack)) /\ ~(Len(history) < HistorySize)
  <2> DEFINE rest == Without(history, 1)
  <2>1. 1 \in 1 .. Len(history) /\ Len(history) = HistorySize
    BY <1>5, <1>1, HistoryAssumption
  <2>2. /\ Ordered(rest) /\ rest \in Seq(Item) /\ Len(rest) = HistorySize - 1
        /\ \A j \in 1 .. Len(rest) : rest[j].key # pattern
    <3>1. /\ Ordered(rest)
          /\ \A j \in 1 .. Len(rest) : \E k \in 1 .. Len(history) : rest[j] = history[k]
      BY <1>1, <2>1, WithoutOrdered
    <3>2. rest \in Seq(Item) /\ Len(rest) = Len(history) - 1
      BY <1>1, <2>1, WithoutKeeps
    <3> QED BY <3>1, <3>2, <1>1, <2>1
  <2> HIDE DEF rest
  <2>3. Kept = Append(rest, item)
    BY <1>5 DEF Kept, rest
  <2>4. Ordered(Append(rest, item))
    BY <2>2, <1>1, <1>2, AppendOrdered
  <2>5. Len(Append(rest, item)) = HistorySize
    BY <2>2, HistoryAssumption
  <2> QED BY <2>3, <2>4, <2>5, HistoryAssumption
<1> QED BY <1>3, <1>4, <1>5

\* Undo and redo change the pattern in the editor only, and no stored stack
\* is that pattern's.
LEMMA SamePatternStep ==
  ASSUME IInv, NEW v \in Entries, doc' = [doc EXCEPT ![pattern] = v],
         pattern' = pattern, history' = history,
         undoStack' \in Stacks, Agrees(undoStack', v), lastChange' \in Kinds
  PROVE  IInv'
<1>1. /\ doc \in [Patterns -> Entries] /\ pattern \in Patterns
      /\ Ordered(history) /\ Len(history) <= HistorySize
      /\ \A i \in 1 .. Len(history) : history[i].key # pattern
  BY Unfold
<1>2. doc' \in [Patterns -> Entries] /\ doc'[pattern] = v
  BY <1>1
<1>3. \A i \in 1 .. Len(history) : doc'[history[i].key] = doc[history[i].key]
  BY <1>1 DEF Ordered, Item
<1>4. TypeOK'
  BY <1>1, <1>2 DEF TypeOK, Ordered, Item
<1>5. StacksAgree'
  BY <1>1, <1>2, <1>3 DEF StacksAgree, Ordered
<1>6. OneStackEach'
  BY <1>1 DEF OneStackEach, Ordered
<1> QED BY <1>4, <1>5, <1>6 DEF IInv

\* Moving to another pattern, or starting afresh, with the pattern's own stack.
LEMMA OtherStackStep ==
  ASSUME IInv, doc' = doc, lastChange' = lastChange, pattern' \in Patterns,
         undoStack' \in Stacks, Agrees(undoStack', doc[pattern']),
         Ordered(history'), Len(history') <= HistorySize,
         \A i \in 1 .. Len(history') : history'[i].key # pattern'
  PROVE  IInv'
<1>1. doc \in [Patterns -> Entries] /\ lastChange \in Kinds
  BY Unfold
<1>2. TypeOK'
  BY <1>1 DEF TypeOK, Ordered, Item
<1>3. StacksAgree'
  BY DEF StacksAgree, Ordered
<1>4. OneStackEach'
  BY DEF OneStackEach, Ordered
<1> QED BY <1>2, <1>3, <1>4 DEF IInv

LEMMA EmptyList == Ordered(<<>>) /\ Len(<<>>) = 0
BY DEF Ordered

LEMMA Start == Init => IInv
<1> SUFFICES ASSUME Init PROVE IInv
  OBVIOUS
<1>1. NewStack \in Stacks /\ Agrees(NewStack, doc[pattern])
  BY NewStackAgrees DEF Init
<1> QED BY <1>1, HistoryAssumption
        DEF Init, IInv, TypeOK, StacksAgree, OneStackEach, Kinds

LEMMA Step == IInv /\ [Next]_vars => IInv'
<1> SUFFICES ASSUME IInv, [Next]_vars PROVE IInv'
  OBVIOUS
<1>1. /\ doc \in [Patterns -> Entries] /\ pattern \in Patterns
      /\ doc[pattern] \in Entries
      /\ undoStack \in Stacks /\ Agrees(undoStack, doc[pattern])
      /\ Ordered(history) /\ Len(history) <= HistorySize
      /\ lastChange \in Kinds
  BY Unfold
<1>2. ASSUME NEW v \in Entries, NEW kind \in Kinds, Edit(v, kind) PROVE IInv'
  <2>1. undoStack' \in Stacks /\ Agrees(undoStack', v)
    <3>1. CASE v = doc[pattern]
      BY <3>1, <1>1, <1>2 DEF Edit
    <3>2. CASE v # doc[pattern]
      <4> DEFINE join == kind = "resize" /\ lastChange = "resize"
      <4>1. undoStack' = Finish(doc[pattern], v, join)
        BY <3>2, <1>2 DEF Edit
      <4>2. join \in BOOLEAN
        OBVIOUS
      <4> HIDE DEF join
      <4> QED BY <4>1, <4>2, <1>1, FinishAgrees
    <3> QED BY <3>1, <3>2
  <2> QED BY <1>2, <2>1, SamePatternStep DEF Edit
<1>3. ASSUME Undo PROVE IInv'
  <2>1. /\ Popped(undoStack) \in Entries /\ undoStack' \in Stacks
        /\ Agrees(undoStack', Popped(undoStack))
    BY <1>1, <1>3, UndoAgrees DEF Undo
  <2> QED BY <1>1, <1>3, <2>1, SamePatternStep DEF Undo
<1>4. ASSUME Redo PROVE IInv'
  <2>1. /\ Advanced(undoStack) \in Entries /\ undoStack' \in Stacks
        /\ Agrees(undoStack', Advanced(undoStack))
    BY <1>1, <1>4, RedoAgrees DEF Redo
  <2> QED BY <1>1, <1>4, <2>1, SamePatternStep DEF Redo
<1>5. ASSUME NEW p \in Patterns, AttachPattern(p) PROVE IInv'
  <2>1. Ordered(Kept) /\ Len(Kept) <= HistorySize /\ Len(Kept) \in Nat /\ Kept \in Seq(Item)
    BY KeptOrdered DEF Ordered
  <2>2. ASSUME NEW i \in 1 .. Len(Kept), Kept[i].key = p, undoStack' = Kept[i].undoStack,
               history' = Without(Kept, i)
        PROVE  IInv'
    <3>1. /\ Ordered(history')
          /\ \A j \in 1 .. Len(history') : history'[j].key # p
      BY <2>1, <2>2, WithoutOrdered
    <3>2. Len(history') <= HistorySize
      BY <2>1, <2>2, WithoutKeeps, HistoryAssumption
    <3>3. Kept[i] \in Item
      BY <2>1, <2>2
    <3>4. undoStack' \in Stacks
      BY <3>3, <2>2 DEF Item
    <3>5. Agrees(Kept[i].undoStack, doc[Kept[i].key])
      BY <2>1, <2>2 DEF Ordered
    <3>6. Agrees(undoStack', doc[p])
      BY <3>5, <2>2
    <3> QED BY <3>1, <3>2, <3>4, <3>6, <1>5, OtherStackStep DEF AttachPattern
  <2>3. ASSUME \A i \in 1 .. Len(Kept) : Kept[i].key # p, undoStack' = NewStack,
               history' = Kept
        PROVE  IInv'
    <3>1. undoStack' \in Stacks /\ Agrees(undoStack', doc[p])
      BY <2>3, <1>1, NewStackAgrees
    <3> QED BY <3>1, <2>1, <2>3, <1>5, OtherStackStep DEF AttachPattern
  <2> QED BY <2>2, <2>3, <1>5 DEF AttachPattern
<1>6. ASSUME Reset PROVE IInv'
  <2>1. undoStack' \in Stacks /\ Agrees(undoStack', doc[pattern])
    BY <1>1, <1>6, NewStackAgrees DEF Reset
  <2>2. Ordered(history') /\ Len(history') = 0
    BY <1>6, EmptyList DEF Reset
  <2> QED BY <1>1, <1>6, <2>1, <2>2, OtherStackStep, HistoryAssumption DEF Reset
<1>7. ASSUME UNCHANGED vars PROVE IInv'
  BY <1>7 DEF vars, IInv, TypeOK, StacksAgree, OneStackEach
<1> QED BY <1>2, <1>3, <1>4, <1>5, <1>6, <1>7 DEF Next

\* The three invariants together are inductive.
THEOREM Invariance == Spec => []IInv
<1>1. Init => IInv
  BY Start
<1>2. IInv /\ [Next]_vars => IInv'
  BY Step
<1> QED BY <1>1, <1>2, PTL DEF Spec

\* Type correctness: the indices of a stack never leave its array (PPUndoStack).
THEOREM TypeCorrect == Spec => []TypeOK
<1>1. IInv => TypeOK
  BY DEF IInv
<1> QED BY <1>1, Invariance, PTL

\* Undo and redo never follow a null pointer, and return what was undone.
THEOREM UndoIsCoherent == Spec => []StacksAgree
<1>1. IInv => StacksAgree
  BY DEF IInv
<1> QED BY <1>1, Invariance, PTL

\* No pattern has two stacks, however many patterns are visited.
THEOREM StacksUnique == Spec => []OneStackEach
<1>1. IInv => OneStackEach
  BY DEF IInv
<1> QED BY <1>1, Invariance, PTL

-----------------------------------------------------------------------------
(* The refinement: a stack as the line of states it stands for. *)

Past(s) == Line(s, 0, s.cur)
Future(s) == Line(s, s.cur + 2, s.top)

\* Two sequences are equal when they agree place by place.
LEMMA SameSequence ==
  ASSUME NEW S, NEW T, NEW s \in Seq(S), NEW t \in Seq(T), Len(s) = Len(t),
         \A i \in 1 .. Len(s) : s[i] = t[i]
  PROVE  s = t
<1>1. /\ s = [i \in 1 .. Len(s) |-> s[i]] /\ t = [i \in 1 .. Len(t) |-> t[i]]
  OBVIOUS
<1> QED BY <1>1

\* What a stack that agrees with its pattern is made of.
LEMMA Unstack ==
  ASSUME NEW s \in Stacks, NEW d, Agrees(s, d)
  PROVE  /\ s.cur \in -1 .. Depth - 2 /\ s.top \in 0 .. Depth - 1 /\ s.cur \in Int
         /\ s.cur < s.top \/ (s.top = 0 /\ s.cur = -1)
         /\ s.entry \in [0 .. Depth -> Entries \union {NULL}]
         /\ Depth \in Nat /\ Depth >= 2
         /\ s.top > 0 => s.entry[s.cur + 1] = d
BY DepthAssumption DEF Stacks, Agrees

\* The lines of a stack, by length and place.
LEMMA LineElements ==
  ASSUME NEW s, NEW first \in Int, NEW last \in Int, last - first + 1 \in Nat,
         \A i \in first .. last : s.entry[i] \in Entries \union {NULL}
  PROVE  /\ Line(s, first, last) \in Seq(Entries \union {NULL})
         /\ Len(Line(s, first, last)) = last - first + 1
         /\ \A i \in 1 .. last - first + 1 : Line(s, first, last)[i] = s.entry[first + i - 1]
<1> DEFINE n == last - first + 1
<1>1. \A i \in 1 .. n : first + i - 1 \in first .. last
  OBVIOUS
<1>2. \A i \in 1 .. n : s.entry[first + i - 1] \in Entries \union {NULL}
  BY <1>1
<1>3. Line(s, first, last) = [i \in 1 .. n |-> s.entry[first + i - 1]]
  BY DEF Line
<1> HIDE DEF n
<1>4. n \in Nat
  BY DEF n
<1>5. /\ [i \in 1 .. n |-> s.entry[first + i - 1]] \in Seq(Entries \union {NULL})
      /\ Len([i \in 1 .. n |-> s.entry[first + i - 1]]) = n
  BY <1>2, <1>4
<1> QED BY <1>3, <1>5 DEF n

LEMMA StackLines ==
  ASSUME NEW s \in Stacks, NEW d, Agrees(s, d)
  PROVE  /\ Past(s) \in Seq(Entries \union {NULL}) /\ Future(s) \in Seq(Entries \union {NULL})
         /\ Len(Past(s)) = s.cur + 1
         /\ \A i \in 1 .. s.cur + 1 : Past(s)[i] = s.entry[i - 1]
         /\ Len(Future(s)) = s.top - s.cur - 1
         /\ \A i \in 1 .. s.top - s.cur - 1 : Future(s)[i] = s.entry[s.cur + 1 + i]
<1>0. /\ s.cur \in -1 .. Depth - 2 /\ s.top \in 0 .. Depth - 1 /\ s.cur \in Int
      /\ s.cur < s.top \/ (s.top = 0 /\ s.cur = -1)
      /\ s.entry \in [0 .. Depth -> Entries \union {NULL}]
      /\ Depth \in Nat /\ Depth >= 2
  BY Unstack
<1>1. \A i \in 0 .. s.cur : s.entry[i] \in Entries \union {NULL}
  <2>1. \A i \in 0 .. s.cur : i \in 0 .. Depth
    BY <1>0
  <2> QED BY <1>0, <2>1
<1>2. \A i \in s.cur + 2 .. s.top : s.entry[i] \in Entries \union {NULL}
  <2>1. \A i \in s.cur + 2 .. s.top : i \in 0 .. Depth
    BY <1>0
  <2> QED BY <1>0, <2>1
<1>3. /\ Past(s) \in Seq(Entries \union {NULL}) /\ Len(Past(s)) = s.cur - 0 + 1
      /\ \A i \in 1 .. s.cur - 0 + 1 : Past(s)[i] = s.entry[0 + i - 1]
  <2>1. s.cur - 0 + 1 \in Nat /\ 0 \in Int
    BY <1>0
  <2> QED BY <1>0, <1>1, <2>1, LineElements DEF Past
<1>4. /\ Future(s) \in Seq(Entries \union {NULL}) /\ Len(Future(s)) = s.top - (s.cur + 2) + 1
      /\ \A i \in 1 .. s.top - (s.cur + 2) + 1 : Future(s)[i] = s.entry[s.cur + 2 + i - 1]
  <2>1. s.top - (s.cur + 2) + 1 \in Nat /\ s.cur + 2 \in Int /\ s.top \in Int
    BY <1>0
  <2> QED BY <1>2, <2>1, LineElements DEF Future
<1>5. \A i \in 1 .. s.cur + 1 : Past(s)[i] = s.entry[i - 1]
  <2>1. s.cur - 0 + 1 = s.cur + 1 /\ \A i \in 1 .. s.cur + 1 : 0 + i - 1 = i - 1
    BY <1>0
  <2> QED BY <1>3, <2>1
<1>6. \A i \in 1 .. s.top - s.cur - 1 : Future(s)[i] = s.entry[s.cur + 1 + i]
  <2>1. /\ s.top - (s.cur + 2) + 1 = s.top - s.cur - 1
        /\ \A i \in 1 .. s.top - s.cur - 1 : s.cur + 2 + i - 1 = s.cur + 1 + i
    BY <1>0
  <2> QED BY <1>4, <2>1
<1>7. Len(Past(s)) = s.cur + 1 /\ Len(Future(s)) = s.top - s.cur - 1
  BY <1>0, <1>3, <1>4
<1> QED BY <1>3, <1>4, <1>5, <1>6, <1>7

\* Where Push puts what: a full stack loses its bottom.
LEMMA PushEntries ==
  ASSUME NEW s \in Stacks, NEW e \in Entries
  PROVE  LET u == Push(s, e) IN
         /\ u.top = u.cur
         /\ s.cur < Depth - 1 =>
              u.cur = s.cur + 1 /\ \A i \in 0 .. s.cur : u.entry[i] = s.entry[i]
         /\ s.cur = Depth - 1 =>
              u.cur = s.cur /\ \A i \in 0 .. s.cur - 1 : u.entry[i] = s.entry[i + 1]
<1> DEFINE full == s.cur >= Depth - 1
           at == IF full THEN s.cur ELSE s.cur + 1
           moved == [i \in 0 .. Depth |->
                       IF full /\ i <= s.cur THEN s.entry[i + 1] ELSE s.entry[i]]
           u == Push(s, e)
<1>1. u = [entry |-> [moved EXCEPT ![at] = e], cur |-> at, top |-> at, over |-> full \/ s.over]
  BY DEF Push
<1>2. s.cur \in -1 .. Depth - 1 /\ s.cur \in Int /\ Depth \in Nat
  BY DepthAssumption DEF Stacks
<1>3. u.cur = at /\ u.top = at /\ u.entry = [moved EXCEPT ![at] = e]
  BY <1>1
<1>4. \A i \in 0 .. Depth : i # at => u.entry[i] = moved[i]
  <2> HIDE DEF u, moved, at
  <2> QED BY <1>3 DEF moved
<1> HIDE DEF u
<1>5. ASSUME s.cur < Depth - 1
      PROVE  at = s.cur + 1 /\ \A i \in 0 .. s.cur : u.entry[i] = s.entry[i]
  <2>1. ~full /\ at = s.cur + 1
    BY <1>2, <1>5
  <2>2. \A i \in 0 .. s.cur : i \in 0 .. Depth /\ i # at
    BY <1>2, <2>1
  <2>3. \A i \in 0 .. Depth : moved[i] = s.entry[i]
    BY <2>1
  <2> QED BY <1>4, <2>1, <2>2, <2>3
<1>6. ASSUME s.cur = Depth - 1
      PROVE  at = s.cur /\ \A i \in 0 .. s.cur - 1 : u.entry[i] = s.entry[i + 1]
  <2>1. full /\ at = s.cur
    BY <1>2, <1>6
  <2>2. \A i \in 0 .. s.cur - 1 : i \in 0 .. Depth /\ i # at /\ i <= s.cur
    BY <1>2, <2>1
  <2>3. \A i \in 0 .. Depth : i <= s.cur => moved[i] = s.entry[i + 1]
    BY <2>1
  <2> QED BY <1>4, <2>1, <2>2, <2>3
<1> QED BY <1>3, <1>5, <1>6 DEF u

\* The cursor goes back by one.
LEMMA PopMoves ==
  ASSUME NEW s \in Stacks, ~IsEmpty(s)
  PROVE  /\ Pop(s).cur = s.cur - 1 /\ Pop(s).top = s.top /\ Pop(s).entry = s.entry
BY DEF Pop, Stacks

\* After a change there is nothing to redo, and what the pattern held before
\* is the last of its past, unless the change is taken back with another one.
LEMMA FinishLines ==
  ASSUME undoStack \in Stacks, NEW before \in Entries, NEW after \in Entries,
         NEW join \in BOOLEAN, Agrees(undoStack, before)
  PROVE  LET f == Finish(before, after, join) IN
         /\ Future(f) = <<>>
         /\ Past(f) = IF join THEN Past(undoStack)
                      ELSE History!Latest(Append(Past(undoStack), before))
<1> DEFINE s == undoStack
           f == Finish(before, after, join)
           E == Entries \union {NULL}
<1>0. /\ s \in Stacks /\ s.cur \in -1 .. Depth - 2 /\ s.cur \in Int
      /\ Depth \in Nat /\ Depth >= 2
  BY Unstack
<1>1. f \in Stacks /\ Agrees(f, after) /\ LiveToCursor(s)
  BY FinishAgrees, AgreesIsLive
<1>2. /\ Past(s) \in Seq(E) /\ Len(Past(s)) = s.cur + 1
      /\ \A i \in 1 .. s.cur + 1 : Past(s)[i] = s.entry[i - 1]
  BY <1>0, StackLines
<1>3. /\ Past(f) \in Seq(E) /\ Future(f) \in Seq(E)
      /\ Len(Past(f)) = f.cur + 1 /\ Len(Future(f)) = f.top - f.cur - 1
      /\ \A i \in 1 .. f.cur + 1 : Past(f)[i] = f.entry[i - 1]
  BY <1>1, StackLines
<1>4. CASE join
  <2> DEFINE u == Push(s, after)
  <2>1. /\ u \in Stacks /\ u.cur = s.cur + 1 /\ u.top = u.cur
        /\ \A i \in 0 .. s.cur : u.entry[i] = s.entry[i]
    BY <1>0, <1>1, PushStores, PushEntries DEF Pushed
  <2>2. f = Pop(u)
    BY <1>4 DEF Finish
  <2> HIDE DEF u, f
  <2>3. f.cur = s.cur /\ f.top = s.cur + 1 /\ f.entry = u.entry
    BY <1>0, <2>1, <2>2, PopMoves DEF IsEmpty
  <2>4. Len(Future(f)) = 0 /\ Len(Past(f)) = Len(Past(s))
    BY <1>0, <1>2, <1>3, <2>3
  <2>5. ASSUME NEW i \in 1 .. Len(Past(s)) PROVE Past(f)[i] = Past(s)[i]
    <3>1. i \in 1 .. s.cur + 1 /\ i - 1 \in 0 .. s.cur
      BY <1>0, <1>2
    <3> QED BY <1>2, <1>3, <2>1, <2>3, <3>1
  <2>6. Future(f) = <<>>
    BY <1>3, <2>4
  <2>7. Past(f) = Past(s)
    BY <1>2, <1>3, <2>4, <2>5, SameSequence
  <2> QED BY <1>4, <2>6, <2>7 DEF f
<1>5. CASE ~join
  <2> DEFINE t == Push(s, before)
             u == Push(t, after)
             a == Append(Past(s), before)
  <2>1. /\ t \in Stacks /\ LiveToCursor(t) /\ t.entry[t.cur] = before
        /\ t.cur = s.cur + 1
        /\ \A i \in 0 .. s.cur : t.entry[i] = s.entry[i]
    BY <1>0, <1>1, PushStores, PushEntries DEF Pushed
  <2>2. u \in Stacks /\ u.top = u.cur
    BY <2>1, PushStores DEF Pushed
  <2>3. f = Pop(u)
    BY <1>5 DEF Finish
  <2>4. /\ a \in Seq(E) /\ Len(a) = s.cur + 2
        /\ \A i \in 1 .. s.cur + 2 : a[i] = t.entry[i - 1]
    <3>1. /\ a \in Seq(E) /\ Len(a) = s.cur + 2 /\ a[s.cur + 2] = before
          /\ \A i \in 1 .. s.cur + 1 : a[i] = Past(s)[i]
      BY <1>0, <1>2
    <3>2. ASSUME NEW i \in 1 .. s.cur + 2 PROVE a[i] = t.entry[i - 1]
      <4>1. CASE i = s.cur + 2
        <5>1. i - 1 = t.cur
          BY <1>0, <2>1, <4>1
        <5> QED BY <2>1, <3>1, <4>1, <5>1
      <4>2. CASE i # s.cur + 2
        <5>1. i \in 1 .. s.cur + 1 /\ i - 1 \in 0 .. s.cur
          BY <1>0, <4>2
        <5> QED BY <1>2, <2>1, <3>1, <5>1
      <4> QED BY <4>1, <4>2
    <3> QED BY <3>1, <3>2
  <2>5. CASE s.cur < Depth - 2
    <3>1. /\ u.cur = s.cur + 2
          /\ \A i \in 0 .. s.cur + 1 : u.entry[i] = t.entry[i]
      <4>1. t.cur < Depth - 1
        BY <1>0, <2>1, <2>5
      <4> QED BY <1>0, <2>1, <4>1, PushEntries
    <3> HIDE DEF t, u, f, a
    <3>2. f.cur = s.cur + 1 /\ f.top = s.cur + 2 /\ f.entry = u.entry
      BY <1>0, <2>2, <2>3, <3>1, PopMoves DEF IsEmpty
    <3>3. Len(Future(f)) = 0 /\ Len(Past(f)) = Len(a)
      BY <1>0, <1>3, <2>4, <3>2
    <3>4. ASSUME NEW i \in 1 .. Len(a) PROVE Past(f)[i] = a[i]
      <4>1. i \in 1 .. s.cur + 2 /\ i - 1 \in 0 .. s.cur + 1 /\ i \in 1 .. f.cur + 1
        BY <1>0, <2>4, <3>2
      <4> QED BY <1>3, <2>4, <3>1, <3>2, <4>1
    <3>5. Future(f) = <<>> /\ Past(f) = a
      <4>1. Future(f) = <<>>
        BY <1>3, <3>3
      <4>2. Past(f) = a
        BY <1>3, <2>4, <3>3, <3>4, SameSequence
      <4> QED BY <4>1, <4>2
    <3>6. ~(Len(a) > Depth - 1)
      BY <1>0, <2>4, <2>5
    <3>7. History!Latest(a) = a
      BY <3>6 DEF History!Latest
    <3> QED BY <1>5, <3>5, <3>7 DEF f, a
  <2>6. CASE s.cur = Depth - 2
    <3>1. /\ u.cur = s.cur + 1
          /\ \A i \in 0 .. s.cur : u.entry[i] = t.entry[i + 1]
      <4>1. t.cur = Depth - 1 /\ t.cur - 1 = s.cur
        BY <1>0, <2>1, <2>6
      <4> QED BY <1>0, <2>1, <4>1, PushEntries
    <3> HIDE DEF t, u, f, a
    <3>2. f.cur = s.cur /\ f.top = s.cur + 1 /\ f.entry = u.entry
      BY <1>0, <2>2, <2>3, <3>1, PopMoves DEF IsEmpty
    <3>3. /\ Tail(a) \in Seq(E) /\ Len(Tail(a)) = s.cur + 1
          /\ \A i \in 1 .. s.cur + 1 : Tail(a)[i] = a[i + 1]
      <4>1. Len(a) > 0 /\ a # <<>>
        BY <1>0, <2>4
      <4> QED BY <1>0, <2>4, <4>1
    <3>4. Len(Future(f)) = 0 /\ Len(Past(f)) = Len(Tail(a))
      BY <1>0, <1>3, <3>2, <3>3
    <3>5. ASSUME NEW i \in 1 .. Len(Tail(a)) PROVE Past(f)[i] = Tail(a)[i]
      <4>1. /\ i \in 1 .. s.cur + 1 /\ i - 1 \in 0 .. s.cur /\ i + 1 \in 1 .. s.cur + 2
            /\ i \in 1 .. f.cur + 1 /\ (i + 1) - 1 = (i - 1) + 1
        BY <1>0, <3>2, <3>3
      <4> QED BY <1>3, <2>4, <3>1, <3>2, <3>3, <4>1
    <3>6. Future(f) = <<>> /\ Past(f) = Tail(a)
      <4>1. Future(f) = <<>>
        BY <1>3, <3>4
      <4>2. Past(f) = Tail(a)
        BY <1>3, <3>3, <3>4, <3>5, SameSequence
      <4> QED BY <4>1, <4>2
    <3>7. Len(a) > Depth - 1
      BY <1>0, <2>4, <2>6
    <3>8. History!Latest(a) = Tail(a)
      BY <3>7 DEF History!Latest
    <3> QED BY <1>5, <3>6, <3>8 DEF f, a
  <2>7. s.cur < Depth - 2 \/ s.cur = Depth - 2
    BY <1>0
  <2> QED BY <2>5, <2>6, <2>7
<1> QED BY <1>4, <1>5

\* Undo takes the last state of the past, and puts the present before the future.
LEMMA UndoLines ==
  ASSUME NEW s \in Stacks, NEW d \in Entries, Agrees(s, d), ~IsEmpty(s)
  PROVE  LET past == Past(s) IN
         /\ past # <<>> /\ Popped(s) = past[Len(past)]
         /\ Past(Pop(s)) = SubSeq(past, 1, Len(past) - 1)
         /\ Future(Pop(s)) = <<d>> \o Future(s)
<1> DEFINE E == Entries \union {NULL}
           q == Pop(s)
           past == Past(s)
           front == SubSeq(past, 1, Len(past) - 1)
           later == <<d>> \o Future(s)
<1>0. /\ s.cur \in 0 .. Depth - 2 /\ s.top \in 1 .. Depth - 1 /\ s.cur < s.top
      /\ s.entry[s.cur + 1] = d /\ Depth \in Nat
  BY Unstack DEF IsEmpty
<1>1. /\ past \in Seq(E) /\ Future(s) \in Seq(E)
      /\ Len(past) = s.cur + 1 /\ Len(Future(s)) = s.top - s.cur - 1
      /\ \A i \in 1 .. s.cur + 1 : past[i] = s.entry[i - 1]
      /\ \A i \in 1 .. s.top - s.cur - 1 : Future(s)[i] = s.entry[s.cur + 1 + i]
  BY StackLines
<1>2. q \in Stacks /\ Agrees(q, Popped(s))
  BY UndoAgrees
<1>3. q.cur = s.cur - 1 /\ q.top = s.top /\ q.entry = s.entry
  BY PopMoves
<1>4. /\ Past(q) \in Seq(E) /\ Future(q) \in Seq(E)
      /\ Len(Past(q)) = q.cur + 1 /\ Len(Future(q)) = q.top - q.cur - 1
      /\ \A i \in 1 .. q.cur + 1 : Past(q)[i] = q.entry[i - 1]
      /\ \A i \in 1 .. q.top - q.cur - 1 : Future(q)[i] = q.entry[q.cur + 1 + i]
  BY <1>2, StackLines
<1> HIDE DEF q, past
<1>5. past # <<>> /\ Popped(s) = past[Len(past)]
  <2>1. Len(past) # 0
    BY <1>0, <1>1
  <2>2. past[s.cur + 1] = s.entry[s.cur]
    BY <1>0, <1>1
  <2> QED BY <1>1, <2>1, <2>2 DEF Popped
<1>6. Past(q) = front
  <2>1. /\ front \in Seq(E) /\ Len(front) = s.cur
        /\ \A i \in 1 .. s.cur : front[i] = past[i]
    BY <1>0, <1>1
  <2>2. Len(Past(q)) = Len(front)
    BY <1>0, <1>3, <1>4, <2>1
  <2>3. ASSUME NEW i \in 1 .. Len(Past(q)) PROVE Past(q)[i] = front[i]
    <3>1. i \in 1 .. s.cur /\ i \in 1 .. s.cur + 1 /\ i \in 1 .. q.cur + 1
      BY <1>0, <1>3, <1>4
    <3> QED BY <1>1, <1>3, <1>4, <2>1, <3>1
  <2> QED BY <1>4, <2>1, <2>2, <2>3, SameSequence
<1>7. Future(q) = later
  <2>1. /\ later \in Seq(E) /\ Len(later) = s.top - s.cur
        /\ later[1] = d
        /\ \A i \in 2 .. s.top - s.cur : later[i] = Future(s)[i - 1]
    <3>1. <<d>> \in Seq(E) /\ Len(<<d>>) = 1 /\ <<d>>[1] = d
      OBVIOUS
    <3> QED BY <1>0, <1>1, <3>1, ConcatProperties
  <2>2. Len(Future(q)) = Len(later)
    BY <1>0, <1>3, <1>4, <2>1
  <2>3. ASSUME NEW i \in 1 .. Len(Future(q)) PROVE Future(q)[i] = later[i]
    <3>1. i \in 1 .. s.top - s.cur /\ i \in 1 .. q.top - q.cur - 1
      BY <1>0, <1>3, <1>4
    <3>2. Future(q)[i] = s.entry[s.cur + i]
      <4>1. q.cur + 1 + i = s.cur + i
        BY <1>0, <1>3
      <4> QED BY <1>3, <1>4, <3>1, <4>1
    <3>3. CASE i = 1
      BY <1>0, <2>1, <3>2, <3>3
    <3>4. CASE i # 1
      <4>1. /\ i \in 2 .. s.top - s.cur /\ i - 1 \in 1 .. s.top - s.cur - 1
            /\ s.cur + 1 + (i - 1) = s.cur + i
        BY <1>0, <3>1, <3>4
      <4> QED BY <1>1, <2>1, <3>2, <4>1
    <3> QED BY <3>3, <3>4
  <2> QED BY <1>4, <2>1, <2>2, <2>3, SameSequence
<1> QED BY <1>5, <1>6, <1>7 DEF q, past

\* Redo takes the first state of the future, and puts the present behind the past.
LEMMA RedoLines ==
  ASSUME NEW s \in Stacks, NEW d \in Entries, Agrees(s, d), ~IsTop(s)
  PROVE  LET future == Future(s) IN
         /\ future # <<>> /\ Advanced(s) = Head(future)
         /\ Past(Advance(s)) = Append(Past(s), d)
         /\ Future(Advance(s)) = Tail(future)
<1> DEFINE E == Entries \union {NULL}
           q == Advance(s)
           future == Future(s)
           earlier == Append(Past(s), d)
           back == Tail(future)
<1>0. /\ s.cur \in -1 .. Depth - 3 /\ s.top \in 1 .. Depth - 1 /\ s.cur < s.top - 1
      /\ s.entry[s.cur + 1] = d /\ Depth \in Nat
  BY Unstack DEF IsTop
<1>1. /\ Past(s) \in Seq(E) /\ future \in Seq(E)
      /\ Len(Past(s)) = s.cur + 1 /\ Len(future) = s.top - s.cur - 1
      /\ \A i \in 1 .. s.cur + 1 : Past(s)[i] = s.entry[i - 1]
      /\ \A i \in 1 .. s.top - s.cur - 1 : future[i] = s.entry[s.cur + 1 + i]
  BY StackLines
<1>2. q \in Stacks /\ Agrees(q, Advanced(s))
  BY RedoAgrees
<1>3. q.cur = s.cur + 1 /\ q.top = s.top /\ q.entry = s.entry
  BY <1>0 DEF Advance, Stacks
<1>4. /\ Past(q) \in Seq(E) /\ Future(q) \in Seq(E)
      /\ Len(Past(q)) = q.cur + 1 /\ Len(Future(q)) = q.top - q.cur - 1
      /\ \A i \in 1 .. q.cur + 1 : Past(q)[i] = q.entry[i - 1]
      /\ \A i \in 1 .. q.top - q.cur - 1 : Future(q)[i] = q.entry[q.cur + 1 + i]
  BY <1>2, StackLines
<1>9. Advanced(s) = s.entry[s.cur + 2]
  BY <1>0, <1>3 DEF Advanced
<1> HIDE DEF q, future
<1>5. future # <<>> /\ Advanced(s) = Head(future)
  <2>1. Len(future) # 0 /\ 1 \in 1 .. s.top - s.cur - 1 /\ s.cur + 1 + 1 = s.cur + 2
    BY <1>0, <1>1
  <2>2. future[1] = s.entry[s.cur + 2]
    BY <1>1, <2>1
  <2> QED BY <1>1, <1>9, <2>1, <2>2
<1>6. Past(q) = earlier
  <2>1. /\ earlier \in Seq(E) /\ Len(earlier) = s.cur + 2 /\ earlier[s.cur + 2] = d
        /\ \A i \in 1 .. s.cur + 1 : earlier[i] = Past(s)[i]
    BY <1>0, <1>1
  <2>2. Len(Past(q)) = Len(earlier)
    BY <1>0, <1>3, <1>4, <2>1
  <2>3. ASSUME NEW i \in 1 .. Len(Past(q)) PROVE Past(q)[i] = earlier[i]
    <3>1. i \in 1 .. s.cur + 2 /\ i \in 1 .. q.cur + 1
      BY <1>0, <1>3, <1>4
    <3>2. Past(q)[i] = s.entry[i - 1]
      BY <1>3, <1>4, <3>1
    <3>3. CASE i = s.cur + 2
      <4>1. i - 1 = s.cur + 1
        BY <1>0, <3>3
      <4> QED BY <1>0, <2>1, <3>2, <3>3, <4>1
    <3>4. CASE i # s.cur + 2
      <4>1. i \in 1 .. s.cur + 1
        BY <1>0, <3>1, <3>4
      <4> QED BY <1>1, <2>1, <3>2, <4>1
    <3> QED BY <3>3, <3>4
  <2> QED BY <1>4, <2>1, <2>2, <2>3, SameSequence
<1>7. Future(q) = back
  <2>1. /\ back \in Seq(E) /\ Len(back) = s.top - s.cur - 2
        /\ \A i \in 1 .. s.top - s.cur - 2 : back[i] = future[i + 1]
    BY <1>0, <1>1, <1>5
  <2>2. Len(Future(q)) = Len(back)
    BY <1>0, <1>3, <1>4, <2>1
  <2>3. ASSUME NEW i \in 1 .. Len(Future(q)) PROVE Future(q)[i] = back[i]
    <3>1. /\ i \in 1 .. s.top - s.cur - 2 /\ i \in 1 .. q.top - q.cur - 1
          /\ i + 1 \in 1 .. s.top - s.cur - 1
          /\ q.cur + 1 + i = s.cur + 1 + (i + 1)
      <4>1. Len(Future(q)) = s.top - s.cur - 2 /\ s.top \in Int /\ s.cur \in Int
        BY <1>0, <2>1, <2>2
      <4>2. q.top - q.cur - 1 = s.top - s.cur - 2
        BY <1>3, <4>1
      <4> QED BY <1>3, <4>1, <4>2
    <3> QED BY <1>1, <1>3, <1>4, <2>1, <3>1
  <2> QED BY <1>4, <2>1, <2>2, <2>3, SameSequence
<1> QED BY <1>5, <1>6, <1>7 DEF q, future

\* A stack from which nothing can be undone or redone is an empty line.
LEMMA NoLines ==
  ASSUME NEW s \in Stacks, NEW d, Agrees(s, d), IsEmpty(s), IsTop(s)
  PROVE  Past(s) = <<>> /\ Future(s) = <<>>
<1>1. Len(Past(s)) = 0 /\ Len(Future(s)) = 0
  BY Unstack, StackLines DEF IsEmpty, IsTop
<1> QED BY <1>1, StackLines

LEMMA NewStackLines ==
  ASSUME NEW d \in Entries
  PROVE  Past(NewStack) = <<>> /\ Future(NewStack) = <<>>
<1>1. IsEmpty(NewStack) /\ IsTop(NewStack)
  BY DEF IsEmpty, IsTop, NewStack
<1> QED BY <1>1, NewStackAgrees, NoLines

-----------------------------------------------------------------------------
(* The refinement: the stack of each pattern. *)

StackIn(h, q) ==
  IF \E i \in 1 .. Len(h) : h[i].key = q
  THEN h[CHOOSE i \in 1 .. Len(h) : h[i].key = q].undoStack
  ELSE NewStack

LEMMA StackOfPattern ==
  ASSUME NEW q
  PROVE  StackOf(q) = IF q = pattern THEN undoStack ELSE StackIn(history, q)
BY DEF StackOf, StackIn

LEMMA StackOfPatternNext ==
  ASSUME NEW q
  PROVE  StackOf(q)' = IF q = pattern' THEN undoStack' ELSE StackIn(history', q)
BY DEF StackOf, StackIn

LEMMA Found ==
  ASSUME NEW h, Ordered(h), NEW i \in 1 .. Len(h)
  PROVE  StackIn(h, h[i].key) = h[i].undoStack
<1> DEFINE q == h[i].key
           k == CHOOSE j \in 1 .. Len(h) : h[j].key = q
<1>1. k \in 1 .. Len(h) /\ h[k].key = q
  OBVIOUS
<1>2. StackIn(h, q) = h[k].undoStack
  BY DEF StackIn
<1> HIDE DEF k
<1>3. k = i
  BY <1>1 DEF Ordered
<1> QED BY <1>2, <1>3

LEMMA NotFound ==
  ASSUME NEW h, NEW q, \A i \in 1 .. Len(h) : h[i].key # q
  PROVE  StackIn(h, q) = NewStack
BY DEF StackIn

\* A stack in the list, or a new one, agrees with its pattern.
LEMMA StackInAgrees ==
  ASSUME NEW h, Ordered(h), NEW q \in Patterns, doc \in [Patterns -> Entries]
  PROVE  StackIn(h, q) \in Stacks /\ Agrees(StackIn(h, q), doc[q])
<1>1. ASSUME NEW i \in 1 .. Len(h), h[i].key = q
      PROVE  StackIn(h, q) \in Stacks /\ Agrees(StackIn(h, q), doc[q])
  <2>1. StackIn(h, q) = h[i].undoStack
    BY <1>1, Found
  <2>2. h[i] \in Item /\ Agrees(h[i].undoStack, doc[h[i].key])
    BY DEF Ordered
  <2>3. h[i].undoStack \in Stacks
    BY <2>2 DEF Item
  <2> QED BY <1>1, <2>1, <2>2, <2>3
<1>2. ASSUME \A i \in 1 .. Len(h) : h[i].key # q
      PROVE  StackIn(h, q) \in Stacks /\ Agrees(StackIn(h, q), doc[q])
  BY <1>2, NotFound, NewStackAgrees
<1> QED BY <1>1, <1>2

\* Taking an item out of a list leaves the stacks of the other patterns.
LEMMA StackInWithout ==
  ASSUME NEW h, Ordered(h), NEW i \in 1 .. Len(h), NEW q
  PROVE  StackIn(Without(h, i), q) = IF q = h[i].key THEN NewStack ELSE StackIn(h, q)
<1> DEFINE w == Without(h, i)
<1>1. /\ Ordered(w) /\ \A j \in 1 .. Len(w) : w[j].key # h[i].key
      /\ \A j \in 1 .. Len(w) : \E k \in 1 .. Len(h) : w[j] = h[k]
  BY WithoutOrdered
<1>2. /\ Len(w) = Len(h) - 1 /\ Len(h) \in Nat
      /\ \A j \in 1 .. Len(h) - 1 : w[j] = IF j < i THEN h[j] ELSE h[j + 1]
  BY WithoutKeeps DEF Ordered
<1> HIDE DEF w
<1>3. CASE q = h[i].key
  BY <1>1, <1>3, NotFound DEF w
<1>4. ASSUME q # h[i].key, NEW k \in 1 .. Len(h), h[k].key = q
      PROVE  StackIn(w, q) = StackIn(h, q)
  <2>1. k # i
    BY <1>4
  <2>2. PICK j \in 1 .. Len(w) : w[j] = h[k]
    <3>1. CASE k < i
      <4>1. k \in 1 .. Len(w)
        BY <1>2, <3>1
      <4> QED BY <1>2, <3>1, <4>1
    <3>2. CASE k > i
      <4>1. k - 1 \in 1 .. Len(w) /\ ~(k - 1 < i) /\ (k - 1) + 1 = k
        BY <1>2, <3>2
      <4> QED BY <1>2, <4>1
    <3> QED BY <2>1, <3>1, <3>2
  <2>3. StackIn(w, w[j].key) = w[j].undoStack
    BY <1>1, <2>2, Found
  <2>4. StackIn(h, h[k].key) = h[k].undoStack
    BY Found
  <2> QED BY <1>4, <2>2, <2>3, <2>4
<1>5. ASSUME q # h[i].key, \A k \in 1 .. Len(h) : h[k].key # q
      PROVE  StackIn(w, q) = StackIn(h, q)
  <2>1. \A j \in 1 .. Len(w) : w[j].key # q
    BY <1>1, <1>5
  <2> QED BY <1>5, <2>1, NotFound
<1> QED BY <1>3, <1>4, <1>5 DEF w

LEMMA StackInAppend ==
  ASSUME NEW h, NEW item \in Item, Ordered(h), Ordered(Append(h, item)), NEW q
  PROVE  StackIn(Append(h, item), q) =
           IF q = item.key THEN item.undoStack ELSE StackIn(h, q)
<1> DEFINE a == Append(h, item)
<1>1. /\ Len(h) \in Nat /\ Len(a) = Len(h) + 1 /\ a[Len(h) + 1] = item
      /\ \A i \in 1 .. Len(h) : a[i] = h[i]
  BY DEF Ordered
<1>2. \A i \in 1 .. Len(a) : i \in 1 .. Len(h) \/ i = Len(h) + 1
  BY <1>1
<1>3. \A i \in 1 .. Len(h) : i \in 1 .. Len(a)
  BY <1>1
<1>4. Len(h) + 1 \in 1 .. Len(a)
  BY <1>1
<1>5. \A i \in 1 .. Len(a) : StackIn(a, a[i].key) = a[i].undoStack
  BY Found
<1> HIDE DEF a
<1>6. CASE q = item.key
  BY <1>1, <1>4, <1>5, <1>6 DEF a
<1>7. ASSUME q # item.key, NEW k \in 1 .. Len(h), h[k].key = q
      PROVE  StackIn(a, q) = StackIn(h, q)
  BY <1>1, <1>3, <1>5, <1>7, Found
<1>8. ASSUME q # item.key, \A k \in 1 .. Len(h) : h[k].key # q
      PROVE  StackIn(a, q) = StackIn(h, q)
  <2>1. \A i \in 1 .. Len(a) : a[i].key # q
    BY <1>1, <1>2, <1>8
  <2> QED BY <1>8, <2>1, NotFound
<1> QED BY <1>6, <1>7, <1>8 DEF a

\* What attachPattern keeps of the stacks: the line of one pattern at most is
\* forgotten, when the list has no room for another stack.
LEMMA KeptLines ==
  ASSUME IInv
  PROVE  \E D \in SUBSET Patterns : \A q \in Patterns :
           /\ Past(StackIn(Kept, q)) = IF q \in D THEN <<>> ELSE Past(StackOf(q))
           /\ Future(StackIn(Kept, q)) = IF q \in D THEN <<>> ELSE Future(StackOf(q))
<1> DEFINE item == [key |-> pattern, undoStack |-> undoStack]
<1>1. /\ doc \in [Patterns -> Entries] /\ pattern \in Patterns /\ doc[pattern] \in Entries
      /\ undoStack \in Stacks /\ Agrees(undoStack, doc[pattern])
      /\ Ordered(history) /\ Len(history) <= HistorySize /\ Len(history) \in Nat
      /\ \A i \in 1 .. Len(history) : history[i].key # pattern
  BY Unfold
<1>2. \A q \in Patterns :
        StackOf(q) = IF q = pattern THEN undoStack ELSE StackIn(history, q)
  BY StackOfPattern
<1>3. item \in Item /\ item.key = pattern /\ item.undoStack = undoStack
  BY <1>1 DEF Item
<1>4. CASE IsEmpty(undoStack) /\ IsTop(undoStack)
  <2>1. Kept = history
    BY <1>4 DEF Kept
  <2>2. StackIn(history, pattern) = NewStack
    BY <1>1, NotFound
  <2>3. Past(NewStack) = <<>> /\ Future(NewStack) = <<>>
    BY <1>1, NewStackLines
  <2>4. Past(undoStack) = <<>> /\ Future(undoStack) = <<>>
    BY <1>1, <1>4, NoLines
  <2>5. \A q \in Patterns :
           /\ Past(StackIn(Kept, q)) = Past(StackOf(q))
           /\ Future(StackIn(Kept, q)) = Future(StackOf(q))
    BY <1>2, <2>1, <2>2, <2>3, <2>4
  <2> QED BY <2>5
<1>5. CASE ~(IsEmpty(undoStack) /\ IsTop(undoStack)) /\ Len(history) < HistorySize
  <2>1. Kept = Append(history, item)
    BY <1>5 DEF Kept
  <2>2. Ordered(Kept)
    BY KeptOrdered
  <2>3. \A q \in Patterns : StackIn(Kept, q) = StackOf(q)
    BY <1>1, <1>2, <1>3, <2>1, <2>2, StackInAppend
  <2> QED BY <2>3
<1>6. CASE ~(IsEmpty(undoStack) /\ IsTop(undoStack)) /\ ~(Len(history) < HistorySize)
  <2> DEFINE rest == Without(history, 1)
             gone == history[1].key
  <2>0. 1 \in 1 .. Len(history)
    BY <1>1, <1>6, HistoryAssumption
  <2>1. Kept = Append(rest, item)
    BY <1>6 DEF Kept
  <2>2. Ordered(Kept) /\ Ordered(rest)
    BY <1>1, <2>0, KeptOrdered, WithoutOrdered
  <2>3. \A q \in Patterns :
          StackIn(rest, q) = IF q = gone THEN NewStack ELSE StackIn(history, q)
    BY <1>1, <2>0, StackInWithout
  <2> HIDE DEF rest
  <2>4. \A q \in Patterns :
          StackIn(Kept, q) = IF q = pattern THEN undoStack ELSE StackIn(rest, q)
    BY <1>3, <2>1, <2>2, StackInAppend
  <2>5. gone # pattern /\ gone \in Patterns
    <3>1. history[1] \in Item
      BY <1>1, <2>0 DEF Ordered
    <3> QED BY <1>1, <2>0, <3>1 DEF Item
  <2>6. Past(NewStack) = <<>> /\ Future(NewStack) = <<>>
    BY <1>1, NewStackLines
  <2> HIDE DEF gone
  <2>7. \A q \in Patterns :
           /\ Past(StackIn(Kept, q)) = IF q \in {gone} THEN <<>> ELSE Past(StackOf(q))
           /\ Future(StackIn(Kept, q)) = IF q \in {gone} THEN <<>> ELSE Future(StackOf(q))
    BY <1>2, <2>3, <2>4, <2>5, <2>6
  <2>8. {gone} \in SUBSET Patterns
    BY <2>5
  <2> QED BY <2>7, <2>8
<1> QED BY <1>4, <1>5, <1>6

-----------------------------------------------------------------------------
(* The refinement: the steps. *)

\* The lines of all patterns, as the refinement mapping has them.
PastOf == [p \in Patterns |-> Line(StackOf(p), 0, StackOf(p).cur)]
FutureOf == [p \in Patterns |-> Line(StackOf(p), StackOf(p).cur + 2, StackOf(p).top)]

LEMMA LinesNow ==
  /\ PastOf = [p \in Patterns |-> Past(StackOf(p))]
  /\ FutureOf = [p \in Patterns |-> Future(StackOf(p))]
BY DEF PastOf, FutureOf, Past, Future

LEMMA LinesNext ==
  /\ PastOf' = [p \in Patterns |-> Past(StackOf(p)')]
  /\ FutureOf' = [p \in Patterns |-> Future(StackOf(p)')]
BY DEF PastOf, FutureOf, Past, Future

\* Operations on the pattern in the editor change its line only.
LEMMA LinesOfEditor ==
  ASSUME IInv, pattern' = pattern, history' = history
  PROVE  /\ PastOf[pattern] = Past(undoStack) /\ FutureOf[pattern] = Future(undoStack)
         /\ PastOf' = [PastOf EXCEPT ![pattern] = Past(undoStack')]
         /\ FutureOf' = [FutureOf EXCEPT ![pattern] = Future(undoStack')]
<1>1. pattern \in Patterns
  BY Unfold
<1>2. \A q \in Patterns : StackOf(q)' = IF q = pattern THEN undoStack' ELSE StackOf(q)
  BY StackOfPattern, StackOfPatternNext
<1>3. StackOf(pattern) = undoStack
  BY StackOfPattern
<1>4. \A q \in Patterns : PastOf[q] = Past(StackOf(q)) /\ FutureOf[q] = Future(StackOf(q))
  BY LinesNow
<1>5. PastOf' = [PastOf EXCEPT ![pattern] = Past(undoStack')]
  BY <1>1, <1>2, LinesNow, LinesNext
<1>6. FutureOf' = [FutureOf EXCEPT ![pattern] = Future(undoStack')]
  BY <1>1, <1>2, LinesNow, LinesNext
<1> QED BY <1>1, <1>3, <1>4, <1>5, <1>6

LEMMA MapsEdit ==
  ASSUME IInv, NEW v \in Entries, NEW kind \in Kinds, Edit(v, kind)
  PROVE  \/ History!Change(pattern, v) \/ History!Amend(pattern, v) \/ History!NoChange
         \/ UNCHANGED <<doc, PastOf, FutureOf, lastChange>>
<1>1. /\ doc \in [Patterns -> Entries] /\ pattern \in Patterns /\ doc[pattern] \in Entries
      /\ undoStack \in Stacks /\ Agrees(undoStack, doc[pattern])
  BY Unfold
<1>2. /\ PastOf[pattern] = Past(undoStack) /\ FutureOf[pattern] = Future(undoStack)
      /\ PastOf' = [PastOf EXCEPT ![pattern] = Past(undoStack')]
      /\ FutureOf' = [FutureOf EXCEPT ![pattern] = Future(undoStack')]
  BY LinesOfEditor DEF Edit
<1>3. doc' = [doc EXCEPT ![pattern] = v] /\ lastChange' = kind
  BY DEF Edit
<1>4. CASE v = doc[pattern]
  <2>1. undoStack' = undoStack /\ kind # "resize"
    BY <1>4 DEF Edit
  <2>2. PastOf' = PastOf /\ FutureOf' = FutureOf
    BY <1>2, <2>1, LinesNow
  <2>3. doc' = doc
    BY <1>1, <1>3, <1>4
  <2>4. (lastChange' = "resize") = FALSE
    BY <1>3, <2>1
  <2> QED BY <2>2, <2>3, <2>4 DEF History!NoChange, PastOf, FutureOf
<1>5. CASE v # doc[pattern]
  <2> DEFINE join == kind = "resize" /\ lastChange = "resize"
  <2>1. undoStack' = Finish(doc[pattern], v, join)
    BY <1>5 DEF Edit
  <2>2. join \in BOOLEAN
    OBVIOUS
  <2> HIDE DEF join
  <2>3. /\ Future(undoStack') = <<>>
        /\ Past(undoStack') = IF join THEN Past(undoStack)
                              ELSE History!Latest(Append(Past(undoStack), doc[pattern]))
    BY <1>1, <2>1, <2>2, FinishLines
  <2>4. FutureOf' = [FutureOf EXCEPT ![pattern] = <<>>]
    BY <1>2, <2>3
  <2>5. CASE join
    <3>1. PastOf' = PastOf
      BY <1>2, <2>3, <2>5, LinesNow
    <3>2. lastChange = "resize" /\ lastChange' = "resize"
      BY <1>3, <2>5 DEF join
    <3>3. (lastChange' = "resize") = (lastChange = "resize")
      BY <3>2
    <3>4. History!Amend(pattern, v)
      BY <1>3, <2>4, <3>1, <3>2, <3>3 DEF History!Amend, PastOf, FutureOf
    <3> QED BY <3>4
  <2>6. CASE ~join
    <3>1. PastOf' = [PastOf EXCEPT ![pattern] =
                       History!Latest(Append(PastOf[pattern], doc[pattern]))]
      BY <1>2, <2>3, <2>6
    <3>2. (lastChange' = "resize") \in BOOLEAN
      OBVIOUS
    <3>3. History!Change(pattern, v)
      BY <1>3, <2>4, <3>1, <3>2 DEF History!Change, PastOf, FutureOf
    <3> QED BY <3>3
  <2> QED BY <2>5, <2>6
<1> QED BY <1>4, <1>5

LEMMA MapsUndo ==
  ASSUME IInv, Undo
  PROVE  History!Undo(pattern)
<1>1. /\ doc \in [Patterns -> Entries] /\ pattern \in Patterns /\ doc[pattern] \in Entries
      /\ undoStack \in Stacks /\ Agrees(undoStack, doc[pattern])
  BY Unfold
<1>2. /\ PastOf[pattern] = Past(undoStack) /\ FutureOf[pattern] = Future(undoStack)
      /\ PastOf' = [PastOf EXCEPT ![pattern] = Past(undoStack')]
      /\ FutureOf' = [FutureOf EXCEPT ![pattern] = Future(undoStack')]
  BY LinesOfEditor DEF Undo
<1>3. /\ Past(undoStack) # <<>>
      /\ Popped(undoStack) = Past(undoStack)[Len(Past(undoStack))]
      /\ Past(Pop(undoStack)) = SubSeq(Past(undoStack), 1, Len(Past(undoStack)) - 1)
      /\ Future(Pop(undoStack)) = <<doc[pattern]>> \o Future(undoStack)
  BY <1>1, UndoLines DEF Undo
<1>4. /\ doc' = [doc EXCEPT ![pattern] = PastOf[pattern][Len(PastOf[pattern])]]
      /\ PastOf' = [PastOf EXCEPT ![pattern] =
                      SubSeq(PastOf[pattern], 1, Len(PastOf[pattern]) - 1)]
      /\ FutureOf' = [FutureOf EXCEPT ![pattern] = <<doc[pattern]>> \o FutureOf[pattern]]
      /\ PastOf[pattern] # <<>>
  BY <1>2, <1>3 DEF Undo
<1>5. (lastChange' = "resize") = (lastChange = "resize")
  BY DEF Undo
<1> QED BY <1>4, <1>5 DEF History!Undo, PastOf, FutureOf

LEMMA MapsRedo ==
  ASSUME IInv, Redo
  PROVE  History!Redo(pattern)
<1>1. /\ doc \in [Patterns -> Entries] /\ pattern \in Patterns /\ doc[pattern] \in Entries
      /\ undoStack \in Stacks /\ Agrees(undoStack, doc[pattern])
  BY Unfold
<1>2. /\ PastOf[pattern] = Past(undoStack) /\ FutureOf[pattern] = Future(undoStack)
      /\ PastOf' = [PastOf EXCEPT ![pattern] = Past(undoStack')]
      /\ FutureOf' = [FutureOf EXCEPT ![pattern] = Future(undoStack')]
  BY LinesOfEditor DEF Redo
<1>3. /\ Future(undoStack) # <<>>
      /\ Advanced(undoStack) = Head(Future(undoStack))
      /\ Past(Advance(undoStack)) = Append(Past(undoStack), doc[pattern])
      /\ Future(Advance(undoStack)) = Tail(Future(undoStack))
  BY <1>1, RedoLines DEF Redo
<1>4. /\ doc' = [doc EXCEPT ![pattern] = Head(FutureOf[pattern])]
      /\ PastOf' = [PastOf EXCEPT ![pattern] = Append(PastOf[pattern], doc[pattern])]
      /\ FutureOf' = [FutureOf EXCEPT ![pattern] = Tail(FutureOf[pattern])]
      /\ FutureOf[pattern] # <<>>
  BY <1>2, <1>3 DEF Redo
<1>5. (lastChange' = "resize") = (lastChange = "resize")
  BY DEF Redo
<1> QED BY <1>4, <1>5 DEF History!Redo, PastOf, FutureOf

\* Forgetting lines, as attachPattern and reset do.
LEMMA MapsForget ==
  ASSUME NEW D \in SUBSET Patterns, doc' = doc, lastChange' = lastChange,
         \A q \in Patterns :
           /\ Past(StackOf(q)') = IF q \in D THEN <<>> ELSE Past(StackOf(q))
           /\ Future(StackOf(q)') = IF q \in D THEN <<>> ELSE Future(StackOf(q))
  PROVE  History!Forget(D)
<1>1. \A q \in Patterns : PastOf[q] = Past(StackOf(q)) /\ FutureOf[q] = Future(StackOf(q))
  BY LinesNow
<1>2. /\ PastOf' = [d \in Patterns |-> IF d \in D THEN <<>> ELSE PastOf[d]]
      /\ FutureOf' = [d \in Patterns |-> IF d \in D THEN <<>> ELSE FutureOf[d]]
  BY <1>1, LinesNext
<1>3. (lastChange' = "resize") = (lastChange = "resize")
  OBVIOUS
<1> QED BY <1>2, <1>3 DEF History!Forget, PastOf, FutureOf

LEMMA MapsAttach ==
  ASSUME IInv, NEW p \in Patterns, AttachPattern(p)
  PROVE  \E D \in SUBSET Patterns : History!Forget(D)
<1>1. Ordered(Kept)
  BY KeptOrdered
<1>2. \A q \in Patterns : StackOf(q)' = StackIn(Kept, q)
  <2>1. ASSUME NEW i \in 1 .. Len(Kept), Kept[i].key = p, undoStack' = Kept[i].undoStack,
               history' = Without(Kept, i), NEW q \in Patterns
        PROVE  StackOf(q)' = StackIn(Kept, q)
    <3>1. StackOf(q)' = IF q = p THEN Kept[i].undoStack ELSE StackIn(Without(Kept, i), q)
      BY <2>1, StackOfPatternNext DEF AttachPattern
    <3> QED BY <1>1, <2>1, <3>1, Found, StackInWithout
  <2>2. ASSUME \A i \in 1 .. Len(Kept) : Kept[i].key # p, undoStack' = NewStack,
               history' = Kept, NEW q \in Patterns
        PROVE  StackOf(q)' = StackIn(Kept, q)
    <3>1. StackOf(q)' = IF q = p THEN NewStack ELSE StackIn(Kept, q)
      BY <2>2, StackOfPatternNext DEF AttachPattern
    <3> QED BY <2>2, <3>1, NotFound
  <2> QED BY <2>1, <2>2 DEF AttachPattern
<1>3. PICK D \in SUBSET Patterns : \A q \in Patterns :
         /\ Past(StackIn(Kept, q)) = IF q \in D THEN <<>> ELSE Past(StackOf(q))
         /\ Future(StackIn(Kept, q)) = IF q \in D THEN <<>> ELSE Future(StackOf(q))
  BY KeptLines
<1>4. \A q \in Patterns :
         /\ Past(StackOf(q)') = IF q \in D THEN <<>> ELSE Past(StackOf(q))
         /\ Future(StackOf(q)') = IF q \in D THEN <<>> ELSE Future(StackOf(q))
  BY <1>2, <1>3
<1> QED BY <1>4, MapsForget DEF AttachPattern

LEMMA MapsReset ==
  ASSUME IInv, Reset
  PROVE  History!Forget(Patterns)
<1>1. doc[pattern] \in Entries
  BY Unfold
<1>2. \A q \in Patterns : StackIn(<<>>, q) = NewStack
  BY NotFound
<1>3. \A q \in Patterns : StackOf(q)' = NewStack
  BY <1>2, StackOfPatternNext DEF Reset
<1>4. Past(NewStack) = <<>> /\ Future(NewStack) = <<>>
  BY <1>1, NewStackLines
<1> QED BY <1>3, <1>4, MapsForget DEF Reset

LEMMA MapsInit == Init => History!Init
<1> SUFFICES ASSUME Init PROVE History!Init
  OBVIOUS
<1>1. doc \in [Patterns -> Entries] /\ pattern \in Patterns /\ history = <<>>
      /\ undoStack = NewStack
  BY DEF Init
<1>2. \A q \in Patterns : StackOf(q) = NewStack
  BY <1>1, NotFound, StackOfPattern
<1>3. Past(NewStack) = <<>> /\ Future(NewStack) = <<>>
  BY <1>1, NewStackLines
<1>4. PastOf = [d \in Patterns |-> <<>>] /\ FutureOf = [d \in Patterns |-> <<>>]
  BY <1>2, <1>3, LinesNow
<1>5. (lastChange = "resize") = FALSE
  BY DEF Init
<1> QED BY <1>1, <1>4, <1>5 DEF History!Init, PastOf, FutureOf

LEMMA MapsStep == IInv /\ [Next]_vars => [History!Next]_(History!vars)
<1> SUFFICES ASSUME IInv, [Next]_vars PROVE [History!Next]_(History!vars)
  OBVIOUS
<1>0. pattern \in Patterns
  BY Unfold
<1>1. ASSUME UNCHANGED <<doc, PastOf, FutureOf, lastChange>> PROVE UNCHANGED History!vars
  BY <1>1 DEF History!vars, PastOf, FutureOf
<1>2. ASSUME NEW v \in Entries, NEW kind \in Kinds, Edit(v, kind)
      PROVE  History!Next \/ UNCHANGED History!vars
  BY <1>0, <1>1, <1>2, MapsEdit DEF History!Next
<1>3. ASSUME Undo PROVE History!Next
  BY <1>0, <1>3, MapsUndo DEF History!Next
<1>4. ASSUME Redo PROVE History!Next
  BY <1>0, <1>4, MapsRedo DEF History!Next
<1>5. ASSUME NEW p \in Patterns, AttachPattern(p) PROVE History!Next
  BY <1>5, MapsAttach DEF History!Next
<1>6. ASSUME Reset PROVE History!Next
  <2>1. Patterns \in SUBSET Patterns
    OBVIOUS
  <2> QED BY <1>6, <2>1, MapsReset DEF History!Next
<1>7. ASSUME UNCHANGED vars PROVE UNCHANGED History!vars
  <2>1. \A q \in Patterns : StackOf(q)' = StackOf(q)
    BY <1>7, StackOfPattern, StackOfPatternNext DEF vars
  <2>2. PastOf' = PastOf /\ FutureOf' = FutureOf
    BY <2>1, LinesNow, LinesNext
  <2> QED BY <1>1, <1>7, <2>2 DEF vars
<1> QED BY <1>2, <1>3, <1>4, <1>5, <1>6, <1>7 DEF Next

\* The stacks, their list and its bounds implement the line of states that undo
\* promises: undo and redo walk it, a change is added to it, and what is lost
\* is its oldest state or, when the list is full, the line of a pattern as a
\* whole (PPUndoStack, UndoHistory).
THEOREM UndoIsALine == Spec => HistorySpec
<1>1. Init => History!Init
  BY MapsInit
<1>2. IInv /\ [Next]_vars => [History!Next]_(History!vars)
  BY MapsStep
<1> QED BY <1>1, <1>2, Invariance, PTL DEF Spec, HistorySpec, History!Spec
===============================================================================
