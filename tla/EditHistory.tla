----------------------------- MODULE EditHistory -----------------------------
(***************************************************************************)
(* What undo promises: every document has a line of earlier states and a   *)
(* line of undone ones, and undo and redo walk that line.  The line is     *)
(* Limit states long at most, and it may be forgotten as a whole.          *)
(***************************************************************************)
EXTENDS Naturals, Sequences

CONSTANTS Documents, Versions, Limit

VARIABLES
  present,   \* what each document holds
  past,      \* the states undo returns to, the last one first to be returned to
  future,    \* the states redo returns to, the first one first
  joins      \* the last change is of a kind that repetitions are joined to

vars == <<present, past, future, joins>>

Init ==
  /\ present \in [Documents -> Versions]
  /\ past = [d \in Documents |-> <<>>]
  /\ future = [d \in Documents |-> <<>>]
  /\ joins = FALSE

Latest(line) == IF Len(line) > Limit THEN Tail(line) ELSE line

Change(d, v) ==
  /\ present' = [present EXCEPT ![d] = v]
  /\ past' = [past EXCEPT ![d] = Latest(Append(@, present[d]))]
  /\ future' = [future EXCEPT ![d] = <<>>]
  /\ joins' \in BOOLEAN

\* a change that is taken back together with the one before it
Amend(d, v) ==
  /\ joins
  /\ present' = [present EXCEPT ![d] = v]
  /\ future' = [future EXCEPT ![d] = <<>>]
  /\ UNCHANGED <<past, joins>>

Undo(d) ==
  /\ past[d] # <<>>
  /\ present' = [present EXCEPT ![d] = past[d][Len(past[d])]]
  /\ past' = [past EXCEPT ![d] = SubSeq(@, 1, Len(@) - 1)]
  /\ future' = [future EXCEPT ![d] = <<present[d]>> \o @]
  /\ UNCHANGED joins

Redo(d) ==
  /\ future[d] # <<>>
  /\ present' = [present EXCEPT ![d] = Head(future[d])]
  /\ past' = [past EXCEPT ![d] = Append(@, present[d])]
  /\ future' = [future EXCEPT ![d] = Tail(@)]
  /\ UNCHANGED joins

Forget(D) ==
  /\ past' = [d \in Documents |-> IF d \in D THEN <<>> ELSE past[d]]
  /\ future' = [d \in Documents |-> IF d \in D THEN <<>> ELSE future[d]]
  /\ UNCHANGED <<present, joins>>

\* an operation that turns out to change nothing
NoChange ==
  /\ joins' = FALSE
  /\ UNCHANGED <<present, past, future>>

Next ==
  \/ \E d \in Documents : Undo(d) \/ Redo(d)
  \/ \E d \in Documents, v \in Versions : Change(d, v) \/ Amend(d, v)
  \/ \E D \in SUBSET Documents : Forget(D)
  \/ NoChange

Spec == Init /\ [][Next]_vars
=============================================================================
