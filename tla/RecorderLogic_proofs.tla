-------------------------- MODULE RecorderLogic_proofs --------------------------
(***************************************************************************)
(* For any number of modules and tabs, any keys, settings and habits of    *)
(* the user: the lists of documents, tabs and players agree, and the       *)
(* module being edited is not paused.  What carries the first is that the  *)
(* tabs are numbered in their order: a tab is its own ID, so that closing  *)
(* a tab may look up an ID where an index is meant.                        *)
(*                                                                         *)
(* Then the notes: every note has a channel its module has, and for a user *)
(* without the habits of RecorderLogic no note sounds beyond its key.  The *)
(* invariant relates the held keys, the table, the rings and the channels. *)
(***************************************************************************)
EXTENDS RecorderLogic, SequenceTheorems, FiniteSetTheorems, TLAPS

-----------------------------------------------------------------------------
(* Sequences with one element less or more. *)

\* The elements behind the removed one move down by one.
LEMMA RemoveAtElements ==
  ASSUME NEW S, NEW s \in Seq(S), NEW i \in 1..Len(s)
  PROVE  /\ RemoveAt(s, i) \in Seq(S)
         /\ Len(RemoveAt(s, i)) = Len(s) - 1
         /\ \A j \in 1..Len(s) - 1 :
              RemoveAt(s, i)[j] = IF j < i THEN s[j] ELSE s[j + 1]
<1> DEFINE front == SubSeq(s, 1, i - 1)
           back == SubSeq(s, i + 1, Len(s))
<1>1. Len(s) \in Nat /\ i \in Int /\ 1 <= i /\ i <= Len(s)
  OBVIOUS
<1>2. /\ front \in Seq(S) /\ Len(front) = i - 1
      /\ \A j \in 1..i - 1 : front[j] = s[j]
  BY <1>1
<1>3. /\ back \in Seq(S) /\ Len(back) = Len(s) - i
      /\ \A j \in 1..Len(s) - i : back[j] = s[i + j]
  BY <1>1
<1> HIDE DEF front, back
<1>4. /\ front \o back \in Seq(S) /\ Len(front \o back) = Len(s) - 1
      /\ \A j \in 1..Len(s) - 1 :
           (front \o back)[j] = IF j < i THEN front[j] ELSE back[j - (i - 1)]
  <2>1. /\ front \o back \in Seq(S)
        /\ Len(front \o back) = Len(front) + Len(back)
        /\ \A j \in 1..Len(front) + Len(back) :
             (front \o back)[j] = IF j <= Len(front) THEN front[j] ELSE back[j - Len(front)]
    BY <1>2, <1>3, ConcatProperties
  <2> QED BY <1>1, <1>2, <1>3, <2>1
<1>5. ASSUME NEW j \in 1..Len(s) - 1
      PROVE  (front \o back)[j] = IF j < i THEN s[j] ELSE s[j + 1]
  <2>1. CASE j < i
    BY <1>1, <1>2, <1>4, <2>1
  <2>2. CASE ~(j < i)
    <3>1. j - (i - 1) \in 1..Len(s) - i /\ i + (j - (i - 1)) = j + 1
      BY <1>1, <2>2
    <3> QED BY <1>3, <1>4, <2>2, <3>1
  <2> QED BY <2>1, <2>2
<1> QED BY <1>4, <1>5 DEF RemoveAt, front, back

\* What is left of a sequence without duplicates has none, and is all but
\* the element removed.
LEMMA RemoveAtInjective ==
  ASSUME NEW S, NEW s \in Seq(S), NEW i \in 1..Len(s), IsInjective(s)
  PROVE  /\ IsInjective(RemoveAt(s, i))
         /\ ToSet(RemoveAt(s, i)) = ToSet(s) \ {s[i]}
<1> DEFINE r == RemoveAt(s, i)
<1>1. /\ r \in Seq(S) /\ Len(r) = Len(s) - 1
      /\ DOMAIN r = 1..Len(s) - 1 /\ DOMAIN s = 1..Len(s)
      /\ \A j \in 1..Len(s) - 1 : r[j] = IF j < i THEN s[j] ELSE s[j + 1]
  BY RemoveAtElements
<1> HIDE DEF r
<1>2. \A a, b \in 1..Len(s) : s[a] = s[b] => a = b
  BY <1>1 DEF IsInjective
<1>3. IsInjective(r)
  BY <1>1, <1>2 DEF IsInjective
<1>4. ToSet(r) \subseteq ToSet(s) \ {s[i]}
  <2> SUFFICES ASSUME NEW j \in 1..Len(s) - 1
               PROVE  r[j] \in ToSet(s) /\ r[j] # s[i]
    BY <1>1 DEF ToSet
  <2> QED BY <1>1, <1>2 DEF ToSet
<1>5. ToSet(s) \ {s[i]} \subseteq ToSet(r)
  <2> SUFFICES ASSUME NEW a \in 1..Len(s), s[a] # s[i]
               PROVE  \E j \in 1..Len(s) - 1 : r[j] = s[a]
    <3>1. ToSet(s) = {s[a] : a \in 1..Len(s)} /\ ToSet(r) = {r[j] : j \in 1..Len(s) - 1}
      BY <1>1 DEF ToSet
    <3> QED BY <3>1
  <2>1. CASE a < i
    BY <1>1, <2>1
  <2>2. CASE a > i
    <3>1. a - 1 \in 1..Len(s) - 1 /\ ~(a - 1 < i) /\ (a - 1) + 1 = a
      BY <2>2
    <3> QED BY <1>1, <3>1
  <2> QED BY <2>1, <2>2
<1> QED BY <1>3, <1>4, <1>5 DEF r

\* A new element at the end.
LEMMA AppendInjectively ==
  ASSUME NEW S, NEW s \in Seq(S), NEW e \in S, IsInjective(s), e \notin ToSet(s)
  PROVE  /\ IsInjective(Append(s, e))
         /\ ToSet(Append(s, e)) = ToSet(s) \union {e}
<1>1. \A a, b \in 1..Len(s) : s[a] = s[b] => a = b
  BY DEF IsInjective
<1>2. \A a \in 1..Len(s) : s[a] # e
  BY DEF ToSet
<1>3. /\ DOMAIN Append(s, e) = 1..Len(s) + 1
      /\ \A a \in 1..Len(s) : Append(s, e)[a] = s[a]
      /\ Append(s, e)[Len(s) + 1] = e
  OBVIOUS
<1>4. IsInjective(Append(s, e))
  BY <1>1, <1>2, <1>3 DEF IsInjective
<1>5. ToSet(Append(s, e)) \subseteq ToSet(s) \union {e}
  BY <1>3 DEF ToSet
<1>6. ToSet(s) \union {e} \subseteq ToSet(Append(s, e))
  BY <1>3 DEF ToSet
<1> QED BY <1>4, <1>5, <1>6

-----------------------------------------------------------------------------
(* The tabs. *)

\* The tabs are numbered in their order; and a click whose release is not
\* noticed, the tab being the selected one again, has changed nothing.
Numbered ==
  /\ documents \in Seq(Modules)
  /\ tabs = [i \in 1..Len(documents) |-> i]
  /\ hit \in 1..Len(documents)
  /\ IsInjective(documents)
  /\ players = ToSet(documents)
  /\ current \in players
  /\ held = <<>> \/ held[1] = hit => current = documents[hit]

\* What a step does to the tabs.
TabStep ==
  \/ \E m \in Modules : OpenTab(m)
  \/ \E i \in DOMAIN tabs : MouseDown(i)
  \/ MouseUp
  \/ \E offset \in {-1, 1} : CycleTab(offset)
  \/ CloseTab
  \/ PauseBackground
  \/ UNCHANGED tabVars

\* Every step of the tracker is one of those: the notes, songs, octaves and
\* recording leave the lists alone.
LEMMA StepsOfTabs == [Next]_vars => TabStep
<1> SUFFICES ASSUME [Next]_vars PROVE TabStep
  OBVIOUS
<1>1. CASE \E k \in setup.keys : KeyDown(k) \/ KeyUp(k)
  BY <1>1 DEF KeyDown, KeyUp, TabStep
<1>2. CASE \E m \in Modules : Tick(m)
  BY <1>2 DEF Tick, TabStep
<1>3. CASE \E m \in Modules : NewTab(m)
  BY <1>3 DEF NewTab, TabStep
<1>4. CASE StopSong \/ EnsureSongStopped \/ ToggleEdit
  BY <1>4 DEF StopSong, EnsureSongStopped, ToggleEdit, TabStep
<1>5. CASE PlaySong
  BY <1>5 DEF PlaySong, TabStep
<1>6. CASE \E o \in setup.octaves : SetOctave(o)
  BY <1>6 DEF SetOctave, TabStep
<1>7. CASE \E c \in 0..setup.channels - 1 : MoveCursor(c)
  BY <1>7 DEF MoveCursor, TabStep
<1>8. CASE \E i \in DOMAIN tabs : PressTab(i)
  BY <1>8 DEF PressTab, TabStep
<1>9. CASE \E offset \in {-1, 1} : SwitchTab(offset)
  BY <1>9 DEF SwitchTab, TabStep
<1>10. CASE ReleaseTab \/ RemoveTab
  BY <1>10 DEF ReleaseTab, RemoveTab, TabStep
<1>11. CASE UNCHANGED vars
  BY <1>11 DEF vars, TabStep
<1> QED
  BY <1>1, <1>2, <1>3, <1>4, <1>5, <1>6, <1>7, <1>8, <1>9, <1>10, <1>11 DEF Next

LEMMA FirstTab == Init => Numbered
<1> SUFFICES ASSUME Init PROVE Numbered
  OBVIOUS
<1> PICK m \in Modules : documents = <<m>> /\ tabs = <<1>> /\ hit = 1 /\ held = <<>>
                         /\ current = m /\ players = {m}
  BY DEF Init, TabInit
<1>1. Len(documents) = 1 /\ DOMAIN documents = {1} /\ documents[1] = m
  OBVIOUS
<1>2. tabs = [i \in 1..Len(documents) |-> i]
  BY <1>1
<1>3. IsInjective(documents) /\ ToSet(documents) = {m}
  BY <1>1 DEF IsInjective, ToSet
<1> QED BY <1>1, <1>2, <1>3 DEF Numbered

\* Documents are found by position.
LEMMA DocumentOf ==
  ASSUME Numbered, NEW i \in 1..Len(documents)
  PROVE  /\ tabs[i] = i /\ Document(i) = documents[i]
         /\ documents[i] \in players /\ documents[i] \in Modules
         /\ DOMAIN tabs = 1..Len(documents) /\ Len(tabs) = Len(documents)
<1>1. Len(documents) \in Nat /\ DOMAIN documents = 1..Len(documents)
  BY DEF Numbered
<1>2. tabs \in [1..Len(documents) -> 1..Len(documents)] /\ tabs[i] = i
  BY <1>1 DEF Numbered
<1>3. Len(tabs) = Len(documents)
  BY <1>1, <1>2
<1> QED BY <1>1, <1>2, <1>3 DEF Numbered, Document, ToSet

-----------------------------------------------------------------------------
(* Closing a tab. *)

\* The tabs that are left are numbered again.
LEMMA TabsLeft ==
  ASSUME Numbered, NEW i \in 1..Len(documents)
  PROVE  Without(i) = [j \in 1..Len(documents) - 1 |-> j]
<1>1. /\ Len(documents) \in Nat /\ tabs \in Seq(Nat) /\ Len(tabs) = Len(documents)
      /\ \A j \in 1..Len(documents) : tabs[j] = j
  <2>1. Len(documents) \in Nat
    BY DEF Numbered
  <2>2. \A j \in 1..Len(documents) : tabs[j] = j
    BY DEF Numbered
  <2> QED BY <2>1, <2>2 DEF Numbered
<1> DEFINE left == RemoveAt(tabs, i)
<1>2. /\ DOMAIN left = 1..Len(documents) - 1
      /\ \A j \in 1..Len(documents) - 1 : left[j] = IF j < i THEN tabs[j] ELSE tabs[j + 1]
  BY <1>1, RemoveAtElements
<1> HIDE DEF left
<1>3. ASSUME NEW j \in 1..Len(documents) - 1
      PROVE  (IF left[j] > tabs[i] THEN left[j] - 1 ELSE left[j]) = j
  BY <1>1, <1>2
<1>4. Without(i) = [j \in DOMAIN left |-> IF left[j] > tabs[i] THEN left[j] - 1 ELSE left[j]]
  BY DEF Without, left
<1> QED BY <1>2, <1>3, <1>4

\* The tab that is selected next is the one the header shows.
LEMMA SuccessorIsShown ==
  ASSUME Numbered, NEW i \in 1..Len(documents), Len(documents) > 1
  PROVE  LET left == RemoveAt(documents, i) IN
         /\ Clamped(i, Len(left)) \in 1..Len(left)
         /\ Successor(i) = left[Clamped(i, Len(left))]
<1> DEFINE left == RemoveAt(documents, i)
           n == Len(documents) - 1
           k == Clamped(i, n)
<1>1. Len(documents) \in Nat /\ Len(left) = n
  BY RemoveAtElements DEF Numbered
<1>2. k \in 1..n
  BY <1>1 DEF Clamped
<1>3. Without(i) = [j \in 1..n |-> j]
  BY TabsLeft
<1>4. tabs[i] = i
  BY DocumentOf
<1> HIDE DEF left, n
<1>5. Successor(i) = left[Without(i)[Without(i)[k]]]
  BY <1>1, <1>4 DEF Successor, left
<1>6. Without(i)[k] = k
  BY <1>2, <1>3
<1> QED BY <1>1, <1>2, <1>5, <1>6 DEF left

LEMMA ClosedTab ==
  ASSUME Numbered, CloseTab
  PROVE  Numbered'
<1> DEFINE left == RemoveAt(documents, hit)
<1>1. /\ documents \in Seq(Modules) /\ hit \in 1..Len(documents) /\ IsInjective(documents)
      /\ Len(documents) \in Nat
  BY DEF Numbered
<1>2. tabs[hit] = hit /\ Document(hit) = documents[hit] /\ Len(documents) > 1
  BY <1>1, DocumentOf DEF CloseTab
<1>3. documents' = left /\ hit' = Clamped(hit, Len(left))
  BY <1>2 DEF CloseTab
<1>4. left \in Seq(Modules) /\ Len(left) = Len(documents) - 1
  BY <1>1, RemoveAtElements
<1>5. IsInjective(left) /\ ToSet(left) = ToSet(documents) \ {documents[hit]}
  BY <1>1, RemoveAtInjective
<1>6. hit' \in 1..Len(left) /\ current' = left[hit']
  BY <1>1, <1>2, <1>3, SuccessorIsShown DEF CloseTab
<1>7. tabs' = [i \in 1..Len(left) |-> i]
  BY <1>1, <1>4, TabsLeft DEF CloseTab
<1> HIDE DEF left
<1>8. current' \in ToSet(left)
  BY <1>4, <1>6 DEF ToSet
<1>9. players' = ToSet(left)
  <2>1. documents[hit] # current'
    BY <1>5, <1>8
  <2> QED BY <1>2, <1>5, <2>1 DEF CloseTab, Numbered
<1> QED BY <1>3, <1>4, <1>5, <1>6, <1>7, <1>8, <1>9 DEF Numbered

-----------------------------------------------------------------------------
LEMMA OpenedTab ==
  ASSUME Numbered, NEW m \in Modules, OpenTab(m)
  PROVE  Numbered'
<1> DEFINE n == Len(documents)
<1>1. /\ documents \in Seq(Modules) /\ n \in Nat /\ n > 0 /\ IsInjective(documents)
      /\ m \notin ToSet(documents)
  BY DEF Numbered, OpenTab
<1>2. documents' = Append(documents, m) /\ Len(documents') = n + 1
      /\ documents' \in Seq(Modules) /\ documents'[n + 1] = m
  BY <1>1 DEF OpenTab
<1>3. IsInjective(documents') /\ ToSet(documents') = ToSet(documents) \union {m}
  BY <1>1, <1>2, AppendInjectively
<1>4. tabs' = [i \in 1..n + 1 |-> i] /\ hit' = n + 1
  <2>1. tabs \in Seq(Nat) /\ Len(tabs) = n /\ \A i \in 1..n : tabs[i] = i
    BY <1>1 DEF Numbered
  <2>2. tabs' = Append(tabs, n + 1)
    BY <1>2 DEF OpenTab
  <2>3. /\ tabs' \in Seq(Nat) /\ Len(tabs') = n + 1 /\ \A i \in 1..n + 1 : tabs'[i] = i
    BY <1>1, <2>1, <2>2
  <2> QED BY <1>1, <2>3 DEF OpenTab
<1>5. players' = ToSet(documents') /\ current' = m
  BY <1>3 DEF OpenTab, Numbered
<1> QED BY <1>1, <1>2, <1>3, <1>4, <1>5 DEF Numbered

\* A click on a tab, and the tabs cycled by the keyboard.
LEMMA SelectedTab ==
  ASSUME Numbered, \/ \E i \in DOMAIN tabs : MouseDown(i)
                   \/ MouseUp
                   \/ \E offset \in {-1, 1} : CycleTab(offset)
  PROVE  Numbered'
<1>1. /\ hit \in 1..Len(documents) /\ DOMAIN tabs = 1..Len(documents)
      /\ \A i \in 1..Len(documents) : Document(i) = documents[i] /\ documents[i] \in players
  <2>1. hit \in 1..Len(documents)
    BY DEF Numbered
  <2> QED BY <2>1, DocumentOf
<1>2. ASSUME NEW i \in DOMAIN tabs, MouseDown(i) PROVE Numbered'
  <2>1. held' = <<hit>> /\ hit' = i /\ held'[1] = hit /\ held' # <<>>
    BY <1>2 DEF MouseDown
  <2>2. documents' = documents /\ tabs' = tabs /\ current' = current /\ players' = players
    BY <1>2 DEF MouseDown
  <2>3. held'[1] = hit' => current' = documents'[hit']
    BY <1>2, <2>1, <2>2 DEF MouseDown, Numbered
  <2> QED BY <1>1, <2>1, <2>2, <2>3 DEF Numbered
<1>3. CASE MouseUp
  <2>1. documents' = documents /\ tabs' = tabs /\ hit' = hit /\ players' = players
    BY <1>3 DEF MouseUp, Select
  <2>2. current' = documents[hit]
    BY <1>1, <1>3 DEF MouseUp, Select, Numbered
  <2> QED BY <1>1, <2>1, <2>2 DEF Numbered
<1>4. ASSUME NEW offset \in {-1, 1}, CycleTab(offset) PROVE Numbered'
  <2>1. /\ documents' = documents /\ tabs' = tabs /\ players' = players
        /\ hit' \in 1..Len(documents) /\ current' = documents[hit']
    BY <1>1, <1>4 DEF CycleTab, Select
  <2> QED BY <1>1, <2>1 DEF Numbered
<1> QED BY <1>2, <1>3, <1>4

LEMMA TabsKept ==
  ASSUME Numbered, [Next]_vars
  PROVE  Numbered'
<1>1. TabStep
  BY StepsOfTabs
<1>2. CASE PauseBackground
  BY <1>2 DEF PauseBackground, Numbered
<1>3. CASE UNCHANGED tabVars
  BY <1>3 DEF tabVars, Numbered
<1> QED
  BY <1>1, <1>2, <1>3, OpenedTab, SelectedTab, ClosedTab DEF TabStep

\* The three lists describe the same modules, whatever tabs are opened,
\* closed, clicked and cycled, in whatever order (TabManager, PlayerMaster,
\* TabHeaderControl).
THEOREM ListsAgree == Spec => []TabsAgree
<1>1. Numbered => TabsAgree
  <2> SUFFICES ASSUME Numbered PROVE TabsAgree
    OBVIOUS
  <2>1. hit \in 1..Len(documents)
    BY DEF Numbered
  <2>2. Len(tabs) = Len(documents) /\ Document(hit) = documents[hit]
    BY <2>1, DocumentOf
  <2>3. IsInjective(tabs)
    BY DEF Numbered, IsInjective
  <2> QED BY <2>2, <2>3 DEF Numbered, TabsAgree
<1> QED BY <1>1, FirstTab, TabsKept, PTL DEF Spec

-----------------------------------------------------------------------------
\* The module being edited is not paused, through any order of switching,
\* closing and playing, and for every tab behaviour (selectModuleEditor,
\* stopAll).
THEOREM CurrentPlays == Spec => []CurrentNotPaused
<1>1. Init => CurrentNotPaused
  BY DEF Init, TabInit, CurrentNotPaused
<1>2. ASSUME CurrentNotPaused, [Next]_vars PROVE CurrentNotPaused'
  <2>1. TabStep
    BY <1>2, StepsOfTabs
  <2>2. ASSUME NEW m \in Modules, OpenTab(m) PROVE CurrentNotPaused'
    BY <1>2, <2>2 DEF OpenTab, SelectPaused, CurrentNotPaused
  <2>3. ASSUME NEW i \in DOMAIN tabs, MouseDown(i) PROVE CurrentNotPaused'
    BY <1>2, <2>3 DEF MouseDown, CurrentNotPaused
  <2>4. CASE MouseUp
    BY <1>2, <2>4 DEF MouseUp, Select, SelectPaused, CurrentNotPaused
  <2>5. ASSUME NEW offset \in {-1, 1}, CycleTab(offset) PROVE CurrentNotPaused'
    BY <1>2, <2>5 DEF CycleTab, Select, SelectPaused, CurrentNotPaused
  <2>6. CASE CloseTab
    BY <1>2, <2>6 DEF CloseTab, SelectPaused, CurrentNotPaused
  <2>7. CASE PauseBackground
    BY <1>2, <2>7 DEF PauseBackground, CurrentNotPaused
  <2>8. CASE UNCHANGED tabVars
    BY <1>2, <2>8 DEF tabVars, CurrentNotPaused
  <2> QED BY <2>1, <2>2, <2>3, <2>4, <2>5, <2>6, <2>7, <2>8 DEF TabStep
<1> QED BY <1>1, <1>2, PTL DEF Spec

-----------------------------------------------------------------------------
(* Least elements, and the elements of a set in their order. *)

LEMMA LeastNatural ==
  ASSUME NEW T, T \subseteq Nat, T # {}
  PROVE  \E n \in T : \A m \in T : n <= m
<1> DEFINE Less == {s \in Nat \X Nat : s[1] < s[2]}
<1>1. IsWellFoundedOn(Less, Nat)
  BY NatLessThanWellFounded DEF OpToRel
<1> HIDE DEF Less
<1>2. PICK n \in T : \A m \in T : <<m, n>> \notin Less
  BY <1>1, WFMin
<1>3. ASSUME NEW m \in T PROVE n <= m
  <2>1. <<m, n>> \notin Less
    BY <1>2
  <2> QED BY <2>1 DEF Less
<1> QED BY <1>3

LEMMA NthPlaces ==
  ASSUME NEW S, S \subseteq Nat, IsFiniteSet(S)
  PROVE  /\ Cardinality(S) \in Nat
         /\ \A j \in 1..Cardinality(S) : Nth(S, j) \in S
         /\ \A i \in S : \E j \in 1..Cardinality(S) : Nth(S, j) = i
<1> DEFINE Upto(i) == {l \in S : l <= i}
           n == Cardinality(S)
           rank == [i \in S |-> Cardinality(Upto(i))]
<1>1. n \in Nat
  BY FS_CardinalityType
<1>2. ASSUME NEW i \in S PROVE IsFiniteSet(Upto(i)) /\ Cardinality(Upto(i)) \in 1..n
  <2>1. Upto(i) \in SUBSET S /\ i \in Upto(i)
    OBVIOUS
  <2>2. IsFiniteSet(Upto(i)) /\ Cardinality(Upto(i)) <= n
    BY <2>1, FS_Subset
  <2>3. Cardinality(Upto(i)) \in Nat /\ Cardinality(Upto(i)) # 0
    BY <2>1, <2>2, FS_CardinalityType, FS_EmptySet
  <2> QED BY <1>1, <2>2, <2>3
<1>3. ASSUME NEW i \in S, NEW k \in S, i < k PROVE rank[i] < rank[k]
  <2>0. \A l \in S : l \in Int
    OBVIOUS
  <2>a. \A l \in S : l <= i => l <= k
    BY <1>3, <2>0
  <2>b. k <= k /\ ~(k <= i)
    BY <1>3, <2>0
  <2>1. Upto(i) \in SUBSET Upto(k) /\ k \in Upto(k) /\ k \notin Upto(i)
    BY <2>a, <2>b
  <2>2. Cardinality(Upto(i)) <= Cardinality(Upto(k)) /\ Cardinality(Upto(i)) # Cardinality(Upto(k))
    BY <1>2, <2>1, FS_Subset
  <2>3. Cardinality(Upto(i)) \in Int /\ Cardinality(Upto(k)) \in Int
    BY <1>1, <1>2
  <2> QED BY <2>2, <2>3
<1>4. rank \in [S -> 1..n]
  BY <1>2
<1>5. \A i, k \in S : rank[i] = rank[k] => i = k
  <2> SUFFICES ASSUME NEW i \in S, NEW k \in S, rank[i] = rank[k], i # k PROVE FALSE
    OBVIOUS
  <2>1. i < k \/ k < i
    OBVIOUS
  <2>2. rank[i] < rank[k] \/ rank[k] < rank[i]
    BY <1>3, <2>1
  <2>3. rank[i] \in Int /\ rank[k] \in Int
    BY <1>1, <1>4
  <2> QED BY <2>2, <2>3
<1> HIDE DEF rank
<1>6. rank \in Injection(S, 1..n)
  BY <1>4, <1>5 DEF Injection, IsInjective
<1>7. IsFiniteSet(1..n) /\ Cardinality(1..n) = n
  BY <1>1, FS_Interval
<1>8. rank \in Surjection(S, 1..n)
  BY <1>6, <1>7, FS_Injection
<1>9. ASSUME NEW j \in 1..n PROVE Nth(S, j) \in S /\ rank[Nth(S, j)] = j
  <2>1. PICK i \in S : rank[i] = j
    BY <1>8 DEF Surjection
  <2>2. Cardinality({l \in S : l <= i}) = j
    BY <2>1 DEF rank
  <2>3. Nth(S, j) \in S /\ Cardinality({l \in S : l <= Nth(S, j)}) = j
    BY <2>2 DEF Nth
  <2> QED BY <2>3 DEF rank
<1>10. ASSUME NEW i \in S PROVE \E j \in 1..n : Nth(S, j) = i
  <2>1. rank[i] \in 1..n
    BY <1>4
  <2>2. Nth(S, rank[i]) \in S /\ rank[Nth(S, rank[i])] = rank[i]
    BY <2>1, <1>9
  <2> QED BY <2>1, <2>2, <1>5
<1> QED BY <1>1, <1>9, <1>10

-----------------------------------------------------------------------------
(* The types. *)

Cursors == 0..setup.channels - 1
Remembered == {Free} \union
  [note : Notes, channel : Channels, player : {{m} : m \in Modules}]
Messages == [channel : Channels, on : BOOLEAN]

NotesTyped ==
  /\ setup \in Setups
  /\ down \subseteq Keys
  /\ octave \in [Modules -> setup.octaves]
  /\ cursor \in Cursors
  /\ recordMode \in BOOLEAN
  /\ keys \in [Slots -> Remembered]
  /\ playing \subseteq players
  /\ queue \in [Modules -> Seq(Messages)]
  /\ sounding \in [Modules -> SUBSET Channels]
  /\ nextPlaying \in [Modules -> Channels]
  /\ firstRecord \in [Modules -> BOOLEAN]

LEMMA SetupKnown ==
  ASSUME setup \in Setups
  PROVE  /\ setup.channels \in Nat \ {0} /\ setup.virtual \in Nat
         /\ setup.jazz \in {"virtual", "multi", "single"}
         /\ setup.jazz = "virtual" <=> setup.virtual > 0
         /\ setup.armed \subseteq Cursors /\ Cursors \subseteq Channels
         /\ NewOctave \in setup.octaves /\ setup.keys \subseteq Keys
         /\ setup.behaviour \in Behaviours /\ setup.resume \in BOOLEAN
         /\ NewPlaying \in Channels /\ 0 \in Cursors
         /\ TableSize \in Nat
<1>1. /\ setup.channels \in Nat \ {0} /\ setup.virtual \in Nat
      /\ setup.jazz \in {"virtual", "multi", "single"}
      /\ setup.jazz = "virtual" <=> setup.virtual > 0
      /\ setup.armed \subseteq 0..setup.channels - 1
      /\ NewOctave \in setup.octaves /\ setup.keys \subseteq Keys
      /\ setup.behaviour \in Behaviours /\ setup.resume \in BOOLEAN
      /\ TableSize \in Nat
  BY RecorderAssumption DEF RecorderAssumption
<1>2. Cursors \subseteq Channels /\ 0 \in Cursors
  BY <1>1 DEF Cursors, Channels
<1>3. NewPlaying \in Channels
  BY <1>1, <1>2 DEF NewPlaying, Channels, Cursors
<1> QED BY <1>1, <1>2, <1>3 DEF Cursors

\* getNextPlayingChannel and getNextRecordingChannel give channels there are.
LEMMA NextArmedIsChannel ==
  ASSUME setup \in Setups, NEW c \in Cursors, NEW e \in Cursors
  PROVE  NextArmed(c, e) \in Cursors
<1> DEFINE n == setup.channels
           behind == {i \in 1..n : (c + i) % n \in setup.armed}
<1>1. n \in Nat /\ n > 0 /\ c \in Nat
  BY SetupKnown DEF Cursors
<1>2. CASE behind = {}
  BY <1>2 DEF NextArmed
<1>3. CASE behind # {}
  <2>1. \E i \in behind : \A j \in behind : i <= j
    <3>1. behind \subseteq Nat
      OBVIOUS
    <3> QED BY <1>3, <3>1, LeastNatural
  <2> DEFINE i == CHOOSE i \in behind : \A j \in behind : i <= j
  <2>2. i \in behind
    BY <2>1
  <2>3. NextArmed(c, e) = (c + i) % n
    BY <1>3 DEF NextArmed
  <2>4. (c + i) % n \in setup.armed
    BY <2>2
  <2> QED BY <2>3, <2>4, SetupKnown
<1> QED BY <1>2, <1>3

LEMMA ChannelsChosen ==
  ASSUME NotesTyped, current \in Modules
  PROVE  /\ NextPlaying.channel \in Channels /\ NextPlaying.next \in Channels
         /\ NextRecording \in Cursors
<1> DEFINE last == nextPlaying[current]
<1> DEFINE Chosen == NextPlaying.channel \in Channels /\ NextPlaying.next \in Channels
<1>0. /\ setup \in Setups /\ cursor \in Cursors /\ last \in Channels
      /\ setup.channels \in Nat \ {0} /\ setup.virtual \in Nat /\ Cursors \subseteq Channels
  BY SetupKnown DEF NotesTyped
<1>1. ASSUME setup.jazz = "virtual" PROVE Chosen
  <2>1. setup.virtual > 0
    BY <1>0, <1>1, SetupKnown
  <2>2. /\ NextPlaying.channel = IF last < setup.channels THEN setup.channels - 1 ELSE last
        /\ NextPlaying.next =
             IF (IF last < setup.channels THEN setup.channels - 1 ELSE last) + 1
                  >= setup.channels + setup.virtual
             THEN setup.channels
             ELSE (IF last < setup.channels THEN setup.channels - 1 ELSE last) + 1
    BY <1>1 DEF NextPlaying
  <2> QED BY <1>0, <2>1, <2>2 DEF Channels
<1>2. ASSUME setup.jazz = "multi" PROVE Chosen
  <2>1. setup.virtual = 0 /\ setup.jazz # "virtual"
    BY <1>0, <1>2, SetupKnown
  <2>2. last \in Cursors
    BY <1>0, <2>1 DEF Channels, Cursors
  <2>3. /\ NextPlaying.channel = IF setup.armed = {} THEN cursor ELSE last
        /\ NextPlaying.next = NextArmed(last, last)
    BY <1>2, <2>1 DEF NextPlaying
  <2>4. NextArmed(last, last) \in Cursors
    BY <1>0, <2>2, NextArmedIsChannel
  <2> QED BY <1>0, <2>2, <2>3, <2>4
<1>3. ASSUME setup.jazz = "single" PROVE Chosen
  <2>1. NextPlaying.channel = cursor /\ NextPlaying.next = last
    BY <1>3 DEF NextPlaying
  <2> QED BY <1>0, <2>1
<1>4. NextRecording \in Cursors
  BY <1>0, NextArmedIsChannel DEF NextRecording
<1>5. setup.jazz \in {"virtual", "multi", "single"}
  BY <1>0, SetupKnown
<1>6. NextPlaying.channel \in Channels /\ NextPlaying.next \in Channels
  BY <1>1, <1>2, <1>3, <1>5
<1> QED BY <1>4, <1>6

LEMMA NoteTyped ==
  ASSUME NotesTyped, current \in Modules, NEW k \in Keys
  PROVE  Note(k) \in Notes /\ Note(k) # Off
<1>1. k[2] \in Keyboard \union Midi
  BY DEF Keys
<1>2. octave[current] \in setup.octaves
  BY DEF NotesTyped
<1>3. /\ (IF k[1] = "midi" THEN MidiOctave ELSE octave[current])
           \in setup.octaves \union {MidiOctave}
      /\ Note(k) = <<IF k[1] = "midi" THEN MidiOctave ELSE octave[current], k[2]>>
  BY <1>2 DEF Note
<1>4. Note(k) # <<>>
  BY <1>3
<1> QED BY <1>1, <1>3, <1>4 DEF Notes, Off

\* A place is found for a note, and what it held is over or on the channel of
\* the new note.
LEMMA PlaceFits ==
  ASSUME NotesTyped, Cardinality(Occupied) < TableSize, NEW c
  PROVE  /\ Place(c) \in Slots
         /\ keys[Place(c)].note = Off \/ keys[Place(c)].channel = c
<1> DEFINE fits == {i \in Slots : keys[i].note = Off \/ keys[i].channel = c}
<1>0. TableSize \in Nat
  BY SetupKnown DEF NotesTyped
<1>1. fits # {}
  <2> SUFFICES ASSUME fits = {} PROVE FALSE
    OBVIOUS
  <2>1. Occupied = Slots
    BY DEF Occupied
  <2>2. Cardinality(Slots) = TableSize
    BY <1>0, FS_Interval DEF Slots
  <2> QED BY <1>0, <2>1, <2>2
<1>2. fits \subseteq Nat
  BY <1>0 DEF Slots
<1> DEFINE p == CHOOSE i \in fits : \A j \in fits : i <= j
<1>3. p \in fits
  <2>1. \E i \in fits : \A j \in fits : i <= j
    BY <1>1, <1>2, LeastNatural
  <2> QED BY <2>1
<1>4. Place(c) = p
  BY DEF Place
<1> QED BY <1>3, <1>4

\* The key offs of a player: one for every place of S that holds a note of it.
LEMMA KeyOffsAre ==
  ASSUME NotesTyped, NEW m, NEW S, S \subseteq Slots
  PROVE  /\ KeyOffs(S, m) \in Seq(Messages)
         /\ \A j \in 1..Len(KeyOffs(S, m)) : ~KeyOffs(S, m)[j].on
         /\ \A i \in S : m \in keys[i].player =>
              \E j \in 1..Len(KeyOffs(S, m)) :
                KeyOffs(S, m)[j].channel = keys[i].channel
<1> DEFINE off == {i \in S : m \in keys[i].player}
           n == Cardinality(off)
           seq == [j \in 1..n |-> [channel |-> keys[Nth(off, j)].channel, on |-> FALSE]]
<1>0. TableSize \in Nat
  BY SetupKnown DEF NotesTyped
<1>1. off \subseteq Nat /\ IsFiniteSet(off)
  <2>1. IsFiniteSet(Slots)
    BY <1>0, FS_Interval DEF Slots
  <2>2. off \in SUBSET Slots
    OBVIOUS
  <2> QED BY <1>0, <2>1, <2>2, FS_Subset DEF Slots
<1> HIDE DEF off
<1>2. /\ n \in Nat
      /\ \A j \in 1..n : Nth(off, j) \in off
      /\ \A i \in off : \E j \in 1..n : Nth(off, j) = i
  BY <1>1, NthPlaces
<1>3. \A i \in off : keys[i].channel \in Channels
  <2> SUFFICES ASSUME NEW i \in Slots, m \in keys[i].player
               PROVE  keys[i].channel \in Channels
    BY DEF off
  <2>1. keys[i] \in Remembered
    BY DEF NotesTyped
  <2>2. keys[i] # Free
    BY DEF Free
  <2> QED BY <2>1, <2>2 DEF Remembered
<1>4. KeyOffs(S, m) = seq
  BY DEF KeyOffs, off
<1> HIDE DEF n
<1>5. \A j \in 1..n : seq[j] \in Messages /\ seq[j].channel = keys[Nth(off, j)].channel
                      /\ ~seq[j].on
  BY <1>2, <1>3 DEF Messages
<1>6. seq \in Seq(Messages) /\ Len(seq) = n
  BY <1>2, <1>5
<1> HIDE DEF seq
<1>7. ASSUME NEW i \in S, m \in keys[i].player
      PROVE  \E j \in 1..n : seq[j].channel = keys[i].channel
  BY <1>2, <1>5, <1>7 DEF off
<1> QED BY <1>4, <1>5, <1>6, <1>7

LEMMA TabsTyped ==
  ASSUME Numbered
  PROVE  /\ documents \in Seq(Modules) /\ tabs \in Seq(DOMAIN documents)
         /\ hit \in DOMAIN tabs
         /\ current \in Modules /\ players \subseteq Modules
<1>1. documents \in Seq(Modules) /\ hit \in 1..Len(documents) /\ Len(documents) \in Nat
  BY DEF Numbered
<1>2. tabs = [i \in 1..Len(documents) |-> i] /\ DOMAIN documents = 1..Len(documents)
  BY <1>1 DEF Numbered
<1>3. tabs \in Seq(DOMAIN documents) /\ hit \in DOMAIN tabs
  BY <1>1, <1>2
<1>4. players \subseteq Modules /\ current \in players
  BY <1>1, <1>2 DEF Numbered, ToSet
<1> QED BY <1>1, <1>3, <1>4

LEMMA TabTypesKept ==
  ASSUME Numbered, TabTypeOK, [Next]_vars
  PROVE  TabTypeOK'
<1>1. TabStep
  BY StepsOfTabs
<1>2. Numbered'
  BY TabsKept
<1>3. /\ documents' \in Seq(Modules) /\ tabs' \in Seq(DOMAIN documents')
      /\ hit' \in DOMAIN tabs' /\ current' \in Modules /\ players' \subseteq Modules
  <2>1. Numbered' => (/\ documents \in Seq(Modules) /\ tabs \in Seq(DOMAIN documents)
                      /\ hit \in DOMAIN tabs
                      /\ current \in Modules /\ players \subseteq Modules)'
    BY TabsTyped, PTL
  <2> QED BY <1>2, <2>1
<1> DEFINE Kept == /\ held' \in Seq(Nat) /\ Len(held') <= 1
                   /\ paused' \subseteq players'
                   /\ behaviour' \in Behaviours /\ resume' \in BOOLEAN
<1>0. /\ held \in Seq(Nat) /\ Len(held) <= 1 /\ paused \subseteq players
      /\ behaviour \in Behaviours /\ resume \in BOOLEAN /\ hit \in Nat
  BY DEF TabTypeOK, Numbered
<1>4. ASSUME NEW m \in Modules, OpenTab(m) PROVE Kept
  BY <1>0, <1>4 DEF OpenTab, SelectPaused, settings
<1>5. ASSUME NEW i \in DOMAIN tabs, MouseDown(i) PROVE Kept
  <2>1. held' \in Seq(Nat) /\ Len(held') <= 1
    BY <1>0, <1>5 DEF MouseDown
  <2> QED BY <1>0, <1>5, <2>1 DEF MouseDown, settings
<1>6. ASSUME MouseUp PROVE Kept
  <2>1. held' \in Seq(Nat) /\ Len(held') <= 1
    BY <1>6 DEF MouseUp
  <2> QED BY <1>0, <1>6, <2>1 DEF MouseUp, Select, SelectPaused, settings
<1>7. ASSUME NEW offset \in {-1, 1}, CycleTab(offset) PROVE Kept
  BY <1>0, <1>7 DEF CycleTab, Select, SelectPaused, settings
<1>8. ASSUME CloseTab PROVE Kept
  BY <1>0, <1>8 DEF CloseTab, settings
<1>9. ASSUME PauseBackground PROVE Kept
  BY <1>0, <1>9 DEF PauseBackground, settings
<1>10. ASSUME UNCHANGED tabVars PROVE Kept
  BY <1>0, <1>10 DEF tabVars, settings
<1>11. Kept
  BY <1>1, <1>4, <1>5, <1>6, <1>7, <1>8, <1>9, <1>10 DEF TabStep
<1> QED BY <1>3, <1>11 DEF TabTypeOK

\* The channels of a setup, its octaves and notes stay what they are.
LEMMA SameSetup ==
  ASSUME setup' = setup
  PROVE  /\ Cursors' = Cursors /\ Channels' = Channels /\ Notes' = Notes
         /\ Remembered' = Remembered /\ Messages' = Messages /\ NewPlaying' = NewPlaying
BY DEF Cursors, Channels, Notes, Remembered, Messages, NewPlaying

LEMMA StartTyped ==
  ASSUME Init
  PROVE  TypeOK
<1>0. setup \in Setups /\ current \in Modules
  BY DEF Init, TabInit
<1>1. TabTypeOK
  <2>1. Numbered
    BY FirstTab
  <2>2. held = <<>> /\ paused = {} /\ behaviour \in Behaviours /\ resume \in BOOLEAN
    BY DEF Init, TabInit
  <2>3. held \in Seq(Nat) /\ Len(held) <= 1 /\ paused \subseteq players
    BY <2>2
  <2> QED BY <2>1, <2>2, <2>3, TabsTyped DEF TabTypeOK
<1>2. /\ setup.channels \in Nat \ {0} /\ NewOctave \in setup.octaves
      /\ NewPlaying \in Channels /\ 0 \in Cursors
  BY <1>0, SetupKnown
<1>3. keys \in [Slots -> Remembered]
  BY DEF Init, Reset, Remembered
<1>4. queue \in [Modules -> Seq(Messages)]
  BY DEF Init
<1>5. NotesTyped
  BY <1>0, <1>2, <1>3, <1>4 DEF Init, NotesTyped
<1> QED BY <1>1, <1>5 DEF TypeOK, NotesTyped, Cursors, Remembered, Messages

LEMMA KeyDownTyped ==
  ASSUME NotesTyped, current \in Modules, NEW k \in setup.keys, KeyDown(k)
  PROVE  NotesTyped'
<1>0. k \in Keys /\ Cursors \subseteq Channels
  BY SetupKnown DEF NotesTyped
<1>1. Note(k) \in Notes
  BY <1>0, NoteTyped
<1>2. /\ setup' = setup /\ octave' = octave /\ recordMode' = recordMode
      /\ playing' = playing /\ players' = players /\ down' = down \union {k}
  BY DEF KeyDown, tabVars
<1>3. ASSUME NEW c \in Channels, Play(Note(k), c)
      PROVE  /\ keys' \in [Slots -> Remembered] /\ queue' \in [Modules -> Seq(Messages)]
             /\ sounding' = sounding
  <2> DEFINE r == [note |-> Note(k), channel |-> c, player |-> {current}]
             e == [channel |-> c, on |-> TRUE]
  <2>1. r \in Remembered
    BY <1>1 DEF Remembered
  <2>2. keys' = [keys EXCEPT ![Place(c)] = r] /\ keys \in [Slots -> Remembered]
    BY <1>3 DEF Play, NotesTyped
  <2>3. e \in Messages
    BY DEF Messages
  <2>4. /\ queue' = [queue EXCEPT ![current] = Append(queue[current], e)]
        /\ queue \in [Modules -> Seq(Messages)]
    BY <1>3 DEF Play, NotesTyped
  <2> HIDE DEF r, e
  <2>5. keys' \in [Slots -> Remembered]
    BY <2>1, <2>2
  <2>6. Append(queue[current], e) \in Seq(Messages)
    BY <2>3, <2>4
  <2>7. queue' \in [Modules -> Seq(Messages)]
    BY <2>4, <2>6
  <2> QED BY <1>3, <2>5, <2>7 DEF Play
<1> DEFINE Rest ==
      /\ keys' \in [Slots -> Remembered] /\ queue' \in [Modules -> Seq(Messages)]
      /\ sounding' = sounding /\ cursor' \in Cursors
      /\ nextPlaying' \in [Modules -> Channels] /\ firstRecord' \in [Modules -> BOOLEAN]
<1>4. /\ cursor \in Cursors /\ nextPlaying \in [Modules -> Channels]
      /\ firstRecord \in [Modules -> BOOLEAN]
      /\ keys \in [Slots -> Remembered] /\ queue \in [Modules -> Seq(Messages)]
  BY DEF NotesTyped
<1>5. /\ NextPlaying.channel \in Channels /\ NextPlaying.next \in Channels
      /\ NextRecording \in Cursors
  BY ChannelsChosen
<1>6. ASSUME JamNote(k) PROVE Rest
  <2>1. /\ Play(Note(k), NextPlaying.channel) /\ cursor' = cursor /\ firstRecord' = firstRecord
        /\ nextPlaying' = [nextPlaying EXCEPT ![current] = NextPlaying.next]
    BY <1>6 DEF JamNote
  <2> QED BY <1>3, <1>4, <1>5, <2>1
<1>7. ASSUME LiveNote(k) PROVE Rest
  <2>1. /\ Play(Note(k), NextRecording) /\ cursor' = NextRecording /\ nextPlaying' = nextPlaying
        /\ firstRecord' = [firstRecord EXCEPT ![current] =
                             firstRecord[current] /\ cursor \notin setup.armed]
    BY <1>7 DEF LiveNote
  <2>2. firstRecord' \in [Modules -> BOOLEAN]
    BY <1>4, <2>1
  <2> QED BY <1>0, <1>3, <1>4, <1>5, <2>1, <2>2
<1>8. ASSUME EditNote(k) PROVE Rest
  <2>1. Play(Note(k), cursor) /\ cursor' = cursor /\ nextPlaying' = nextPlaying
        /\ firstRecord' = firstRecord
    BY <1>8 DEF EditNote, channels
  <2> QED BY <1>0, <1>3, <1>4, <2>1
<1>9. ASSUME NoNote(k) PROVE Rest
  BY <1>4, <1>9 DEF NoNote, notes, channels
<1>10. Rest
  BY <1>6, <1>7, <1>8, <1>9 DEF KeyDown
<1>11. down' \subseteq Keys
  BY <1>0, <1>2 DEF NotesTyped
<1>12. sounding' \in [Modules -> SUBSET Channels]
  BY <1>10 DEF NotesTyped
<1> QED BY <1>2, <1>10, <1>11, <1>12, SameSetup DEF NotesTyped

LEMMA KeyUpTyped ==
  ASSUME NotesTyped, NEW k, KeyUp(k)
  PROVE  NotesTyped'
<1> DEFINE S == Released(Note(k))
<1>0. S \subseteq Slots
  BY DEF Released
<1> HIDE DEF S
<1>1. /\ setup' = setup /\ octave' = octave /\ recordMode' = recordMode /\ cursor' = cursor
      /\ playing' = playing /\ players' = players /\ down' = down \ {k}
      /\ nextPlaying' = nextPlaying /\ firstRecord' = firstRecord /\ sounding' = sounding
      /\ queue' = [m \in Modules |-> queue[m] \o KeyOffs(S, m)]
      /\ keys' = [i \in Slots |-> IF i \in S THEN Free ELSE keys[i]]
  BY DEF KeyUp, tabVars, channels, S
<1>2. queue' \in [Modules -> Seq(Messages)]
  <2>1. ASSUME NEW m \in Modules PROVE queue[m] \o KeyOffs(S, m) \in Seq(Messages)
    <3>1. KeyOffs(S, m) \in Seq(Messages)
      BY <1>0, KeyOffsAre
    <3>2. queue[m] \in Seq(Messages)
      BY DEF NotesTyped
    <3> QED BY <3>1, <3>2
  <2> QED BY <1>1, <2>1
<1>3. keys' \in [Slots -> Remembered]
  BY <1>1 DEF NotesTyped, Remembered
<1> QED BY <1>1, <1>2, <1>3, SameSetup DEF NotesTyped

LEMMA TickTyped ==
  ASSUME NotesTyped, NEW m \in Modules, Tick(m)
  PROVE  NotesTyped'
<1>0. queue[m] \in Seq(Messages) /\ queue[m] # <<>>
  BY DEF NotesTyped, Tick
<1>1. Head(queue[m]) \in Messages /\ Tail(queue[m]) \in Seq(Messages)
  BY <1>0
<1>2. Head(queue[m]).channel \in Channels
  BY <1>1 DEF Messages
<1>3. queue' = [queue EXCEPT ![m] = Tail(queue[m])]
      /\ sounding' = [sounding EXCEPT ![m] =
           IF Head(queue[m]).on THEN sounding[m] \union {Head(queue[m]).channel}
           ELSE sounding[m] \ {Head(queue[m]).channel}]
  BY DEF Tick
<1>4. queue' \in [Modules -> Seq(Messages)] /\ sounding' \in [Modules -> SUBSET Channels]
  BY <1>1, <1>2, <1>3 DEF NotesTyped
<1>5. /\ setup' = setup /\ octave' = octave /\ recordMode' = recordMode /\ cursor' = cursor
      /\ playing' = playing /\ players' = players /\ down' = down /\ keys' = keys
      /\ nextPlaying' = nextPlaying /\ firstRecord' = firstRecord
  BY DEF Tick, tabVars, channels
<1> QED BY <1>4, <1>5, SameSetup DEF NotesTyped

LEMMA SongsTyped ==
  ASSUME NotesTyped, current \in Modules, current \in players,
         \/ StopSong \/ EnsureSongStopped \/ PlaySong \/ ToggleEdit
         \/ \E o \in setup.octaves : SetOctave(o)
         \/ \E c \in 0..setup.channels - 1 : MoveCursor(c)
  PROVE  NotesTyped'
<1>1. CASE StopSong \/ EnsureSongStopped
  <2>1. keys' \in [Slots -> Remembered]
    BY <1>1 DEF StopSong, EnsureSongStopped, NotesTyped, Reset, Remembered
  <2>2. sounding' \in [Modules -> SUBSET Channels] /\ playing' \subseteq players
    BY <1>1 DEF StopSong, EnsureSongStopped, Quiet, NotesTyped
  <2>3. /\ setup' = setup /\ octave' = octave /\ recordMode' = recordMode /\ cursor' = cursor
        /\ players' = players /\ down' = down /\ queue' = queue
        /\ nextPlaying' = nextPlaying /\ firstRecord' = firstRecord
    BY <1>1 DEF StopSong, EnsureSongStopped, tabVars, channels
  <2> QED BY <2>1, <2>2, <2>3, SameSetup DEF NotesTyped
<1>2. CASE PlaySong
  <2>1. firstRecord' \in [Modules -> BOOLEAN]
    BY <1>2 DEF PlaySong, InitRecording, NotesTyped
  <2>2. sounding' \in [Modules -> SUBSET Channels] /\ playing' \subseteq players
    BY <1>2 DEF PlaySong, Quiet, NotesTyped
  <2>3. /\ setup' = setup /\ octave' = octave /\ recordMode' = recordMode /\ cursor' = cursor
        /\ players' = players /\ down' = down /\ queue' = queue /\ keys' = keys
        /\ nextPlaying' = nextPlaying
    BY <1>2 DEF PlaySong, PauseBackground
  <2> QED BY <2>1, <2>2, <2>3, SameSetup DEF NotesTyped
<1>3. CASE ToggleEdit
  <2>1. firstRecord' \in [Modules -> BOOLEAN]
    BY <1>3 DEF ToggleEdit, InitRecording, NotesTyped
  <2>2. recordMode' \in BOOLEAN
    BY <1>3 DEF ToggleEdit
  <2>3. /\ setup' = setup /\ octave' = octave /\ cursor' = cursor /\ sounding' = sounding
        /\ players' = players /\ down' = down /\ queue' = queue /\ keys' = keys
        /\ nextPlaying' = nextPlaying /\ playing' = playing
    BY <1>3 DEF ToggleEdit, tabVars, notes
  <2> QED BY <2>1, <2>2, <2>3, SameSetup DEF NotesTyped
<1>4. ASSUME NEW o \in setup.octaves, SetOctave(o) PROVE NotesTyped'
  <2>1. octave' \in [Modules -> setup.octaves]
    BY <1>4 DEF SetOctave, NotesTyped
  <2>2. /\ setup' = setup /\ recordMode' = recordMode /\ cursor' = cursor
        /\ sounding' = sounding /\ players' = players /\ down' = down /\ queue' = queue
        /\ keys' = keys /\ nextPlaying' = nextPlaying /\ playing' = playing
        /\ firstRecord' = firstRecord
    BY <1>4 DEF SetOctave, tabVars, notes, channels
  <2> QED BY <2>1, <2>2, SameSetup DEF NotesTyped
<1>5. ASSUME NEW c \in 0..setup.channels - 1, MoveCursor(c) PROVE NotesTyped'
  <2>1. cursor' \in Cursors
    BY <1>5 DEF MoveCursor, Cursors
  <2>2. /\ setup' = setup /\ recordMode' = recordMode /\ octave' = octave
        /\ sounding' = sounding /\ players' = players /\ down' = down /\ queue' = queue
        /\ keys' = keys /\ nextPlaying' = nextPlaying /\ playing' = playing
        /\ firstRecord' = firstRecord
    BY <1>5 DEF MoveCursor, tabVars, notes
  <2> QED BY <2>1, <2>2, SameSetup DEF NotesTyped
<1> QED BY <1>1, <1>2, <1>3, <1>4, <1>5

LEMMA SwitchedTyped ==
  ASSUME NotesTyped, players \subseteq Modules, Switched
  PROVE  NotesTyped'
<1>0. setup \in Setups /\ NewOctave \in setup.octaves /\ NewPlaying \in Channels
  BY SetupKnown DEF NotesTyped
<1>1. setup' = setup /\ down' = down /\ recordMode' = recordMode /\ cursor' = cursor
  BY DEF Switched
<1>2. keys' \in [Slots -> Remembered]
  <2>1. keys' = Reset \/ keys' = keys
    BY DEF Switched
  <2> QED BY <2>1 DEF NotesTyped, Reset, Remembered
<1>3. sounding' \in [Modules -> SUBSET Channels]
  <2>1. PICK quiet : sounding' = [m \in Modules |-> IF m \in quiet THEN {} ELSE sounding[m]]
    BY DEF Switched
  <2> QED BY <2>1 DEF NotesTyped
<1>4. playing' \subseteq players'
  <2>1. PICK quiet : playing' = playing \ quiet /\ Modules \ players' \subseteq quiet
    BY DEF Switched
  <2> QED BY <2>1 DEF NotesTyped
<1>5. queue' = [m \in Modules |-> IF m \in players' THEN queue[m] ELSE <<>>]
  BY DEF Switched
<1>6. queue' \in [Modules -> Seq(Messages)]
  BY <1>5 DEF NotesTyped
<1>7. octave' = [m \in Modules |-> IF m \in players' THEN octave[m] ELSE NewOctave]
      /\ nextPlaying' = [m \in Modules |-> IF m \in players' THEN nextPlaying[m] ELSE NewPlaying]
      /\ firstRecord' = [m \in Modules |-> m \in players' => firstRecord[m]]
  BY DEF Switched
<1>8. octave' \in [Modules -> setup.octaves] /\ nextPlaying' \in [Modules -> Channels]
  BY <1>0, <1>7 DEF NotesTyped
<1>9. firstRecord' \in [Modules -> BOOLEAN]
  BY <1>7 DEF NotesTyped
<1> QED BY <1>1, <1>2, <1>3, <1>4, <1>6, <1>8, <1>9, SameSetup DEF NotesTyped

\* What a step does to the notes.
LEMMA TypesKept ==
  ASSUME Numbered, TypeOK, [Next]_vars
  PROVE  TypeOK'
<1>1. TabTypeOK /\ NotesTyped
  BY DEF TypeOK, NotesTyped, Cursors, Remembered, Messages
<1>2. TabTypeOK'
  BY <1>1, TabTypesKept
<1>3. current \in Modules /\ current \in players /\ players \subseteq Modules
  BY TabsTyped DEF Numbered
<1>4. ASSUME \E k \in setup.keys : KeyDown(k) \/ KeyUp(k)
      PROVE  NotesTyped'
  BY <1>1, <1>3, <1>4, KeyDownTyped, KeyUpTyped
<1>5. ASSUME NEW m \in Modules, Tick(m) PROVE NotesTyped'
  BY <1>1, <1>5, TickTyped
<1>6. ASSUME \/ StopSong \/ EnsureSongStopped \/ PlaySong \/ ToggleEdit
             \/ \E o \in setup.octaves : SetOctave(o)
             \/ \E c \in 0..setup.channels - 1 : MoveCursor(c)
      PROVE  NotesTyped'
  BY <1>1, <1>3, <1>6, SongsTyped
<1>7. ASSUME Switched PROVE NotesTyped'
  BY <1>1, <1>3, <1>7, SwitchedTyped
<1>8. ASSUME UNCHANGED vars PROVE NotesTyped'
  <2>1. /\ setup' = setup /\ recordMode' = recordMode /\ octave' = octave /\ cursor' = cursor
        /\ sounding' = sounding /\ players' = players /\ down' = down /\ queue' = queue
        /\ keys' = keys /\ nextPlaying' = nextPlaying /\ playing' = playing
        /\ firstRecord' = firstRecord
    BY <1>8 DEF vars, tabVars, notes, channels
  <2> QED BY <1>1, <2>1, SameSetup DEF NotesTyped
<1>9. \/ \E k \in setup.keys : KeyDown(k) \/ KeyUp(k)
      \/ \E m \in Modules : Tick(m)
      \/ StopSong \/ EnsureSongStopped \/ PlaySong \/ ToggleEdit
      \/ \E o \in setup.octaves : SetOctave(o)
      \/ \E c \in 0..setup.channels - 1 : MoveCursor(c)
      \/ Switched
      \/ UNCHANGED vars
  BY DEF Next, NewTab, PressTab, SwitchTab, ReleaseTab, RemoveTab
<1>10. NotesTyped'
  BY <1>4, <1>5, <1>6, <1>7, <1>8, <1>9
<1> QED BY <1>2, <1>10 DEF TypeOK, NotesTyped, Cursors, Remembered, Messages

\* A note goes to a channel the module has, its key to a place of the table,
\* and only open players play, whatever channels are armed and tabs are closed
\* (getNextPlayingChannel, getNextRecordingChannel, sendNoteDown).
THEOREM TypeCorrect == Spec => []TypeOK
<1>1. Init => Numbered /\ TypeOK
  BY FirstTab, StartTyped
<1>2. Numbered /\ TypeOK /\ [Next]_vars => (Numbered /\ TypeOK)'
  BY TabsKept, TypesKept
<1> QED BY <1>1, <1>2, PTL DEF Spec

-----------------------------------------------------------------------------
(* What becomes of a note that sounds.                                     *)

\* When a player whose channels s sound has heard the notes of q, channel c is
\* silent.
Ended(s, q, c) ==
  /\ c \in s => \E j \in 1..Len(q) : q[j].channel = c /\ ~q[j].on
  /\ \A j \in 1..Len(q) : q[j].channel = c /\ q[j].on =>
       \E l \in 1..Len(q) : j < l /\ q[l].channel = c /\ ~q[l].on

LEMMA EndedNothing ==
  ASSUME NEW c
  PROVE  Ended({}, <<>>, c)
BY DEF Ended

LEMMA EndedSilenced ==
  ASSUME NEW s, NEW q, NEW c, Ended(s, q, c)
  PROVE  Ended({}, q, c)
BY DEF Ended

\* A note on another channel.
LEMMA EndedAppend ==
  ASSUME NEW T, NEW s, NEW q \in Seq(T), NEW e \in T, NEW c, e.channel # c, Ended(s, q, c)
  PROVE  Ended(s, Append(q, e), c)
<1> DEFINE a == Append(q, e)
<1>1. /\ Len(q) \in Nat /\ Len(a) = Len(q) + 1
      /\ \A j \in 1..Len(q) : a[j] = q[j]
      /\ a[Len(q) + 1] = e
  OBVIOUS
<1> HIDE DEF a
<1>2. \A j \in 1..Len(a) : j \in 1..Len(q) \/ a[j].channel # c
  BY <1>1
<1>3. \A j \in 1..Len(q) : j \in 1..Len(a)
  BY <1>1
<1>4. Ended(s, a, c)
  BY <1>1, <1>2, <1>3 DEF Ended
<1> QED BY <1>4 DEF a

\* The next note is heard.
LEMMA EndedTail ==
  ASSUME NEW T, NEW s, NEW q \in Seq(T), q # <<>>, NEW c, Ended(s, q, c)
  PROVE  Ended(IF Head(q).on THEN s \union {Head(q).channel} ELSE s \ {Head(q).channel},
               Tail(q), c)
<1> DEFINE t == Tail(q)
           h == Head(q)
           z == IF h.on THEN s \union {h.channel} ELSE s \ {h.channel}
<1>1. /\ Len(q) \in Nat /\ Len(q) > 0 /\ Len(t) = Len(q) - 1 /\ h = q[1]
      /\ \A j \in 1..Len(q) - 1 : t[j] = q[j + 1]
  OBVIOUS
<1> HIDE DEF t, h
<1>2. \A l \in 1..Len(q) : l > 1 => l - 1 \in 1..Len(t) /\ t[l - 1] = q[l]
  <2> SUFFICES ASSUME NEW l \in 1..Len(q), l > 1
               PROVE  l - 1 \in 1..Len(t) /\ t[l - 1] = q[l]
    OBVIOUS
  <2>1. l - 1 \in 1..Len(q) - 1 /\ (l - 1) + 1 = l
    BY <1>1
  <2> QED BY <1>1, <2>1
<1>3. ASSUME c \in z PROVE \E j \in 1..Len(t) : t[j].channel = c /\ ~t[j].on
  <2>1. \E l \in 1..Len(q) : l > 1 /\ q[l].channel = c /\ ~q[l].on
    <3>1. CASE h.channel = c /\ h.on
      <4>1. 1 \in 1..Len(q) /\ q[1].channel = c /\ q[1].on
        BY <1>1, <3>1
      <4> QED BY <4>1 DEF Ended
    <3>2. CASE ~(h.channel = c /\ h.on)
      <4>1. c \in s /\ ~(h.channel = c)
        BY <1>3, <3>2 DEF z
      <4>2. PICK l \in 1..Len(q) : q[l].channel = c /\ ~q[l].on
        BY <4>1 DEF Ended
      <4>3. l # 1
        BY <1>1, <4>1, <4>2
      <4> QED BY <1>1, <4>2, <4>3
    <3> QED BY <3>1, <3>2
  <2> QED BY <1>2, <2>1
<1>4. ASSUME NEW j \in 1..Len(t), t[j].channel = c, t[j].on
      PROVE  \E l \in 1..Len(t) : j < l /\ t[l].channel = c /\ ~t[l].on
  <2>1. j + 1 \in 1..Len(q) /\ t[j] = q[j + 1]
    BY <1>1
  <2>2. PICK l \in 1..Len(q) : j + 1 < l /\ q[l].channel = c /\ ~q[l].on
    BY <1>4, <2>1 DEF Ended
  <2>3. l > 1 /\ j < l - 1
    BY <1>1, <2>2
  <2> QED BY <1>2, <2>2, <2>3
<1>5. Ended(z, t, c)
  BY <1>3, <1>4 DEF Ended
<1> QED BY <1>5 DEF z, t, h

\* Key offs end what they are for, and leave the rest as it is.
LEMMA EndedKeyOffs ==
  ASSUME NEW T, NEW s, NEW q \in Seq(T), NEW o \in Seq(T), NEW c,
         \A j \in 1..Len(o) : ~o[j].on,
         Ended(s, q, c) \/ \E j \in 1..Len(o) : o[j].channel = c
  PROVE  Ended(s, q \o o, c)
<1> DEFINE a == q \o o
<1>1. /\ Len(q) \in Nat /\ Len(o) \in Nat /\ Len(a) = Len(q) + Len(o)
      /\ \A j \in 1..Len(a) : a[j] = IF j <= Len(q) THEN q[j] ELSE o[j - Len(q)]
  BY ConcatProperties
<1> HIDE DEF a
<1>2. /\ \A j \in 1..Len(q) : j \in 1..Len(a) /\ a[j] = q[j]
      /\ \A j \in 1..Len(a) : j \in 1..Len(q) \/ ~a[j].on
  <2>1. \A j \in 1..Len(q) : j \in 1..Len(a) /\ a[j] = q[j]
    BY <1>1
  <2>2. ASSUME NEW j \in 1..Len(a), j \notin 1..Len(q) PROVE ~a[j].on
    <3>1. j - Len(q) \in 1..Len(o) /\ ~(j <= Len(q))
      BY <1>1, <2>2
    <3> QED BY <1>1, <3>1
  <2> QED BY <2>1, <2>2
<1>3. CASE Ended(s, q, c)
  <2>1. Ended(s, a, c)
    BY <1>2, <1>3 DEF Ended
  <2> QED BY <2>1 DEF a
<1>4. CASE \E j \in 1..Len(o) : o[j].channel = c
  <2>1. PICK j \in 1..Len(o) : o[j].channel = c
    BY <1>4
  <2> DEFINE l == Len(q) + j
  <2>2. l \in 1..Len(a) /\ ~(l <= Len(q)) /\ l - Len(q) = j
    BY <1>1
  <2>3. a[l].channel = c /\ ~a[l].on
    BY <1>1, <2>1, <2>2
  <2>4. \A i \in 1..Len(q) : i < l
    BY <1>1, <2>2
  <2> HIDE DEF l
  <2>5. Ended(s, a, c)
    BY <1>2, <2>2, <2>3, <2>4 DEF Ended
  <2> QED BY <2>5 DEF a
<1> QED BY <1>3, <1>4

-----------------------------------------------------------------------------
(* The keys that are held, and the notes that have no key.                 *)

\* A key of the table is held, and its note was played on a module that is
\* still open.
KeysHeld ==
  \A i \in Slots :
    \/ keys[i] = Free
    \/ /\ keys[i].note # Off
       /\ keys[i].player \subseteq players
       /\ \E k \in down : Note(k) = keys[i].note

\* A module that is not open has no notes.
GoneQuiet == \A m \in Modules \ players : queue[m] = <<>> /\ sounding[m] = {}

\* The table has a key for a note of m on channel c.
Covered(m, c) == \E i \in Slots : m \in keys[i].player /\ keys[i].channel = c

\* A channel without such a key is silent when its player has heard the notes
\* there are.
NotesEnd ==
  \A m \in Modules, c \in Channels : Covered(m, c) \/ Ended(sounding[m], queue[m], c)

HangInv == KeysHeld /\ GoneQuiet /\ NotesEnd

LEMMA NoteStays ==
  ASSUME NEW k, k[1] = "midi" \/ octave'[current'] = octave[current]
  PROVE  Note(k)' = Note(k)
BY DEF Note

LEMMA GoneEnded ==
  ASSUME GoneQuiet, NEW m \in Modules \ players, NEW c
  PROVE  Ended(sounding[m], queue[m], c)
<1>1. queue[m] = <<>> /\ sounding[m] = {}
  BY DEF GoneQuiet
<1> QED BY <1>1, EndedNothing

\* What the user does not do: leave keys on other tabs held.
LEMMA NotCovered ==
  ASSUME Habits = {}, KeysHeld, NEW S, NotHeldBy(S), NEW m \in S, NEW c
  PROVE  ~Covered(m, c)
<1> SUFFICES ASSUME NEW i \in Slots, m \in keys[i].player PROVE FALSE
  BY DEF Covered
<1>1. keys[i] # Free
  BY DEF Free
<1>2. i \in Occupied
  BY <1>1 DEF KeysHeld, Occupied
<1>3. keys[i].player \intersect S = {}
  BY <1>2 DEF NotHeldBy
<1> QED BY <1>3

LEMMA OthersEnded ==
  ASSUME Habits = {}, HangInv, OthersNotHeld, NEW m \in Modules, m # current, NEW c \in Channels
  PROVE  Ended(sounding[m], queue[m], c)
<1>1. CASE m \in players
  <2>1. ~Covered(m, c)
    BY <1>1, NotCovered DEF OthersNotHeld, HangInv
  <2> QED BY <2>1 DEF HangInv, NotesEnd
<1>2. CASE m \notin players
  BY <1>2, GoneEnded DEF HangInv
<1> QED BY <1>1, <1>2

\* A note that is played has its key.
LEMMA PlayEnds ==
  ASSUME Habits = {}, NotesTyped, HangInv, current \in Modules, current \in players,
         NEW k \in Keys, NEW c \in Channels, Play(Note(k), c),
         k \in down', down \subseteq down',
         UNCHANGED <<setup, octave, current, players>>
  PROVE  HangInv'
<1> DEFINE p == Place(c)
           r == [note |-> Note(k), channel |-> c, player |-> {current}]
           e == [channel |-> c, on |-> TRUE]
<1>1. /\ p \in Slots
      /\ keys[p].note = Off \/ keys[p].channel = c
  BY PlaceFits DEF Play
<1>2. /\ keys' = [keys EXCEPT ![p] = r]
      /\ queue' = [queue EXCEPT ![current] = Append(queue[current], e)]
      /\ sounding' = sounding /\ OthersNotHeld
  BY DEF Play
<1>3. keys \in [Slots -> Remembered] /\ queue \in [Modules -> Seq(Messages)]
  BY DEF NotesTyped
<1>4. e \in Messages /\ e.channel = c
  BY DEF Messages
<1>5. r.note = Note(k) /\ r.channel = c /\ r.player = {current}
  OBVIOUS
<1> HIDE DEF p, r, e
<1>6. keys'[p] = r /\ \A i \in Slots : i # p => keys'[i] = keys[i]
  BY <1>1, <1>2, <1>3
<1>7. queue'[current] = Append(queue[current], e)
      /\ \A m \in Modules : m # current => queue'[m] = queue[m]
  BY <1>2, <1>3
<1>8. \A h : Note(h)' = Note(h)
  BY NoteStays
<1>9. KeysHeld'
  <2>1. Note(k) # Off
    BY NoteTyped
  <2>2. ASSUME NEW i \in Slots
        PROVE  \/ keys'[i] = Free
               \/ /\ keys'[i].note # Off
                  /\ keys'[i].player \subseteq players
                  /\ \E h \in down' : Note(h) = keys'[i].note
    <3>1. CASE i = p
      BY <1>5, <1>6, <2>1, <3>1
    <3>2. CASE i # p
      BY <1>6, <3>2 DEF HangInv, KeysHeld
    <3> QED BY <3>1, <3>2
  <2> QED BY <1>8, <2>2 DEF KeysHeld
<1>10. GoneQuiet'
  BY <1>2, <1>7 DEF HangInv, GoneQuiet
<1>11. ASSUME NEW m \in Modules, NEW d \in Channels
       PROVE  Covered(m, d)' \/ Ended(sounding'[m], queue'[m], d)
  <2>1. CASE m # current
    BY <1>2, <1>7, <2>1, OthersEnded
  <2>2. CASE m = current /\ d = c
    BY <1>1, <1>5, <1>6, <2>2 DEF Covered
  <2>3. CASE m = current /\ d # c /\ Covered(m, d)
    <3>1. PICK i \in Slots : m \in keys[i].player /\ keys[i].channel = d
      BY <2>3 DEF Covered
    <3>2. i # p
      <4>1. keys[i] # Free
        BY <3>1 DEF Free
      <4>2. keys[i].note # Off
        BY <4>1 DEF HangInv, KeysHeld
      <4> QED BY <1>1, <2>3, <3>1, <4>2
    <3> QED BY <1>6, <3>1, <3>2 DEF Covered
  <2>4. CASE m = current /\ d # c /\ Ended(sounding[m], queue[m], d)
    <3>1. queue[m] \in Seq(Messages)
      BY <1>3
    <3>2. Ended(sounding[m], Append(queue[m], e), d)
      BY <1>4, <2>4, <3>1, EndedAppend
    <3> QED BY <1>2, <1>7, <2>4, <3>2
  <2> QED BY <2>1, <2>2, <2>3, <2>4 DEF HangInv, NotesEnd
<1>12. NotesEnd'
  <2>1. Channels' = Channels
    BY SameSetup
  <2> QED BY <1>11, <2>1 DEF NotesEnd
<1> QED BY <1>9, <1>10, <1>12 DEF HangInv

LEMMA KeyDownEnds ==
  ASSUME Habits = {}, NotesTyped, HangInv, current \in Modules, current \in players,
         NEW k \in setup.keys, KeyDown(k)
  PROVE  HangInv'
<1>0. /\ k \in Keys /\ Cursors \subseteq Channels /\ cursor \in Cursors
      /\ NextPlaying.channel \in Channels /\ NextRecording \in Cursors
  BY SetupKnown, ChannelsChosen DEF NotesTyped
<1>1. /\ setup' = setup /\ octave' = octave /\ current' = current /\ players' = players
      /\ k \in down' /\ down \subseteq down'
  BY DEF KeyDown, tabVars
<1>2. ASSUME NEW c \in Channels, Play(Note(k), c) PROVE HangInv'
  BY <1>0, <1>1, <1>2, PlayEnds
<1>3. CASE NoNote(k)
  <2>1. keys' = keys /\ queue' = queue /\ sounding' = sounding
    BY <1>3 DEF NoNote, notes
  <2>2. \A h : Note(h)' = Note(h)
    BY <1>1, NoteStays
  <2>3. KeysHeld'
    BY <1>1, <2>1, <2>2 DEF HangInv, KeysHeld
  <2>4. GoneQuiet' /\ NotesEnd'
    BY <1>1, <2>1, SameSetup DEF HangInv, GoneQuiet, NotesEnd, Covered
  <2> QED BY <2>3, <2>4 DEF HangInv
<1>4. NoNote(k) \/ \E c \in Channels : Play(Note(k), c)
  BY <1>0 DEF KeyDown, JamNote, LiveNote, EditNote
<1> QED BY <1>2, <1>3, <1>4

\* A key that comes up takes its notes with it.
LEMMA KeyUpEnds ==
  ASSUME NotesTyped, HangInv, NEW k, KeyUp(k)
  PROVE  HangInv'
<1> DEFINE S == Released(Note(k))
<1>0. S \subseteq Slots
  BY DEF Released
<1>1. /\ setup' = setup /\ octave' = octave /\ current' = current /\ players' = players
      /\ down' = down \ {k} /\ sounding' = sounding
      /\ queue' = [m \in Modules |-> queue[m] \o KeyOffs(S, m)]
      /\ keys' = [i \in Slots |-> IF i \in S THEN Free ELSE keys[i]]
  BY DEF KeyUp, tabVars
<1>2. \A h : Note(h)' = Note(h)
  BY <1>1, NoteStays
<1>3. KeysHeld'
  <2>1. ASSUME NEW i \in Slots
        PROVE  \/ keys'[i] = Free
               \/ /\ keys'[i].note # Off
                  /\ keys'[i].player \subseteq players
                  /\ \E h \in down' : Note(h) = keys'[i].note
    <3>1. CASE i \in S
      BY <1>1, <3>1
    <3>2. CASE i \notin S
      <4>1. keys'[i] = keys[i] /\ keys[i].note # Note(k)
        BY <1>1, <3>2 DEF Released
      <4> QED BY <1>1, <4>1 DEF HangInv, KeysHeld
    <3> QED BY <3>1, <3>2
  <2> QED BY <1>1, <1>2, <2>1 DEF KeysHeld
<1> HIDE DEF S
<1>4. GoneQuiet'
  <2>1. ASSUME NEW m \in Modules \ players PROVE queue[m] \o KeyOffs(S, m) = <<>>
    <3>1. \A i \in Slots : m \notin keys[i].player
      <4>1. \A i \in Slots : keys[i] = Free => keys[i].player = {}
        BY DEF Free
      <4> QED BY <4>1 DEF HangInv, KeysHeld
    <3>2. {i \in S : m \in keys[i].player} = {}
      BY <1>0, <3>1
    <3>3. KeyOffs(S, m) = [j \in 1..0 |->
            [channel |-> keys[Nth({}, j)].channel, on |-> FALSE]]
      BY <3>2, FS_EmptySet DEF KeyOffs
    <3>4. KeyOffs(S, m) = <<>>
      <4>1. KeyOffs(S, m) \in Seq(Messages) /\ DOMAIN KeyOffs(S, m) = {}
        BY <1>0, <3>3, KeyOffsAre
      <4> QED BY <4>1
    <3>5. queue[m] = <<>>
      BY DEF HangInv, GoneQuiet
    <3> QED BY <3>4, <3>5
  <2> QED BY <1>1, <2>1 DEF HangInv, GoneQuiet
<1>5. ASSUME NEW m \in Modules, NEW c \in Channels
      PROVE  Covered(m, c)' \/ Ended(sounding'[m], queue'[m], c)
  <2>0. queue[m] \in Seq(Messages) /\ KeyOffs(S, m) \in Seq(Messages)
        /\ \A j \in 1..Len(KeyOffs(S, m)) : ~KeyOffs(S, m)[j].on
    BY <1>0, KeyOffsAre DEF NotesTyped
  <2>1. CASE \E i \in S : m \in keys[i].player /\ keys[i].channel = c
    <3>1. \E j \in 1..Len(KeyOffs(S, m)) : KeyOffs(S, m)[j].channel = c
      BY <1>0, <2>1, KeyOffsAre
    <3>2. Ended(sounding[m], queue[m] \o KeyOffs(S, m), c)
      BY <2>0, <3>1, EndedKeyOffs
    <3> QED BY <1>1, <3>2
  <2>2. CASE Covered(m, c) /\ ~\E i \in S : m \in keys[i].player /\ keys[i].channel = c
    BY <1>1, <2>2 DEF Covered
  <2>3. CASE Ended(sounding[m], queue[m], c)
    <3>1. Ended(sounding[m], queue[m] \o KeyOffs(S, m), c)
      BY <2>0, <2>3, EndedKeyOffs
    <3> QED BY <1>1, <3>1
  <2> QED BY <2>1, <2>2, <2>3 DEF HangInv, NotesEnd
<1>6. NotesEnd'
  BY <1>1, <1>5, SameSetup DEF NotesEnd
<1> QED BY <1>3, <1>4, <1>6 DEF HangInv

\* The audio thread takes the next note.
LEMMA TickEnds ==
  ASSUME NotesTyped, HangInv, NEW m \in Modules, Tick(m)
  PROVE  HangInv'
<1>1. /\ setup' = setup /\ octave' = octave /\ current' = current /\ players' = players
      /\ down' = down /\ keys' = keys /\ m \in players
      /\ queue[m] \in Seq(Messages) /\ queue[m] # <<>>
  BY DEF Tick, tabVars, NotesTyped
<1>2. /\ queue' = [queue EXCEPT ![m] = Tail(queue[m])]
      /\ sounding' = [sounding EXCEPT ![m] =
           IF Head(queue[m]).on THEN sounding[m] \union {Head(queue[m]).channel}
           ELSE sounding[m] \ {Head(queue[m]).channel}]
  BY DEF Tick
<1>3. /\ queue'[m] = Tail(queue[m])
      /\ sounding'[m] = IF Head(queue[m]).on THEN sounding[m] \union {Head(queue[m]).channel}
                        ELSE sounding[m] \ {Head(queue[m]).channel}
      /\ \A n \in Modules : n # m => queue'[n] = queue[n] /\ sounding'[n] = sounding[n]
  BY <1>2 DEF NotesTyped
<1>4. KeysHeld'
  <2>1. \A h : Note(h)' = Note(h)
    BY <1>1, NoteStays
  <2> QED BY <1>1, <2>1 DEF HangInv, KeysHeld
<1>5. GoneQuiet'
  BY <1>1, <1>3 DEF HangInv, GoneQuiet
<1>6. ASSUME NEW n \in Modules, NEW c \in Channels
      PROVE  Covered(n, c)' \/ Ended(sounding'[n], queue'[n], c)
  <2>1. CASE n # m
    BY <1>1, <1>3, <2>1 DEF HangInv, NotesEnd, Covered
  <2>2. CASE n = m /\ Ended(sounding[m], queue[m], c)
    <3>1. Ended(IF Head(queue[m]).on THEN sounding[m] \union {Head(queue[m]).channel}
                ELSE sounding[m] \ {Head(queue[m]).channel}, Tail(queue[m]), c)
      BY <1>1, <2>2, EndedTail
    <3>2. Ended(sounding'[m], queue'[m], c)
      BY <1>3, <3>1
    <3> QED BY <2>2, <3>2
  <2>3. CASE n = m /\ Covered(m, c)
    BY <1>1, <2>3 DEF Covered
  <2> QED BY <2>1, <2>2, <2>3 DEF HangInv, NotesEnd
<1>7. NotesEnd'
  BY <1>1, <1>6, SameSetup DEF NotesEnd
<1> QED BY <1>4, <1>5, <1>7 DEF HangInv

LEMMA SongsEnd ==
  ASSUME Habits = {}, NotesTyped, HangInv, current \in Modules, current \in players,
         \/ StopSong \/ EnsureSongStopped \/ PlaySong \/ ToggleEdit
         \/ \E o \in setup.octaves : SetOctave(o)
         \/ \E c \in 0..setup.channels - 1 : MoveCursor(c)
  PROVE  HangInv'
<1>1. CASE StopSong
  <2>1. /\ setup' = setup /\ players' = players /\ queue' = queue /\ keys' = Reset
        /\ NotHeldBy(players \ {current}) /\ queue[current] = <<>>
        /\ sounding' = [sounding EXCEPT ![current] = {}]
    BY <1>1 DEF StopSong, tabVars, MayStop, Quiet
  <2>2. /\ sounding'[current] = {}
        /\ \A m \in Modules : m # current => sounding'[m] = sounding[m]
    BY <2>1 DEF NotesTyped
  <2>3. KeysHeld'
    BY <2>1 DEF KeysHeld, Reset
  <2>4. GoneQuiet'
    BY <2>1, <2>2 DEF HangInv, GoneQuiet
  <2>5. ASSUME NEW m \in Modules, NEW c \in Channels
        PROVE  Ended(sounding'[m], queue'[m], c)
    <3>1. CASE m = current
      BY <2>1, <2>2, <3>1, EndedNothing
    <3>2. CASE m # current
      BY <2>1, <2>2, <3>2, OthersEnded DEF OthersNotHeld
    <3> QED BY <3>1, <3>2
  <2>6. NotesEnd'
    BY <2>1, <2>5, SameSetup DEF NotesEnd
  <2> QED BY <2>3, <2>4, <2>6 DEF HangInv
<1>2. CASE EnsureSongStopped \/ PlaySong
  <2>1. /\ setup' = setup /\ players' = players /\ queue' = queue /\ keys' = keys
        /\ octave' = octave /\ current' = current /\ down' = down
        /\ sounding' = [sounding EXCEPT ![current] = {}]
    BY <1>2 DEF EnsureSongStopped, PlaySong, PauseBackground, tabVars, Quiet
  <2>2. /\ sounding'[current] = {}
        /\ \A m \in Modules : m # current => sounding'[m] = sounding[m]
    BY <2>1 DEF NotesTyped
  <2>3. \A h : Note(h)' = Note(h)
    BY <2>1, NoteStays
  <2>4. KeysHeld' /\ GoneQuiet'
    BY <2>1, <2>2, <2>3 DEF HangInv, KeysHeld, GoneQuiet
  <2>5. ASSUME NEW m \in Modules, NEW c \in Channels, ~Covered(m, c)
        PROVE  Ended(sounding'[m], queue'[m], c)
    <3>1. Ended(sounding[m], queue[m], c)
      BY <2>5 DEF HangInv, NotesEnd
    <3> QED BY <2>1, <2>2, <3>1, EndedSilenced
  <2>6. NotesEnd'
    BY <2>1, <2>5, SameSetup DEF NotesEnd, Covered
  <2> QED BY <2>4, <2>6 DEF HangInv
<1>3. ASSUME ToggleEdit \/ \E c \in 0..setup.channels - 1 : MoveCursor(c)
      PROVE  HangInv'
  <2>1. /\ setup' = setup /\ players' = players /\ queue' = queue /\ keys' = keys
        /\ octave' = octave /\ current' = current /\ down' = down /\ sounding' = sounding
    BY <1>3 DEF ToggleEdit, MoveCursor, tabVars, notes
  <2>2. \A h : Note(h)' = Note(h)
    BY <2>1, NoteStays
  <2>3. KeysHeld'
    BY <2>1, <2>2 DEF HangInv, KeysHeld
  <2>4. GoneQuiet' /\ NotesEnd'
    BY <2>1, SameSetup DEF HangInv, GoneQuiet, NotesEnd, Covered
  <2> QED BY <2>3, <2>4 DEF HangInv
<1>4. ASSUME NEW o \in setup.octaves, SetOctave(o) PROVE HangInv'
  <2>1. /\ setup' = setup /\ players' = players /\ queue' = queue /\ keys' = keys
        /\ current' = current /\ down' = down /\ sounding' = sounding
        /\ octave' = [octave EXCEPT ![current] = o] /\ SameOctave(o)
    BY <1>4 DEF SetOctave, tabVars, notes
  <2>2. octave'[current'] = o
    BY <2>1 DEF NotesTyped
  <2>3. \A h \in down : Note(h)' = Note(h)
    BY <2>1, <2>2, NoteStays DEF SameOctave
  <2>4. KeysHeld'
    BY <2>1, <2>3 DEF HangInv, KeysHeld
  <2>5. GoneQuiet' /\ NotesEnd'
    BY <2>1, SameSetup DEF HangInv, GoneQuiet, NotesEnd, Covered
  <2> QED BY <2>4, <2>5 DEF HangInv
<1> QED BY <1>1, <1>2, <1>3, <1>4

\* A tab is opened, closed or selected.
LEMMA SwitchedEnds ==
  ASSUME Habits = {}, NotesTyped, HangInv, current' \in Modules, current' \in players',
         players \subseteq Modules, Switched
  PROVE  HangInv'
<1>1. /\ setup' = setup /\ down' = down /\ SameOctave(octave[current'])
      /\ queue' = [m \in Modules |-> IF m \in players' THEN queue[m] ELSE <<>>]
      /\ octave' = [m \in Modules |-> IF m \in players' THEN octave[m] ELSE NewOctave]
  BY DEF Switched
<1>2. PICK quiet :
        /\ Modules \ players' \subseteq quiet
        /\ sounding' = [m \in Modules |-> IF m \in quiet THEN {} ELSE sounding[m]]
        /\ \/ /\ NotHeldBy(players \ {current'})
              /\ current' \in quiet /\ queue[current'] = <<>>
              /\ keys' = Reset
           \/ /\ NotHeldBy(players \ players')
              /\ keys' = keys
  <2> DEFINE stops == SelectStops(current')
             hushed == (Modules \ players') \union (IF stops THEN {current'} ELSE {})
  <2>1. /\ IF stops THEN MayStop(current') ELSE NotClosedHeld
        /\ keys' = IF stops THEN Reset ELSE keys
        /\ sounding' = [m \in Modules |-> IF m \in hushed THEN {} ELSE sounding[m]]
    BY DEF Switched
  <2>2. IF stops THEN queue[current'] = <<>> /\ NotHeldBy(players \ {current'})
                 ELSE NotHeldBy(players \ players')
    BY <2>1 DEF MayStop, NotClosedHeld
  <2>3. Modules \ players' \subseteq hushed /\ (stops => current' \in hushed)
    OBVIOUS
  <2> HIDE DEF stops, hushed
  <2>4. CASE stops
    BY <2>1, <2>2, <2>3, <2>4
  <2>5. CASE ~stops
    BY <2>1, <2>2, <2>3, <2>5
  <2> QED BY <2>4, <2>5
<1>3. GoneQuiet'
  BY <1>1, <1>2 DEF GoneQuiet
<1>4. ASSUME NEW m \in Modules, NEW c \in Channels, ~Covered(m, c) \/ m \notin players
      PROVE  Ended(sounding'[m], queue'[m], c)
  <2>1. Ended(sounding[m], queue[m], c)
    BY <1>4, GoneEnded DEF HangInv, NotesEnd
  <2>2. Ended({}, queue[m], c) /\ Ended({}, <<>>, c)
    BY <2>1, EndedSilenced, EndedNothing
  <2>3. /\ sounding'[m] = IF m \in quiet THEN {} ELSE sounding[m]
        /\ queue'[m] = IF m \in players' THEN queue[m] ELSE <<>>
        /\ m \notin players' => m \in quiet
    BY <1>1, <1>2
  <2> QED BY <2>1, <2>2, <2>3
<1>5. CASE /\ NotHeldBy(players \ {current'})
           /\ current' \in quiet /\ queue[current'] = <<>>
           /\ keys' = Reset
  <2>1. KeysHeld'
    BY <1>5 DEF KeysHeld, Reset
  <2>2. ASSUME NEW m \in Modules, NEW c \in Channels
        PROVE  Ended(sounding'[m], queue'[m], c)
    <3>1. CASE m = current'
      <4>1. sounding'[m] = {} /\ queue'[m] = <<>>
        BY <1>1, <1>2, <1>5, <3>1
      <4> QED BY <4>1, EndedNothing
    <3>2. CASE m # current'
      <4>1. m \in players => ~Covered(m, c)
        BY <1>5, <3>2, NotCovered DEF HangInv
      <4> QED BY <1>4, <4>1
    <3> QED BY <3>1, <3>2
  <2>3. NotesEnd'
    BY <1>1, <2>2, SameSetup DEF NotesEnd
  <2> QED BY <1>3, <2>1, <2>3 DEF HangInv
<1>6. CASE NotHeldBy(players \ players') /\ keys' = keys
  <2>1. octave'[current'] = octave[current']
    BY <1>1
  <2>2. \A h \in down : Note(h)' = Note(h)
    BY <1>1, <2>1, NoteStays DEF SameOctave
  <2>3. \A i \in Slots : keys[i] # Free => keys[i].player \subseteq players'
    <3> SUFFICES ASSUME NEW i \in Slots, keys[i] # Free, NEW m \in keys[i].player,
                        m \notin players'
                 PROVE  FALSE
      OBVIOUS
    <3>1. m \in players \ players'
      BY DEF HangInv, KeysHeld
    <3>2. Covered(m, keys[i].channel)
      BY DEF Covered
    <3> QED BY <1>6, <3>1, <3>2, NotCovered DEF HangInv
  <2>4. KeysHeld'
    BY <1>1, <1>6, <2>2, <2>3 DEF HangInv, KeysHeld
  <2>5. NotesEnd'
    BY <1>1, <1>4, <1>6, SameSetup DEF NotesEnd, Covered
  <2> QED BY <1>3, <2>4, <2>5 DEF HangInv
<1> QED BY <1>2, <1>5, <1>6

LEMMA StartEnds ==
  ASSUME Init
  PROVE  HangInv
<1>1. /\ keys = [i \in Slots |-> Free]
      /\ \A m \in Modules : queue[m] = <<>> /\ sounding[m] = {}
  BY DEF Init, Reset
<1>2. KeysHeld
  BY <1>1 DEF KeysHeld
<1>3. GoneQuiet /\ NotesEnd
  BY <1>1, EndedNothing DEF GoneQuiet, NotesEnd
<1> QED BY <1>2, <1>3 DEF HangInv

LEMMA CurrentKnown ==
  Numbered => current \in Modules /\ current \in players /\ players \subseteq Modules
BY TabsTyped DEF Numbered

LEMMA HangInvKept ==
  ASSUME Habits = {}, Numbered, TypeOK, HangInv, [Next]_vars
  PROVE  HangInv'
<1>1. NotesTyped
  BY DEF TypeOK, NotesTyped, Cursors, Remembered, Messages
<1>2. current \in Modules /\ current \in players /\ players \subseteq Modules
  BY CurrentKnown
<1>3. Numbered' => current' \in Modules /\ current' \in players'
  <2>1. Numbered' => (current \in Modules /\ current \in players /\ players \subseteq Modules)'
    BY CurrentKnown, PTL
  <2> QED BY <2>1
<1>4. Numbered'
  BY TabsKept
<1>5. ASSUME \E k \in setup.keys : KeyDown(k) \/ KeyUp(k)
      PROVE  HangInv'
  BY <1>1, <1>2, <1>5, KeyDownEnds, KeyUpEnds
<1>6. ASSUME NEW m \in Modules, Tick(m) PROVE HangInv'
  BY <1>1, <1>6, TickEnds
<1>7. ASSUME \/ StopSong \/ EnsureSongStopped \/ PlaySong \/ ToggleEdit
             \/ \E o \in setup.octaves : SetOctave(o)
             \/ \E c \in 0..setup.channels - 1 : MoveCursor(c)
      PROVE  HangInv'
  BY <1>1, <1>2, <1>7, SongsEnd
<1>8. ASSUME Switched PROVE HangInv'
  <2>1. players \subseteq Modules /\ current' \in players'
    BY <1>2, <1>3, <1>4
  <2>2. current' \in Modules
    BY <1>3, <1>4
  <2> QED BY <1>1, <1>8, <2>1, <2>2, SwitchedEnds
<1>9. CASE UNCHANGED vars
  <2>1. /\ setup' = setup /\ players' = players /\ queue' = queue /\ keys' = keys
        /\ octave' = octave /\ current' = current /\ down' = down /\ sounding' = sounding
    BY <1>9 DEF vars, tabVars, notes
  <2>2. \A h : Note(h)' = Note(h)
    BY <2>1, NoteStays
  <2>3. KeysHeld'
    BY <2>1, <2>2 DEF HangInv, KeysHeld
  <2>4. GoneQuiet' /\ NotesEnd'
    BY <2>1, SameSetup DEF HangInv, GoneQuiet, NotesEnd, Covered
  <2> QED BY <2>3, <2>4 DEF HangInv
<1>10. \/ \E k \in setup.keys : KeyDown(k) \/ KeyUp(k)
       \/ \E m \in Modules : Tick(m)
       \/ StopSong \/ EnsureSongStopped \/ PlaySong \/ ToggleEdit
       \/ \E o \in setup.octaves : SetOctave(o)
       \/ \E c \in 0..setup.channels - 1 : MoveCursor(c)
       \/ Switched
       \/ UNCHANGED vars
  BY DEF Next, NewTab, PressTab, SwitchTab, ReleaseTab, RemoveTab
<1> QED BY <1>5, <1>6, <1>7, <1>8, <1>9, <1>10

\* Unless the user changes the octave under a held key, stops a song before
\* its notes are heard, or plays on a tab while keys of another are held, the
\* table of keys has a key for every channel that sounds or is about to.
THEOREM KeysEndTheirNotes ==
  ASSUME Habits = {}
  PROVE  Spec => []HangInv
<1>1. Init => Numbered /\ TypeOK /\ HangInv
  BY FirstTab, StartTyped, StartEnds
<1>2. Numbered /\ TypeOK /\ HangInv /\ [Next]_vars => (Numbered /\ TypeOK /\ HangInv)'
  BY TabsKept, TypesKept, HangInvKept
<1> QED BY <1>1, <1>2, PTL DEF Spec

\* So a note does not sound on beyond its key, whatever tabs are opened, closed
\* and switched and whatever songs are started and stopped meanwhile
\* (sendNoteUp, selectModuleEditor, stopSong).
THEOREM NotesDoNotHang ==
  ASSUME Habits = {}
  PROVE  Spec => []NoHangingNote
<1>1. HangInv /\ TypeOK /\ Numbered => NoHangingNote
  <2> SUFFICES ASSUME HangInv, TypeOK, Numbered, down = {},
                      NEW m \in players \ paused, queue[m] = <<>>, NEW c \in sounding[m]
               PROVE  FALSE
    BY DEF NoHangingNote
  <2>1. m \in Modules /\ c \in Channels
    <3>1. m \in Modules
      BY TabsTyped
    <3> QED BY <3>1 DEF TypeOK
  <2>2. \A i \in Slots : keys[i] = Free
    BY DEF HangInv, KeysHeld
  <2>3. ~Covered(m, c)
    BY <2>2 DEF Covered, Free
  <2>4. Ended(sounding[m], <<>>, c)
    BY <2>1, <2>3 DEF HangInv, NotesEnd
  <2> QED BY <2>4 DEF Ended
<1>2. Spec => []Numbered
  BY FirstTab, TabsKept, PTL DEF Spec
<1> QED BY <1>1, <1>2, TypeCorrect, KeysEndTheirNotes, PTL
===============================================================================
