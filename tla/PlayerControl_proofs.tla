------------------------- MODULE PlayerControl_proofs -------------------------
(***************************************************************************)
(* For any set of players and any choice of commands: nothing is edited    *)
(* that the audio thread may be reading, songs go on after each command,   *)
(* and no player is left silent.                                           *)
(*                                                                         *)
(* The functions of PlayerController and PlayerCriticalSection call each   *)
(* other in circles, so an invariant of the flags alone does not hold long *)
(* enough.  Each function gets a contract instead: the states of a player  *)
(* in which it may be called (Ready), and what it makes of them once it    *)
(* has returned, all its inner calls done (After).  The invariant says     *)
(* that the pending calls, made one after the other from the present       *)
(* state, each find the state they need and leave the player at rest       *)
(* (Promise).  A step replaces a call by the calls of its body; that the   *)
(* body meets the contract of the call is what is proved, once for each    *)
(* function.                                                               *)
(***************************************************************************)
EXTENDS PlayerControl, SequenceTheorems, TLAPS

-----------------------------------------------------------------------------
(* The states of a player. *)

\* Whether a player is attached, suspended and in a section, in a word.
\* "leaving" is a section whose player has been resumed; "asked" is a player
\* that waits, suspended, for the answer of the channel dialog.
Flags == {"detached", "detachedIn", "audible", "silent", "inside", "leaving", "asked"}

PlayerStates == [flags : Flags, mode : Modes, last : Modes \ {"row"},
                 content : {"some", "none"}]

Asked(q) == \E d \in dialog : d.p = q

FlagsOf(q) ==
  IF q \notin attached
  THEN IF q \in enabled THEN "detachedIn" ELSE "detached"
  ELSE IF q \in suspended
  THEN IF q \in enabled THEN "inside" ELSE IF Asked(q) THEN "asked" ELSE "silent"
  ELSE IF q \in enabled THEN "leaving" ELSE "audible"

State(z, m, l, x) == [flags |-> z, mode |-> m, last |-> l, content |-> x]

StateOf(q) ==
  State(FlagsOf(q), mode[q], last[q], IF q \in loaded THEN "some" ELSE "none")

Closed == {"detached", "audible", "silent"}
Settled == Closed \union {"detachedIn", "inside"}
Quiet == {"detached", "detachedIn", "silent", "inside"}

RestStates == {a \in PlayerStates : a.flags \in {"detached", "audible", "asked"}}

-----------------------------------------------------------------------------
(* The contracts. *)

\* The flags after resumeDevice, enter and leave.
Resumed(z) ==
  IF z = "inside" THEN "leaving" ELSE IF z \in {"silent", "asked"} THEN "audible" ELSE z
Within(z) ==
  IF z \in {"audible", "silent"} THEN "inside" ELSE IF z = "detached" THEN "detachedIn" ELSE z
Released(z) ==
  IF z \in {"inside", "leaving"} THEN "audible" ELSE IF z = "detachedIn" THEN "detached" ELSE z

\* A state with other flags; with another mode; after stop().
Put(a, z) == State(z, a.mode, a.last, a.content)
Plays(a, m) == State(a.flags, m, a.last, a.content)
Stopped(a) ==
  State(a.flags, "stopped", IF a.mode = "row" THEN "stopped" ELSE a.mode, a.content)

\* continuePlaying ends with leave(false), which releases an open section
Continues(a) == a.last # "stopped" /\ a.content = "some"
Continued(a) == IF Continues(a) THEN Put(Plays(a, a.last), Released(a.flags)) ELSE a

\* The states in which call c may be made of its player.
Ready(c, a) ==
  \/ c.op \in {"suspend", "play"} /\ a.flags \in Closed
  \/ c.op \in {"enter", "leave", "resume", "start", "stop"} /\ a.flags \in Settled
  \/ c.op = "continue" /\ a.flags \in Settled /\ (c.flag => a.flags \notin {"silent", "inside"})
  \/ c.op = "entered" /\ a.flags \in {"detached", "silent"}
  \/ c.op = "left" /\ a.flags \in {"detached", "detachedIn", "audible", "leaving"}
  \/ c.op \in {"halt", "restart", "edit", "createEmptySong"} /\ a.flags \in Quiet
  \/ c.op = "openSong" /\ a.flags \in {"detached", "silent"}
  \/ c.op = "resumeDevice" /\ a.flags \in Settled
  \/ c.op = "assureNotSuspended" /\ a.flags # "inside" /\ a.flags # "leaving"
  \/ c.op = "ensureSongPlaying" /\ a.flags \in {"audible", "silent"}
  \/ c.op = "attach" /\ a.flags \in {"detached", "audible"}
  \/ c.op \in {"pauseDevice", "detach"} /\ a.flags = "audible"
  \/ c.op \in {"addDevice", "destroy"} /\ a.flags = "detached"
  \/ c.op = "openDialog" /\ a.flags = "silent" /\ c.mode # "row"
  \/ c.op = "done" /\ (c.mode # "stopped" /\ a.content = "some" => a.mode = c.mode)
  \/ c.op \in {"move", "restartPlaying", "answered"}

\* What it has made of a state when it has returned.
After(c, a, b) ==
  \/ /\ c.op = "suspend"
     /\ b = IF a.flags # "audible" THEN a
            ELSE Put(IF c.flag THEN Stopped(a) ELSE a, "silent")
  \/ c.op = "pauseDevice" /\ b = Put(IF c.flag THEN Stopped(a) ELSE a, "silent")
  \/ /\ c.op = "enter"
     /\ b = Put(IF a.flags = "audible" /\ c.flag THEN Stopped(a) ELSE a, Within(a.flags))
  \/ /\ c.op = "leave"
     /\ b = Put(IF a.flags \in {"inside", "detachedIn"} /\ c.flag THEN Continued(a) ELSE a,
               Released(a.flags))
  \/ c.op = "entered" /\ b = Put(a, Within(a.flags))
  \/ c.op = "left" /\ b = Put(a, Released(a.flags))
  \/ /\ c.op = "resume"
     /\ LET r == IF c.flag THEN Continued(a) ELSE a IN b = Put(r, Resumed(r.flags))
  \/ c.op = "continue" /\ b = Continued(a)
  \/ c.op \in {"resumeDevice", "assureNotSuspended"} /\ b = Put(a, Resumed(a.flags))
  \/ c.op = "start" /\ b = Put(Plays(a, c.mode), Released(a.flags))
  \/ c.op = "stop" /\ b = Put(Stopped(a), Released(a.flags))
  \/ c.op = "restart" /\ b = Plays(a, c.mode)
  \/ c.op = "halt" /\ b = Stopped(a)
  \/ /\ c.op = "play"
     /\ b = IF a.content = "none" THEN a ELSE Put(Plays(a, c.mode), Resumed(a.flags))
  \/ /\ c.op = "restartPlaying"
     /\ b = IF a.content = "none" THEN a ELSE State(a.flags, a.mode, "song", "some")
  \/ c.op = "attach" /\ b = Put(Plays(a, "stopped"), "audible")
  \/ c.op = "addDevice" /\ b = Put(a, "audible")
  \/ c.op = "detach" /\ b = Put(a, "detached")
  \/ c.op = "destroy" /\ b = State(a.flags, "stopped", "stopped", "some")
  \/ c.op = "createEmptySong" /\ b = State(a.flags, a.mode, a.last, "some")
  \/ /\ c.op = "openSong"
     /\ \/ \E x \in {"some", "none"} : b = State(a.flags, a.mode, a.last, x)
        \/ c.mode = "song" /\ b = State(a.flags, a.mode, "song", "some")
        \/ c.mode = "pattern" /\ b = State(Resumed(a.flags), "pattern", Stopped(a).last, "some")
  \/ c.op = "ensureSongPlaying" /\ b = Put(Continued(a), "audible")
  \/ c.op = "openDialog" /\ b = Put(a, "asked")
  \/ c.op \in {"edit", "move", "done", "answered"} /\ b = a

-----------------------------------------------------------------------------
(* Sequences of calls. *)

Ops == {"enter", "entered", "leave", "left", "suspend", "pauseDevice", "resume",
        "resumeDevice", "assureNotSuspended", "stop", "halt", "play", "continue", "start", "restart",
        "restartPlaying", "attach", "addDevice", "detach", "destroy", "edit", "move",
        "openSong", "createEmptySong", "ensureSongPlaying", "openDialog", "done", "answered"}

AllCalls == [op : Ops, p : Players, flag : BOOLEAN, mode : Modes]

Post(c, a) == {b \in PlayerStates : After(c, a, b)}

\* Call c takes player q from the states of A to states of B.
Meets(q, c, A, B) ==
  \A a \in A : IF c.p = q
               THEN Ready(c, a) /\ \A b \in PlayerStates : After(c, a, b) => b \in B
               ELSE a \in B

\* The calls of s, one after the other, take player q from A to B.
Run(q, s, A, B) ==
  \E f \in [1..Len(s) + 1 -> SUBSET PlayerStates] :
    /\ A \subseteq f[1]
    /\ f[Len(s) + 1] \subseteq B
    /\ \A i \in 1..Len(s) : Meets(q, s[i], f[i], f[i + 1])

Promise(q) == Run(q, calls, {StateOf(q)}, RestStates)

\* While the dialog is open there is nothing but a MIDI note.
DialogAlone ==
  /\ \A d, e \in dialog : d = e
  /\ dialog = {} \/ \A i \in 1..Len(calls) : calls[i].op = "assureNotSuspended"
  /\ \A i \in 1..Len(calls) : calls[i].op = "openDialog" => i = Len(calls)

\* The mixer renders what is attached and not silenced; it has silenced
\* exactly the players that count as suspended.
MixerOK ==
  /\ attached \subseteq Players
  /\ silenced = suspended
  /\ suspended \subseteq attached
  /\ rendering \subseteq attached \ silenced

Data ==
  /\ enabled \subseteq Players
  /\ loaded \subseteq Players
  /\ mode \in [Players -> Modes]
  /\ last \in [Players -> Modes \ {"row"}]
  /\ dialog \subseteq [p : Players, was : Modes \ {"row"}]

IInv ==
  /\ Data
  /\ calls \in Seq(AllCalls)
  /\ MixerOK
  /\ DialogAlone
  /\ \A q \in Players : Promise(q)

-----------------------------------------------------------------------------
(* Rules for sequences of calls. *)

LEMMA RunNothing ==
  ASSUME NEW q, NEW A \in SUBSET PlayerStates, NEW B, A \subseteq B
  PROVE  Run(q, <<>>, A, B)
<1> DEFINE f == [i \in 1..1 |-> A]
<1>1. Len(<<>>) = 0 /\ 1..Len(<<>>) = {} /\ 1..Len(<<>>) + 1 = 1..1
  OBVIOUS
<1>2. f \in [1..1 -> SUBSET PlayerStates] /\ f[1] = A
  OBVIOUS
<1> HIDE DEF f
<1> QED BY <1>1, <1>2 DEF Run

LEMMA RunOne ==
  ASSUME NEW q, NEW c \in AllCalls, NEW A \in SUBSET PlayerStates,
         NEW B \in SUBSET PlayerStates, Meets(q, c, A, B)
  PROVE  Run(q, <<c>>, A, B)
<1> DEFINE f == [i \in 1..2 |-> IF i = 1 THEN A ELSE B]
<1>1. Len(<<c>>) = 1 /\ <<c>>[1] = c
  OBVIOUS
<1>2. f \in [1..2 -> SUBSET PlayerStates] /\ f[1] = A /\ f[2] = B
  OBVIOUS
<1> HIDE DEF f
<1> QED BY <1>1, <1>2 DEF Run

\* The rule of composition.
LEMMA RunConcat ==
  ASSUME NEW q, NEW s \in Seq(AllCalls), NEW t \in Seq(AllCalls),
         NEW A, NEW M, NEW B, Run(q, s, A, M), Run(q, t, M, B)
  PROVE  Run(q, s \o t, A, B)
<1> DEFINE n == Len(s)
           k == Len(t)
<1>1. n \in Nat /\ k \in Nat /\ Len(s \o t) = n + k
      /\ \A i \in 1..n + k : (s \o t)[i] = IF i <= n THEN s[i] ELSE t[i - n]
  BY ConcatProperties
<1>2. PICK f \in [1..n + 1 -> SUBSET PlayerStates] :
        /\ A \subseteq f[1] /\ f[n + 1] \subseteq M
        /\ \A i \in 1..n : Meets(q, s[i], f[i], f[i + 1])
  BY DEF Run
<1>3. PICK g \in [1..k + 1 -> SUBSET PlayerStates] :
        /\ M \subseteq g[1] /\ g[k + 1] \subseteq B
        /\ \A i \in 1..k : Meets(q, t[i], g[i], g[i + 1])
  BY DEF Run
<1> DEFINE h == [i \in 1..n + k + 1 |-> IF i <= n THEN f[i] ELSE g[i - n]]
<1> HIDE DEF n, k
<1>4. h \in [1..n + k + 1 -> SUBSET PlayerStates]
  <2> SUFFICES ASSUME NEW i \in 1..n + k + 1
               PROVE  (IF i <= n THEN f[i] ELSE g[i - n]) \in SUBSET PlayerStates
    OBVIOUS
  <2>1. CASE i <= n
    <3>1. i \in 1..n + 1
      BY <1>1, <2>1
    <3> QED BY <1>2, <2>1, <3>1
  <2>2. CASE ~(i <= n)
    <3>1. i - n \in 1..k + 1
      BY <1>1, <2>2
    <3> QED BY <1>3, <2>2, <3>1
  <2> QED BY <2>1, <2>2
<1>5. \A i \in 1..n : h[i] = f[i]
  BY <1>1
<1>6. \A i \in 1..k + 1 : h[n + i] = g[i]
  <2> SUFFICES ASSUME NEW i \in 1..k + 1 PROVE h[n + i] = g[i]
    OBVIOUS
  <2>1. n + i \in 1..n + k + 1 /\ ~(n + i <= n) /\ (n + i) - n = i
    BY <1>1
  <2> QED BY <2>1
<1> HIDE DEF h
<1>7. f[n + 1] \subseteq h[n + 1]
  BY <1>1, <1>2, <1>3, <1>6
<1>8. A \subseteq h[1]
  <2>1. CASE n = 0
    BY <1>1, <1>2, <1>7, <2>1
  <2>2. CASE n > 0
    BY <1>1, <1>2, <1>5, <2>2
  <2> QED BY <1>1, <2>1, <2>2
<1>9. h[n + k + 1] \subseteq B
  <2>1. n + (k + 1) = n + k + 1 /\ k + 1 \in 1..k + 1
    BY <1>1
  <2> QED BY <1>3, <1>6, <2>1
<1>10. ASSUME NEW i \in 1..n + k
       PROVE  Meets(q, (s \o t)[i], h[i], h[i + 1])
  <2>1. CASE i < n
    <3>1. i \in 1..n /\ i + 1 \in 1..n /\ i <= n
      BY <1>1, <2>1
    <3> QED BY <1>1, <1>2, <1>5, <3>1
  <2>2. CASE i = n
    <3>1. i \in 1..n /\ i <= n
      BY <1>1, <2>2
    <3>2. Meets(q, s[i], f[i], f[n + 1])
      BY <1>2, <2>2, <3>1
    <3> QED BY <1>1, <1>5, <1>7, <2>2, <3>1, <3>2 DEF Meets
  <2>3. CASE i > n
    <3>1. PICK j \in 1..k : i = n + j
      <4>1. i - n \in 1..k /\ i = n + (i - n)
        BY <1>1, <2>3
      <4> QED BY <4>1
    <3>2. /\ j \in 1..k + 1 /\ j + 1 \in 1..k + 1 /\ i + 1 = n + (j + 1)
          /\ i - n = j /\ ~(i <= n)
      BY <1>1, <3>1
    <3>3. h[i] = g[j] /\ h[i + 1] = g[j + 1] /\ (s \o t)[i] = t[j]
      BY <1>1, <1>6, <3>1, <3>2
    <3> QED BY <1>3, <3>1, <3>3
  <2> QED BY <1>1, <2>1, <2>2, <2>3
<1> QED
  BY <1>1, <1>4, <1>8, <1>9, <1>10 DEF Run

\* A call that is due finds the state it needs, and those that follow have
\* been promised what it leaves.
LEMMA RunHead ==
  ASSUME NEW q, NEW s \in Seq(AllCalls), s # <<>>, NEW a, NEW B, Run(q, s, {a}, B)
  PROVE  \E M \in SUBSET PlayerStates :
           Meets(q, Head(s), {a}, M) /\ Run(q, Tail(s), M, B)
<1> DEFINE n == Len(Tail(s))
<1>1. n \in Nat /\ Len(s) = n + 1 /\ \A i \in 1..n : Tail(s)[i] = s[i + 1]
  BY HeadTailProperties, LenProperties
<1>2. Head(s) = s[1]
  OBVIOUS
<1>3. PICK f \in [1..Len(s) + 1 -> SUBSET PlayerStates] :
        /\ {a} \subseteq f[1] /\ f[Len(s) + 1] \subseteq B
        /\ \A i \in 1..Len(s) : Meets(q, s[i], f[i], f[i + 1])
  BY DEF Run
<1> DEFINE g == [i \in 1..n + 1 |-> f[i + 1]]
<1> HIDE DEF n
<1>4. g \in [1..n + 1 -> SUBSET PlayerStates] /\ \A i \in 1..n + 1 : g[i] = f[i + 1]
  <2> SUFFICES ASSUME NEW i \in 1..n + 1 PROVE f[i + 1] \in SUBSET PlayerStates
    OBVIOUS
  <2>1. i + 1 \in 1..Len(s) + 1
    BY <1>1
  <2> QED BY <1>3, <2>1
<1> HIDE DEF g
<1>5. f[2] \in SUBSET PlayerStates /\ Meets(q, Head(s), {a}, f[2])
  <2>1. 1 \in 1..Len(s) /\ 2 \in 1..Len(s) + 1
    BY <1>1
  <2>2. Meets(q, s[1], f[1], f[2])
    BY <1>3, <2>1
  <2> QED BY <1>2, <1>3, <2>1, <2>2 DEF Meets
<1>6. Run(q, Tail(s), f[2], B)
  <2>1. f[2] \subseteq g[1] /\ g[n + 1] \subseteq B
    BY <1>1, <1>3, <1>4
  <2>2. ASSUME NEW i \in 1..n PROVE Meets(q, Tail(s)[i], g[i], g[i + 1])
    <3>1. i + 1 \in 1..Len(s) /\ i \in 1..n + 1 /\ i + 1 \in 1..n + 1
      BY <1>1
    <3> QED BY <1>1, <1>3, <1>4, <3>1
  <2> QED BY <1>4, <2>1, <2>2, <1>1 DEF Run, n
<1> QED BY <1>5, <1>6

\* The calls of other players leave a player alone.
LEMMA Bystander ==
  ASSUME NEW q, NEW s \in Seq(AllCalls), \A i \in 1..Len(s) : s[i].p # q,
         NEW A \in SUBSET PlayerStates
  PROVE  Run(q, s, A, A)
<1> DEFINE f == [i \in 1..Len(s) + 1 |-> A]
<1>1. Len(s) \in Nat
  OBVIOUS
<1>2. /\ f \in [1..Len(s) + 1 -> SUBSET PlayerStates]
      /\ \A i \in 1..Len(s) + 1 : f[i] = A
  OBVIOUS
<1> HIDE DEF f
<1>3. \A i \in 1..Len(s) : Meets(q, s[i], f[i], f[i + 1])
  <2> SUFFICES ASSUME NEW i \in 1..Len(s) PROVE Meets(q, s[i], f[i], f[i + 1])
    OBVIOUS
  <2>1. i \in 1..Len(s) + 1 /\ i + 1 \in 1..Len(s) + 1
    BY <1>1
  <2> QED BY <1>2, <2>1 DEF Meets
<1> QED BY <1>1, <1>2, <1>3 DEF Run

\* A single call of the player's own.
LEMMA RunCall ==
  ASSUME NEW q, NEW d \in AllCalls, d.p = q, NEW m \in PlayerStates, Ready(d, m),
         NEW B \in SUBSET PlayerStates,
         \A b \in PlayerStates : After(d, m, b) => b \in B
  PROVE  Run(q, <<d>>, {m}, B)
<1>1. Meets(q, d, {m}, B)
  BY DEF Meets
<1> QED BY <1>1, RunOne

LEMMA RunTo ==
  ASSUME NEW q, NEW d \in AllCalls, d.p = q, NEW m \in PlayerStates, Ready(d, m),
         NEW n \in PlayerStates, \A b \in PlayerStates : After(d, m, b) => b = n
  PROVE  Run(q, <<d>>, {m}, {n})
BY RunCall

LEMMA RunPost ==
  ASSUME NEW q, NEW d \in AllCalls, d.p = q, NEW m \in PlayerStates, Ready(d, m),
         NEW c, NEW a, \A b \in PlayerStates : After(d, m, b) => After(c, a, b)
  PROVE  Run(q, <<d>>, {m}, Post(c, a))
BY RunCall DEF Post

LEMMA ConsIsConcat ==
  /\ \A c \in AllCalls : <<c>> \in Seq(AllCalls)
  /\ \A c, d \in AllCalls : <<c, d>> \in Seq(AllCalls) /\ <<c>> \o <<d>> = <<c, d>>
  /\ \A c, d, e \in AllCalls : <<c>> \o <<d, e>> = <<c, d, e>>
<1>1. \A c \in AllCalls : <<c>> \in Seq(AllCalls) /\ Len(<<c>>) = 1 /\ <<c>>[1] = c
  OBVIOUS
<1>2. \A c, d \in AllCalls : /\ <<c, d>> \in Seq(AllCalls) /\ Len(<<c, d>>) = 2
                             /\ <<c, d>>[1] = c /\ <<c, d>>[2] = d
  OBVIOUS
<1>3. \A c, d, e \in AllCalls :
        /\ <<c, d, e>> \in Seq(AllCalls) /\ Len(<<c, d, e>>) = 3
        /\ <<c, d, e>>[1] = c /\ <<c, d, e>>[2] = d /\ <<c, d, e>>[3] = e
  OBVIOUS
<1>4. ASSUME NEW c \in AllCalls, NEW d \in AllCalls PROVE <<c>> \o <<d>> = <<c, d>>
  <2>1. /\ <<c>> \o <<d>> \in Seq(AllCalls) /\ Len(<<c>> \o <<d>>) = 2
        /\ (<<c>> \o <<d>>)[1] = c /\ (<<c>> \o <<d>>)[2] = d
    BY <1>1, ConcatProperties
  <2> DEFINE s == <<c>> \o <<d>>
             t == <<c, d>>
  <2>2. /\ s \in Seq(AllCalls) /\ t \in Seq(AllCalls) /\ Len(s) = 2 /\ Len(t) = 2
        /\ s[1] = t[1] /\ s[2] = t[2]
    BY <1>2, <2>1
  <2> HIDE DEF s, t
  <2>3. Len(s) = Len(t) /\ \A i \in 1..Len(s) : s[i] = t[i]
    BY <2>2
  <2>4. s = t
    BY <2>2, <2>3, SeqEqual
  <2> QED BY <2>4 DEF s, t
<1>5. ASSUME NEW c \in AllCalls, NEW d \in AllCalls, NEW e \in AllCalls
      PROVE  <<c>> \o <<d, e>> = <<c, d, e>>
  <2>1. /\ <<c>> \o <<d, e>> \in Seq(AllCalls) /\ Len(<<c>> \o <<d, e>>) = 3
        /\ (<<c>> \o <<d, e>>)[1] = c /\ (<<c>> \o <<d, e>>)[2] = d
        /\ (<<c>> \o <<d, e>>)[3] = e
    BY <1>1, <1>2, ConcatProperties
  <2> DEFINE s == <<c>> \o <<d, e>>
             t == <<c, d, e>>
  <2>2. /\ s \in Seq(AllCalls) /\ t \in Seq(AllCalls) /\ Len(s) = 3 /\ Len(t) = 3
        /\ s[1] = t[1] /\ s[2] = t[2] /\ s[3] = t[3]
    BY <1>3, <2>1
  <2> HIDE DEF s, t
  <2>3. Len(s) = Len(t) /\ \A i \in 1..Len(s) : s[i] = t[i]
    BY <2>2
  <2>4. s = t
    BY <2>2, <2>3, SeqEqual
  <2> QED BY <2>4 DEF s, t
<1> QED BY <1>1, <1>2, <1>4, <1>5

\* Longer sequences, put together.
LEMMA Joins ==
  /\ \A c, d, e, f \in AllCalls : <<c, d, e>> \o <<f>> = <<c, d, e, f>>
  /\ \A c, d, e, f, g, h \in AllCalls : <<c, d, e>> \o <<f, g, h>> = <<c, d, e, f, g, h>>
<1>1. ASSUME NEW c \in AllCalls, NEW d \in AllCalls, NEW e \in AllCalls, NEW f \in AllCalls
      PROVE  <<c, d, e>> \o <<f>> = <<c, d, e, f>>
  <2> DEFINE r == <<c, d, e>>
             u == <<f>>
             t == <<c, d, e, f>>
  <2>1. /\ r \in Seq(AllCalls) /\ Len(r) = 3 /\ r[1] = c /\ r[2] = d /\ r[3] = e
        /\ u \in Seq(AllCalls) /\ Len(u) = 1 /\ u[1] = f
    OBVIOUS
  <2>2. /\ t \in Seq(AllCalls) /\ Len(t) = 4 /\ t[1] = c /\ t[2] = d /\ t[3] = e /\ t[4] = f
    OBVIOUS
  <2> HIDE DEF r, u, t
  <2>3. /\ r \o u \in Seq(AllCalls) /\ Len(r \o u) = Len(r) + Len(u)
        /\ \A i \in 1..Len(r) + Len(u) :
              (r \o u)[i] = IF i <= Len(r) THEN r[i] ELSE u[i - Len(r)]
    BY <2>1, ConcatProperties
  <2>4. \A i \in 1..Len(t) : (r \o u)[i] = t[i]
    <3>1. \A i \in 1..3 : (r \o u)[i] = r[i]
      BY <2>1, <2>3
    <3>2. /\ 4 \in 1..Len(r) + Len(u) /\ ~(4 <= Len(r)) /\ 4 - Len(r) = 1
      BY <2>1
    <3>3. /\ (r \o u)[1] = c /\ (r \o u)[2] = d /\ (r \o u)[3] = e
          /\ (r \o u)[4] = f
      BY <2>1, <2>3, <3>1, <3>2
    <3>4. 1..Len(t) = {1, 2, 3, 4}
      BY <2>2
    <3> QED BY <2>2, <3>3, <3>4
  <2>5. r \o u = t
    BY <2>1, <2>2, <2>3, <2>4, SeqEqual
  <2> QED BY <2>5 DEF r, u, t
<1>2. ASSUME NEW c \in AllCalls, NEW d \in AllCalls, NEW e \in AllCalls,
             NEW f \in AllCalls, NEW g \in AllCalls, NEW h \in AllCalls
      PROVE  <<c, d, e>> \o <<f, g, h>> = <<c, d, e, f, g, h>>
  <2> DEFINE r == <<c, d, e>>
             u == <<f, g, h>>
             t == <<c, d, e, f, g, h>>
  <2>1. /\ r \in Seq(AllCalls) /\ Len(r) = 3 /\ r[1] = c /\ r[2] = d /\ r[3] = e
        /\ u \in Seq(AllCalls) /\ Len(u) = 3 /\ u[1] = f /\ u[2] = g /\ u[3] = h
    OBVIOUS
  <2>2. /\ t \in Seq(AllCalls) /\ Len(t) = 6 /\ t[1] = c /\ t[2] = d /\ t[3] = e
        /\ t[4] = f /\ t[5] = g /\ t[6] = h
    OBVIOUS
  <2> HIDE DEF r, u, t
  <2>3. /\ r \o u \in Seq(AllCalls) /\ Len(r \o u) = Len(r) + Len(u)
        /\ \A i \in 1..Len(r) + Len(u) :
              (r \o u)[i] = IF i <= Len(r) THEN r[i] ELSE u[i - Len(r)]
    BY <2>1, ConcatProperties
  <2>4. \A i \in 1..Len(t) : (r \o u)[i] = t[i]
    <3>1. \A i \in 1..3 : (r \o u)[i] = r[i]
      BY <2>1, <2>3
    <3>2. /\ 4 \in 1..Len(r) + Len(u) /\ ~(4 <= Len(r)) /\ 4 - Len(r) = 1
          /\ 5 \in 1..Len(r) + Len(u) /\ ~(5 <= Len(r)) /\ 5 - Len(r) = 2
          /\ 6 \in 1..Len(r) + Len(u) /\ ~(6 <= Len(r)) /\ 6 - Len(r) = 3
      BY <2>1
    <3>3. /\ (r \o u)[1] = c /\ (r \o u)[2] = d /\ (r \o u)[3] = e
          /\ (r \o u)[4] = f /\ (r \o u)[5] = g /\ (r \o u)[6] = h
      BY <2>1, <2>3, <3>1, <3>2
    <3>4. 1..Len(t) = {1, 2, 3, 4, 5, 6}
      BY <2>2
    <3> QED BY <2>2, <3>3, <3>4
  <2>5. r \o u = t
    BY <2>1, <2>2, <2>3, <2>4, SeqEqual
  <2> QED BY <2>5 DEF r, u, t
<1> QED BY <1>1, <1>2

\* Two and three calls.
LEMMA RunTwo ==
  ASSUME NEW q, NEW c \in AllCalls, NEW d \in AllCalls, NEW A, NEW M, NEW B,
         Run(q, <<c>>, A, M), Run(q, <<d>>, M, B)
  PROVE  Run(q, <<c, d>>, A, B)
<1>1. <<c>> \in Seq(AllCalls) /\ <<d>> \in Seq(AllCalls) /\ <<c>> \o <<d>> = <<c, d>>
  BY ConsIsConcat
<1> QED BY <1>1, RunConcat

LEMMA RunThree ==
  ASSUME NEW q, NEW c \in AllCalls, NEW d \in AllCalls, NEW e \in AllCalls,
         NEW A, NEW M, NEW N, NEW B,
         Run(q, <<c>>, A, M), Run(q, <<d>>, M, N), Run(q, <<e>>, N, B)
  PROVE  Run(q, <<c, d, e>>, A, B)
<1>1. /\ <<c>> \in Seq(AllCalls) /\ <<d, e>> \in Seq(AllCalls)
      /\ <<c>> \o <<d, e>> = <<c, d, e>>
  BY ConsIsConcat
<1> QED BY <1>1, RunTwo, RunConcat

-----------------------------------------------------------------------------
(* A step of the editor. *)

LEMMA StateType ==
  ASSUME Data, NEW q \in Players
  PROVE  StateOf(q) \in PlayerStates
<1>1. FlagsOf(q) \in Flags
  BY DEF FlagsOf, Flags
<1>2. mode[q] \in Modes /\ last[q] \in Modes \ {"row"}
  BY DEF Data
<1> QED BY <1>1, <1>2 DEF StateOf, State, PlayerStates

LEMMA NextStateType ==
  ASSUME Data', NEW q \in Players
  PROVE  StateOf(q)' \in PlayerStates
<1>1. FlagsOf(q)' \in Flags
  BY DEF FlagsOf, Flags
<1>2. mode'[q] \in Modes /\ last'[q] \in Modes \ {"row"}
  BY DEF Data
<1> QED BY <1>1, <1>2 DEF StateOf, State, PlayerStates

LEMMA TopIsReady ==
  ASSUME IInv, calls # <<>>
  PROVE  /\ Top \in AllCalls /\ Top.p \in Players
         /\ StateOf(Top.p) \in PlayerStates
         /\ Ready(Top, StateOf(Top.p))
<1>1. Top \in AllCalls /\ Top.p \in Players
  <2>1. Top \in AllCalls
    BY HeadTailProperties DEF IInv, Top
  <2> QED BY <2>1 DEF AllCalls
<1>2. Run(Top.p, calls, {StateOf(Top.p)}, RestStates)
  BY <1>1 DEF IInv, Promise
<1>3. PICK M : Meets(Top.p, Head(calls), {StateOf(Top.p)}, M)
  BY <1>2, RunHead DEF IInv
<1> QED BY <1>1, <1>3, StateType DEF Meets, Top, IInv

LEMMA NoDialog ==
  ASSUME IInv, calls # <<>>, Top.op # "assureNotSuspended"
  PROVE  dialog = {}
<1>1. 1 \in 1..Len(calls) /\ calls[1] = Top
  BY EmptySeq DEF IInv, Top
<1> QED BY <1>1 DEF IInv, DialogAlone

\* A step changes the state of player p only.
Only(p) == \A q \in Players \ {p} : StateOf(q)' = StateOf(q)

\* A call is replaced by a body that meets its contract.
LEMMA CallStep ==
  ASSUME IInv, calls # <<>>, NEW c, c = Top, NEW body \in Seq(AllCalls), Becomes(body),
         \A i \in 1..Len(body) : body[i].p = c.p /\ body[i].op # "openDialog",
         dialog = {} \/ body = <<>>,
         dialog' = dialog, Data', MixerOK',
         Only(c.p),
         Run(c.p, body, {StateOf(c.p)'}, Post(c, StateOf(c.p)))
  PROVE  IInv'
<1> DEFINE n == Len(body)
           k == Len(Tail(calls))
<1>1. /\ Tail(calls) \in Seq(AllCalls) /\ n \in Nat /\ k \in Nat /\ Len(calls) = k + 1
      /\ \A i \in 1..k : Tail(calls)[i] = calls[i + 1]
  BY HeadTailProperties, LenProperties DEF IInv
<1>2. /\ calls' = body \o Tail(calls) /\ calls' \in Seq(AllCalls) /\ Len(calls') = n + k
      /\ \A i \in 1..n + k : calls'[i] = IF i <= n THEN body[i] ELSE Tail(calls)[i - n]
  BY <1>1, ConcatProperties DEF Becomes
<1> HIDE DEF n, k
<1>3. ASSUME NEW i \in 1..n + k, ~(i <= n)
      PROVE  i - n \in 1..k /\ (i - n) + 1 \in 1..k + 1 /\ calls'[i] = calls[(i - n) + 1]
  <2>1. i - n \in 1..k /\ (i - n) + 1 \in 1..k + 1
    BY <1>1, <1>3
  <2> QED BY <1>1, <1>2, <1>3, <2>1
<1>4. DialogAlone'
  <2>1. dialog = {} \/ \A i \in 1..n + k : calls'[i].op = "assureNotSuspended"
    <3> SUFFICES ASSUME dialog # {}, NEW i \in 1..n + k
                 PROVE  calls'[i].op = "assureNotSuspended"
      OBVIOUS
    <3>1. n = 0 /\ ~(i <= n)
      BY <1>1 DEF n
    <3> QED BY <1>1, <1>3, <3>1 DEF IInv, DialogAlone
  <2>2. ASSUME NEW i \in 1..n + k, calls'[i].op = "openDialog"
        PROVE  i = n + k
    <3>1. CASE i <= n
      <4>1. i \in 1..n
        BY <1>1, <3>1
      <4> QED BY <1>2, <2>2, <3>1, <4>1 DEF n
    <3>2. CASE ~(i <= n)
      <4>1. (i - n) + 1 = k + 1
        BY <1>1, <1>3, <2>2, <3>2 DEF IInv, DialogAlone
      <4> QED BY <1>1, <4>1
    <3> QED BY <3>1, <3>2
  <2> QED BY <1>2, <2>1, <2>2 DEF IInv, DialogAlone
<1>5. ASSUME NEW q \in Players PROVE Promise(q)'
  <2>1. PICK M \in SUBSET PlayerStates :
          Meets(q, Head(calls), {StateOf(q)}, M) /\ Run(q, Tail(calls), M, RestStates)
    BY RunHead DEF IInv, Promise
  <2>2. StateOf(q)' \in PlayerStates
    BY NextStateType
  <2>3. Run(q, body, {StateOf(q)'}, M)
    <3>1. CASE q = c.p
      <4>1. Post(c, StateOf(c.p)) \subseteq M
        BY <2>1, <3>1 DEF Meets, Top, Post
      <4> QED BY <3>1, <4>1 DEF Run
    <3>2. CASE q # c.p
      <4>1. StateOf(q)' = StateOf(q) /\ {StateOf(q)} \in SUBSET PlayerStates
        BY <2>2, <3>2 DEF Only
      <4>3. Run(q, body, {StateOf(q)}, {StateOf(q)})
        BY <3>2, <4>1, Bystander
      <4>2. StateOf(q) \in M
        BY <2>1, <3>2 DEF Meets, Top
      <4> QED BY <3>2, <4>1, <4>2, <4>3 DEF Run
    <3> QED BY <3>1, <3>2
  <2>4. Run(q, body \o Tail(calls), {StateOf(q)'}, RestStates)
    BY <1>1, <2>1, <2>3, RunConcat
  <2>5. Run(q, calls', {StateOf(q)'}, RestStates)
    BY <1>2, <2>4
  <2> QED BY <2>5 DEF Promise, Run, Meets
<1> QED BY <1>2, <1>4, <1>5 DEF IInv

\* A call returns, having done what it promised.
LEMMA CallReturns ==
  ASSUME IInv, calls # <<>>, NEW c, c = Top, Returns,
         dialog' = dialog, Data', MixerOK', Only(c.p),
         After(c, StateOf(c.p), StateOf(c.p)')
  PROVE  IInv'
<1>1. c.p \in Players
  BY TopIsReady
<1>2. StateOf(c.p)' \in PlayerStates
  BY <1>1, NextStateType
<1>3. Run(c.p, <<>>, {StateOf(c.p)'}, Post(c, StateOf(c.p)))
  BY <1>2, RunNothing DEF Post
<1>4. <<>> \in Seq(AllCalls) /\ 1..Len(<<>>) = {} /\ Becomes(<<>>)
  BY DEF Returns
<1> QED BY <1>3, <1>4, CallStep

\* A call that is replaced by others, nothing else being changed.
LEMMA CallExpands ==
  ASSUME IInv, calls # <<>>, NEW c, c = Top, NEW body \in Seq(AllCalls), Becomes(body),
         UNCHANGED <<mixer, flags, song, dialog>>,
         \A i \in 1..Len(body) : body[i].p = c.p /\ body[i].op # "openDialog",
         c.op # "assureNotSuspended",
         Run(c.p, body, {StateOf(c.p)}, Post(c, StateOf(c.p)))
  PROVE  IInv'
<1>1. Data' /\ MixerOK' /\ dialog' = dialog
  BY DEF IInv, Data, MixerOK, mixer, flags, song
<1>2. \A q : StateOf(q)' = StateOf(q)
  BY DEF StateOf, FlagsOf, Asked, mixer, flags, song
<1>3. Only(c.p) /\ StateOf(c.p)' = StateOf(c.p)
  BY <1>2 DEF Only
<1>4. dialog = {}
  BY NoDialog
<1> QED BY <1>1, <1>3, <1>4, CallStep

\* A call that returns at once.
LEMMA CallIsIdle ==
  ASSUME IInv, calls # <<>>, NEW c, c = Top, Returns,
         UNCHANGED <<mixer, flags, song, dialog>>,
         After(c, StateOf(c.p), StateOf(c.p))
  PROVE  IInv'
<1>1. Data' /\ MixerOK' /\ dialog' = dialog
  BY DEF IInv, Data, MixerOK, mixer, flags, song
<1>2. \A q : StateOf(q)' = StateOf(q)
  BY DEF StateOf, FlagsOf, Asked, mixer, flags, song
<1>3. Only(c.p) /\ StateOf(c.p)' = StateOf(c.p)
  BY <1>2 DEF Only
<1> QED BY <1>1, <1>3, CallReturns

-----------------------------------------------------------------------------
(* States, by their fields. *)

LEMMA SameState ==
  ASSUME NEW a \in PlayerStates, NEW b \in PlayerStates,
         a.flags = b.flags, a.mode = b.mode, a.last = b.last, a.content = b.content
  PROVE  a = b
BY DEF PlayerStates

LEMMA StateFields ==
  ASSUME NEW a \in PlayerStates
  PROVE  /\ a.flags \in Flags /\ a.mode \in Modes /\ a.last \in Modes \ {"row"}
         /\ a.content \in {"some", "none"}
         /\ \A z \in Flags : /\ Put(a, z) \in PlayerStates /\ Put(a, z).flags = z
                             /\ Put(a, z).mode = a.mode /\ Put(a, z).last = a.last
                             /\ Put(a, z).content = a.content
         /\ \A m \in Modes : /\ Plays(a, m) \in PlayerStates /\ Plays(a, m).flags = a.flags
                             /\ Plays(a, m).mode = m /\ Plays(a, m).last = a.last
                             /\ Plays(a, m).content = a.content
         /\ Stopped(a) \in PlayerStates /\ Stopped(a).flags = a.flags
         /\ Stopped(a).mode = "stopped" /\ Stopped(a).content = a.content
         /\ Stopped(a).last = IF a.mode = "row" THEN "stopped" ELSE a.mode
BY DEF PlayerStates, Put, Plays, Stopped, State, Modes

LEMMA FlagChanges ==
  ASSUME NEW z \in Flags
  PROVE  Resumed(z) \in Flags /\ Within(z) \in Flags /\ Released(z) \in Flags
BY DEF Flags, Resumed, Within, Released

LEMMA ContinuedFields ==
  ASSUME NEW a \in PlayerStates
  PROVE  /\ Continued(a) \in PlayerStates
         /\ Continued(a).flags = IF Continues(a) THEN Released(a.flags) ELSE a.flags
         /\ Continued(a).mode = IF Continues(a) THEN a.last ELSE a.mode
         /\ Continued(a).last = a.last /\ Continued(a).content = a.content
<1>1. Plays(a, a.last) \in PlayerStates /\ Released(a.flags) \in Flags
  BY StateFields, FlagChanges
<1>2. Put(Plays(a, a.last), Released(a.flags)) \in PlayerStates
  BY <1>1, StateFields
<1> QED BY <1>1, <1>2, StateFields DEF Continued

-----------------------------------------------------------------------------
(* Bodies of one, two and three calls.  a is the state the call is made in; *)
(* m and n are those between the calls of its body.                        *)

LEMMA TopCall ==
  ASSUME IInv, calls # <<>>, NEW c, NEW p, c = Top, p = c.p
  PROVE  /\ c \in AllCalls /\ p \in Players /\ c.flag \in BOOLEAN /\ c.mode \in Modes
         /\ StateOf(p) \in PlayerStates
         /\ Ready(c, StateOf(p))
<1>1. c \in AllCalls /\ StateOf(p) \in PlayerStates /\ Ready(c, StateOf(p))
  BY TopIsReady
<1> QED BY <1>1 DEF AllCalls

LEMMA ExpandsToOne ==
  ASSUME IInv, calls # <<>>, NEW c, NEW p, NEW a, c = Top, p = c.p, a = StateOf(p),
         c.op # "assureNotSuspended", UNCHANGED <<mixer, flags, song, dialog>>,
         NEW d \in AllCalls, d.p = p, d.op # "openDialog", Becomes(<<d>>),
         Ready(d, a), \A b \in PlayerStates : After(d, a, b) => After(c, a, b)
  PROVE  IInv'
<1>1. a \in PlayerStates
  BY TopCall
<1>2. Run(p, <<d>>, {a}, Post(c, a))
  BY <1>1, RunPost
<1>3. <<d>> \in Seq(AllCalls) /\ \A i \in 1..Len(<<d>>) : <<d>>[i] = d
  OBVIOUS
<1> QED BY <1>2, <1>3, CallExpands

LEMMA ExpandsToTwo ==
  ASSUME IInv, calls # <<>>, NEW c, NEW p, NEW a, c = Top, p = c.p, a = StateOf(p),
         c.op # "assureNotSuspended", UNCHANGED <<mixer, flags, song, dialog>>,
         NEW d \in AllCalls, d.p = p, d.op # "openDialog",
         NEW e \in AllCalls, e.p = p, e.op # "openDialog", Becomes(<<d, e>>),
         NEW m \in PlayerStates,
         Ready(d, a), \A b \in PlayerStates : After(d, a, b) => b = m,
         Ready(e, m), \A b \in PlayerStates : After(e, m, b) => After(c, a, b)
  PROVE  IInv'
<1>1. a \in PlayerStates
  BY TopCall
<1>2. Run(p, <<d>>, {a}, {m})
  BY <1>1, RunTo
<1>3. Run(p, <<e>>, {m}, Post(c, a))
  BY RunPost
<1>4. Run(p, <<d, e>>, {a}, Post(c, a)) /\ <<d, e>> \in Seq(AllCalls)
  BY <1>2, <1>3, RunTwo, ConsIsConcat
<1>5. \A i \in 1..Len(<<d, e>>) : <<d, e>>[i].p = p /\ <<d, e>>[i].op # "openDialog"
  OBVIOUS
<1> QED BY <1>4, <1>5, CallExpands

LEMMA ExpandsToThree ==
  ASSUME IInv, calls # <<>>, NEW c, NEW p, NEW a, c = Top, p = c.p, a = StateOf(p),
         c.op # "assureNotSuspended", UNCHANGED <<mixer, flags, song, dialog>>,
         NEW d \in AllCalls, d.p = p, d.op # "openDialog",
         NEW e \in AllCalls, e.p = p, e.op # "openDialog",
         NEW f \in AllCalls, f.p = p, f.op # "openDialog", Becomes(<<d, e, f>>),
         NEW m \in PlayerStates, NEW n \in PlayerStates,
         Ready(d, a), \A b \in PlayerStates : After(d, a, b) => b = m,
         Ready(e, m), \A b \in PlayerStates : After(e, m, b) => b = n,
         Ready(f, n), \A b \in PlayerStates : After(f, n, b) => After(c, a, b)
  PROVE  IInv'
<1>1. a \in PlayerStates
  BY TopCall
<1>2. Run(p, <<d>>, {a}, {m})
  BY <1>1, RunTo
<1>3. Run(p, <<e>>, {m}, {n})
  BY RunTo
<1>4. Run(p, <<f>>, {n}, Post(c, a))
  BY RunPost
<1>5. Run(p, <<d, e, f>>, {a}, Post(c, a)) /\ <<d, e, f>> \in Seq(AllCalls)
  BY <1>2, <1>3, <1>4, RunThree, ConsIsConcat
<1>6. \A i \in 1..Len(<<d, e, f>>) : /\ <<d, e, f>>[i].p = p
                                     /\ <<d, e, f>>[i].op # "openDialog"
  OBVIOUS
<1> QED BY <1>5, <1>6, CallExpands

-----------------------------------------------------------------------------
(* PlayerCriticalSection. *)

LEMMA EnteredMeets ==
  ASSUME IInv, Entered, NEW c, NEW p, c = Top, p = c.p
  PROVE  IInv'
<1> DEFINE a == StateOf(p)
<1>1. calls # <<>> /\ c.op = "entered"
  BY DEF Entered, At
<1>2. p \in Players /\ a \in PlayerStates /\ a.flags \in {"detached", "silent"}
  BY <1>1, TopIsReady DEF Ready
<1>3. Data' /\ MixerOK' /\ dialog' = dialog /\ Returns
  BY <1>2 DEF Entered, IInv, Data, MixerOK, mixer, song
<1>4. Only(p)
  BY DEF Entered, Only, StateOf, FlagsOf, Asked, mixer, song
<1>5. After(c, a, StateOf(p)')
  <2>1. FlagsOf(p)' = Within(a.flags)
    BY <1>2 DEF Entered, StateOf, State, FlagsOf, Asked, Within, mixer, song
  <2>2. StateOf(p)' = Put(a, Within(a.flags))
    BY <2>1 DEF Entered, StateOf, State, Put, mixer, song
  <2> QED BY <1>1, <2>2 DEF After
<1> QED BY <1>1, <1>3, <1>4, <1>5, CallReturns

LEMMA LeftMeets ==
  ASSUME IInv, Left, NEW c, NEW p, c = Top, p = c.p
  PROVE  IInv'
<1> DEFINE a == StateOf(p)
<1>1. calls # <<>> /\ c.op = "left"
  BY DEF Left, At
<1>2. /\ p \in Players /\ a \in PlayerStates
      /\ a.flags \in {"detached", "detachedIn", "audible", "leaving"}
  BY <1>1, TopIsReady DEF Ready
<1>3. Data' /\ MixerOK' /\ dialog' = dialog /\ Returns
  BY <1>2 DEF Left, IInv, Data, MixerOK, mixer, song
<1>4. Only(p)
  BY DEF Left, Only, StateOf, FlagsOf, Asked, mixer, song
<1>5. After(c, a, StateOf(p)')
  <2>1. FlagsOf(p)' = Released(a.flags)
    BY <1>2 DEF Left, StateOf, State, FlagsOf, Asked, Released, mixer, song
  <2>2. StateOf(p)' = Put(a, Released(a.flags))
    BY <2>1 DEF Left, StateOf, State, Put, mixer, song
  <2> QED BY <1>1, <2>2 DEF After
<1> QED BY <1>1, <1>3, <1>4, <1>5, CallReturns

LEMMA EnterMeets ==
  ASSUME IInv, Enter, NEW c, NEW p, c = Top, p = c.p
  PROVE  IInv'
<1> DEFINE a == StateOf(p)
<1>1. calls # <<>> /\ c.op = "enter" /\ UNCHANGED <<mixer, flags, song, dialog>>
  BY DEF Enter, At
<1>2. /\ p \in Players /\ c.flag \in BOOLEAN
      /\ a \in PlayerStates /\ a.flags \in Settled
  BY <1>1, TopCall DEF Ready
<1>3. CASE p \in enabled
  <2>1. a.flags \in {"inside", "detachedIn"}
    BY <1>2, <1>3 DEF StateOf, State, FlagsOf, Settled, Closed
  <2>2. Put(a, Within(a.flags)) = a
    BY <1>2, <2>1, SameState, StateFields, FlagChanges DEF Within
  <2>3. After(c, a, a)
    BY <1>1, <2>1, <2>2 DEF After
  <2> QED BY <1>1, <1>3, <2>3, CallIsIdle DEF Enter
<1>4. CASE p \notin enabled
  <2> DEFINE d == With("suspend", p, c.flag)
             e == Call("entered", p)
             m == IF a.flags # "audible" THEN a
                  ELSE Put(IF c.flag THEN Stopped(a) ELSE a, "silent")
  <2>1. Becomes(<<d, e>>)
    BY <1>4 DEF Enter
  <2>2. d \in AllCalls /\ d.op = "suspend" /\ d.p = p
    BY <1>2 DEF With, Call, AllCalls, Ops, Modes
  <2>3. d.flag = c.flag
    BY <1>2 DEF With, Call, AllCalls, Ops, Modes
  <2>4. e \in AllCalls /\ e.op = "entered" /\ e.p = p
    BY <1>2 DEF Call, AllCalls, Ops, Modes
  <2>5. a.flags \in Closed
    BY <1>2, <1>4 DEF StateOf, State, FlagsOf, Settled, Closed
  <2>6. m \in PlayerStates /\ m.flags \in {"detached", "silent"}
    BY <1>2, <2>5, StateFields DEF Flags, Closed
  <2>7. Ready(d, a) /\ Ready(e, m)
    BY <2>2, <2>4, <2>5, <2>6 DEF Ready
  <2>8. ASSUME NEW b, After(d, a, b) PROVE b = m
    BY <2>2, <2>3, <2>8 DEF After
  <2>9. ASSUME NEW b, After(e, m, b) PROVE After(c, a, b)
    <3>1. b = Put(m, Within(m.flags))
      BY <2>4, <2>9 DEF After
    <3>2. b = Put(IF a.flags = "audible" /\ c.flag THEN Stopped(a) ELSE a, Within(a.flags))
      BY <2>5, <3>1 DEF Put, State, Stopped, Within, Closed
    <3> QED BY <1>1, <3>2 DEF After
  <2> HIDE DEF d, e, m, a
  <2> QED
    BY <1>1, <2>1, <2>2, <2>4, <2>6, <2>7, <2>8, <2>9, ExpandsToTwo DEF a
<1> QED BY <1>3, <1>4

LEMMA LeaveMeets ==
  ASSUME IInv, Leave, NEW c, NEW p, c = Top, p = c.p
  PROVE  IInv'
<1> DEFINE a == StateOf(p)
<1>1. calls # <<>> /\ c.op = "leave" /\ UNCHANGED <<mixer, flags, song, dialog>>
  BY DEF Leave, At
<1>2. /\ p \in Players /\ c.flag \in BOOLEAN
      /\ a \in PlayerStates /\ a.flags \in Settled
  BY <1>1, TopCall DEF Ready
<1>3. CASE p \notin enabled
  <2>1. a.flags \in Closed
    BY <1>2, <1>3 DEF StateOf, State, FlagsOf, Settled, Closed
  <2>2. Put(a, Released(a.flags)) = a
    BY <1>2, <2>1, SameState, StateFields, FlagChanges DEF Released, Closed
  <2>3. After(c, a, a)
    BY <1>1, <2>1, <2>2 DEF After, Closed
  <2> QED BY <1>1, <1>3, <2>3, CallIsIdle DEF Leave
<1>4. CASE p \in enabled
  <2> DEFINE d == With("resume", p, c.flag)
             e == Call("left", p)
             r == IF c.flag THEN Continued(a) ELSE a
             m == Put(r, Resumed(r.flags))
  <2>1. Becomes(<<d, e>>)
    BY <1>4 DEF Leave
  <2>2. d \in AllCalls /\ d.op = "resume" /\ d.p = p
    BY <1>2 DEF With, Call, AllCalls, Ops, Modes
  <2>3. d.flag = c.flag
    BY <1>2 DEF With, Call, AllCalls, Ops, Modes
  <2>4. e \in AllCalls /\ e.op = "left" /\ e.p = p
    BY <1>2 DEF Call, AllCalls, Ops, Modes
  <2>5. a.flags \in {"inside", "detachedIn"}
    BY <1>2, <1>4 DEF StateOf, State, FlagsOf, Settled, Closed
  <2>6. r \in PlayerStates /\ r.flags \in {"detached", "detachedIn", "inside", "audible"}
    BY <1>2, <2>5, ContinuedFields DEF Released
  <2>7. /\ m \in PlayerStates
        /\ m.flags \in {"detached", "detachedIn", "audible", "leaving"}
    <3>1. Resumed(r.flags) \in Flags
      BY <2>6, FlagChanges DEF Flags
    <3>2. m \in PlayerStates /\ m.flags = Resumed(r.flags)
      BY <2>6, <3>1, StateFields
    <3> QED BY <2>6, <3>2 DEF Resumed
  <2>8. Ready(d, a) /\ Ready(e, m)
    BY <1>2, <2>2, <2>4, <2>7 DEF Ready
  <2>9. ASSUME NEW b, After(d, a, b) PROVE b = m
    BY <2>2, <2>3, <2>9 DEF After
  <2>10. ASSUME NEW b, After(e, m, b) PROVE After(c, a, b)
    <3>1. b = Put(m, Released(m.flags))
      BY <2>4, <2>10 DEF After
    <3>2. Released(m.flags) = Released(a.flags)
      <4>1. m.flags = Resumed(r.flags)
        BY DEF Put, State
      <4>2. r.flags = a.flags \/ r.flags = Released(a.flags)
        BY <1>2, ContinuedFields
      <4> QED BY <2>5, <4>1, <4>2 DEF Released, Resumed
    <3>3. b = Put(r, Released(a.flags))
      BY <3>1, <3>2 DEF Put, State
    <3> QED BY <1>1, <2>5, <3>3 DEF After
  <2> HIDE DEF d, e, m, r, a
  <2> QED
    BY <1>1, <2>1, <2>2, <2>4, <2>7, <2>8, <2>9, <2>10, ExpandsToTwo DEF a
<1> QED BY <1>3, <1>4

-----------------------------------------------------------------------------
(* PlayerController. *)

LEMMA SuspendMeets ==
  ASSUME IInv, Suspend, NEW c, NEW p, c = Top, p = c.p
  PROVE  IInv'
<1> DEFINE a == StateOf(p)
<1>1. calls # <<>> /\ c.op = "suspend" /\ UNCHANGED <<mixer, flags, song, dialog>>
  BY DEF Suspend, At
<1>2. /\ p \in Players /\ c.flag \in BOOLEAN
      /\ a \in PlayerStates /\ a.flags \in Closed
  BY <1>1, TopCall DEF Ready
<1>3. CASE p \in suspended \/ p \notin attached
  <2>1. a.flags # "audible"
    BY <1>3 DEF StateOf, State, FlagsOf
  <2>2. After(c, a, a)
    BY <1>1, <2>1 DEF After
  <2>3. Returns
    BY <1>3 DEF Suspend, Returns
  <2> QED BY <1>1, <2>2, <2>3, CallIsIdle
<1>4. CASE ~(p \in suspended \/ p \notin attached)
  <2> DEFINE d == With("pauseDevice", p, c.flag)
  <2>1. Becomes(<<d>>)
    BY <1>4 DEF Suspend
  <2>2. d \in AllCalls /\ d.op = "pauseDevice" /\ d.p = p
    BY <1>2 DEF With, Call, AllCalls, Ops, Modes
  <2>3. d.flag = c.flag
    BY <1>2 DEF With, Call, AllCalls, Ops, Modes
  <2>4. a.flags = "audible"
    BY <1>2, <1>4 DEF StateOf, State, FlagsOf, Closed
  <2>5. Ready(d, a)
    BY <2>2, <2>4 DEF Ready
  <2>6. ASSUME NEW b, After(d, a, b) PROVE After(c, a, b)
    BY <1>1, <2>2, <2>3, <2>4, <2>6 DEF After
  <2> HIDE DEF d, a
  <2> QED BY <1>1, <2>1, <2>2, <2>5, <2>6, ExpandsToOne DEF a
<1> QED BY <1>3, <1>4

LEMMA PauseDeviceMeets ==
  ASSUME IInv, PauseDevice, NEW c, NEW p, c = Top, p = c.p
  PROVE  IInv'
<1> DEFINE a == StateOf(p)
           d == Call("stop", p)
           m == Put(a, "silent")
<1>1. calls # <<>> /\ c.op = "pauseDevice" /\ UNCHANGED <<enabled, song, dialog>>
  BY DEF PauseDevice, At
<1>2. /\ p \in Players /\ c.flag \in BOOLEAN
      /\ a \in PlayerStates /\ a.flags = "audible"
  BY <1>1, TopCall DEF Ready
<1>3. /\ p \notin rendering /\ p \in attached
      /\ attached' = attached /\ rendering' = rendering
      /\ silenced' = silenced \union {p} /\ suspended' = suspended \union {p}
      /\ Becomes(IF c.flag THEN <<d>> ELSE <<>>)
  BY DEF PauseDevice, Mixer!Silence
<1>4. Data' /\ MixerOK'
  BY <1>1, <1>2, <1>3 DEF IInv, Data, MixerOK, song
<1>5. dialog = {}
  BY <1>1, NoDialog
<1>6. Only(p)
  BY <1>1, <1>3 DEF Only, StateOf, FlagsOf, Asked, song
<1>7. StateOf(p)' = m
  <2>1. FlagsOf(p)' = "silent"
    BY <1>1, <1>2, <1>3, <1>5 DEF StateOf, State, FlagsOf, Asked
  <2> QED BY <1>1, <2>1 DEF StateOf, State, Put, song
<1>8. m \in PlayerStates /\ m.flags = "silent"
  BY <1>2, StateFields DEF Flags
<1>9. CASE ~c.flag
  <2>1. After(c, a, m)
    BY <1>1, <1>9 DEF After
  <2>2. Returns
    BY <1>3, <1>9 DEF Returns
  <2> QED BY <1>1, <1>4, <1>6, <1>7, <2>1, <2>2, CallReturns
<1>10. CASE c.flag
  <2>1. d \in AllCalls /\ d.op = "stop" /\ d.p = p
    BY <1>2 DEF Call, AllCalls, Ops, Modes
  <2>2. Ready(d, m)
    BY <1>8, <2>1 DEF Ready, Settled, Closed
  <2>3. ASSUME NEW b, After(d, m, b) PROVE After(c, a, b)
    <3>1. b = Put(Stopped(m), Released("silent"))
      BY <1>8, <2>1, <2>3 DEF After
    <3>2. b = Put(Stopped(a), "silent")
      BY <3>1 DEF Put, Stopped, State, Released
    <3> QED BY <1>1, <1>10, <3>2 DEF After
  <2> HIDE DEF d, m
  <2>4. Run(p, <<d>>, {m}, Post(c, a))
    BY <1>8, <2>1, <2>2, <2>3, RunPost
  <2>5. <<d>> \in Seq(AllCalls) /\ \A i \in 1..Len(<<d>>) : <<d>>[i] = d
    BY <2>1
  <2>6. Becomes(<<d>>)
    BY <1>3, <1>10
  <2> QED BY <1>1, <1>4, <1>5, <1>6, <1>7, <2>1, <2>4, <2>5, <2>6, CallStep
<1> QED BY <1>2, <1>9, <1>10

LEMMA ResumeMeets ==
  ASSUME IInv, Resume, NEW c, NEW p, c = Top, p = c.p
  PROVE  IInv'
<1> DEFINE a == StateOf(p)
           d == With("continue", p, p \notin suspended)
           e == Call("resumeDevice", p)
           r == IF c.flag THEN Continued(a) ELSE a
<1>1. calls # <<>> /\ c.op = "resume" /\ UNCHANGED <<mixer, flags, song, dialog>>
  BY DEF Resume, At
<1>2. /\ p \in Players /\ c.flag \in BOOLEAN
      /\ a \in PlayerStates /\ a.flags \in Settled
  BY <1>1, TopCall DEF Ready
<1>3. e \in AllCalls /\ e.op = "resumeDevice" /\ e.p = p
  BY <1>2 DEF Call, AllCalls, Ops, Modes
<1>4. r \in PlayerStates /\ r.flags \in Settled
  BY <1>2, ContinuedFields DEF Settled, Closed, Released
<1>5. Ready(e, r)
  BY <1>3, <1>4 DEF Ready
<1>6. ASSUME NEW b, After(e, r, b) PROVE After(c, a, b)
  BY <1>1, <1>3, <1>6 DEF After
<1>7. CASE ~c.flag
  <2>1. Becomes(<<e>>)
    <3>1. <<e>> \in Seq(AllCalls) /\ <<>> \o <<e>> = <<e>>
      BY <1>3, ConsIsConcat, ConcatEmptySeq
    <3> QED BY <1>7, <3>1 DEF Resume
  <2>2. r = a
    BY <1>7
  <2> HIDE DEF a, e, r
  <2> QED BY <1>1, <1>3, <1>5, <1>6, <2>1, <2>2, ExpandsToOne DEF a
<1>8. CASE c.flag
  <2>1. d \in AllCalls /\ d.op = "continue" /\ d.p = p
    <3>1. (p \notin suspended) \in BOOLEAN
      OBVIOUS
    <3> QED BY <1>2, <3>1 DEF With, Call, AllCalls, Ops, Modes
  <2>2. d.flag = (p \notin suspended)
    BY <1>2 DEF With, Call, AllCalls, Ops, Modes
  <2>3. Becomes(<<d, e>>)
    <3>1. <<d>> \o <<e>> = <<d, e>>
      BY <1>3, <2>1, ConsIsConcat
    <3> QED BY <1>8, <3>1 DEF Resume
  <2>4. p \notin suspended => a.flags \notin {"silent", "inside"}
    BY DEF StateOf, State, FlagsOf
  <2>5. Ready(d, a)
    BY <1>2, <2>1, <2>2, <2>4 DEF Ready
  <2>6. ASSUME NEW b, After(d, a, b) PROVE b = r
    BY <1>8, <2>1, <2>6 DEF After
  <2> HIDE DEF a, d, e, r
  <2> QED
    BY <1>1, <1>3, <1>4, <1>5, <1>6, <2>1, <2>3, <2>5, <2>6, ExpandsToTwo DEF a
<1> QED BY <1>2, <1>7, <1>8

\* Resuming a player in the mixer, by either function, is the same thing: it
\* is silenced if and only if it counts as suspended.
LEMMA ResumingMeets ==
  ASSUME IInv, calls # <<>>, NEW c, NEW p, c = Top, p = c.p, Returns,
         c.op \in {"resumeDevice", "assureNotSuspended"},
         attached' = attached, rendering' = rendering,
         silenced' = silenced \ {p}, suspended' = suspended \ {p},
         UNCHANGED <<enabled, song, dialog>>
  PROVE  IInv'
<1> DEFINE a == StateOf(p)
<1>1. p \in Players /\ a \in PlayerStates /\ Ready(c, a)
  BY TopCall
<1>2. Data' /\ MixerOK'
  BY DEF IInv, Data, MixerOK, song
<1>3. Only(p)
  BY DEF Only, StateOf, FlagsOf, Asked, song
<1>4. After(c, a, StateOf(p)')
  <2>1. FlagsOf(p)' = Resumed(a.flags)
    BY DEF StateOf, State, FlagsOf, Asked, Resumed
  <2>2. StateOf(p)' = Put(a, Resumed(a.flags))
    BY <2>1 DEF StateOf, State, Put, song
  <2> QED BY <2>2 DEF After
<1> QED BY <1>2, <1>3, <1>4, CallReturns

LEMMA ResumeDeviceMeets ==
  ASSUME IInv, ResumeDevice, NEW c, NEW p, c = Top, p = c.p
  PROVE  IInv'
<1>1. /\ calls # <<>> /\ c.op = "resumeDevice" /\ Returns
      /\ UNCHANGED <<enabled, song, dialog>>
  BY DEF ResumeDevice, At
<1>2. silenced = suspended
  BY DEF IInv, MixerOK
<1>3. /\ attached' = attached /\ rendering' = rendering
      /\ silenced' = silenced \ {p} /\ suspended' = suspended \ {p}
  BY <1>2 DEF ResumeDevice, Unsilence, Mixer!Resume, mixer
<1> QED BY <1>1, <1>3, ResumingMeets

LEMMA AssureNotSuspendedMeets ==
  ASSUME IInv, AssureNotSuspended, NEW c, NEW p, c = Top, p = c.p
  PROVE  IInv'
<1>1. /\ calls # <<>> /\ c.op = "assureNotSuspended" /\ Returns
      /\ UNCHANGED <<enabled, song, dialog>>
  BY DEF AssureNotSuspended, At
<1>2. silenced = suspended
  BY DEF IInv, MixerOK
<1>3. /\ attached' = attached /\ rendering' = rendering
      /\ silenced' = silenced \ {p} /\ suspended' = suspended \ {p}
  BY <1>2 DEF AssureNotSuspended, Unsilence, Mixer!Resume, mixer
<1> QED BY <1>1, <1>3, ResumingMeets

\* What halt and restart make of a player.
Touched(t, a) == IF t.op = "halt" THEN Stopped(a) ELSE Plays(a, t.mode)

\* A player that is not suspended is touched in a section of its own; one
\* that is, as it is; and a section that was open before is left with it.
LEMMA InSectionMeets ==
  ASSUME IInv, calls # <<>>, NEW c, NEW p, NEW a, c = Top, p = c.p, a = StateOf(p),
         c.op # "assureNotSuspended", UNCHANGED <<mixer, flags, song, dialog>>,
         NEW t \in AllCalls, t.p = p, t.op \in {"halt", "restart"},
         Becomes(InSection(p, t)), a.flags \in Settled,
         After(c, a, Put(Touched(t, a), Released(a.flags)))
  PROVE  IInv'
<1> DEFINE d == Call("enter", p)
           f == Call("leave", p)
<1>1. p \in Players /\ a \in PlayerStates
  BY TopCall
<1>2. /\ d \in AllCalls /\ d.op = "enter" /\ d.p = p
      /\ f \in AllCalls /\ f.op = "leave" /\ f.p = p
  BY <1>1 DEF Call, AllCalls, Ops, Modes
<1>3. ~d.flag /\ ~f.flag
  BY <1>1 DEF Call, AllCalls, Ops, Modes
<1>4. ASSUME NEW m \in PlayerStates
      PROVE  Touched(t, m) \in PlayerStates /\ Touched(t, m).flags = m.flags
  BY StateFields DEF Touched, AllCalls
<1>5. ASSUME NEW m \in PlayerStates, m.flags \in Quiet
      PROVE  Ready(t, m) /\ \A b : After(t, m, b) => b = Touched(t, m)
  BY <1>5 DEF Ready, After, Touched
<1>6. ASSUME NEW m, m.flags \in Settled
      PROVE  Ready(f, m) /\ \A b : After(f, m, b) => b = Put(m, Released(m.flags))
  BY <1>2, <1>3, <1>6 DEF Ready, After
<1>7. <<t, f>> \in Seq(AllCalls) /\ <<d>> \o <<t, f>> = <<d, t, f>> /\ <<>> \o <<t, f>> = <<t, f>>
  BY <1>2, ConsIsConcat, ConcatEmptySeq
<1>8. CASE p \in suspended
  <2> DEFINE m == Touched(t, a)
  <2>1. Becomes(<<t, f>>)
    BY <1>7, <1>8 DEF InSection
  <2>2. p \in attached
    BY <1>8 DEF IInv, MixerOK
  <2>3. a.flags \in Quiet
    BY <1>8, <2>2 DEF StateOf, State, FlagsOf, Settled, Closed, Quiet
  <2>4. m \in PlayerStates /\ m.flags = a.flags
    BY <1>1, <1>4
  <2>5. Ready(t, a) /\ \A b : After(t, a, b) => b = m
    BY <1>1, <1>5, <2>3
  <2>6. Ready(f, m) /\ \A b : After(f, m, b) => After(c, a, b)
    BY <1>6, <2>4
  <2> HIDE DEF m, d, f
  <2> QED BY <1>2, <2>1, <2>4, <2>5, <2>6, ExpandsToTwo
<1>9. CASE p \notin suspended
  <2> DEFINE m == Put(a, Within(a.flags))
             n == Touched(t, m)
  <2>1. Becomes(<<d, t, f>>)
    BY <1>7, <1>9 DEF InSection
  <2>2. a.flags \in {"detached", "detachedIn", "audible"}
    BY <1>9 DEF StateOf, State, FlagsOf, Settled, Closed
  <2>3. m \in PlayerStates /\ m.flags \in {"detachedIn", "inside"}
    <3>1. Within(a.flags) \in Flags
      BY <1>1, StateFields, FlagChanges
    <3>2. m \in PlayerStates /\ m.flags = Within(a.flags)
      BY <1>1, <3>1, StateFields
    <3> QED BY <2>2, <3>2 DEF Within
  <2>4. Ready(d, a) /\ \A b : After(d, a, b) => b = m
    BY <1>2, <1>3 DEF Ready, After
  <2>5. n \in PlayerStates /\ n.flags = m.flags
    BY <1>4, <2>3
  <2>6. Ready(t, m) /\ \A b : After(t, m, b) => b = n
    BY <1>5, <2>3 DEF Quiet
  <2>7. Put(n, Released(n.flags)) = Put(Touched(t, a), Released(a.flags))
    <3>1. Released(n.flags) = Released(a.flags)
      <4>1. m.flags = Within(a.flags)
        BY DEF Put, State
      <4> QED BY <2>2, <2>5, <4>1 DEF Within, Released
    <3>2. n.mode = Touched(t, a).mode /\ n.last = Touched(t, a).last
          /\ n.content = Touched(t, a).content
      BY DEF Touched, Put, Plays, Stopped, State
    <3> QED BY <3>1, <3>2 DEF Put
  <2>8. Ready(f, n) /\ \A b : After(f, n, b) => After(c, a, b)
    BY <1>6, <2>3, <2>5, <2>7 DEF Settled
  <2> HIDE DEF m, n, d, f
  <2> QED BY <1>2, <2>1, <2>3, <2>4, <2>5, <2>6, <2>8, ExpandsToThree
<1> QED BY <1>8, <1>9

LEMMA StopMeets ==
  ASSUME IInv, Stop, NEW c, NEW p, c = Top, p = c.p
  PROVE  IInv'
<1> DEFINE a == StateOf(p)
           t == Call("halt", p)
<1>1. calls # <<>> /\ c.op = "stop" /\ UNCHANGED <<mixer, flags, song, dialog>>
  BY DEF Stop, At
<1>2. p \in Players /\ a.flags \in Settled
  BY <1>1, TopCall DEF Ready
<1>3. t \in AllCalls /\ t.op = "halt" /\ t.p = p
  BY <1>2 DEF Call, AllCalls, Ops, Modes
<1>4. Becomes(InSection(p, t))
  BY DEF Stop
<1>5. After(c, a, Put(Touched(t, a), Released(a.flags)))
  BY <1>1, <1>3 DEF After, Touched
<1> HIDE DEF a, t
<1> QED BY <1>1, <1>2, <1>3, <1>4, <1>5, InSectionMeets DEF a

LEMMA StartMeets ==
  ASSUME IInv, Start, NEW c, NEW p, c = Top, p = c.p
  PROVE  IInv'
<1> DEFINE a == StateOf(p)
           t == In("restart", p, c.mode)
<1>1. calls # <<>> /\ c.op = "start" /\ UNCHANGED <<mixer, flags, song, dialog>>
  BY DEF Start, At
<1>2. p \in Players /\ c.mode \in Modes /\ a.flags \in Settled
  BY <1>1, TopCall DEF Ready
<1>3. t \in AllCalls /\ t.op = "restart" /\ t.p = p /\ t.mode = c.mode
  BY <1>2 DEF In, Call, AllCalls, Ops, Modes
<1>4. Becomes(InSection(p, t))
  BY DEF Start
<1>5. After(c, a, Put(Touched(t, a), Released(a.flags)))
  BY <1>1, <1>3 DEF After, Touched
<1> HIDE DEF a, t
<1> QED BY <1>1, <1>2, <1>3, <1>4, <1>5, InSectionMeets DEF a

LEMMA HaltMeets ==
  ASSUME IInv, Halt, NEW c, NEW p, c = Top, p = c.p
  PROVE  IInv'
<1> DEFINE a == StateOf(p)
<1>1. calls # <<>> /\ c.op = "halt" /\ Returns /\ UNCHANGED <<mixer, flags, loaded, dialog>>
  BY DEF Halt, At
<1>2. p \in Players
  BY <1>1, TopCall
<1>3. /\ mode' = [mode EXCEPT ![p] = "stopped"]
      /\ last' = [last EXCEPT ![p] = IF mode[p] = "row" THEN "stopped" ELSE mode[p]]
  BY DEF Halt
<1>4. Data' /\ MixerOK'
  <2>1. mode' \in [Players -> Modes] /\ last' \in [Players -> Modes \ {"row"}]
    BY <1>2, <1>3 DEF IInv, Data, Modes
  <2> QED BY <1>1, <2>1 DEF IInv, Data, MixerOK, mixer, flags
<1>5. Only(p)
  BY <1>1, <1>2, <1>3 DEF IInv, Data, Only, StateOf, FlagsOf, Asked, mixer, flags
<1>6. StateOf(p)' = Stopped(a)
  <2>1. FlagsOf(p)' = a.flags
    BY <1>1 DEF StateOf, State, FlagsOf, Asked, mixer, flags
  <2>2. mode'[p] = "stopped" /\ last'[p] = IF a.mode = "row" THEN "stopped" ELSE a.mode
    BY <1>2, <1>3 DEF IInv, Data, StateOf, State
  <2>3. (IF p \in loaded' THEN "some" ELSE "none") = a.content
    BY <1>1 DEF StateOf, State
  <2> QED BY <2>1, <2>2, <2>3 DEF StateOf, Stopped
<1>7. After(c, a, StateOf(p)')
  BY <1>1, <1>6 DEF After
<1> QED BY <1>1, <1>4, <1>5, <1>7, CallReturns

LEMMA RestartMeets ==
  ASSUME IInv, Restart, NEW c, NEW p, c = Top, p = c.p
  PROVE  IInv'
<1> DEFINE a == StateOf(p)
<1>1. /\ calls # <<>> /\ c.op = "restart" /\ Returns
      /\ UNCHANGED <<mixer, flags, last, loaded, dialog>>
  BY DEF Restart, At
<1>2. p \in Players /\ c.mode \in Modes
  BY <1>1, TopCall
<1>3. mode' = [mode EXCEPT ![p] = c.mode]
  BY DEF Restart
<1>4. Data' /\ MixerOK'
  <2>1. mode' \in [Players -> Modes]
    BY <1>2, <1>3 DEF IInv, Data
  <2> QED BY <1>1, <2>1 DEF IInv, Data, MixerOK, mixer, flags
<1>5. Only(p)
  BY <1>1, <1>2, <1>3 DEF IInv, Data, Only, StateOf, FlagsOf, Asked, mixer, flags
<1>6. StateOf(p)' = Plays(a, c.mode)
  <2>1. FlagsOf(p)' = a.flags
    BY <1>1 DEF StateOf, State, FlagsOf, Asked, mixer, flags
  <2>2. mode'[p] = c.mode /\ last'[p] = a.last
    BY <1>1, <1>2, <1>3 DEF IInv, Data, StateOf, State
  <2>3. (IF p \in loaded' THEN "some" ELSE "none") = a.content
    BY <1>1 DEF StateOf, State
  <2> QED BY <2>1, <2>2, <2>3 DEF StateOf, Plays
<1>7. After(c, a, StateOf(p)')
  BY <1>1, <1>6 DEF After
<1> QED BY <1>1, <1>4, <1>5, <1>7, CallReturns

LEMMA RestartPlayingMeets ==
  ASSUME IInv, RestartPlaying, NEW c, NEW p, c = Top, p = c.p
  PROVE  IInv'
<1> DEFINE a == StateOf(p)
<1>1. /\ calls # <<>> /\ c.op = "restartPlaying" /\ Returns
      /\ UNCHANGED <<mixer, flags, mode, loaded, dialog>>
  BY DEF RestartPlaying, At
<1>2. p \in Players
  BY <1>1, TopCall
<1>3. last' = IF p \in loaded THEN [last EXCEPT ![p] = "song"] ELSE last
  BY DEF RestartPlaying
<1>4. Data' /\ MixerOK'
  <2>1. last' \in [Players -> Modes \ {"row"}]
    BY <1>2, <1>3 DEF IInv, Data, Modes
  <2> QED BY <1>1, <2>1 DEF IInv, Data, MixerOK, mixer, flags
<1>5. Only(p)
  BY <1>1, <1>2, <1>3 DEF IInv, Data, Only, StateOf, FlagsOf, Asked, mixer, flags
<1>6. After(c, a, StateOf(p)')
  <2>1. FlagsOf(p)' = FlagsOf(p)
    BY <1>1 DEF FlagsOf, Asked, mixer, flags
  <2>2. CASE p \in loaded
    <3>1. last'[p] = "song" /\ a.content = "some"
      BY <1>2, <1>3, <2>2 DEF IInv, Data, StateOf, State
    <3>2. StateOf(p)' = State(a.flags, a.mode, "song", "some")
      BY <1>1, <2>1, <2>2, <3>1 DEF StateOf, State
    <3> QED BY <1>1, <3>1, <3>2 DEF After
  <2>3. CASE p \notin loaded
    <3>1. StateOf(p)' = a /\ a.content = "none"
      BY <1>1, <1>3, <2>1, <2>3 DEF StateOf, State
    <3> QED BY <1>1, <3>1 DEF After
  <2> QED BY <2>2, <2>3
<1> QED BY <1>1, <1>4, <1>5, <1>6, CallReturns

LEMMA PlayMeets ==
  ASSUME IInv, Play, NEW c, NEW p, c = Top, p = c.p
  PROVE  IInv'
<1> DEFINE a == StateOf(p)
<1>1. calls # <<>> /\ c.op = "play" /\ UNCHANGED <<mixer, flags, song, dialog>>
  BY DEF Play, At
<1>2. p \in Players /\ c.mode \in Modes /\ a \in PlayerStates /\ a.flags \in Closed
  BY <1>1, TopCall DEF Ready
<1>3. CASE p \notin loaded
  <2>1. a.content = "none" /\ Returns
    BY <1>3 DEF Play, Returns, StateOf, State
  <2>2. After(c, a, a)
    BY <1>1, <2>1 DEF After
  <2> QED BY <1>1, <2>1, <2>2, CallIsIdle
<1>4. CASE p \in loaded
  <2> DEFINE d == Call("assureNotSuspended", p)
             e == In("start", p, c.mode)
             m == Put(a, Resumed(a.flags))
  <2>1. Becomes(<<d, e>>) /\ a.content = "some"
    BY <1>4 DEF Play, StateOf, State
  <2>2. d \in AllCalls /\ d.op = "assureNotSuspended" /\ d.p = p
    BY <1>2 DEF Call, AllCalls, Ops, Modes
  <2>3. e \in AllCalls /\ e.op = "start" /\ e.p = p /\ e.mode = c.mode
    BY <1>2 DEF In, Call, AllCalls, Ops, Modes
  <2>4. m \in PlayerStates /\ m.flags \in {"detached", "audible"}
    <3>1. m \in PlayerStates /\ m.flags = Resumed(a.flags)
      BY <1>2, StateFields, FlagChanges
    <3> QED BY <1>2, <3>1 DEF Resumed, Closed
  <2>5. Ready(d, a) /\ Ready(e, m)
    BY <1>2, <2>2, <2>3, <2>4 DEF Ready, Settled, Closed
  <2>6. ASSUME NEW b, After(d, a, b) PROVE b = m
    BY <2>2, <2>6 DEF After
  <2>7. ASSUME NEW b, After(e, m, b) PROVE After(c, a, b)
    <3>1. b = Put(Plays(m, c.mode), Released(m.flags))
      BY <2>3, <2>7 DEF After
    <3>2. Released(m.flags) = Resumed(a.flags)
      BY <2>4 DEF Released, Put, State
    <3>3. b = Put(Plays(a, c.mode), Resumed(a.flags))
      BY <3>1, <3>2 DEF Put, Plays, State
    <3> QED BY <1>1, <2>1, <3>3 DEF After
  <2> HIDE DEF d, e, m, a
  <2> QED BY <1>1, <2>1, <2>2, <2>3, <2>4, <2>5, <2>6, <2>7, ExpandsToTwo DEF a
<1> QED BY <1>3, <1>4

LEMMA ContinueMeets ==
  ASSUME IInv, Continue, NEW c, NEW p, c = Top, p = c.p
  PROVE  IInv'
<1> DEFINE a == StateOf(p)
           d == Call("assureNotSuspended", p)
           e == In("start", p, last[p])
<1>1. calls # <<>> /\ c.op = "continue" /\ UNCHANGED <<mixer, flags, song, dialog>>
  BY DEF Continue, At
<1>2. /\ p \in Players /\ c.flag \in BOOLEAN /\ a \in PlayerStates /\ a.flags \in Settled
      /\ c.flag => a.flags \notin {"silent", "inside"}
  BY <1>1, TopCall DEF Ready
<1>3. last[p] \in Modes /\ a.last = last[p]
  BY <1>2 DEF IInv, Data, StateOf, State
<1>4. Continues(a) <=> ~(last[p] = "stopped" \/ p \notin loaded)
  BY DEF Continues, StateOf, State
<1>5. d \in AllCalls /\ d.op = "assureNotSuspended" /\ d.p = p
  BY <1>2 DEF Call, AllCalls, Ops, Modes
<1>6. e \in AllCalls /\ e.op = "start" /\ e.p = p /\ e.mode = a.last
  BY <1>2, <1>3 DEF In, Call, AllCalls, Ops, Modes
<1>7. CASE ~Continues(a)
  <2>1. After(c, a, a)
    BY <1>1, <1>7 DEF After, Continued
  <2>2. Returns
    BY <1>4, <1>7 DEF Continue, Returns
  <2> QED BY <1>1, <2>1, <2>2, CallIsIdle
<1>8. CASE Continues(a)
  <2>1. Ready(e, a)
    BY <1>2, <1>6 DEF Ready
  <2>2. ASSUME NEW b, After(e, a, b) PROVE After(c, a, b)
    <3>1. b = Put(Plays(a, a.last), Released(a.flags))
      BY <1>6, <2>2 DEF After
    <3> QED BY <1>1, <1>8, <3>1 DEF After, Continued
  <2>3. CASE ~c.flag
    <3>1. <<e>> \in Seq(AllCalls) /\ <<>> \o <<e>> = <<e>>
      BY <1>6, ConsIsConcat, ConcatEmptySeq
    <3>2. Becomes(<<e>>)
      BY <1>4, <1>8, <2>3, <3>1 DEF Continue
    <3> HIDE DEF a, d, e
    <3> QED BY <1>1, <1>6, <2>1, <2>2, <3>2, ExpandsToOne DEF a
  <2>4. CASE c.flag
    <3>1. <<d>> \o <<e>> = <<d, e>>
      BY <1>5, <1>6, ConsIsConcat
    <3>2. Becomes(<<d, e>>)
      BY <1>4, <1>8, <2>4, <3>1 DEF Continue
    <3>3. Put(a, Resumed(a.flags)) = a
      <4>1. Resumed(a.flags) = a.flags
        BY <1>2, <2>4 DEF Resumed, Settled, Closed
      <4> QED BY <1>2, <4>1, SameState, StateFields
    <3>4. Ready(d, a)
      BY <1>2, <1>5, <2>4 DEF Ready, Settled, Closed
    <3>5. ASSUME NEW b, After(d, a, b) PROVE b = a
      BY <1>5, <3>3, <3>5 DEF After
    <3> HIDE DEF a, d, e
    <3> QED
      BY <1>1, <1>2, <1>5, <1>6, <2>1, <2>2, <3>2, <3>4, <3>5, ExpandsToTwo DEF a
  <2> QED BY <1>2, <2>3, <2>4
<1> QED BY <1>7, <1>8

LEMMA AttachMeets ==
  ASSUME IInv, Attach, NEW c, NEW p, c = Top, p = c.p
  PROVE  IInv'
<1> DEFINE a == StateOf(p)
           d == Call("detach", p)
           e == Call("restart", p)
           f == Call("addDevice", p)
           m == Put(a, "detached")
           n == Plays(m, "stopped")
<1>1. calls # <<>> /\ c.op = "attach" /\ UNCHANGED <<mixer, flags, song, dialog>>
  BY DEF Attach, At
<1>2. p \in Players /\ a \in PlayerStates /\ a.flags \in {"detached", "audible"}
  BY <1>1, TopCall DEF Ready
<1>3. /\ d \in AllCalls /\ d.op = "detach" /\ d.p = p
      /\ e \in AllCalls /\ e.op = "restart" /\ e.p = p /\ e.mode = "stopped"
      /\ f \in AllCalls /\ f.op = "addDevice" /\ f.p = p
  BY <1>2 DEF Call, AllCalls, Ops, Modes
<1>4. m \in PlayerStates /\ m.flags = "detached" /\ n \in PlayerStates /\ n.flags = "detached"
  BY <1>2, StateFields DEF Flags, Modes
<1>5. Ready(e, m) /\ \A b : After(e, m, b) => b = n
  BY <1>3, <1>4 DEF Ready, After, Quiet
<1>6. Ready(f, n)
  BY <1>3, <1>4 DEF Ready
<1>7. ASSUME NEW b, After(f, n, b) PROVE After(c, a, b)
  <2>1. b = Put(n, "audible")
    BY <1>3, <1>7 DEF After
  <2>2. b = Put(Plays(a, "stopped"), "audible")
    BY <2>1 DEF Put, Plays, State
  <2> QED BY <1>1, <2>2 DEF After
<1>8. /\ <<e, f>> \in Seq(AllCalls) /\ <<e>> \o <<f>> = <<e, f>>
      /\ <<d>> \o <<e, f>> = <<d, e, f>> /\ <<>> \o <<e, f>> = <<e, f>>
  BY <1>3, ConsIsConcat, ConcatEmptySeq
<1>9. CASE p \in attached
  <2>1. Becomes(<<d, e, f>>)
    BY <1>8, <1>9 DEF Attach
  <2>2. a.flags = "audible"
    BY <1>2, <1>9 DEF StateOf, State, FlagsOf
  <2>3. Ready(d, a) /\ \A b : After(d, a, b) => b = m
    BY <1>3, <2>2 DEF Ready, After
  <2> HIDE DEF a, d, e, f, m, n
  <2> QED
    BY <1>1, <1>3, <1>4, <1>5, <1>6, <1>7, <2>1, <2>3, ExpandsToThree DEF a
<1>10. CASE p \notin attached
  <2>1. Becomes(<<e, f>>)
    BY <1>8, <1>10 DEF Attach
  <2>2. a.flags = "detached"
    BY <1>2, <1>10 DEF StateOf, State, FlagsOf
  <2>3. m = a
    BY <1>2, <1>4, <2>2, SameState, StateFields DEF Flags
  <2> HIDE DEF a, d, e, f, m, n
  <2> QED
    BY <1>1, <1>3, <1>4, <1>5, <1>6, <1>7, <2>1, <2>3, ExpandsToTwo DEF a
<1> QED BY <1>9, <1>10

LEMMA AddDeviceMeets ==
  ASSUME IInv, AddDevice, NEW c, NEW p, c = Top, p = c.p
  PROVE  IInv'
<1> DEFINE a == StateOf(p)
<1>1. calls # <<>> /\ c.op = "addDevice" /\ Returns /\ UNCHANGED <<flags, song, dialog>>
  BY DEF AddDevice, At
<1>2. p \in Players /\ a \in PlayerStates /\ a.flags = "detached"
  BY <1>1, TopCall DEF Ready
<1>3. /\ attached' = attached \union {p} /\ silenced' = silenced \ {p}
      /\ rendering' = rendering /\ p \notin attached
  BY DEF AddDevice, Mixer!Attach
<1>4. p \notin suspended /\ p \notin enabled
  BY <1>2, <1>3 DEF IInv, MixerOK, StateOf, State, FlagsOf
<1>5. Data' /\ MixerOK'
  BY <1>1, <1>2, <1>3, <1>4 DEF IInv, Data, MixerOK, flags, song
<1>6. Only(p)
  BY <1>1, <1>3 DEF Only, StateOf, FlagsOf, Asked, flags, song
<1>7. After(c, a, StateOf(p)')
  <2>1. FlagsOf(p)' = "audible"
    BY <1>1, <1>3, <1>4 DEF FlagsOf, flags
  <2>2. StateOf(p)' = Put(a, "audible")
    BY <1>1, <2>1 DEF StateOf, State, Put, song
  <2> QED BY <1>1, <2>2 DEF After
<1> QED BY <1>1, <1>5, <1>6, <1>7, CallReturns

LEMMA DetachMeets ==
  ASSUME IInv, Detach, NEW c, NEW p, c = Top, p = c.p
  PROVE  IInv'
<1> DEFINE a == StateOf(p)
<1>1. calls # <<>> /\ c.op = "detach" /\ Returns /\ UNCHANGED <<flags, song, dialog>>
  BY DEF Detach, At
<1>2. p \in Players /\ a \in PlayerStates /\ a.flags = "audible"
  BY <1>1, TopCall DEF Ready
<1>3. /\ attached' = attached \ {p} /\ silenced' = silenced \ {p}
      /\ rendering' = rendering /\ p \in attached /\ p \notin rendering
  BY DEF Detach, Mixer!Detach
<1>4. p \notin suspended /\ p \notin enabled
  BY <1>2, <1>3 DEF StateOf, State, FlagsOf
<1>5. Data' /\ MixerOK'
  BY <1>1, <1>2, <1>3, <1>4 DEF IInv, Data, MixerOK, flags, song
<1>6. Only(p)
  BY <1>1, <1>3 DEF Only, StateOf, FlagsOf, Asked, flags, song
<1>7. After(c, a, StateOf(p)')
  <2>1. FlagsOf(p)' = "detached"
    BY <1>1, <1>3, <1>4 DEF FlagsOf, flags
  <2>2. StateOf(p)' = Put(a, "detached")
    BY <1>1, <2>1 DEF StateOf, State, Put, song
  <2> QED BY <1>1, <2>2 DEF After
<1> QED BY <1>1, <1>5, <1>6, <1>7, CallReturns

LEMMA DestroyMeets ==
  ASSUME IInv, Destroy, NEW c, NEW p, c = Top, p = c.p
  PROVE  IInv'
<1> DEFINE a == StateOf(p)
<1>1. calls # <<>> /\ c.op = "destroy" /\ Returns /\ UNCHANGED <<mixer, flags, dialog>>
  BY DEF Destroy, At
<1>2. p \in Players
  BY <1>1, TopCall
<1>3. /\ mode' = [mode EXCEPT ![p] = "stopped"] /\ last' = [last EXCEPT ![p] = "stopped"]
      /\ loaded' = loaded \union {p}
  BY DEF Destroy
<1>4. Data' /\ MixerOK'
  <2>1. mode' \in [Players -> Modes] /\ last' \in [Players -> Modes \ {"row"}]
    BY <1>2, <1>3 DEF IInv, Data, Modes
  <2> QED BY <1>1, <1>2, <1>3, <2>1 DEF IInv, Data, MixerOK, mixer, flags
<1>5. Only(p)
  BY <1>1, <1>2, <1>3 DEF IInv, Data, Only, StateOf, FlagsOf, Asked, mixer, flags
<1>6. StateOf(p)' = State(a.flags, "stopped", "stopped", "some")
  <2>1. FlagsOf(p)' = a.flags
    BY <1>1 DEF StateOf, State, FlagsOf, Asked, mixer, flags
  <2>2. mode'[p] = "stopped" /\ last'[p] = "stopped" /\ p \in loaded'
    BY <1>2, <1>3 DEF IInv, Data
  <2> QED BY <2>1, <2>2 DEF StateOf
<1>7. After(c, a, StateOf(p)')
  BY <1>1, <1>6 DEF After
<1> QED BY <1>1, <1>4, <1>5, <1>7, CallReturns

LEMMA EnsureSongPlayingMeets ==
  ASSUME IInv, EnsureSongPlaying, NEW c, NEW p, c = Top, p = c.p
  PROVE  IInv'
<1> DEFINE a == StateOf(p)
           d == With(IF p \in suspended THEN "resume" ELSE "continue", p, TRUE)
<1>1. /\ calls # <<>> /\ c.op = "ensureSongPlaying"
      /\ UNCHANGED <<mixer, flags, song, dialog>> /\ Becomes(<<d>>)
  BY DEF EnsureSongPlaying, At
<1>2. p \in Players /\ a \in PlayerStates /\ a.flags \in {"audible", "silent"}
  BY <1>1, TopCall DEF Ready
<1>3. d \in AllCalls /\ d.p = p /\ d.op = IF p \in suspended THEN "resume" ELSE "continue"
  BY <1>2 DEF With, Call, AllCalls, Ops, Modes
<1>4. d.flag
  BY DEF With, Call
<1>5. p \in suspended <=> a.flags = "silent"
  BY <1>2 DEF IInv, MixerOK, StateOf, State, FlagsOf
<1>6. d.op # "openDialog" /\ Ready(d, a)
  BY <1>2, <1>3, <1>5 DEF Ready, Settled, Closed
<1>7. ASSUME NEW b, After(d, a, b) PROVE After(c, a, b)
  <2> DEFINE r == Continued(a)
  <2>1. r \in PlayerStates /\ r.flags = a.flags
    BY <1>2, ContinuedFields DEF Released
  <2>2. b = Put(r, "audible")
    <3>1. CASE p \in suspended
      <4>1. b = Put(r, Resumed(r.flags))
        BY <1>3, <1>4, <1>7, <3>1 DEF After
      <4> QED BY <1>5, <2>1, <3>1, <4>1 DEF Resumed
    <3>2. CASE p \notin suspended
      <4>1. b = r
        BY <1>3, <1>7, <3>2 DEF After
      <4>2. Put(r, "audible") = r
        BY <1>2, <1>5, <2>1, <3>2, SameState, StateFields DEF Flags
      <4> QED BY <4>1, <4>2
    <3> QED BY <3>1, <3>2
  <2> QED BY <1>1, <2>2 DEF After
<1> HIDE DEF a, d
<1> QED BY <1>1, <1>3, <1>6, <1>7, ExpandsToOne DEF a

-----------------------------------------------------------------------------
(* What the calls are made for. *)

LEMMA EditMeets ==
  ASSUME IInv, Edit \/ Done, NEW c, NEW p, c = Top, p = c.p
  PROVE  IInv'
<1>1. /\ calls # <<>> /\ c.op \in {"edit", "move", "done", "answered"} /\ Returns
      /\ UNCHANGED <<mixer, flags, song, dialog>>
  BY DEF Edit, Done, At
<1>2. After(c, StateOf(p), StateOf(p))
  BY <1>1 DEF After
<1> QED BY <1>1, <1>2, CallIsIdle

LEMMA CreateEmptySongMeets ==
  ASSUME IInv, CreateEmptySong, NEW c, NEW p, c = Top, p = c.p
  PROVE  IInv'
<1> DEFINE a == StateOf(p)
<1>1. /\ calls # <<>> /\ c.op = "createEmptySong" /\ Returns
      /\ UNCHANGED <<mixer, flags, mode, last, dialog>> /\ loaded' = loaded \union {p}
  BY DEF CreateEmptySong, At
<1>2. p \in Players
  BY <1>1, TopCall
<1>3. Data' /\ MixerOK'
  BY <1>1, <1>2 DEF IInv, Data, MixerOK, mixer, flags
<1>4. Only(p)
  BY <1>1 DEF Only, StateOf, FlagsOf, Asked, mixer, flags
<1>5. StateOf(p)' = State(a.flags, a.mode, a.last, "some")
  <2>1. FlagsOf(p)' = a.flags
    BY <1>1 DEF StateOf, State, FlagsOf, Asked, mixer, flags
  <2> QED BY <1>1, <2>1 DEF StateOf, State
<1>6. After(c, a, StateOf(p)')
  BY <1>1, <1>5 DEF After
<1> QED BY <1>1, <1>3, <1>4, <1>6, CallReturns

LEMMA OpenDialogMeets ==
  ASSUME IInv, OpenDialog, NEW c, NEW p, c = Top, p = c.p
  PROVE  IInv'
<1> DEFINE a == StateOf(p)
           n == Len(Tail(calls))
<1>1. /\ calls # <<>> /\ c.op = "openDialog" /\ Returns
      /\ UNCHANGED <<mixer, flags, song>> /\ dialog' = {[p |-> p, was |-> c.mode]}
  BY DEF OpenDialog, At
<1>2. /\ p \in Players /\ c.mode \in Modes /\ a \in PlayerStates
      /\ a.flags = "silent" /\ c.mode # "row"
  BY <1>1, TopCall DEF Ready
<1>3. dialog = {}
  BY <1>1, NoDialog
<1>4. Data' /\ MixerOK'
  <2>1. dialog' \subseteq [p : Players, was : Modes \ {"row"}]
    BY <1>1, <1>2
  <2> QED BY <1>1, <2>1 DEF IInv, Data, MixerOK, mixer, flags, song
<1>5. Tail(calls) = <<>> /\ calls' = <<>>
  <2>1. 1 \in 1..Len(calls) /\ calls[1] = c
    BY <1>1, EmptySeq DEF IInv, Top
  <2>2. Len(calls) = 1
    BY <1>1, <2>1 DEF IInv, DialogAlone
  <2>3. Tail(calls) \in Seq(AllCalls) /\ Len(Tail(calls)) = 0
    BY <1>1, <2>2, HeadTailProperties DEF IInv
  <2>4. Tail(calls) = <<>>
    BY <2>3, EmptySeq
  <2> QED BY <1>1, <2>4, ConcatEmptySeq DEF Returns, Becomes
<1>6. DialogAlone' /\ calls' \in Seq(AllCalls)
  BY <1>1, <1>5 DEF DialogAlone
<1>7. \A q \in Players \ {p} : StateOf(q)' = StateOf(q)
  <2> SUFFICES ASSUME NEW q \in Players \ {p} PROVE StateOf(q)' = StateOf(q)
    OBVIOUS
  <2>1. ~Asked(q) /\ ~Asked(q)'
    BY <1>1, <1>3 DEF Asked
  <2>2. FlagsOf(q)' = FlagsOf(q)
    BY <1>1, <2>1 DEF FlagsOf, mixer, flags
  <2> QED BY <1>1, <2>2 DEF StateOf, song
<1>8. StateOf(p)' = Put(a, "asked")
  <2>1. p \in attached /\ p \in suspended /\ p \notin enabled
    BY <1>2 DEF StateOf, State, FlagsOf
  <2>2. Asked(p)'
    BY <1>1 DEF Asked
  <2>3. FlagsOf(p)' = "asked"
    BY <1>1, <2>1, <2>2 DEF FlagsOf, mixer, flags
  <2> QED BY <1>1, <2>3 DEF StateOf, State, Put, song
<1>9. ASSUME NEW q \in Players PROVE Promise(q)'
  <2>1. PICK M \in SUBSET PlayerStates :
          Meets(q, c, {StateOf(q)}, M) /\ Run(q, Tail(calls), M, RestStates)
    BY <1>1, RunHead DEF IInv, Promise, Top
  <2>2. StateOf(q)' \in PlayerStates
    BY <1>4, NextStateType
  <2>3. StateOf(q)' \in M
    <3>1. CASE q = p
      <4>1. After(c, a, StateOf(q)')
        BY <1>1, <1>8, <3>1 DEF After
      <4> QED BY <2>1, <2>2, <3>1, <4>1 DEF Meets
    <3>2. CASE q # p
      BY <1>7, <2>1, <3>2 DEF Meets
    <3> QED BY <3>1, <3>2
  <2>4. Run(q, calls', {StateOf(q)'}, RestStates)
    BY <1>5, <2>1, <2>3 DEF Run
  <2> QED BY <2>4 DEF Promise, Run, Meets
<1> QED BY <1>4, <1>6, <1>9 DEF IInv

LEMMA OpenSongMeets ==
  ASSUME IInv, OpenSong, NEW c, NEW p, c = Top, p = c.p
  PROVE  IInv'
<1> DEFINE a == StateOf(p)
           s == State(a.flags, a.mode, a.last, "some")
<1>1. /\ calls # <<>> /\ c.op = "openSong"
      /\ UNCHANGED <<mixer, flags, mode, last, dialog>>
  BY DEF OpenSong, At
<1>2. /\ p \in Players /\ c.mode \in Modes /\ a \in PlayerStates
      /\ a.flags \in {"detached", "silent"}
  BY <1>1, TopCall DEF Ready
<1>3. dialog = {}
  BY <1>1, NoDialog
<1>4. FlagsOf(p)' = a.flags /\ mode'[p] = a.mode /\ last'[p] = a.last
  BY <1>1 DEF StateOf, State, FlagsOf, Asked, mixer, flags
<1>5. CASE loaded' = loaded \union {p} /\ Becomes(UpdateAfterLoad(p, c.mode))
  <2> DEFINE body == UpdateAfterLoad(p, c.mode)
  <2>1. Data' /\ MixerOK' /\ dialog' = dialog
    BY <1>1, <1>2, <1>5 DEF IInv, Data, MixerOK, mixer, flags
  <2>2. Only(p)
    BY <1>1, <1>5 DEF Only, StateOf, FlagsOf, Asked, mixer, flags
  <2>3. StateOf(p)' = s
    BY <1>4, <1>5 DEF StateOf
  <2>4. /\ s \in PlayerStates /\ s.flags = a.flags /\ s.mode = a.mode
        /\ s.last = a.last /\ s.content = "some"
    BY <1>2 DEF State, PlayerStates
  <2>5. /\ body \in Seq(AllCalls)
        /\ \A i \in 1..Len(body) : body[i].p = p /\ body[i].op # "openDialog"
        /\ Run(p, body, {s}, Post(c, a))
    <3>1. CASE c.mode = "song"
      <4> DEFINE d == Call("restartPlaying", p)
      <4>1. d \in AllCalls /\ d.op = "restartPlaying" /\ d.p = p
        BY <1>2 DEF Call, AllCalls, Ops, Modes
      <4>2. body = <<d>>
        BY <3>1 DEF UpdateAfterLoad
      <4>3. Ready(d, s)
        BY <4>1 DEF Ready
      <4>4. ASSUME NEW b, After(d, s, b) PROVE After(c, a, b)
        <5>1. b = State(a.flags, a.mode, "song", "some")
          BY <2>4, <4>1, <4>4 DEF After
        <5> QED BY <1>1, <3>1, <5>1 DEF After
      <4> HIDE DEF d, s, a
      <4>5. Run(p, <<d>>, {s}, Post(c, a))
        BY <2>4, <4>1, <4>3, <4>4, RunPost
      <4>6. <<d>> \in Seq(AllCalls) /\ \A i \in 1..Len(<<d>>) : <<d>>[i] = d
        BY <4>1
      <4> HIDE DEF body
      <4> QED BY <4>1, <4>2, <4>5, <4>6
    <3>2. CASE c.mode = "pattern"
      <4> DEFINE d == Call("stop", p)
                 e == In("play", p, "pattern")
                 n == Stopped(s)
      <4>1. d \in AllCalls /\ d.op = "stop" /\ d.p = p
        BY <1>2 DEF Call, AllCalls, Ops, Modes
      <4>2. e \in AllCalls /\ e.op = "play" /\ e.p = p /\ e.mode = "pattern"
        BY <1>2 DEF In, Call, AllCalls, Ops, Modes
      <4>3. body = <<d, e>>
        BY <3>2 DEF UpdateAfterLoad
      <4>4. /\ n \in PlayerStates /\ n.flags = a.flags /\ n.content = "some"
            /\ n.last = Stopped(a).last
        BY <1>2, <2>4, StateFields
      <4>5. Ready(d, s) /\ Ready(e, n)
        BY <1>2, <2>4, <4>1, <4>2, <4>4 DEF Ready, Settled, Closed
      <4>6. ASSUME NEW b, After(d, s, b) PROVE b = n
        <5>1. b = Put(n, Released(a.flags))
          BY <2>4, <4>1, <4>6 DEF After
        <5>2. Released(a.flags) = n.flags
          BY <1>2, <4>4 DEF Released
        <5> QED BY <4>4, <5>1, <5>2, SameState, StateFields
      <4>7. ASSUME NEW b, After(e, n, b) PROVE After(c, a, b)
        <5>1. b = Put(Plays(n, "pattern"), Resumed(a.flags))
          BY <4>2, <4>4, <4>7 DEF After
        <5>2. b = State(Resumed(a.flags), "pattern", Stopped(a).last, "some")
          BY <4>4, <5>1 DEF Put, Plays, State
        <5> QED BY <1>1, <3>2, <5>2 DEF After
      <4>8. <<d, e>> \in Seq(AllCalls)
            /\ \A i \in 1..Len(<<d, e>>) : <<d, e>>[i] \in {d, e}
        BY <4>1, <4>2
      <4>9. d.op # "openDialog" /\ e.op # "openDialog"
        BY <4>1, <4>2
      <4> HIDE DEF d, e, s, a, n
      <4>10. Run(p, <<d, e>>, {s}, Post(c, a))
        <5>1. Run(p, <<d>>, {s}, {n})
          BY <2>4, <4>1, <4>4, <4>5, <4>6, RunTo
        <5>2. Run(p, <<e>>, {n}, Post(c, a))
          BY <4>2, <4>4, <4>5, <4>7, RunPost
        <5> QED BY <4>1, <4>2, <5>1, <5>2, RunTwo
      <4> HIDE DEF body
      <4> QED BY <4>1, <4>2, <4>3, <4>8, <4>9, <4>10
    <3>3. CASE c.mode # "song" /\ c.mode # "pattern"
      <4>1. body = <<>>
        BY <3>3 DEF UpdateAfterLoad
      <4>2. After(c, a, s)
        BY <1>1 DEF After
      <4> HIDE DEF s, a
      <4>3. Run(p, <<>>, {s}, Post(c, a))
        BY <2>4, <4>2, RunNothing DEF Post
      <4>4. <<>> \in Seq(AllCalls) /\ 1..Len(<<>>) = {}
        OBVIOUS
      <4> HIDE DEF body
      <4> QED BY <4>1, <4>3, <4>4
    <3> QED BY <3>1, <3>2, <3>3
  <2> HIDE DEF body, s, a
  <2>6. Run(p, body, {StateOf(p)'}, Post(c, StateOf(p)))
    BY <2>3, <2>5 DEF a
  <2> QED BY <1>1, <1>3, <1>5, <2>1, <2>2, <2>5, <2>6, CallStep DEF body
<1>6. CASE /\ loaded' \in {loaded, loaded \union {p}, loaded \ {p}}
           /\ Returns
  <2>1. Data' /\ MixerOK' /\ dialog' = dialog
    BY <1>1, <1>2, <1>6 DEF IInv, Data, MixerOK, mixer, flags
  <2>2. Only(p)
    BY <1>1, <1>6 DEF Only, StateOf, FlagsOf, Asked, mixer, flags
  <2>3. \E x \in {"some", "none"} : StateOf(p)' = State(a.flags, a.mode, a.last, x)
    BY <1>4 DEF StateOf
  <2>4. After(c, a, StateOf(p)')
    BY <1>1, <2>3 DEF After
  <2> QED BY <1>1, <1>6, <2>1, <2>2, <2>4, CallReturns
<1>7. \/ loaded' = loaded \union {p} /\ Becomes(UpdateAfterLoad(p, c.mode))
      \/ loaded' \in {loaded, loaded \union {p}, loaded \ {p}} /\ Returns
  BY DEF OpenSong
<1> QED BY <1>5, <1>6, <1>7
-----------------------------------------------------------------------------
(* The user's commands.  They are made at rest, of a player that is audible. *)
(* What a command has to keep is m, the mode it found the player in (a row  *)
(* that is played alone counts as "stopped").                               *)

\* The player plays m; it will do so when it is continued; both.
Playing(m, z) ==
  {b \in PlayerStates : b.flags = z /\ (m # "stopped" /\ b.content = "some" => b.mode = m)}
Kept(m, z) ==
  {b \in PlayerStates : b.flags = z /\ (m # "stopped" /\ b.content = "some" => b.last = m)}
Both(m, z) == Playing(m, z) \intersect Kept(m, z)

Songs == Modes \ {"row"}

\* The calls of a player that do not open the dialog.
Own(p) == {c \in AllCalls : c.p = p /\ c.op # "openDialog"}

OwnOps == Ops \ {"openDialog"}

LEMMA OwnCall ==
  ASSUME NEW p \in Players, NEW op \in OwnOps
  PROVE  Call(op, p) \in Own(p) /\ Call(op, p).op = op /\ Call(op, p).p = p
BY DEF OwnOps, Own, Call, AllCalls, Modes

LEMMA OwnWith ==
  ASSUME NEW p \in Players, NEW op \in OwnOps
  PROVE  /\ With(op, p, TRUE) \in Own(p) /\ With(op, p, TRUE).op = op
         /\ With(op, p, TRUE).p = p /\ With(op, p, TRUE).flag
<1>1. /\ With(op, p, TRUE) \in Own(p) /\ With(op, p, TRUE).op = op
      /\ With(op, p, TRUE).p = p
  BY DEF OwnOps, Own, With, Call, AllCalls, Modes
<1>2. With(op, p, TRUE).flag
  BY DEF With, Call
<1> QED BY <1>1, <1>2

LEMMA OwnIn ==
  ASSUME NEW p \in Players, NEW op \in OwnOps, NEW m \in Modes
  PROVE  /\ In(op, p, m) \in Own(p) /\ In(op, p, m).op = op
         /\ In(op, p, m).p = p /\ In(op, p, m).mode = m
BY DEF OwnOps, Own, In, Call, AllCalls, Modes

\* A call of the player's own meets a contract when it does so for each state.
LEMMA MeetsEach ==
  ASSUME NEW q, NEW c, c.p = q, NEW A, NEW B,
         \A a \in A : Ready(c, a), \A a \in A, b \in PlayerStates : After(c, a, b) => b \in B
  PROVE  Meets(q, c, A, B)
BY DEF Meets

LEMMA RunWiden ==
  ASSUME NEW q, NEW s, NEW A, NEW B, NEW C, NEW D, Run(q, s, A, B), C \subseteq A, B \subseteq D
  PROVE  Run(q, s, C, D)
<1>1. PICK f \in [1..Len(s) + 1 -> SUBSET PlayerStates] :
        /\ A \subseteq f[1] /\ f[Len(s) + 1] \subseteq B
        /\ \A i \in 1..Len(s) : Meets(q, s[i], f[i], f[i + 1])
  BY DEF Run
<1>2. C \subseteq f[1] /\ f[Len(s) + 1] \subseteq D
  BY <1>1
<1> QED BY <1>1, <1>2 DEF Run

LEMMA ClassTypes ==
  ASSUME NEW m, NEW z
  PROVE  /\ Playing(m, z) \in SUBSET PlayerStates /\ Kept(m, z) \in SUBSET PlayerStates
         /\ Both(m, z) \in SUBSET PlayerStates
         /\ Both(m, z) \subseteq Playing(m, z) /\ Both(m, z) \subseteq Kept(m, z)
         /\ Playing("stopped", z) = Kept("stopped", z)
BY DEF Playing, Kept, Both

\* What each of the calls makes of the classes.
LEMMA EnterKeeps ==
  ASSUME NEW p, NEW c, c.p = p, c.op = "enter", c.flag, NEW m \in Songs
  PROVE  /\ Meets(p, c, Playing(m, "audible"), Kept(m, "inside"))
         /\ Meets(p, c, Kept(m, "silent"), Kept(m, "inside"))
         /\ Meets(p, c, Kept("stopped", "detached"), Kept("stopped", "detachedIn"))
<1>1. ASSUME NEW a \in Playing(m, "audible")
      PROVE  Ready(c, a) /\ \A b \in PlayerStates : After(c, a, b) => b \in Kept(m, "inside")
  <2>1. a \in PlayerStates /\ a.flags = "audible"
    BY DEF Playing
  <2>2. Ready(c, a)
    BY <2>1 DEF Ready, Settled, Closed
  <2> SUFFICES ASSUME NEW b \in PlayerStates, After(c, a, b) PROVE b \in Kept(m, "inside")
    BY <2>2
  <2>3. b = Put(Stopped(a), "inside")
    BY <2>1 DEF After, Within
  <2>4. b.flags = "inside" /\ b.content = a.content /\ (a.mode # "row" => b.last = a.mode)
    BY <2>1, <2>3, StateFields DEF Flags
  <2> QED BY <2>4 DEF Playing, Kept, Songs
<1>2. ASSUME NEW a \in Kept(m, "silent")
      PROVE  Ready(c, a) /\ \A b \in PlayerStates : After(c, a, b) => b \in Kept(m, "inside")
  <2>1. a \in PlayerStates /\ a.flags = "silent"
    BY DEF Kept
  <2>2. Ready(c, a)
    BY <2>1 DEF Ready, Settled, Closed
  <2> SUFFICES ASSUME NEW b \in PlayerStates, After(c, a, b) PROVE b \in Kept(m, "inside")
    BY <2>2
  <2>3. b = Put(a, "inside")
    BY <2>1 DEF After, Within
  <2>4. b.flags = "inside" /\ b.content = a.content /\ b.last = a.last
    BY <2>1, <2>3, StateFields DEF Flags
  <2> QED BY <2>4 DEF Kept
<1>3. ASSUME NEW a \in Kept("stopped", "detached")
      PROVE  /\ Ready(c, a)
             /\ \A b \in PlayerStates : After(c, a, b) => b \in Kept("stopped", "detachedIn")
  <2>1. a \in PlayerStates /\ a.flags = "detached"
    BY DEF Kept
  <2>2. Ready(c, a)
    BY <2>1 DEF Ready, Settled, Closed
  <2> SUFFICES ASSUME NEW b \in PlayerStates, After(c, a, b)
               PROVE  b \in Kept("stopped", "detachedIn")
    BY <2>2
  <2>3. b = Put(a, "detachedIn")
    BY <2>1 DEF After, Within
  <2>4. b.flags = "detachedIn"
    BY <2>1, <2>3, StateFields DEF Flags
  <2> QED BY <2>4 DEF Kept
<1> QED BY <1>1, <1>2, <1>3, MeetsEach

LEMMA LeaveContinues ==
  ASSUME NEW p, NEW c, c.p = p, c.op = "leave", c.flag, NEW m \in Songs
  PROVE  /\ Meets(p, c, Kept(m, "inside"), Both(m, "audible"))
         /\ Meets(p, c, Kept("stopped", "detachedIn"), Kept("stopped", "detached"))
<1>1. ASSUME NEW a \in PlayerStates, a.flags \in {"inside", "detachedIn"}
      PROVE  /\ Ready(c, a)
             /\ \A b : After(c, a, b) => b = Put(Continued(a), Released(a.flags))
  BY <1>1 DEF Ready, After, Settled
<1>2. ASSUME NEW a \in Kept(m, "inside")
      PROVE  Ready(c, a) /\ \A b \in PlayerStates : After(c, a, b) => b \in Both(m, "audible")
  <2>1. a \in PlayerStates /\ a.flags = "inside"
    BY DEF Kept
  <2> SUFFICES ASSUME NEW b \in PlayerStates, After(c, a, b) PROVE b \in Both(m, "audible")
    BY <1>1, <2>1
  <2>2. b = Put(Continued(a), "audible")
    BY <1>1, <2>1 DEF Released
  <2>3. /\ b.flags = "audible" /\ b.content = a.content /\ b.last = a.last
        /\ Continues(a) => b.mode = a.last
    BY <2>1, <2>2, ContinuedFields, StateFields DEF Flags
  <2> QED BY <2>3 DEF Kept, Playing, Both, Continues
<1>3. ASSUME NEW a \in Kept("stopped", "detachedIn")
      PROVE  /\ Ready(c, a)
             /\ \A b \in PlayerStates : After(c, a, b) => b \in Kept("stopped", "detached")
  <2>1. a \in PlayerStates /\ a.flags = "detachedIn"
    BY DEF Kept
  <2> SUFFICES ASSUME NEW b \in PlayerStates, After(c, a, b)
               PROVE  b \in Kept("stopped", "detached")
    BY <1>1, <2>1
  <2>2. b = Put(Continued(a), "detached")
    BY <1>1, <2>1 DEF Released
  <2>3. b.flags = "detached"
    BY <2>1, <2>2, ContinuedFields, StateFields DEF Flags
  <2> QED BY <2>3 DEF Kept
<1> QED BY <1>2, <1>3, MeetsEach

LEMMA EditKeeps ==
  ASSUME NEW p, NEW c, c.p = p, c.op = "edit", NEW m
  PROVE  /\ Meets(p, c, Kept(m, "inside"), Kept(m, "inside"))
         /\ Meets(p, c, Kept(m, "detachedIn"), Kept(m, "detachedIn"))
<1>1. ASSUME NEW a, a.flags \in {"inside", "detachedIn"}
      PROVE  Ready(c, a) /\ \A b : After(c, a, b) => b = a
  BY <1>1 DEF Ready, After, Quiet
<1>2. ASSUME NEW z \in {"inside", "detachedIn"}
      PROVE  Meets(p, c, Kept(m, z), Kept(m, z))
  <2>1. \A a \in Kept(m, z) : a.flags \in {"inside", "detachedIn"}
    BY DEF Kept
  <2> QED BY <1>1, <2>1 DEF Meets
<1> QED BY <1>2

\* A section interrupts what is played and puts it back.
LEMMA SectionRuns ==
  ASSUME NEW p \in Players, NEW m \in Songs
  PROVE  /\ Section(p) \in Seq(Own(p)) /\ Section(p) \in Seq(AllCalls)
         /\ Run(p, Section(p), Playing(m, "audible"), Both(m, "audible"))
         /\ Run(p, Section(p), Kept(m, "silent"), Both(m, "audible"))
         /\ Run(p, Section(p), Kept("stopped", "detached"), Kept("stopped", "detached"))
<1> DEFINE c == With("enter", p, TRUE)
           d == Call("edit", p)
           e == With("leave", p, TRUE)
<1>1. /\ c \in Own(p) /\ c.op = "enter" /\ c.p = p /\ c.flag
      /\ d \in Own(p) /\ d.op = "edit" /\ d.p = p
      /\ e \in Own(p) /\ e.op = "leave" /\ e.p = p /\ e.flag
  <2>1. "enter" \in OwnOps /\ "edit" \in OwnOps /\ "leave" \in OwnOps
    BY DEF OwnOps, Ops
  <2>2. c \in Own(p) /\ c.op = "enter" /\ c.p = p /\ c.flag
    BY <2>1, OwnWith
  <2>3. d \in Own(p) /\ d.op = "edit" /\ d.p = p
    BY <2>1, OwnCall
  <2>4. e \in Own(p) /\ e.op = "leave" /\ e.p = p /\ e.flag
    BY <2>1, OwnWith
  <2> QED BY <2>2, <2>3, <2>4
<1>2. Section(p) = <<c, d, e>>
  BY DEF Section
<1> HIDE DEF c, d, e
<1>3. c \in AllCalls /\ d \in AllCalls /\ e \in AllCalls
  BY <1>1 DEF Own
<1>4. Section(p) \in Seq(Own(p)) /\ Section(p) \in Seq(AllCalls)
  BY <1>1, <1>2, <1>3
<1>5. /\ Run(p, <<c>>, Playing(m, "audible"), Kept(m, "inside"))
      /\ Run(p, <<c>>, Kept(m, "silent"), Kept(m, "inside"))
      /\ Run(p, <<c>>, Kept("stopped", "detached"), Kept("stopped", "detachedIn"))
  BY <1>1, <1>3, ClassTypes, EnterKeeps, RunOne
<1>6. /\ Run(p, <<d>>, Kept(m, "inside"), Kept(m, "inside"))
      /\ Run(p, <<d>>, Kept("stopped", "detachedIn"), Kept("stopped", "detachedIn"))
  BY <1>1, <1>3, ClassTypes, EditKeeps, RunOne
<1>7. /\ Run(p, <<e>>, Kept(m, "inside"), Both(m, "audible"))
      /\ Run(p, <<e>>, Kept("stopped", "detachedIn"), Kept("stopped", "detached"))
  BY <1>1, <1>3, ClassTypes, LeaveContinues, RunOne
<1> QED BY <1>2, <1>3, <1>4, <1>5, <1>6, <1>7, RunThree
\* States of which only the flags matter.
LEMMA OnlyFlags ==
  /\ "stopped" \in Songs
  /\ \A a, z : a \in Kept("stopped", z) <=> a \in PlayerStates /\ a.flags = z
  /\ \A a, z : a \in Playing("stopped", z) <=> a \in PlayerStates /\ a.flags = z
BY DEF Songs, Modes, Kept, Playing

LEMMA SuspendKeeps ==
  ASSUME NEW p, NEW c, c.p = p, c.op = "suspend", c.flag, NEW m \in Songs
  PROVE  Meets(p, c, Playing(m, "audible"), Kept(m, "silent"))
<1>1. ASSUME NEW a \in Playing(m, "audible")
      PROVE  Ready(c, a) /\ \A b \in PlayerStates : After(c, a, b) => b \in Kept(m, "silent")
  <2>1. a \in PlayerStates /\ a.flags = "audible"
    BY DEF Playing
  <2>2. Ready(c, a)
    BY <2>1 DEF Ready, Closed
  <2> SUFFICES ASSUME NEW b \in PlayerStates, After(c, a, b) PROVE b \in Kept(m, "silent")
    BY <2>2
  <2>3. b = Put(Stopped(a), "silent")
    BY <2>1 DEF After
  <2>4. b.flags = "silent" /\ b.content = a.content /\ (a.mode # "row" => b.last = a.mode)
    BY <2>1, <2>3, StateFields DEF Flags
  <2> QED BY <2>4 DEF Playing, Kept, Songs
<1> QED BY <1>1, MeetsEach

\* What resume, continue and ensureSongPlaying have in common: the player
\* is continued and audible.
LEMMA ContinuedIsPlaying ==
  ASSUME NEW m \in Songs, NEW z, NEW a \in Kept(m, z), NEW b, b = Put(Continued(a), "audible")
  PROVE  b \in Both(m, "audible")
<1>1. a \in PlayerStates
  BY DEF Kept
<1>2. /\ b.flags = "audible" /\ b.content = a.content /\ b.last = a.last
      /\ b \in PlayerStates /\ (Continues(a) => b.mode = a.last)
  BY <1>1, ContinuedFields, StateFields DEF Flags
<1> QED BY <1>2 DEF Kept, Playing, Both, Continues

LEMMA ResumeContinues ==
  ASSUME NEW p, NEW c, c.p = p, c.op = "resume", c.flag, NEW m \in Songs
  PROVE  /\ Meets(p, c, Kept(m, "silent"), Both(m, "audible"))
         /\ Meets(p, c, Kept(m, "audible"), Both(m, "audible"))
         /\ Meets(p, c, Kept("stopped", "detached"), Kept("stopped", "detached"))
<1>1. ASSUME NEW a \in PlayerStates, a.flags \in {"silent", "audible", "detached"}
      PROVE  /\ Ready(c, a)
             /\ \A b : After(c, a, b) =>
                         b = Put(Continued(a), IF a.flags = "detached" THEN "detached"
                                               ELSE "audible")
  <2>1. Ready(c, a)
    BY <1>1 DEF Ready, Settled, Closed
  <2>2. Continued(a).flags = a.flags
    BY <1>1, ContinuedFields DEF Released
  <2>3. Resumed(a.flags) = IF a.flags = "detached" THEN "detached" ELSE "audible"
    BY <1>1 DEF Resumed
  <2> QED BY <2>1, <2>2, <2>3 DEF After
<1>2. ASSUME NEW z \in {"silent", "audible"}
      PROVE  Meets(p, c, Kept(m, z), Both(m, "audible"))
  <2> SUFFICES ASSUME NEW a \in Kept(m, z)
               PROVE  Ready(c, a) /\ \A b \in PlayerStates : After(c, a, b) => b \in Both(m, "audible")
    BY MeetsEach
  <2>1. a \in PlayerStates /\ a.flags \in {"silent", "audible"}
    BY DEF Kept
  <2>2. \A b : After(c, a, b) => b = Put(Continued(a), "audible")
    BY <1>1, <2>1
  <2> QED BY <1>1, <2>1, <2>2, ContinuedIsPlaying
<1>3. Meets(p, c, Kept("stopped", "detached"), Kept("stopped", "detached"))
  <2> SUFFICES ASSUME NEW a \in Kept("stopped", "detached")
               PROVE  /\ Ready(c, a)
                      /\ \A b \in PlayerStates : After(c, a, b) => b \in Kept("stopped", "detached")
    BY MeetsEach
  <2>1. a \in PlayerStates /\ a.flags = "detached"
    BY OnlyFlags
  <2>2. Put(Continued(a), "detached").flags = "detached"
    BY <2>1, ContinuedFields, StateFields DEF Flags
  <2>3. \A b : After(c, a, b) => b = Put(Continued(a), "detached")
    BY <1>1, <2>1
  <2> QED BY <1>1, <2>1, <2>2, <2>3, OnlyFlags
<1> QED BY <1>2, <1>3

LEMMA ContinueContinues ==
  ASSUME NEW p, NEW c, c.p = p, NEW m \in Songs,
         c.op = "continue" \/ c.op = "ensureSongPlaying"
  PROVE  Meets(p, c, Kept(m, "audible"), Both(m, "audible"))
<1> SUFFICES ASSUME NEW a \in Kept(m, "audible")
             PROVE  Ready(c, a) /\ \A b \in PlayerStates : After(c, a, b) => b \in Both(m, "audible")
  BY MeetsEach
<1>1. a \in PlayerStates /\ a.flags = "audible"
  BY DEF Kept
<1>2. Ready(c, a)
  BY <1>1 DEF Ready, Settled, Closed
<1>3. Put(Continued(a), "audible") = Continued(a)
  BY <1>1, ContinuedFields, SameState, StateFields DEF Released, Flags
<1>4. \A b : After(c, a, b) => b = Put(Continued(a), "audible")
  BY <1>3 DEF After
<1> QED BY <1>2, <1>4, ContinuedIsPlaying

LEMMA StopKeeps ==
  ASSUME NEW p, NEW c, c.p = p, c.op = "stop", NEW m \in Songs
  PROVE  Meets(p, c, Playing(m, "audible"), Kept(m, "audible"))
<1> SUFFICES ASSUME NEW a \in Playing(m, "audible")
             PROVE  Ready(c, a) /\ \A b \in PlayerStates : After(c, a, b) => b \in Kept(m, "audible")
  BY MeetsEach
<1>1. a \in PlayerStates /\ a.flags = "audible"
  BY DEF Playing
<1>2. Ready(c, a)
  BY <1>1 DEF Ready, Settled, Closed
<1> SUFFICES ASSUME NEW b \in PlayerStates, After(c, a, b) PROVE b \in Kept(m, "audible")
  BY <1>2
<1>3. b = Put(Stopped(a), "audible")
  BY <1>1 DEF After, Released
<1>4. b.flags = "audible" /\ b.content = a.content /\ (a.mode # "row" => b.last = a.mode)
  BY <1>1, <1>3, StateFields DEF Flags
<1> QED BY <1>4 DEF Playing, Kept, Songs

LEMMA AttachKeeps ==
  ASSUME NEW p, NEW c, c.p = p, c.op = "attach", NEW m \in Songs,
         NEW z \in {"audible", "detached"}
  PROVE  Meets(p, c, Kept(m, z), Kept(m, "audible"))
<1> SUFFICES ASSUME NEW a \in Kept(m, z)
             PROVE  Ready(c, a) /\ \A b \in PlayerStates : After(c, a, b) => b \in Kept(m, "audible")
  BY MeetsEach
<1>1. a \in PlayerStates /\ a.flags = z
  BY DEF Kept
<1>2. Ready(c, a)
  BY <1>1 DEF Ready
<1> SUFFICES ASSUME NEW b \in PlayerStates, After(c, a, b) PROVE b \in Kept(m, "audible")
  BY <1>2
<1>3. b = Put(Plays(a, "stopped"), "audible")
  BY DEF After
<1>4. b.flags = "audible" /\ b.content = a.content /\ b.last = a.last
  BY <1>1, <1>3, StateFields DEF Flags, Modes
<1> QED BY <1>4 DEF Kept

LEMMA EndKeeps ==
  ASSUME NEW p, NEW c, c.p = p, NEW m \in Songs
  PROVE  /\ c.op = "move" => Meets(p, c, Both(m, "audible"), Both(m, "audible"))
         /\ c.op = "done" /\ c.mode = m => Meets(p, c, Playing(m, "audible"), RestStates)
         /\ c.op = "answered" => Meets(p, c, RestStates, RestStates)
<1>1. ASSUME c.op = "move" PROVE Meets(p, c, Both(m, "audible"), Both(m, "audible"))
  BY <1>1 DEF Meets, Ready, After
<1>2. ASSUME c.op = "done", c.mode = m PROVE Meets(p, c, Playing(m, "audible"), RestStates)
  <2>1. \A a \in Playing(m, "audible") : Ready(c, a) /\ a \in RestStates
    BY <1>2 DEF Ready, Playing, RestStates
  <2>2. \A a, b : After(c, a, b) => b = a
    BY <1>2 DEF After
  <2> QED BY <2>1, <2>2 DEF Meets
<1>3. ASSUME c.op = "answered" PROVE Meets(p, c, RestStates, RestStates)
  BY <1>3 DEF Meets, Ready, After
<1> QED BY <1>1, <1>2, <1>3

\* Of these calls only the flags matter.
LEMMA FlagsAfter ==
  ASSUME NEW p, NEW c, c.p = p, c.mode \in Modes
  PROVE  /\ c.op \in {"play", "assureNotSuspended"} =>
              Meets(p, c, Kept("stopped", "audible"), Kept("stopped", "audible"))
         /\ c.op = "createEmptySong" =>
              Meets(p, c, Kept("stopped", "inside"), Kept("stopped", "inside"))
         /\ c.op = "detach" =>
              Meets(p, c, Kept("stopped", "audible"), Kept("stopped", "detached"))
         /\ c.op = "destroy" =>
              Meets(p, c, Kept("stopped", "detached"), Kept("stopped", "detached"))
         /\ c.op = "openDialog" /\ c.mode # "row" =>
              Meets(p, c, Kept("stopped", "silent"), RestStates)
<1>1. ASSUME NEW a \in Kept("stopped", "audible")
      PROVE  /\ c.op \in {"play", "assureNotSuspended"} =>
                  Ready(c, a) /\ \A b \in PlayerStates : After(c, a, b) => b.flags = "audible"
             /\ c.op = "detach" =>
                  Ready(c, a) /\ \A b \in PlayerStates : After(c, a, b) => b.flags = "detached"
  <2>1. a \in PlayerStates /\ a.flags = "audible"
    BY OnlyFlags
  <2>2. ASSUME c.op \in {"play", "assureNotSuspended"}, NEW b \in PlayerStates, After(c, a, b)
        PROVE  b.flags = "audible"
    <3>1. b = a \/ b = Put(Plays(a, c.mode), "audible") \/ b = Put(a, "audible")
      BY <2>1, <2>2 DEF After, Resumed
    <3> QED BY <2>1, <3>1 DEF Put, Plays, State
  <2>3. ASSUME c.op = "detach", NEW b \in PlayerStates, After(c, a, b)
        PROVE  b.flags = "detached"
    BY <2>3 DEF After, Put, State
  <2>4. c.op \in {"play", "assureNotSuspended", "detach"} => Ready(c, a)
    BY <2>1 DEF Ready, Closed
  <2> QED BY <2>2, <2>3, <2>4
<1>2. ASSUME NEW a \in Kept("stopped", "inside"), c.op = "createEmptySong"
      PROVE  Ready(c, a) /\ \A b \in PlayerStates : After(c, a, b) => b.flags = "inside"
  BY <1>2, OnlyFlags DEF Ready, After, Quiet, State
<1>3. ASSUME NEW a \in Kept("stopped", "detached"), c.op = "destroy"
      PROVE  Ready(c, a) /\ \A b \in PlayerStates : After(c, a, b) => b.flags = "detached"
  BY <1>3, OnlyFlags DEF Ready, After, State
<1>4. ASSUME NEW a \in Kept("stopped", "silent"), c.op = "openDialog", c.mode # "row"
      PROVE  Ready(c, a) /\ \A b \in PlayerStates : After(c, a, b) => b.flags = "asked"
  BY <1>4, OnlyFlags DEF Ready, After, Put, State
<1>5. c.op \in {"play", "assureNotSuspended"} =>
        Meets(p, c, Kept("stopped", "audible"), Kept("stopped", "audible"))
  BY <1>1, OnlyFlags, MeetsEach
<1>6. c.op = "detach" => Meets(p, c, Kept("stopped", "audible"), Kept("stopped", "detached"))
  BY <1>1, OnlyFlags, MeetsEach
<1>7. c.op = "createEmptySong" =>
        Meets(p, c, Kept("stopped", "inside"), Kept("stopped", "inside"))
  BY <1>2, OnlyFlags, MeetsEach
<1>8. c.op = "destroy" => Meets(p, c, Kept("stopped", "detached"), Kept("stopped", "detached"))
  BY <1>3, OnlyFlags, MeetsEach
<1>9. c.op = "openDialog" /\ c.mode # "row" => Meets(p, c, Kept("stopped", "silent"), RestStates)
  BY <1>4, MeetsEach DEF RestStates
<1> QED BY <1>5, <1>6, <1>7, <1>8, <1>9
-----------------------------------------------------------------------------
(* Commands of one player. *)

LEMMA OwnSequence ==
  ASSUME NEW p, NEW s \in Seq(Own(p))
  PROVE  /\ s \in Seq(AllCalls)
         /\ \A i \in 1..Len(s) : s[i].p = p /\ s[i].op # "openDialog"
<1>1. \A i \in 1..Len(s) : s[i] \in Own(p)
  OBVIOUS
<1>2. s \in [1..Len(s) -> AllCalls] /\ Len(s) \in Nat
  BY <1>1, LenProperties DEF Own
<1>3. s \in Seq(AllCalls)
  BY <1>2, SeqDef
<1> QED BY <1>1, <1>3 DEF Own

LEMMA OwnOne ==
  ASSUME NEW p, NEW c \in Own(p), NEW A, NEW B, Meets(p, c, A, B),
         A \in SUBSET PlayerStates, B \in SUBSET PlayerStates
  PROVE  <<c>> \in Seq(Own(p)) /\ Run(p, <<c>>, A, B)
BY RunOne DEF Own

LEMMA OwnConcat ==
  ASSUME NEW p, NEW s \in Seq(Own(p)), NEW t \in Seq(Own(p)), NEW A, NEW M, NEW B,
         Run(p, s, A, M), Run(p, t, M, B)
  PROVE  s \o t \in Seq(Own(p)) /\ Run(p, s \o t, A, B)
<1>1. s \o t \in Seq(Own(p))
  BY ConcatProperties
<1> QED BY <1>1, OwnSequence, RunConcat

LEMMA RestState ==
  ASSUME IInv, calls = <<>>, NEW q \in Players
  PROVE  StateOf(q) \in RestStates /\ StateOf(q) \in PlayerStates
<1>1. Run(q, <<>>, {StateOf(q)}, RestStates)
  BY DEF IInv, Promise
<1>2. PICK f \in [1..Len(<<>>) + 1 -> SUBSET PlayerStates] :
        {StateOf(q)} \subseteq f[1] /\ f[Len(<<>>) + 1] \subseteq RestStates
  BY <1>1 DEF Run
<1>3. Len(<<>>) + 1 = 1
  OBVIOUS
<1> QED BY <1>2, <1>3 DEF RestStates

LEMMA Audible ==
  ASSUME IInv, calls = <<>>, dialog = {}, NEW p \in attached
  PROVE  /\ p \in Players
         /\ mode[p] \in Modes /\ CanContinue(mode[p]) \in Songs
         /\ StateOf(p) \in Playing(CanContinue(mode[p]), "audible")
         /\ StateOf(p) \in Playing("stopped", "audible")
<1>1. p \in Players /\ mode[p] \in Modes
  BY DEF IInv, MixerOK, Data
<1>2. CanContinue(mode[p]) \in Songs
  BY <1>1 DEF CanContinue, Songs, Modes
<1>3. StateOf(p) \in PlayerStates /\ StateOf(p).flags = "audible"
  <2>1. StateOf(p) \in RestStates /\ StateOf(p) \in PlayerStates
    BY <1>1, RestState
  <2>2. StateOf(p).flags # "asked" /\ StateOf(p).flags # "detached"
    BY DEF StateOf, State, FlagsOf, Asked
  <2> QED BY <2>1, <2>2 DEF RestStates
<1>4. CanContinue(mode[p]) # "stopped" => StateOf(p).mode = CanContinue(mode[p])
  BY DEF StateOf, State, CanContinue
<1> QED BY <1>1, <1>2, <1>3, <1>4 DEF Playing

LEMMA RestClasses ==
  /\ RestStates \in SUBSET PlayerStates
  /\ \A m : Playing(m, "audible") \subseteq RestStates
  /\ \A m : Kept(m, "audible") \subseteq RestStates
  /\ \A m : Both(m, "audible") \subseteq RestStates
  /\ \A m : Kept(m, "detached") \subseteq RestStates
BY DEF RestStates, Playing, Kept, Both

\* A command begins: its calls are all pending.
LEMMA CommandBegins ==
  ASSUME IInv, calls = <<>>, NEW s \in Seq(AllCalls), calls' = s,
         UNCHANGED <<mixer, flags, song, dialog>>, DialogAlone',
         \A q \in Players : Run(q, s, {StateOf(q)}, RestStates)
  PROVE  IInv'
<1>1. Data' /\ MixerOK'
  BY DEF IInv, Data, MixerOK, mixer, flags, song
<1>2. \A q : StateOf(q)' = StateOf(q)
  BY DEF StateOf, FlagsOf, Asked, mixer, flags, song
<1>3. \A q \in Players : Run(q, calls', {StateOf(q)'}, RestStates)
  BY <1>2
<1>4. \A q \in Players : Promise(q)'
  BY <1>3 DEF Promise, Run, Meets
<1> QED BY <1>1, <1>4 DEF IInv

LEMMA OwnCommandBegins ==
  ASSUME IInv, calls = <<>>, dialog = {}, NEW p \in Players, NEW s \in Seq(Own(p)),
         calls' = s, UNCHANGED <<mixer, flags, song, dialog>>,
         Run(p, s, {StateOf(p)}, RestStates)
  PROVE  IInv'
<1>1. s \in Seq(AllCalls) /\ \A i \in 1..Len(s) : s[i].p = p /\ s[i].op # "openDialog"
  BY OwnSequence
<1>2. DialogAlone'
  BY <1>1 DEF DialogAlone
<1>3. ASSUME NEW q \in Players PROVE Run(q, s, {StateOf(q)}, RestStates)
  <2>1. CASE q = p
    BY <2>1
  <2>2. CASE q # p
    <3>1. StateOf(q) \in RestStates /\ {StateOf(q)} \in SUBSET PlayerStates
      BY RestState
    <3>2. Run(q, s, {StateOf(q)}, {StateOf(q)})
      BY <1>1, <2>2, <3>1, Bystander
    <3> QED BY <3>1, <3>2, RunWiden
  <2> QED BY <2>1, <2>2
<1> QED BY <1>1, <1>2, <1>3, CommandBegins

\* The calls of which the commands consist.
LEMMA Parts ==
  ASSUME NEW p \in Players, NEW m \in Songs
  PROVE  /\ <<With("suspend", p, TRUE)>> \in Seq(Own(p))
         /\ Run(p, <<With("suspend", p, TRUE)>>, Playing(m, "audible"), Kept(m, "silent"))
         /\ <<With("resume", p, TRUE)>> \in Seq(Own(p))
         /\ Run(p, <<With("resume", p, TRUE)>>, Kept(m, "silent"), Both(m, "audible"))
         /\ Run(p, <<With("resume", p, TRUE)>>, Both(m, "audible"), Both(m, "audible"))
         /\ <<Call("stop", p)>> \in Seq(Own(p))
         /\ Run(p, <<Call("stop", p)>>, Playing(m, "audible"), Kept(m, "audible"))
         /\ <<Call("move", p)>> \in Seq(Own(p))
         /\ Run(p, <<Call("move", p)>>, Both(m, "audible"), Both(m, "audible"))
         /\ <<Call("ensureSongPlaying", p)>> \in Seq(Own(p))
         /\ Run(p, <<Call("ensureSongPlaying", p)>>, Both(m, "audible"), Both(m, "audible"))
         /\ <<In("done", p, m)>> \in Seq(Own(p))
         /\ Run(p, <<In("done", p, m)>>, Playing(m, "audible"), RestStates)
         /\ Run(p, <<In("done", p, m)>>, Both(m, "audible"), RestStates)
<1>1. /\ "suspend" \in OwnOps /\ "resume" \in OwnOps /\ "stop" \in OwnOps
      /\ "move" \in OwnOps /\ "ensureSongPlaying" \in OwnOps /\ "done" \in OwnOps
  BY DEF OwnOps, Ops
<1>2. m \in Modes
  BY DEF Songs
<1>3. /\ Playing(m, "audible") \in SUBSET PlayerStates /\ Kept(m, "silent") \in SUBSET PlayerStates
      /\ Kept(m, "audible") \in SUBSET PlayerStates /\ Both(m, "audible") \in SUBSET PlayerStates
      /\ RestStates \in SUBSET PlayerStates
      /\ Both(m, "audible") \subseteq Kept(m, "audible")
      /\ Both(m, "audible") \subseteq Playing(m, "audible")
  BY ClassTypes, RestClasses
<1>4. /\ <<With("suspend", p, TRUE)>> \in Seq(Own(p))
      /\ Run(p, <<With("suspend", p, TRUE)>>, Playing(m, "audible"), Kept(m, "silent"))
  BY <1>1, <1>3, OwnWith, SuspendKeeps, OwnOne
<1>5. /\ <<With("resume", p, TRUE)>> \in Seq(Own(p))
      /\ Run(p, <<With("resume", p, TRUE)>>, Kept(m, "silent"), Both(m, "audible"))
      /\ Run(p, <<With("resume", p, TRUE)>>, Both(m, "audible"), Both(m, "audible"))
  <2>1. /\ With("resume", p, TRUE) \in Own(p)
        /\ Meets(p, With("resume", p, TRUE), Kept(m, "silent"), Both(m, "audible"))
        /\ Meets(p, With("resume", p, TRUE), Kept(m, "audible"), Both(m, "audible"))
    BY <1>1, OwnWith, ResumeContinues
  <2>2. Run(p, <<With("resume", p, TRUE)>>, Kept(m, "audible"), Both(m, "audible"))
    BY <1>3, <2>1, OwnOne
  <2> QED BY <1>3, <2>1, <2>2, OwnOne, RunWiden
<1>6. /\ <<Call("stop", p)>> \in Seq(Own(p))
      /\ Run(p, <<Call("stop", p)>>, Playing(m, "audible"), Kept(m, "audible"))
  BY <1>1, <1>3, OwnCall, StopKeeps, OwnOne
<1>7. /\ <<Call("move", p)>> \in Seq(Own(p))
      /\ Run(p, <<Call("move", p)>>, Both(m, "audible"), Both(m, "audible"))
  BY <1>1, <1>3, OwnCall, EndKeeps, OwnOne
<1>8. /\ <<Call("ensureSongPlaying", p)>> \in Seq(Own(p))
      /\ Run(p, <<Call("ensureSongPlaying", p)>>, Both(m, "audible"), Both(m, "audible"))
  <2>1. /\ Call("ensureSongPlaying", p) \in Own(p)
        /\ Meets(p, Call("ensureSongPlaying", p), Kept(m, "audible"), Both(m, "audible"))
    BY <1>1, OwnCall, ContinueContinues
  <2>2. Run(p, <<Call("ensureSongPlaying", p)>>, Kept(m, "audible"), Both(m, "audible"))
    BY <1>3, <2>1, OwnOne
  <2> QED BY <1>3, <2>1, <2>2, OwnOne, RunWiden
<1>9. /\ <<In("done", p, m)>> \in Seq(Own(p))
      /\ Run(p, <<In("done", p, m)>>, Playing(m, "audible"), RestStates)
  BY <1>1, <1>2, <1>3, OwnIn, EndKeeps, OwnOne
<1>10. Run(p, <<In("done", p, m)>>, Both(m, "audible"), RestStates)
  BY <1>3, <1>9, RunWiden
<1> QED BY <1>4, <1>5, <1>6, <1>7, <1>8, <1>9, <1>10
\* Each command, from the state it finds.
LEMMA SectionBegins ==
  ASSUME IInv, calls = <<>>, dialog = {}, NEW p \in attached, calls' \in Command("section", p),
         UNCHANGED <<mixer, flags, song, dialog>>
  PROVE  IInv'
<1> DEFINE m == CanContinue(mode[p])
           s == Section(p) \o <<In("done", p, m)>>
<1>1. calls' = s
  BY DEF Command, Ends
<1>2. p \in Players /\ m \in Songs /\ StateOf(p) \in Playing(m, "audible")
  BY Audible
<1> HIDE DEF m
<1>3. s \in Seq(Own(p)) /\ Run(p, s, Playing(m, "audible"), RestStates)
  BY <1>2, Parts, SectionRuns, OwnConcat
<1>4. Run(p, s, {StateOf(p)}, RestStates)
  BY <1>2, <1>3, RunWiden
<1> HIDE DEF s
<1> QED BY <1>1, <1>2, <1>3, <1>4, OwnCommandBegins

LEMMA PlayBegins ==
  ASSUME IInv, calls = <<>>, dialog = {}, NEW p \in attached,
         NEW c \in {"play", "stop", "note"}, calls' \in Command(c, p),
         UNCHANGED <<mixer, flags, song, dialog>>
  PROVE  IInv'
<1>1. p \in Players /\ StateOf(p) \in Playing("stopped", "audible")
  BY Audible
<1>2. PICK d \in Own(p) : calls' = <<d>> /\ d.op \in {"play", "stop", "assureNotSuspended"}
  <2>1. CASE c = "play"
    <3>1. PICK n \in Modes : calls' = <<In("play", p, n)>>
      BY <2>1 DEF Command
    <3>2. "play" \in OwnOps
      BY DEF OwnOps, Ops
    <3> QED BY <1>1, <3>1, <3>2, OwnIn
  <2>2. CASE c = "stop"
    <3>1. calls' = <<Call("stop", p)>>
      BY <2>2 DEF Command
    <3>2. "stop" \in OwnOps
      BY DEF OwnOps, Ops
    <3> QED BY <1>1, <3>1, <3>2, OwnCall
  <2>3. CASE c = "note"
    <3>1. calls' = <<Call("assureNotSuspended", p)>>
      BY <2>3 DEF Command
    <3>2. "assureNotSuspended" \in OwnOps
      BY DEF OwnOps, Ops
    <3> QED BY <1>1, <3>1, <3>2, OwnCall
  <2> QED BY <2>1, <2>2, <2>3
<1>3. d.p = p /\ d.mode \in Modes
  BY DEF Own, AllCalls
<1>4. Meets(p, d, Playing("stopped", "audible"), Kept("stopped", "audible"))
  BY <1>2, <1>3, FlagsAfter, StopKeeps, OnlyFlags, ClassTypes
<1>5. <<d>> \in Seq(Own(p)) /\ Run(p, <<d>>, Playing("stopped", "audible"), Kept("stopped", "audible"))
  BY <1>4, OwnOne, ClassTypes
<1>6. Run(p, <<d>>, {StateOf(p)}, RestStates)
  BY <1>1, <1>5, RestClasses, RunWiden
<1> QED BY <1>1, <1>2, <1>5, <1>6, OwnCommandBegins

LEMMA ReallocBegins ==
  ASSUME IInv, calls = <<>>, dialog = {}, NEW p \in attached, calls' \in Command("realloc", p),
         UNCHANGED <<mixer, flags, song, dialog>>
  PROVE  IInv'
<1> DEFINE m == CanContinue(mode[p])
           c == Call("stop", p)
           d == Call("attach", p)
           e == With("continue", p, TRUE)
           s == <<c, d, e>> \o <<In("done", p, m)>>
<1>1. calls' = s
  BY DEF Command, Ends, Realloc
<1>2. p \in Players /\ m \in Songs /\ StateOf(p) \in Playing(m, "audible")
  BY Audible
<1> HIDE DEF m
<1>3. "attach" \in OwnOps /\ "continue" \in OwnOps /\ "stop" \in OwnOps
  BY DEF OwnOps, Ops
<1>4. c \in Own(p) /\ c.op = "stop" /\ c.p = p /\ d \in Own(p) /\ d.op = "attach" /\ d.p = p
  BY <1>2, <1>3, OwnCall
<1>5. e \in Own(p) /\ e.op = "continue" /\ e.p = p
  BY <1>2, <1>3, OwnWith
<1> HIDE DEF c, d, e
<1>6. /\ Run(p, <<c>>, Playing(m, "audible"), Kept(m, "audible"))
      /\ Run(p, <<d>>, Kept(m, "audible"), Kept(m, "audible"))
      /\ Run(p, <<e>>, Kept(m, "audible"), Both(m, "audible"))
  BY <1>2, <1>4, <1>5, StopKeeps, AttachKeeps, ContinueContinues, ClassTypes, OwnOne
<1>7. <<c, d, e>> \in Seq(Own(p)) /\ Run(p, <<c, d, e>>, Playing(m, "audible"), Both(m, "audible"))
  <2>1. c \in AllCalls /\ d \in AllCalls /\ e \in AllCalls
    BY <1>4, <1>5 DEF Own
  <2> QED BY <1>4, <1>5, <1>6, <2>1, RunThree
<1>8. s \in Seq(Own(p)) /\ Run(p, s, Playing(m, "audible"), RestStates)
  BY <1>2, <1>7, Parts, OwnConcat
<1>9. Run(p, s, {StateOf(p)}, RestStates)
  BY <1>2, <1>8, RunWiden
<1> HIDE DEF s
<1> QED BY <1>1, <1>2, <1>8, <1>9, OwnCommandBegins

LEMMA LoadSampleBegins ==
  ASSUME IInv, calls = <<>>, dialog = {}, NEW p \in attached, calls' \in Command("loadSample", p),
         UNCHANGED <<mixer, flags, song, dialog>>
  PROVE  IInv'
<1> DEFINE m == CanContinue(mode[p])
           r == <<With("suspend", p, TRUE)>> \o Section(p)
           t == r \o <<With("resume", p, TRUE)>>
           s == t \o <<In("done", p, m)>>
<1>1. calls' = s
  BY DEF Command, Ends, LoadSample
<1>2. p \in Players /\ m \in Songs /\ StateOf(p) \in Playing(m, "audible")
  BY Audible
<1> HIDE DEF m
<1>3. r \in Seq(Own(p)) /\ Run(p, r, Playing(m, "audible"), Both(m, "audible"))
  BY <1>2, Parts, SectionRuns, OwnConcat
<1> HIDE DEF r
<1>4. t \in Seq(Own(p)) /\ Run(p, t, Playing(m, "audible"), Both(m, "audible"))
  BY <1>2, <1>3, Parts, OwnConcat
<1> HIDE DEF t
<1>5. s \in Seq(Own(p)) /\ Run(p, s, Playing(m, "audible"), RestStates)
  BY <1>2, <1>4, Parts, OwnConcat
<1>6. Run(p, s, {StateOf(p)}, RestStates)
  BY <1>2, <1>5, RunWiden
<1> HIDE DEF s
<1> QED BY <1>1, <1>2, <1>5, <1>6, OwnCommandBegins

LEMMA RemapBegins ==
  ASSUME IInv, calls = <<>>, dialog = {}, NEW p \in attached, calls' \in Command("remap", p),
         UNCHANGED <<mixer, flags, song, dialog>>
  PROVE  IInv'
<1> DEFINE m == CanContinue(mode[p])
           r == <<With("suspend", p, TRUE)>> \o Section(p)
           t == r \o <<Call("move", p)>>
           u == t \o Section(p)
           v == u \o <<Call("ensureSongPlaying", p)>>
           s == v \o <<In("done", p, m)>>
<1>1. calls' = s
  BY DEF Command, Ends, Remap
<1>2. p \in Players /\ m \in Songs /\ StateOf(p) \in Playing(m, "audible")
  BY Audible
<1> HIDE DEF m
<1>3. r \in Seq(Own(p)) /\ Run(p, r, Playing(m, "audible"), Both(m, "audible"))
  BY <1>2, Parts, SectionRuns, OwnConcat
<1> HIDE DEF r
<1>4. t \in Seq(Own(p)) /\ Run(p, t, Playing(m, "audible"), Both(m, "audible"))
  BY <1>2, <1>3, Parts, OwnConcat
<1> HIDE DEF t
<1>5. u \in Seq(Own(p)) /\ Run(p, u, Playing(m, "audible"), Both(m, "audible"))
  <2>1. Run(p, Section(p), Both(m, "audible"), Both(m, "audible"))
    BY <1>2, SectionRuns, ClassTypes, RunWiden
  <2> QED BY <1>2, <1>4, <2>1, SectionRuns, OwnConcat
<1> HIDE DEF u
<1>6. v \in Seq(Own(p)) /\ Run(p, v, Playing(m, "audible"), Both(m, "audible"))
  BY <1>2, <1>5, Parts, OwnConcat
<1> HIDE DEF v
<1>7. s \in Seq(Own(p)) /\ Run(p, s, Playing(m, "audible"), RestStates)
  BY <1>2, <1>6, Parts, OwnConcat
<1>8. Run(p, s, {StateOf(p)}, RestStates)
  BY <1>2, <1>7, RunWiden
<1> HIDE DEF s
<1> QED BY <1>1, <1>2, <1>7, <1>8, OwnCommandBegins

LEMMA ZapBegins ==
  ASSUME IInv, calls = <<>>, dialog = {}, NEW p \in attached, calls' \in Command("zap", p),
         UNCHANGED <<mixer, flags, song, dialog>>
  PROVE  IInv'
<1> DEFINE c == With("enter", p, TRUE)
           d == Call("createEmptySong", p)
           e == With("leave", p, TRUE)
           f == Call("stop", p)
           s == <<c, d, e>> \o <<f>>
<1>1. p \in Players /\ StateOf(p) \in Playing("stopped", "audible")
  BY Audible
<1>2. /\ "enter" \in OwnOps /\ "createEmptySong" \in OwnOps /\ "leave" \in OwnOps
      /\ "stop" \in OwnOps
  BY DEF OwnOps, Ops
<1>3. c \in Own(p) /\ c.op = "enter" /\ c.p = p /\ c.flag
  BY <1>1, <1>2, OwnWith
<1>4. e \in Own(p) /\ e.op = "leave" /\ e.p = p /\ e.flag
  BY <1>1, <1>2, OwnWith
<1>5. d \in Own(p) /\ d.op = "createEmptySong" /\ d.p = p
  BY <1>1, <1>2, OwnCall
<1>6. f \in Own(p)
  BY <1>1, <1>2, OwnCall
<1>7. calls' = s
  <2>1. calls' = <<c, d, e, f>>
    BY DEF Command, Zap
  <2> HIDE DEF c, d, e, f
  <2>2. c \in AllCalls /\ d \in AllCalls /\ e \in AllCalls /\ f \in AllCalls
    BY <1>3, <1>4, <1>5, <1>6 DEF Own
  <2>3. <<c, d, e>> \o <<f>> = <<c, d, e, f>>
    BY <2>2, Joins
  <2> QED BY <2>1, <2>3
<1>8. Run(p, <<f>>, Both("stopped", "audible"), RestStates)
  <2>1. Run(p, <<f>>, Playing("stopped", "audible"), Kept("stopped", "audible"))
    BY <1>1, OnlyFlags, Parts
  <2> QED BY <2>1, ClassTypes, RestClasses, RunWiden
<1> HIDE DEF c, d, e, f
<1>9. /\ Meets(p, c, Playing("stopped", "audible"), Kept("stopped", "inside"))
      /\ Meets(p, d, Kept("stopped", "inside"), Kept("stopped", "inside"))
      /\ Meets(p, e, Kept("stopped", "inside"), Both("stopped", "audible"))
  <2>1. d.mode \in Modes
    BY <1>5 DEF Own, AllCalls
  <2> QED BY <1>3, <1>4, <1>5, <2>1, OnlyFlags, EnterKeeps, LeaveContinues, FlagsAfter
<1>10. <<c, d, e>> \in Seq(Own(p))
       /\ Run(p, <<c, d, e>>, Playing("stopped", "audible"), Both("stopped", "audible"))
  <2>1. c \in AllCalls /\ d \in AllCalls /\ e \in AllCalls
    BY <1>3, <1>4, <1>5 DEF Own
  <2>2. /\ Run(p, <<c>>, Playing("stopped", "audible"), Kept("stopped", "inside"))
        /\ Run(p, <<d>>, Kept("stopped", "inside"), Kept("stopped", "inside"))
        /\ Run(p, <<e>>, Kept("stopped", "inside"), Both("stopped", "audible"))
    BY <1>9, <2>1, ClassTypes, RunOne
  <2> QED BY <1>3, <1>4, <1>5, <2>1, <2>2, RunThree
<1>11. s \in Seq(Own(p)) /\ Run(p, s, Playing("stopped", "audible"), RestStates)
  <2>1. <<f>> \in Seq(Own(p))
    BY <1>6
  <2> QED BY <1>8, <1>10, <2>1, OwnConcat
<1>12. Run(p, s, {StateOf(p)}, RestStates)
  BY <1>1, <1>11, RunWiden
<1> HIDE DEF s
<1> QED BY <1>1, <1>7, <1>11, <1>12, OwnCommandBegins

LEMMA CloseBegins ==
  ASSUME IInv, calls = <<>>, dialog = {}, NEW p \in attached, calls' \in Command("close", p),
         UNCHANGED <<mixer, flags, song, dialog>>
  PROVE  IInv'
<1> DEFINE c == Call("detach", p)
           d == Call("destroy", p)
<1>1. p \in Players /\ StateOf(p) \in Playing("stopped", "audible")
  BY Audible
<1>2. "detach" \in OwnOps /\ "destroy" \in OwnOps
  BY DEF OwnOps, Ops
<1>3. c \in Own(p) /\ c.op = "detach" /\ c.p = p /\ d \in Own(p) /\ d.op = "destroy" /\ d.p = p
  BY <1>1, <1>2, OwnCall
<1>4. calls' = <<c, d>>
  BY DEF Command, CloseTab
<1> HIDE DEF c, d
<1>5. c \in AllCalls /\ c.mode \in Modes /\ d \in AllCalls /\ d.mode \in Modes
  BY <1>3 DEF Own, AllCalls
<1>6. /\ Meets(p, c, Kept("stopped", "audible"), Kept("stopped", "detached"))
      /\ Meets(p, d, Kept("stopped", "detached"), Kept("stopped", "detached"))
  BY <1>3, <1>5, OnlyFlags, FlagsAfter
<1>7. /\ Run(p, <<c>>, Kept("stopped", "audible"), Kept("stopped", "detached"))
      /\ Run(p, <<d>>, Kept("stopped", "detached"), Kept("stopped", "detached"))
  BY <1>5, <1>6, ClassTypes, RunOne
<1>8. Run(p, <<c, d>>, Kept("stopped", "audible"), Kept("stopped", "detached"))
  BY <1>5, <1>7, RunTwo
<1>9. Run(p, <<c, d>>, {StateOf(p)}, RestStates)
  BY <1>1, <1>8, ClassTypes, RestClasses, RunWiden
<1>10. <<c, d>> \in Seq(Own(p))
  BY <1>3
<1> QED BY <1>1, <1>4, <1>9, <1>10, OwnCommandBegins
LEMMA LoadBegins ==
  ASSUME IInv, calls = <<>>, dialog = {}, NEW p \in attached, calls' \in Command("load", p),
         UNCHANGED <<mixer, flags, song, dialog>>
  PROVE  IInv'
<1> DEFINE a == StateOf(p)
           m == CanContinue(mode[p])
           c == With("suspend", p, TRUE)
           d == In("openSong", p, mode[p])
           e == With("resume", p, TRUE)
           s == <<c, d, e>> \o <<In("done", p, m)>>
           \* suspended; loaded, and played again or still suspended
           H == {b \in PlayerStates : b.flags = "silent" /\ b.mode = "stopped" /\ b.last = m}
           L == Kept(m, "silent") \union {b \in Playing(m, "audible") : b.last = "stopped"}
<1>1. calls' = s
  BY DEF Command, Ends, LoadModule
<1>2. /\ p \in Players /\ mode[p] \in Modes /\ m \in Songs
      /\ a \in Playing(m, "audible") /\ a.mode = mode[p]
  BY Audible DEF StateOf, State
<1>3. "suspend" \in OwnOps /\ "openSong" \in OwnOps /\ "resume" \in OwnOps
  BY DEF OwnOps, Ops
<1>4. c \in Own(p) /\ c.op = "suspend" /\ c.p = p /\ c.flag
  BY <1>2, <1>3, OwnWith
<1>5. d \in Own(p) /\ d.op = "openSong" /\ d.p = p /\ d.mode = mode[p]
  BY <1>2, <1>3, OwnIn
<1>6. e \in Own(p) /\ e.op = "resume" /\ e.p = p /\ e.flag
  BY <1>2, <1>3, OwnWith
<1> HIDE DEF a, c, d, e
<1>7. Meets(p, c, {a}, H)
  <2>1. a \in PlayerStates /\ a.flags = "audible"
    BY <1>2 DEF Playing
  <2>2. Ready(c, a)
    BY <1>4, <2>1 DEF Ready, Closed
  <2>3. \A b : After(c, a, b) => b = Put(Stopped(a), "silent")
    BY <1>4, <2>1 DEF After
  <2>4. Put(Stopped(a), "silent") \in H
    BY <1>2, <2>1, StateFields DEF Flags, CanContinue
  <2> HIDE DEF H, m
  <2> QED BY <1>4, <2>2, <2>3, <2>4 DEF Meets
<1>8. Meets(p, d, H, L)
  <2> SUFFICES ASSUME NEW g \in H
               PROVE  Ready(d, g) /\ \A b \in PlayerStates : After(d, g, b) => b \in L
    BY <1>5, MeetsEach
  <2>1. /\ g \in PlayerStates /\ g.flags = "silent" /\ g.mode = "stopped" /\ g.last = m
        /\ Stopped(g).last = "stopped" /\ Resumed(g.flags) = "audible"
    BY StateFields DEF Resumed
  <2>2. Ready(d, g)
    BY <1>5, <2>1 DEF Ready
  <2> SUFFICES ASSUME NEW b \in PlayerStates, After(d, g, b) PROVE b \in L
    BY <2>2
  <2>3. \/ \E x \in {"some", "none"} : b = State("silent", "stopped", m, x)
        \/ mode[p] = "song" /\ b = State("silent", "stopped", "song", "some")
        \/ mode[p] = "pattern" /\ b = State("audible", "pattern", "stopped", "some")
    BY <1>5, <2>1 DEF After
  <2>4. (mode[p] = "song" => m = "song") /\ (mode[p] = "pattern" => m = "pattern")
    BY DEF CanContinue
  <2> HIDE DEF m, H
  <2> QED BY <2>3, <2>4 DEF State, Kept, Playing
<1>9. Meets(p, e, L, Playing(m, "audible"))
  <2> SUFFICES ASSUME NEW g \in L
               PROVE  /\ Ready(e, g)
                      /\ \A b \in PlayerStates : After(e, g, b) => b \in Playing(m, "audible")
    BY <1>6, MeetsEach
  <2>1. CASE g \in Kept(m, "silent")
    BY <1>2, <1>6, <2>1, ResumeContinues, ClassTypes DEF Meets
  <2>2. CASE g \in Playing(m, "audible") /\ g.last = "stopped"
    <3>1. g \in PlayerStates /\ g.flags = "audible"
      BY <2>2 DEF Playing
    <3>2. Continued(g) = g /\ Put(g, Resumed(g.flags)) = g
      BY <2>2, <3>1, SameState, StateFields DEF Continued, Continues, Resumed, Flags
    <3>3. \A b : After(e, g, b) => b = g
      BY <1>6, <3>2 DEF After
    <3>4. Ready(e, g)
      BY <1>6, <3>1 DEF Ready, Settled, Closed
    <3> QED BY <2>2, <3>3, <3>4
  <2> QED BY <2>1, <2>2
<1>10. {a} \in SUBSET PlayerStates /\ H \in SUBSET PlayerStates /\ L \in SUBSET PlayerStates
  BY <1>2, ClassTypes
<1> HIDE DEF m, H, L
<1>11. <<c, d, e>> \in Seq(Own(p)) /\ Run(p, <<c, d, e>>, {a}, Playing(m, "audible"))
  <2>1. c \in AllCalls /\ d \in AllCalls /\ e \in AllCalls
    BY <1>4, <1>5, <1>6 DEF Own
  <2>2. /\ Run(p, <<c>>, {a}, H) /\ Run(p, <<d>>, H, L)
        /\ Run(p, <<e>>, L, Playing(m, "audible"))
    BY <1>7, <1>8, <1>9, <1>10, <2>1, ClassTypes, RunOne
  <2> QED BY <1>4, <1>5, <1>6, <2>1, <2>2, RunThree
<1>12. s \in Seq(Own(p)) /\ Run(p, s, {a}, RestStates)
  BY <1>2, <1>11, Parts, OwnConcat
<1> HIDE DEF s
<1> QED BY <1>1, <1>2, <1>12, OwnCommandBegins DEF a

LEMMA DialogBegins ==
  ASSUME IInv, calls = <<>>, dialog = {}, NEW p \in attached, calls' \in Command("dialog", p),
         UNCHANGED <<mixer, flags, song, dialog>>
  PROVE  IInv'
<1> DEFINE m == CanContinue(mode[p])
           c == With("suspend", p, TRUE)
           d == In("openDialog", p, m)
<1>1. calls' = <<c, d>>
  BY DEF Command, AskChannel
<1>2. p \in Players /\ m \in Songs /\ StateOf(p) \in Playing("stopped", "audible")
  BY Audible
<1>3. c \in Own(p) /\ c.op = "suspend" /\ c.p = p /\ c.flag
  <2>1. "suspend" \in OwnOps
    BY DEF OwnOps, Ops
  <2> QED BY <1>2, <2>1, OwnWith
<1>4. /\ d \in AllCalls /\ d.op = "openDialog" /\ d.p = p
      /\ d.mode \in Modes /\ d.mode # "row"
  <2> HIDE DEF m
  <2> QED BY <1>2 DEF Songs, In, Call, AllCalls, Modes, Ops
<1> HIDE DEF c, d
<1>5. c \in AllCalls
  BY <1>3 DEF Own
<1>6. /\ Meets(p, c, Playing("stopped", "audible"), Kept("stopped", "silent"))
      /\ Meets(p, d, Kept("stopped", "silent"), RestStates)
  BY <1>3, <1>4, OnlyFlags, SuspendKeeps, FlagsAfter
<1>7. Run(p, <<c, d>>, {StateOf(p)}, RestStates)
  <2>1. /\ Run(p, <<c>>, Playing("stopped", "audible"), Kept("stopped", "silent"))
        /\ Run(p, <<d>>, Kept("stopped", "silent"), RestStates)
    BY <1>4, <1>5, <1>6, ClassTypes, RestClasses, RunOne
  <2>2. Run(p, <<c, d>>, Playing("stopped", "audible"), RestStates)
    BY <1>4, <1>5, <2>1, RunTwo
  <2> QED BY <1>2, <2>2, RunWiden
<1>8. /\ <<c, d>> \in Seq(AllCalls) /\ Len(<<c, d>>) = 2
      /\ <<c, d>>[1] = c /\ <<c, d>>[2] = d
  BY <1>4, <1>5
<1>9. DialogAlone'
  <2>1. \A i \in 1..2 : <<c, d>>[i].op = "openDialog" => i = 2
    BY <1>3, <1>8
  <2> QED BY <1>1, <1>8, <2>1 DEF DialogAlone
<1>10. ASSUME NEW q \in Players PROVE Run(q, <<c, d>>, {StateOf(q)}, RestStates)
  <2>1. CASE q = p
    BY <1>7, <2>1
  <2>2. CASE q # p
    <3>1. StateOf(q) \in RestStates /\ {StateOf(q)} \in SUBSET PlayerStates
      BY RestState
    <3>2. \A i \in 1..Len(<<c, d>>) : <<c, d>>[i].p # q
      BY <1>3, <1>4, <1>8, <2>2
    <3>3. Run(q, <<c, d>>, {StateOf(q)}, {StateOf(q)})
      BY <1>8, <3>1, <3>2, Bystander
    <3> QED BY <3>1, <3>3, RunWiden
  <2> QED BY <2>1, <2>2
<1> QED BY <1>1, <1>8, <1>9, <1>10, CommandBegins
-----------------------------------------------------------------------------
(* Commands of two players, new tabs and the channel dialog. *)

\* The sections of two players, from the one that is entered first (or
\* second): the calls of the other one leave it alone.
LEMMA SwapRuns ==
  ASSUME NEW p \in Players, NEW q \in Players, p # q, NEW m \in Songs
  PROVE  /\ Swap(p, q) \in Seq(AllCalls)
         /\ \A i \in 1..Len(Swap(p, q)) : Swap(p, q)[i].p \in {p, q}
              /\ Swap(p, q)[i].op # "openDialog"
         /\ Run(p, Swap(p, q), Playing(m, "audible"), Both(m, "audible"))
         /\ Run(q, Swap(p, q), Playing(m, "audible"), Both(m, "audible"))
<1> DEFINE c == With("enter", p, TRUE)
           d == With("enter", q, TRUE)
           e == Call("edit", p)
           f == Call("edit", q)
           g == With("leave", q, TRUE)
           h == With("leave", p, TRUE)
           P == Playing(m, "audible")
           K == Kept(m, "inside")
           B == Both(m, "audible")
<1>1. "enter" \in OwnOps /\ "edit" \in OwnOps /\ "leave" \in OwnOps
  BY DEF OwnOps, Ops
<1>2. /\ c \in Own(p) /\ c.op = "enter" /\ c.p = p /\ c.flag
      /\ h \in Own(p) /\ h.op = "leave" /\ h.p = p /\ h.flag
  BY <1>1, OwnWith
<1>3. /\ d \in Own(q) /\ d.op = "enter" /\ d.p = q /\ d.flag
      /\ g \in Own(q) /\ g.op = "leave" /\ g.p = q /\ g.flag
  BY <1>1, OwnWith
<1>4. e \in Own(p) /\ e.op = "edit" /\ e.p = p /\ f \in Own(q) /\ f.op = "edit" /\ f.p = q
  BY <1>1, OwnCall
<1>5. Swap(p, q) = <<c, d, e, f, g, h>>
  BY DEF Swap
<1> HIDE DEF c, d, e, f, g, h
<1>6. /\ c \in AllCalls /\ d \in AllCalls /\ e \in AllCalls
      /\ f \in AllCalls /\ g \in AllCalls /\ h \in AllCalls
  BY <1>2, <1>3, <1>4 DEF Own
<1>7. P \in SUBSET PlayerStates /\ K \in SUBSET PlayerStates /\ B \in SUBSET PlayerStates
  BY ClassTypes
<1>8. /\ Meets(p, c, P, K) /\ Meets(p, e, K, K) /\ Meets(p, h, K, B)
      /\ Meets(q, d, P, K) /\ Meets(q, f, K, K) /\ Meets(q, g, K, B)
  BY <1>2, <1>3, <1>4, EnterKeeps, EditKeeps, LeaveContinues
<1> HIDE DEF P, K, B
<1>9. \A A : /\ Meets(p, d, A, A) /\ Meets(p, f, A, A) /\ Meets(p, g, A, A)
             /\ Meets(q, c, A, A) /\ Meets(q, e, A, A) /\ Meets(q, h, A, A)
  BY <1>2, <1>3, <1>4 DEF Meets
<1>10. <<c, d, e>> \in Seq(AllCalls) /\ <<f, g, h>> \in Seq(AllCalls)
       /\ <<c, d, e>> \o <<f, g, h>> = <<c, d, e, f, g, h>>
  BY <1>6, Joins
<1>11. Run(p, <<c, d, e>>, P, K) /\ Run(p, <<f, g, h>>, K, B)
  <2>1. Run(p, <<c>>, P, K) /\ Run(p, <<d>>, K, K) /\ Run(p, <<e>>, K, K)
    BY <1>6, <1>7, <1>8, <1>9, RunOne
  <2>2. Run(p, <<f>>, K, K) /\ Run(p, <<g>>, K, K) /\ Run(p, <<h>>, K, B)
    BY <1>6, <1>7, <1>8, <1>9, RunOne
  <2> QED BY <1>6, <2>1, <2>2, RunThree
<1>12. Run(q, <<c, d, e>>, P, K) /\ Run(q, <<f, g, h>>, K, B)
  <2>1. Run(q, <<c>>, P, P) /\ Run(q, <<d>>, P, K) /\ Run(q, <<e>>, K, K)
    BY <1>6, <1>7, <1>8, <1>9, RunOne
  <2>2. Run(q, <<f>>, K, K) /\ Run(q, <<g>>, K, B) /\ Run(q, <<h>>, B, B)
    BY <1>6, <1>7, <1>8, <1>9, RunOne
  <2> QED BY <1>6, <2>1, <2>2, RunThree
<1>13. Run(p, Swap(p, q), P, B) /\ Run(q, Swap(p, q), P, B)
  BY <1>5, <1>10, <1>11, <1>12, RunConcat
<1>14. /\ Swap(p, q) \in Seq(AllCalls)
       /\ \A i \in 1..Len(Swap(p, q)) : Swap(p, q)[i].p \in {p, q}
              /\ Swap(p, q)[i].op # "openDialog"
  <2>1. \A i \in 1..6 : <<c, d, e, f, g, h>>[i] \in {c, d, e, f, g, h}
    OBVIOUS
  <2>2. /\ <<c, d, e, f, g, h>> \in Seq(AllCalls) /\ Len(<<c, d, e, f, g, h>>) = 6
    BY <1>6
  <2>3. \A k \in {c, d, e, f, g, h} : k.p \in {p, q} /\ k.op # "openDialog"
    BY <1>2, <1>3, <1>4
  <2> QED BY <1>5, <2>1, <2>2, <2>3
<1> QED BY <1>13, <1>14 DEF P, B

LEMMA SwapBegins ==
  ASSUME IInv, calls = <<>>, dialog = {}, NEW p \in attached, calls' \in Command("swap", p),
         UNCHANGED <<mixer, flags, song, dialog>>
  PROVE  IInv'
<1>1. PICK q \in attached \ {p} : calls' = Swap(p, q) \o <<Ends(p), Ends(q)>>
  BY DEF Command
<1> DEFINE m == CanContinue(mode[p])
           n == CanContinue(mode[q])
           c == In("done", p, m)
           d == In("done", q, n)
           s == Swap(p, q) \o <<c, d>>
<1>2. calls' = s
  BY <1>1 DEF Ends
<1>3. p \in Players /\ m \in Songs /\ StateOf(p) \in Playing(m, "audible")
  BY Audible
<1>4. q \in Players /\ n \in Songs /\ StateOf(q) \in Playing(n, "audible") /\ p # q
  BY <1>1, Audible
<1> HIDE DEF m, n
<1>5. "done" \in OwnOps /\ m \in Modes /\ n \in Modes
  BY <1>3, <1>4 DEF OwnOps, Ops, Songs
<1>6. /\ c \in Own(p) /\ c.op = "done" /\ c.p = p /\ c.mode = m
      /\ d \in Own(q) /\ d.op = "done" /\ d.p = q /\ d.mode = n
  BY <1>3, <1>4, <1>5, OwnIn
<1> HIDE DEF c, d
<1>7. c \in AllCalls /\ d \in AllCalls
  BY <1>6 DEF Own
<1>8. Run(p, <<c, d>>, Both(m, "audible"), RestStates)
  <2>1. Meets(p, c, Playing(m, "audible"), RestStates)
    BY <1>3, <1>6, EndKeeps
  <2>2. Run(p, <<c>>, Playing(m, "audible"), RestStates)
    BY <1>7, <2>1, ClassTypes, RestClasses, RunOne
  <2>3. Run(p, <<d>>, RestStates, RestStates)
    BY <1>4, <1>6, <1>7, RestClasses, RunOne DEF Meets
  <2> QED BY <1>7, <2>2, <2>3, RunTwo, ClassTypes, RunWiden
<1>9. Run(q, <<c, d>>, Both(n, "audible"), RestStates)
  <2>1. Meets(q, d, Playing(n, "audible"), RestStates)
    BY <1>4, <1>6, EndKeeps
  <2>2. Run(q, <<d>>, Playing(n, "audible"), RestStates)
    BY <1>7, <2>1, ClassTypes, RestClasses, RunOne
  <2>3. Run(q, <<c>>, Playing(n, "audible"), Playing(n, "audible"))
    BY <1>4, <1>6, <1>7, ClassTypes, RunOne DEF Meets
  <2> QED BY <1>7, <2>2, <2>3, RunTwo, ClassTypes, RunWiden
<1>10. /\ <<c, d>> \in Seq(AllCalls) /\ Len(<<c, d>>) = 2
       /\ <<c, d>>[1] = c /\ <<c, d>>[2] = d
  BY <1>7
<1>11. Swap(p, q) \in Seq(AllCalls) /\ s \in Seq(AllCalls)
  BY <1>3, <1>4, <1>10, SwapRuns, ConcatProperties
<1>12. Run(p, s, {StateOf(p)}, RestStates)
  <2>1. Run(p, s, Playing(m, "audible"), RestStates)
    BY <1>3, <1>4, <1>8, <1>10, SwapRuns, RunConcat
  <2> QED BY <1>3, <2>1, RunWiden
<1>13. Run(q, s, {StateOf(q)}, RestStates)
  <2>1. Run(q, s, Playing(n, "audible"), RestStates)
    BY <1>3, <1>4, <1>9, <1>10, SwapRuns, RunConcat
  <2> QED BY <1>4, <2>1, RunWiden
<1>14. \A i \in 1..Len(s) : s[i].p \in {p, q} /\ s[i].op # "openDialog"
  <2> DEFINE k == Len(Swap(p, q))
  <2>1. /\ k \in Nat /\ Len(s) = k + 2
        /\ \A i \in 1..k + 2 : s[i] = IF i <= k THEN Swap(p, q)[i] ELSE <<c, d>>[i - k]
    BY <1>10, <1>11, ConcatProperties
  <2>2. ASSUME NEW i \in 1..k + 2 PROVE s[i].p \in {p, q} /\ s[i].op # "openDialog"
    <3>1. CASE i <= k
      <4>1. i \in 1..k
        BY <2>1, <3>1
      <4> QED BY <1>3, <1>4, <2>1, <3>1, <4>1, SwapRuns
    <3>2. CASE ~(i <= k)
      <4>1. i - k = 1 \/ i - k = 2
        BY <2>1, <3>2
      <4>2. s[i] = c \/ s[i] = d
        BY <1>10, <2>1, <3>2, <4>1
      <4> QED BY <1>6, <4>2
    <3> QED BY <3>1, <3>2
  <2> QED BY <2>1, <2>2
<1> HIDE DEF s
<1>15. DialogAlone'
  BY <1>2, <1>14 DEF DialogAlone
<1>16. ASSUME NEW r \in Players PROVE Run(r, s, {StateOf(r)}, RestStates)
  <2>1. CASE r \in {p, q}
    BY <1>12, <1>13, <2>1
  <2>2. CASE r \notin {p, q}
    <3>1. StateOf(r) \in RestStates /\ {StateOf(r)} \in SUBSET PlayerStates
      BY RestState
    <3>2. Run(r, s, {StateOf(r)}, {StateOf(r)})
      BY <1>11, <1>14, <2>2, <3>1, Bystander
    <3> QED BY <3>1, <3>2, RunWiden
  <2> QED BY <2>1, <2>2
<1> QED BY <1>2, <1>11, <1>15, <1>16, CommandBegins

LEMMA CommandMeets ==
  ASSUME IInv, UserCommands
  PROVE  IInv'
<1>1. /\ calls = <<>> /\ dialog = {} /\ UNCHANGED <<mixer, flags, song, dialog>>
      /\ \E c \in Commands, p \in attached : calls' \in Command(c, p)
  BY DEF UserCommands, Idle
<1>2. PICK c \in CommandNames, p \in attached : calls' \in Command(c, p)
  BY <1>1, CommandsAssumption
<1>3. c # "open"
  BY <1>2 DEF Command
<1>4. CASE c = "section"
  BY <1>1, <1>2, <1>4, SectionBegins
<1>5. CASE c = "swap"
  BY <1>1, <1>2, <1>5, SwapBegins
<1>6. CASE c \in {"play", "stop", "note"}
  BY <1>1, <1>2, <1>6, PlayBegins
<1>7. CASE c = "realloc"
  BY <1>1, <1>2, <1>7, ReallocBegins
<1>8. CASE c = "load"
  BY <1>1, <1>2, <1>8, LoadBegins
<1>9. CASE c = "loadSample"
  BY <1>1, <1>2, <1>9, LoadSampleBegins
<1>10. CASE c = "dialog"
  BY <1>1, <1>2, <1>10, DialogBegins
<1>11. CASE c = "zap"
  BY <1>1, <1>2, <1>11, ZapBegins
<1>12. CASE c = "remap"
  BY <1>1, <1>2, <1>12, RemapBegins
<1>13. CASE c = "close"
  BY <1>1, <1>2, <1>13, CloseBegins
<1> QED
  BY <1>3, <1>4, <1>5, <1>6, <1>7, <1>8, <1>9, <1>10, <1>11, <1>12, <1>13 DEF CommandNames
\* A player that waits for nothing, whatever its flags, takes a section and
\* a resume() (the answer to the dialog) and comes to rest.
LEMMA AnswerRuns ==
  ASSUME NEW p \in Players, NEW m \in Modes, NEW z \in Closed,
         NEW load \in {<<>>, Section(p)}, NEW s,
         s = load \o <<With("resume", p, TRUE), In("answered", p, m)>>
  PROVE  s \in Seq(Own(p)) /\ Run(p, s, Kept("stopped", z), RestStates)
<1> DEFINE c == With("resume", p, TRUE)
           d == In("answered", p, m)
           K == Kept("stopped", z)
           M == IF z = "detached" THEN K ELSE Kept("stopped", "audible")
<1>1. "resume" \in OwnOps /\ "answered" \in OwnOps
  BY DEF OwnOps, Ops
<1>2. c \in Own(p) /\ c.op = "resume" /\ c.p = p /\ c.flag
  BY <1>1, OwnWith
<1>3. d \in Own(p) /\ d.op = "answered" /\ d.p = p
  BY <1>1, OwnIn
<1>0. s = load \o <<c, d>>
  OBVIOUS
<1> HIDE DEF c, d
<1>4. c \in AllCalls /\ d \in AllCalls
  BY <1>2, <1>3 DEF Own
<1>5. /\ Kept("stopped", "audible") = Playing("stopped", "audible")
      /\ Both("stopped", "audible") \subseteq Kept("stopped", "audible")
      /\ K \in SUBSET PlayerStates /\ M \in SUBSET PlayerStates
  BY ClassTypes
<1>6. M \subseteq RestStates /\ RestStates \in SUBSET PlayerStates
  BY RestClasses
<1>7. z = "detached" \/ z = "audible" \/ z = "silent"
  BY DEF Closed
<1>8. Meets(p, c, K, M) /\ Meets(p, c, M, M)
  <2>1. /\ Meets(p, c, Kept("stopped", "silent"), Both("stopped", "audible"))
        /\ Meets(p, c, Kept("stopped", "audible"), Both("stopped", "audible"))
        /\ Meets(p, c, Kept("stopped", "detached"), Kept("stopped", "detached"))
    BY <1>2, OnlyFlags, ResumeContinues
  <2>2. /\ Meets(p, c, Kept("stopped", "silent"), Kept("stopped", "audible"))
        /\ Meets(p, c, Kept("stopped", "audible"), Kept("stopped", "audible"))
    BY <1>2, <1>5, <2>1 DEF Meets
  <2> QED BY <1>7, <2>1, <2>2
<1>9. Run(p, Section(p), K, M)
  <2>1. /\ Run(p, Section(p), Playing("stopped", "audible"), Both("stopped", "audible"))
        /\ Run(p, Section(p), Kept("stopped", "silent"), Both("stopped", "audible"))
        /\ Run(p, Section(p), Kept("stopped", "detached"), Kept("stopped", "detached"))
    BY OnlyFlags, SectionRuns
  <2>2. /\ Run(p, Section(p), Kept("stopped", "audible"), Kept("stopped", "audible"))
        /\ Run(p, Section(p), Kept("stopped", "silent"), Kept("stopped", "audible"))
    BY <1>5, <2>1, RunWiden
  <2> QED BY <1>7, <2>1, <2>2
<1> HIDE DEF K, M
<1>10. Run(p, <<c>>, K, M) /\ Run(p, <<c>>, M, M) /\ Run(p, <<d>>, M, RestStates)
  <2>1. Meets(p, d, M, RestStates)
    BY <1>3, <1>6, OnlyFlags, EndKeeps DEF Meets
  <2> QED BY <1>4, <1>5, <1>6, <1>8, <2>1, RunOne
<1>11. Run(p, <<c, d>>, K, RestStates) /\ Run(p, <<c, d>>, M, RestStates)
  BY <1>4, <1>10, RunTwo
<1>12. <<c, d>> \in Seq(Own(p)) /\ <<c, d>> \in Seq(AllCalls)
  BY <1>2, <1>3, <1>4
<1>13. CASE load = <<>>
  <2>1. s = <<c, d>>
    BY <1>0, <1>12, <1>13, ConcatEmptySeq
  <2> QED BY <1>11, <1>12, <2>1 DEF K
<1>14. CASE load = Section(p)
  <2>1. Section(p) \in Seq(Own(p))
    BY OnlyFlags, SectionRuns
  <2>2. /\ Section(p) \o <<c, d>> \in Seq(Own(p))
        /\ Run(p, Section(p) \o <<c, d>>, K, RestStates)
    BY <1>9, <1>11, <1>12, <2>1, OwnConcat
  <2> QED BY <1>0, <1>14, <2>2 DEF K
<1> QED BY <1>13, <1>14

LEMMA OpensTabMeets ==
  ASSUME IInv, UserOpensTab
  PROVE  IInv'
<1>1. PICK p \in Players \ attached :
        /\ calls = <<>> /\ dialog = {} /\ UNCHANGED <<mixer, flags, song, dialog>>
        /\ calls' = OpenTab(p)
  BY DEF UserOpensTab, Idle
<1> DEFINE c == Call("attach", p)
           s == Section(p) \o <<c>>
           D == Kept("stopped", "detached")
<1>2. StateOf(p) \in D
  <2>1. StateOf(p) \in RestStates /\ StateOf(p) \in PlayerStates
    BY <1>1, RestState
  <2>2. StateOf(p).flags \in {"detached", "detachedIn"}
    BY DEF StateOf, State, FlagsOf
  <2> QED BY <2>1, <2>2, OnlyFlags DEF RestStates
<1>3. c \in Own(p) /\ c.op = "attach" /\ c.p = p
  <2>1. "attach" \in OwnOps
    BY DEF OwnOps, Ops
  <2> QED BY <2>1, OwnCall
<1>4. calls' = s
  BY <1>1 DEF OpenTab
<1> HIDE DEF c
<1>5. <<c>> \in Seq(Own(p)) /\ Run(p, <<c>>, D, RestStates)
  <2>1. Meets(p, c, D, Kept("stopped", "audible"))
    BY <1>3, OnlyFlags, AttachKeeps
  <2>2. <<c>> \in Seq(Own(p)) /\ Run(p, <<c>>, D, Kept("stopped", "audible"))
    BY <1>3, <2>1, ClassTypes, OwnOne
  <2> QED BY <2>2, RestClasses, RunWiden
<1>6. Section(p) \in Seq(Own(p)) /\ Run(p, Section(p), D, D)
  BY OnlyFlags, SectionRuns
<1> HIDE DEF D
<1>7. s \in Seq(Own(p)) /\ Run(p, s, D, RestStates)
  BY <1>5, <1>6, OwnConcat
<1>8. Run(p, s, {StateOf(p)}, RestStates)
  BY <1>2, <1>7, RunWiden
<1> HIDE DEF s
<1> QED BY <1>1, <1>4, <1>7, <1>8, OwnCommandBegins

LEMMA NoteMeets ==
  ASSUME IInv, NoteDuringDialog
  PROVE  IInv'
<1>1. PICK d \in dialog :
        /\ calls = <<>> /\ UNCHANGED <<mixer, flags, song, dialog>>
        /\ calls' = <<Call("assureNotSuspended", d.p)>>
  BY DEF NoteDuringDialog, Idle
<1> DEFINE p == d.p
           c == Call("assureNotSuspended", p)
<1>2. p \in Players
  BY DEF IInv, Data
<1>3. c \in Own(p) /\ c.op = "assureNotSuspended" /\ c.p = p
  <2>1. "assureNotSuspended" \in OwnOps
    BY DEF OwnOps, Ops
  <2> QED BY <1>2, <2>1, OwnCall
<1>4. calls' = <<c>>
  BY <1>1
<1> HIDE DEF p, c
<1>5. c \in AllCalls
  BY <1>3 DEF Own
<1>6. Run(p, <<c>>, {StateOf(p)}, RestStates)
  <2> DEFINE a == StateOf(p)
  <2>1. a \in PlayerStates /\ a.flags \in {"detached", "audible", "asked"}
    BY <1>1, <1>2, RestState DEF RestStates
  <2> HIDE DEF a
  <2>2. Ready(c, a)
    BY <1>3, <2>1 DEF Ready
  <2>3. \A b : After(c, a, b) => b = Put(a, Resumed(a.flags))
    BY <1>3 DEF After
  <2>4. Resumed(a.flags) \in {"detached", "audible"}
    BY <2>1 DEF Resumed
  <2>5. \A b \in PlayerStates : After(c, a, b) => b \in RestStates
    BY <2>1, <2>3, <2>4, StateFields DEF Flags, RestStates
  <2> QED BY <1>3, <1>5, <2>1, <2>2, <2>5, RestClasses, RunCall DEF a
<1>7. <<c>> \in Seq(AllCalls) /\ \A i \in 1..Len(<<c>>) : <<c>>[i] = c
  BY <1>5
<1>8. DialogAlone'
  <2>1. \A d1, d2 \in dialog' : d1 = d2
    BY <1>1 DEF IInv, DialogAlone
  <2> QED BY <1>3, <1>4, <1>7, <2>1 DEF DialogAlone
<1>9. ASSUME NEW q \in Players PROVE Run(q, <<c>>, {StateOf(q)}, RestStates)
  <2>1. CASE q = p
    BY <1>6, <2>1
  <2>2. CASE q # p
    <3>1. StateOf(q) \in RestStates /\ {StateOf(q)} \in SUBSET PlayerStates
      BY <1>1, RestState
    <3>2. Run(q, <<c>>, {StateOf(q)}, {StateOf(q)})
      BY <1>3, <1>7, <2>2, <3>1, Bystander
    <3> QED BY <3>1, <3>2, RunWiden
  <2> QED BY <2>1, <2>2
<1> QED BY <1>1, <1>4, <1>7, <1>8, <1>9, CommandBegins

LEMMA AnswersMeets ==
  ASSUME IInv, UserAnswersDialog
  PROVE  IInv'
<1>0. PICK d \in dialog :
        /\ calls = <<>> /\ dialog' = {} /\ UNCHANGED <<mixer, flags, song>>
        /\ \E load \in {<<>>, Section(d.p)} :
             calls' = load \o <<With("resume", d.p, TRUE), In("answered", d.p, d.was)>>
  BY DEF UserAnswersDialog, Idle
<1>1. PICK load \in {<<>>, Section(d.p)} :
        /\ calls = <<>> /\ dialog' = {} /\ UNCHANGED <<mixer, flags, song>>
        /\ calls' = load \o <<With("resume", d.p, TRUE), In("answered", d.p, d.was)>>
  BY <1>0
<1> DEFINE p == d.p
           s == load \o <<With("resume", p, TRUE), In("answered", p, d.was)>>
<1>2. p \in Players /\ d.was \in Modes
  BY DEF IInv, Data
<1>3. \A q : Asked(q) => q = p
  BY DEF IInv, DialogAlone, Asked
<1>4. Data' /\ MixerOK'
  BY <1>1 DEF IInv, Data, MixerOK, mixer, flags, song
<1>5. \A q : q # p => StateOf(q)' = StateOf(q)
  <2> SUFFICES ASSUME NEW q, q # p PROVE StateOf(q)' = StateOf(q)
    OBVIOUS
  <2>1. ~Asked(q) /\ ~Asked(q)'
    BY <1>1, <1>3 DEF Asked
  <2>2. FlagsOf(q)' = FlagsOf(q)
    BY <1>1, <2>1 DEF FlagsOf, mixer, flags
  <2> QED BY <1>1, <2>2 DEF StateOf, song
<1>6. PICK z \in Closed : StateOf(p)' \in Kept("stopped", z)
  <2>1. StateOf(p) \in RestStates /\ StateOf(p)' \in PlayerStates
    BY <1>1, <1>2, <1>4, RestState, NextStateType
  <2>2. p \notin attached => p \notin enabled
    BY <2>1 DEF StateOf, State, FlagsOf, RestStates
  <2>3. p \in attached => p \notin enabled
    BY <2>1 DEF StateOf, State, FlagsOf, RestStates
  <2>4. ~Asked(p)'
    BY <1>1 DEF Asked
  <2>5. FlagsOf(p)' \in Closed
    BY <1>1, <2>2, <2>3, <2>4 DEF FlagsOf, Closed, mixer, flags
  <2>6. StateOf(p)'.flags = FlagsOf(p)'
    BY DEF StateOf, State
  <2> QED BY <2>1, <2>5, <2>6, OnlyFlags
<1>7. calls' = s
  BY <1>1
<1>8. s \in Seq(Own(p)) /\ Run(p, s, Kept("stopped", z), RestStates)
  <2>1. load \in {<<>>, Section(p)}
    OBVIOUS
  <2> HIDE DEF p
  <2> QED BY <1>2, <2>1, AnswerRuns
<1> HIDE DEF p, s
<1>9. s \in Seq(AllCalls) /\ \A i \in 1..Len(s) : s[i].p = p /\ s[i].op # "openDialog"
  BY <1>8, OwnSequence
<1>10. DialogAlone'
  BY <1>1, <1>7, <1>9 DEF DialogAlone
<1>11. ASSUME NEW q \in Players PROVE Run(q, calls', {StateOf(q)'}, RestStates)
  <2>1. CASE q = p
    BY <1>6, <1>7, <1>8, <2>1, RunWiden
  <2>2. CASE q # p
    <3>1. StateOf(q) \in RestStates /\ {StateOf(q)} \in SUBSET PlayerStates
      BY <1>1, RestState
    <3>2. Run(q, s, {StateOf(q)}, {StateOf(q)})
      BY <1>9, <2>2, <3>1, Bystander
    <3> QED BY <1>5, <1>7, <2>2, <3>1, <3>2, RunWiden
  <2> QED BY <2>1, <2>2
<1>12. ASSUME NEW q \in Players PROVE Promise(q)'
  BY <1>11 DEF Promise, Run, Meets
<1> QED BY <1>4, <1>7, <1>9, <1>10, <1>12 DEF IInv

LEMMA UserMeets ==
  ASSUME IInv, User
  PROVE  IInv'
BY OpensTabMeets, CommandMeets, NoteMeets, AnswersMeets DEF User
-----------------------------------------------------------------------------
(* The inductive invariant. *)

LEMMA EditorMeets ==
  ASSUME IInv, EditorStep
  PROVE  IInv'
<1>1. PICK c : c = Top
  OBVIOUS
<1>2. PICK p : p = c.p
  OBVIOUS
<1>3. CASE Enter \/ Entered \/ Leave \/ Left
  BY <1>1, <1>2, <1>3, EnterMeets, EnteredMeets, LeaveMeets, LeftMeets
<1>4. CASE Suspend \/ PauseDevice \/ Resume \/ ResumeDevice \/ AssureNotSuspended
  BY <1>1, <1>2, <1>4, SuspendMeets, PauseDeviceMeets, ResumeMeets, ResumeDeviceMeets,
     AssureNotSuspendedMeets
<1>5. CASE Stop \/ Halt \/ Start \/ Restart \/ RestartPlaying
  BY <1>1, <1>2, <1>5, StopMeets, HaltMeets, StartMeets, RestartMeets, RestartPlayingMeets
<1>6. CASE Play \/ Continue \/ EnsureSongPlaying
  BY <1>1, <1>2, <1>6, PlayMeets, ContinueMeets, EnsureSongPlayingMeets
<1>7. CASE Attach \/ AddDevice \/ Detach \/ Destroy
  BY <1>1, <1>2, <1>7, AttachMeets, AddDeviceMeets, DetachMeets, DestroyMeets
<1>8. CASE Edit \/ OpenSong \/ CreateEmptySong \/ OpenDialog \/ Done
  BY <1>1, <1>2, <1>8, EditMeets, OpenSongMeets, CreateEmptySongMeets, OpenDialogMeets
<1> QED BY <1>3, <1>4, <1>5, <1>6, <1>7, <1>8 DEF EditorStep

LEMMA AudioMeets ==
  ASSUME IInv, AudioThread
  PROVE  IInv'
<1>1. /\ UNCHANGED <<attached, silenced, suspended, enabled, loaded, mode, last, dialog, calls>>
      /\ rendering' \subseteq attached \ silenced
  BY DEF AudioThread, Mixer!BeginRender, Mixer!EndRender, flags, song
<1>2. Data' /\ MixerOK' /\ DialogAlone' /\ calls' \in Seq(AllCalls)
  BY <1>1 DEF IInv, Data, MixerOK, DialogAlone
<1>3. \A q : StateOf(q)' = StateOf(q)
  BY <1>1 DEF StateOf, FlagsOf, Asked
<1>4. \A q \in Players : Promise(q)'
  BY <1>1, <1>3 DEF IInv, Promise, Run, Meets
<1> QED BY <1>2, <1>4 DEF IInv

LEMMA Stutters ==
  ASSUME IInv, UNCHANGED vars
  PROVE  IInv'
<1>1. UNCHANGED <<attached, silenced, rendering, suspended, enabled, loaded, mode, last,
                  dialog, calls>>
  BY DEF vars, mixer, flags, song
<1>2. Data' /\ MixerOK' /\ DialogAlone' /\ calls' \in Seq(AllCalls)
  BY <1>1 DEF IInv, Data, MixerOK, DialogAlone
<1>3. \A q : StateOf(q)' = StateOf(q)
  BY <1>1 DEF StateOf, FlagsOf, Asked
<1>4. \A q \in Players : Promise(q)'
  BY <1>1, <1>3 DEF IInv, Promise, Run, Meets
<1> QED BY <1>2, <1>4 DEF IInv

LEMMA StartsAtRest == Init => IInv
<1> SUFFICES ASSUME Init PROVE IInv
  OBVIOUS
<1>1. Data /\ MixerOK
  BY DEF Init, Mixer!Init, Data, MixerOK, Modes
<1>2. calls = <<>> /\ calls \in Seq(AllCalls) /\ DialogAlone
  BY DEF Init, DialogAlone
<1>3. ASSUME NEW q \in Players PROVE Promise(q)
  <2>1. StateOf(q) \in PlayerStates
    BY <1>1, StateType
  <2>2. StateOf(q).flags = "detached"
    BY DEF Init, Mixer!Init, StateOf, State, FlagsOf
  <2>3. {StateOf(q)} \subseteq RestStates /\ {StateOf(q)} \in SUBSET PlayerStates
    BY <2>1, <2>2 DEF RestStates
  <2> QED BY <1>2, <2>3, RunNothing DEF Promise
<1> QED BY <1>1, <1>2, <1>3 DEF IInv

\* The pending calls of the editor thread, made one after the other from the
\* present state, each find their player in a state they can be made in, and
\* leave it at rest; the mixer has silenced exactly the players that
\* PlayerController::suspended is set for.
THEOREM PromisesAreKept == Spec => []IInv
<1>1. Init => IInv
  BY StartsAtRest
<1>2. IInv /\ [Next]_vars => IInv'
  BY EditorMeets, UserMeets, AudioMeets, Stutters DEF Next
<1> QED BY <1>1, <1>2, PTL DEF Spec

-----------------------------------------------------------------------------
(* The properties. *)

\* The flags of PlayerController and PlayerCriticalSection belong to players,
\* what a player plays and what stop() leaves to continue are modes.
THEOREM TypeCorrect == Spec => []TypeOK
<1>1. IInv => TypeOK
  <2> SUFFICES ASSUME IInv PROVE TypeOK
    OBVIOUS
  <2>1. \A i \in DOMAIN calls : calls[i] \in AllCalls
    BY DEF IInv
  <2>2. \A i \in DOMAIN calls : calls[i].p \in Players
    BY <2>1 DEF AllCalls
  <2>3. suspended \subseteq Players
    BY DEF IInv, MixerOK
  <2> QED BY <2>2, <2>3 DEF IInv, Data, TypeOK
<1> QED BY <1>1, PromisesAreKept, PTL

\* Nothing of a module or a player is changed while the audio thread is in
\* its mix(), however the calls of enterCriticalSection, suspendPlayer, stop
\* and continuePlaying are nested.
THEOREM EditsAreSafe == Spec => []EditSafe
<1>1. IInv => EditSafe
  <2> SUFFICES ASSUME IInv, calls # <<>>, Top.op \in Touching PROVE Top.p \notin rendering
    BY DEF EditSafe, Idle
  <2>1. Ready(Top, StateOf(Top.p))
    BY TopIsReady
  <2>2. StateOf(Top.p).flags \in Quiet
    BY <2>1 DEF Ready, Touching, Quiet
  <2>3. Top.p \notin attached \/ Top.p \in suspended
    BY <2>2 DEF StateOf, State, FlagsOf, Quiet
  <2> QED BY <2>3 DEF IInv, MixerOK
<1> QED BY <1>1, PromisesAreKept, PTL

\* A command that interrupts a song or a pattern puts it back
\* (leaveCriticalSection, resumePlayer, ensureSongPlaying).
THEOREM SongsContinue == Spec => []SongContinues
<1>1. IInv => SongContinues
  <2> SUFFICES ASSUME IInv, calls # <<>>, Top.op = "done", Top.mode # "stopped",
                      Top.p \in loaded
               PROVE  mode[Top.p] = Top.mode
    BY DEF SongContinues, At
  <2>1. Ready(Top, StateOf(Top.p))
    BY TopIsReady
  <2>2. StateOf(Top.p).content = "some" => StateOf(Top.p).mode = Top.mode
    BY <2>1 DEF Ready
  <2> QED BY <2>2 DEF StateOf, State
<1> QED BY <1>1, PromisesAreKept, PTL

\* Between commands every section has been left, and a player is silent only
\* while its channel dialog is open: suspendPlayer and resumePlayer, and the
\* flags of the critical section, come out even.
THEOREM RestIsReached == Spec => []AtRest
<1>1. IInv => AtRest
  <2> SUFFICES ASSUME IInv, calls = <<>>
               PROVE  /\ enabled = {} /\ suspended = silenced
                      /\ \A p \in suspended : \E d \in dialog : d.p = p
    BY DEF AtRest, Idle
  <2>1. \A p \in Players : FlagsOf(p) \in {"detached", "audible", "asked"}
    BY RestState DEF StateOf, State, RestStates
  <2>2. \A p \in Players : p \notin enabled
    BY <2>1 DEF FlagsOf
  <2>3. enabled = {}
    BY <2>2 DEF IInv, Data
  <2>4. suspended = silenced /\ suspended \subseteq attached /\ suspended \subseteq Players
    BY DEF IInv, MixerOK
  <2>5. ASSUME NEW p \in suspended PROVE \E d \in dialog : d.p = p
    <3>1. FlagsOf(p) = "asked"
      BY <2>1, <2>4 DEF FlagsOf
    <3> QED BY <3>1, <2>4 DEF FlagsOf, Asked
  <2> QED BY <2>3, <2>4, <2>5
<1> QED BY <1>1, PromisesAreKept, PTL

\* A player that counts as suspended is paused in the mixer, so that the
\* early return of suspendPlayer never leaves an edit unprotected.
THEOREM SuspendedPlayersAreSilent == Spec => []SuspendedIsSilent
<1>1. IInv => SuspendedIsSilent
  BY DEF IInv, MixerOK, SuspendedIsSilent
<1> QED BY <1>1, PromisesAreKept, PTL

\* The mixer is asked to pause only a player that it has and that is not paused,
\* and to add only one that it does not have (suspendPlayer,
\* attachModuleEditor): what MasterMixer takes its callers to see to.
THEOREM MixerCalledAsAssumed == Spec => []MixerCallsFit
<1>1. IInv => MixerCallsFit
  <2> SUFFICES ASSUME IInv PROVE MixerCallsFit
    OBVIOUS
  <2>1. ASSUME At("pauseDevice") PROVE Top.p \in attached \ silenced
    <3>1. Ready(Top, StateOf(Top.p)) /\ Top.op = "pauseDevice"
      BY <2>1, TopIsReady DEF At
    <3>2. FlagsOf(Top.p) = "audible"
      BY <3>1 DEF Ready, StateOf, State
    <3> QED BY <3>2 DEF FlagsOf, IInv, MixerOK
  <2>2. ASSUME At("addDevice") PROVE Top.p \notin attached
    <3>1. Ready(Top, StateOf(Top.p)) /\ Top.op = "addDevice"
      BY <2>2, TopIsReady DEF At
    <3>2. FlagsOf(Top.p) = "detached"
      BY <3>1 DEF Ready, StateOf, State
    <3> QED BY <3>2 DEF FlagsOf
  <2> QED BY <2>1, <2>2 DEF MixerCallsFit
<1> QED BY <1>1, PromisesAreKept, PTL
=============================================================================
