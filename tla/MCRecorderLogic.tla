---------------------------- MODULE MCRecorderLogic ----------------------------
EXTENDS RecorderLogic

Setup(b, r, j, a, n, v) ==
  [behaviour |-> b, resume |-> r, jazz |-> j, armed |-> a, channels |-> n,
   virtual |-> v, tabs |-> 2, octaves |-> {5}, keys |-> Keys, mouse |-> FALSE]

\* one tab, where octaves and the choice of channels count
Single(s) == [s EXCEPT !.tabs = 1, !.octaves = {4, 5}]

\* three tabs without notes, opened, closed and switched in every way
Tabs(s) == [s EXCEPT !.tabs = 3, !.keys = {}, !.mouse = TRUE]

MCSetups ==
  LET virtual(b, r) == Setup(b, r, "virtual", {}, 1, 1)
      on(j, a) == Setup("onPlayback", FALSE, j, a, 2, 0)
  IN  {virtual("none", FALSE), virtual("onSwitch", FALSE),
       virtual("onSwitch", TRUE), on("single", {}),
       Single(on("multi", {1})), Single(on("multi", {0, 1})),
       Tabs(virtual("none", FALSE)), Tabs(virtual("onSwitch", FALSE)),
       Tabs(virtual("onPlayback", FALSE)), Tabs(virtual("onPlayback", TRUE))}

\* modules are only told apart by their tabs
Alike == Permutations(Modules)
================================================================================
