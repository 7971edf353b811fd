-------------------------- MODULE MCHealthTracker ---------------------------
(***************************************************************************)
(* HealthTracker on inventories of one to three devices.                   *)
(***************************************************************************)
EXTENDS HealthTracker

Two   == {1, 2}
Three == {1, 2, 3}

Config(list, upstream, threshold, alerts) ==
  [list |-> list,
   upstream |-> [d \in Devices |-> upstream[d]],
   threshold |-> threshold,
   warning |-> [d \in Devices |-> 65],
   alerts |-> [d \in Devices |-> alerts]]

\* 1 is the core, 2 hangs off it, and 3 hangs off 2, or off both.
Chain   == <<{}, {1}, {2}>>
Diamond == <<{}, {1}, {1, 2}>>

\* Two independent uplinks of one access device that sorts before them.
Uplinks == <<{2, 3}, {}, {}>>

FixedConfigs == {Config(<<1, 2, 3>>, Chain, 2, TRUE),
                 Config(<<1, 2, 3>>, Diamond, 2, TRUE),
                 Config(<<1, 2, 3>>, Uplinks, 2, TRUE)}

\* A reload toggles alerts and changes the threshold, removes the core or
\* brings it back.
Pair     == Config(<<1, 2>>, <<{}, {1}, {}>>, 1, TRUE)
Silenced == Config(<<1, 2>>, <<{}, {1}, {}>>, 2, FALSE)
NoCore   == Config(<<2>>, <<{}, {}, {}>>, 1, TRUE)

\* The dependency between 1 and 2 is reversed and 2 gains a new upstream.
Before == Config(<<1, 2>>, <<{}, {1}, {}>>, 2, TRUE)
After  == Config(<<1, 2, 3>>, <<{2}, {3}, {}>>, 2, TRUE)

SafetyConfigs == FixedConfigs \cup {Pair, Silenced, NoCore, Before, After}

SafetyEdits ==
  {e \in {Pair, Silenced, NoCore} \X {Pair, Silenced, NoCore} : e[1] # e[2]}
  \cup {<<Before, After>>}

\* A pair whose devices need two failures each.
SlowPair == {Config(<<1, 2>>, <<{}, {1}, {}>>, 2, TRUE)}

NoEdits == {}
=============================================================================
