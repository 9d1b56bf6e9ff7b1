------------------------------ MODULE MCWindows ------------------------------
(* Two windows and two devices; what they report is chosen so that clocks     *)
(* disagree, durations change and one window lies beyond the horizon.         *)
EXTENDS Windows

CONSTANTS d1, d2

MCDevices == {d1, d2}
MCKeys == {2, 8}

Obs(k, peak, obs, minutes, first, maxed) ==
  [key |-> k, peak |-> peak, obs |-> obs, minutes |-> minutes, first |-> first,
   active |-> 2, maxed |-> maxed, valid |-> TRUE]

High   == Obs(2, 2, 2, 2, 1, TRUE)
Ahead  == Obs(2, 1, 9, 1, 2, FALSE)       \* a device whose clock runs ahead
Far    == Obs(8, 1, 3, 2, 0, FALSE)       \* valid once the clock is at 5
Broken == [High EXCEPT !.valid = FALSE]
Left   == Obs(2, 1, 4, 2, 2, FALSE)       \* observed by an earlier build

MCBatches == {<<High>>, <<Ahead>>, <<Ahead, Broken>>, <<Ahead, High, Far>>}
MCHistory == [k \in {2} |-> [peak |-> 1, obs |-> 4, minutes |-> 2, first |-> 2,
                             active |-> 2, maxed |-> FALSE, of |-> {Left}]]
==============================================================================
