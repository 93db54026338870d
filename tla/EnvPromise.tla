----------------------------- MODULE EnvPromise -----------------------------
(***************************************************************************)
(* What the environment of common/env_set.c promises its clients: a map    *)
(* from keys to values, and one image of such a map that survives a        *)
(* restart.  A restart finds the map whose saving has begun last, if it    *)
(* finds any, or the default one, never a mixture.                         *)
(***************************************************************************)
CONSTANTS
  Keys,
  Values,
  None,      \* the value of a key that is not set
  Default    \* the map of load_default

VARIABLES
  map,       \* what env_get sees
  image,     \* the only map a restart can find in the flash, or None
  whole,     \* the flash holds all of it
  saved,     \* the last operation was a save that returned 0
  lost,      \* the flash has kept less of a save under way than it reported
  broken     \* a value did not fit: nothing holds until the restart

Maps == [Keys -> Values \cup {None}]

Init == map = Default /\ image = None /\ whole = FALSE /\ saved = FALSE
        /\ lost = FALSE /\ broken = FALSE

Working == ~broken /\ broken' = FALSE

\* A key is given a value, or none.
Edit == /\ Working
        /\ saved' = FALSE
        /\ UNCHANGED <<image, whole, lost>>
        /\ \E k \in Keys, v \in Values \cup {None} : map' = [map EXCEPT ![k] = v]

\* No room for a new key, nothing to do, or a save begun or given up.
Refuse == /\ Working
          /\ saved' = FALSE
          /\ lost' \in {lost, FALSE}
          /\ UNCHANGED <<map, image, whole>>

Overrun == /\ ~broken /\ broken' = TRUE
           /\ map' \in Maps
           /\ saved' = FALSE
           /\ UNCHANGED <<image, whole, lost>>

\* A save replaces the image by the map being saved, at once and by nothing
\* else, whole or not; or the flash loses something, and may keep the old one.
WriteImage == /\ Working
              /\ lost' \in {lost, TRUE}
              /\ image' = map \/ (lost' /\ image' = image)
              /\ whole' \in BOOLEAN
              /\ saved' = FALSE
              /\ UNCHANGED map

SaveDone == /\ Working
            /\ lost \/ (image = map /\ whole)
            /\ saved' = TRUE /\ lost' = FALSE
            /\ UNCHANGED <<map, image, whole>>

Restart == /\ map' \in {Default, image} \ {None}
           /\ saved' = FALSE /\ lost' = FALSE /\ broken' = FALSE
           /\ UNCHANGED <<image, whole>>

Next == \/ Edit
        \/ Refuse
        \/ Overrun
        \/ WriteImage
        \/ SaveDone
        \/ Restart

Spec == Init /\ [][Next]_<<map, image, whole, saved, lost, broken>>
=============================================================================
