------------------------------- MODULE MCBoot -------------------------------
(***************************************************************************)
(* Boards of sixteen cells.  The images want their kernel and ramdisk      *)
(* apart from everything, in place, over what is still needed, over the    *)
(* tags, over their own source, over the loader, and outside of the memory.*)
(***************************************************************************)
EXTENDS Boot

MCCached == 0 .. 6
MCLoader == {6, 7}

Android(k, r, load, rd) == [android |-> TRUE, k |-> k, r |-> r, load |-> load, rd |-> rd]
Plain(k, load) == [android |-> FALSE, k |-> k, r |-> 0, load |-> load, rd |-> 0]

MCImages == [
  apart    |-> Android(2, 2, 2, 4),
  covers   |-> Android(2, 1, 12, 14),  \* the kernel goes where the ramdisk was read to
  inPlace  |-> Android(2, 2, 10, 9),   \* the ramdisk goes over the kernel
  onHeader |-> Android(1, 2, 2, 8),    \* the ramdisk goes over the header
  low      |-> Plain(2, 1),            \* the kernel may meet long tags
  upwards  |-> Plain(3, 10),           \* the kernel moves over its own source
  outside  |-> Plain(2, 15),
  ramless  |-> Android(1, 0, 2, 4),
  rdOutside |-> Android(1, 1, 2, 16),
  onHeap   |-> Plain(2, 5),            \* the kernel goes over the loader
  rdOnHeap |-> Android(1, 2, 2, 7) ]   \* the ramdisk goes over loader, header

Saved(args, sized, mmz) ==
  [valid |-> TRUE, bootargs |-> args, sized |-> sized, mmz |-> mmz]

MCCardEnvs ==
  {Saved(args, sized, ~sized) : args \in {"short", "long"}, sized \in BOOLEAN}
  \cup {Saved("none", FALSE, FALSE),
        [valid |-> FALSE, bootargs |-> "none", sized |-> FALSE, mmz |-> FALSE]}
=============================================================================
