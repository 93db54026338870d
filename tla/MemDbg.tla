------------------------------- MODULE MemDbg -------------------------------
(***************************************************************************)
(* The reserved memory: resmalloc, resmemalign, resfree and resmem_dump    *)
(* (libs/malloc_res.c), which record every allocation in a hash table of   *)
(* linked lists (libs/hush.c, include/list.h).  The memory comes from a    *)
(* heap of its own, the records from the common heap (libs/malloc.c), and  *)
(* either can be exhausted.  The table is read by a cursor that keeps a    *)
(* pointer to the next item of its list.                                   *)
(***************************************************************************)
EXTENDS Naturals, Sequences, FiniteSets, FiniteSetsExt

CONSTANTS
  Ptrs,          \* the addresses the heap may hand out
  HushIndex,     \* the list of each address (hush_index)
  Depth,         \* the number of lists
  SizesOf,       \* the sizes asked for
  MaxAllocs      \* bound: the allocations of a history

ASSUME MemDbgAssumption ==
  /\ Depth \in Nat /\ IsFiniteSet(Ptrs) /\ HushIndex \in [Ptrs -> 0 .. Depth - 1]
  /\ SizesOf \subseteq Nat \ {0} /\ MaxAllocs \in Nat

VARIABLES
  live,          \* the addresses in use, with their sizes
  list,          \* the lists of the table
  nrItem,        \* hush->nr_item
  dbg,           \* the counters of memdbg
  pos, prev,     \* hush->find: the list and the rest of it still to visit
  shown,         \* what a dump has printed
  dumping        \* "idle", "dumping", or "done" until the next operation

memVars == <<live, list, nrItem, dbg, pos, prev, shown, dumping>>

\* resmalloc_init and hush_init
MemInit ==
  /\ live = [p \in {} |-> 0]
  /\ list = [i \in 0 .. Depth - 1 |-> <<>>]
  /\ nrItem = 0
  /\ dbg = [nrMalloc |-> 0, nrFree |-> 0, szMalloc |-> 0, szFree |-> 0]
  /\ pos = 0 /\ prev = <<>> /\ shown = <<>> /\ dumping = "idle"

-----------------------------------------------------------------------------
(* The table *)

\* list_add puts a new item behind the first one.
ListAdd(l, x) == IF l = <<>> THEN <<x>> ELSE <<Head(l), x>> \o Tail(l)

\* hush_remove takes out the first item with the tag.
ListRemove(l, p) ==
  LET i == CHOOSE n \in 1 .. Len(l) : l[n].ptr = p /\ \A m \in 1 .. n - 1 : l[m].ptr # p
  IN SubSeq(l, 1, i - 1) \o SubSeq(l, i + 1, Len(l))

Has(l, p) == \E n \in 1 .. Len(l) : l[n].ptr = p

-----------------------------------------------------------------------------
(* The operations *)

\* memdbg_insert: without memory for the item nothing is recorded, and the
\* caller is not told.
Insert(p, n) ==
  \/ /\ list' = [list EXCEPT ![HushIndex[p]] = ListAdd(@, [ptr |-> p, bytes |-> n])]
     /\ nrItem' = nrItem + 1
     /\ dbg' = [dbg EXCEPT !.nrMalloc = @ + 1, !.szMalloc = @ + n]
  \/ UNCHANGED <<list, nrItem, dbg>>

\* __resmalloc and __resmemalign; a heap without room returns null.
ResMalloc(p, n) ==
  /\ dumping # "dumping" /\ dbg.nrMalloc < MaxAllocs
  /\ p \notin DOMAIN live
  /\ live' = [q \in DOMAIN live \cup {p} |-> IF q = p THEN n ELSE live[q]]
  /\ Insert(p, n)
  /\ dumping' = "idle"
  /\ UNCHANGED <<pos, prev, shown>>

\* memdbg_remove and do_remove_alloc; an address without a record is only
\* reported.
ResFree(p) ==
  /\ dumping # "dumping" /\ p \in DOMAIN live
  /\ LET l == list[HushIndex[p]] IN
       IF Has(l, p)
       THEN LET gone == CHOOSE x \in {l[n] : n \in 1 .. Len(l)} : x.ptr = p IN
              /\ list' = [list EXCEPT ![HushIndex[p]] = ListRemove(@, p)]
              /\ nrItem' = nrItem - 1
              /\ dbg' = [dbg EXCEPT !.nrFree = @ + 1, !.szFree = @ + gone.bytes]
       ELSE UNCHANGED <<list, nrItem, dbg>>
  /\ live' = [q \in DOMAIN live \ {p} |-> live[q]]
  /\ dumping' = "idle"
  /\ UNCHANGED <<pos, prev, shown>>

\* resmem_dump: hush_find_init
DumpStart ==
  /\ dumping # "dumping"
  /\ pos' = 0 /\ prev' = <<>> /\ shown' = <<>> /\ dumping' = "dumping"
  /\ UNCHANGED <<live, list, nrItem, dbg>>

\* The list from which find_next takes an item, Depth when there is none.
NextList ==
  IF prev # <<>> THEN pos
  ELSE Min({i \in pos .. Depth - 1 : list[i] # <<>>} \cup {Depth})

\* The rest of that list, from the item returned next.
Rest == IF prev # <<>> THEN prev ELSE list[NextList]

\* Mutation: the cursor moves on to the list behind the next one.
DumpNextFurther ==
  /\ dumping = "dumping"
  /\ \/ /\ NextList = Depth
        /\ pos' = Depth /\ dumping' = "done" /\ UNCHANGED <<prev, shown>>
     \/ /\ NextList < Depth
        /\ shown' = Append(shown, Head(Rest)) /\ prev' = Tail(Rest)
        /\ pos' = IF Tail(Rest) = <<>> THEN NextList + 2 ELSE NextList
        /\ UNCHANGED dumping
  /\ UNCHANGED <<live, list, nrItem, dbg>>

\* Mutation: the cursor moves on although its list has more items.
DumpNextSkips ==
  /\ dumping = "dumping"
  /\ \/ /\ NextList = Depth
        /\ pos' = Depth /\ dumping' = "done" /\ UNCHANGED <<prev, shown>>
     \/ /\ NextList < Depth
        /\ shown' = Append(shown, Head(Rest)) /\ prev' = <<>>
        /\ pos' = NextList + 1
        /\ UNCHANGED dumping
  /\ UNCHANGED <<live, list, nrItem, dbg>>

\* hush_find_next: the item the cursor points to, or the first of the next
\* list that has one; the cursor moves on when it has returned the last item.
DumpNext ==
  /\ dumping = "dumping"
  /\ \/ /\ NextList = Depth
        /\ pos' = Depth /\ dumping' = "done" /\ UNCHANGED <<prev, shown>>
     \/ /\ NextList < Depth
        /\ shown' = Append(shown, Head(Rest)) /\ prev' = Tail(Rest)
        /\ pos' = IF Tail(Rest) = <<>> THEN NextList + 1 ELSE NextList
        /\ UNCHANGED dumping
  /\ UNCHANGED <<live, list, nrItem, dbg>>

MemNext ==
  \/ \E p \in Ptrs, n \in SizesOf : ResMalloc(p, n)
  \/ \E p \in Ptrs : ResFree(p)
  \/ DumpStart \/ DumpNext

MemSpec == MemInit /\ [][MemNext]_memVars

-----------------------------------------------------------------------------
(* Properties *)

Records == UNION {{list[i][n] : n \in 1 .. Len(list[i])} : i \in 0 .. Depth - 1}

Bytes(S) == FoldSet(LAMBDA x, acc : acc + x.bytes, 0, S)

MemTypeOK ==
  /\ \A p \in DOMAIN live : p \in Ptrs /\ live[p] \in SizesOf
  /\ \A i \in 0 .. Depth - 1 : list[i] \in Seq([ptr : Ptrs, bytes : SizesOf])
  /\ nrItem \in 0 .. Cardinality(Ptrs) /\ pos \in 0 .. Depth
  /\ dumping \in {"idle", "dumping", "done"}

\* The records are allocations in use, one each, in the list of their
\* address; the counters differ by what the records say is in use; and a
\* dump that has ended has shown each record once.  Allocations without a
\* record come and go without disturbing this.
RecordsTrue ==
  /\ \A x \in Records : x.ptr \in DOMAIN live /\ live[x.ptr] = x.bytes
  /\ \A i \in 0 .. Depth - 1 :
       \A n \in 1 .. Len(list[i]) : HushIndex[list[i][n].ptr] = i
  /\ nrItem = Cardinality(Records) /\ nrItem = dbg.nrMalloc - dbg.nrFree
  /\ dbg.szMalloc - dbg.szFree = Bytes(Records)
  /\ dumping = "done" =>
       /\ {shown[n] : n \in 1 .. Len(shown)} = Records
       /\ Len(shown) = nrItem
=============================================================================
