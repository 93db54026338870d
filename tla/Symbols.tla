------------------------------ MODULE Symbols ------------------------------
(***************************************************************************)
(* The symbol table of arm/boot/trace.c: symbol_init counts the symbols,   *)
(* find_entry looks for the one an address of a stack trace lies in.       *)
(***************************************************************************)
EXTENDS Integers, Sequences

CONSTANTS
  SymbolTables,  \* what may lie between __symbol_start and __symbol_end
  MaxAddr        \* the highest address, 2^32 - 1

\* The symbols are sorted and do not overlap; behind them may be empty ones.
IsTable(t) ==
  /\ t \in Seq([entry : Nat, size : Nat])
  /\ \A i, j \in 1 .. Len(t) :
       i < j /\ t[j].entry # 0 /\ t[j].size # 0 =>
         /\ t[i].entry # 0 /\ t[i].size # 0
         /\ t[i].entry + t[i].size <= t[j].entry

ASSUME SymbolAssumption == MaxAddr \in Nat /\ \A t \in SymbolTables : IsTable(t)

VARIABLES
  table,         \* the table, symctrl.start
  nrSyms,        \* symctrl.nr_syms
  addr,          \* the address looked for
  x0, x1,        \* the bounds of the search, counted from 0
  sym,           \* the result, -1 for NULL
  symPc

symVars == <<table, nrSyms, addr, x0, x1, sym, symPc>>

\* symctrl.start[i], and the address behind it.
Entry(i) == table[i + 1].entry
End(i) == table[i + 1].entry + table[i + 1].size

SymInit ==
  /\ table \in SymbolTables /\ addr \in 0 .. MaxAddr
  /\ nrSyms = 0 /\ x0 = 0 /\ x1 = -1 /\ sym = -1
  /\ symPc = "count"

\* One round of symbol_init.
CountSymbol ==
  /\ symPc = "count"
  /\ IF nrSyms < Len(table) /\ Entry(nrSyms) # 0 /\ table[nrSyms + 1].size # 0
     THEN nrSyms' = nrSyms + 1 /\ UNCHANGED <<symPc, x1>>
     ELSE symPc' = "range" /\ x1' = nrSyms - 1 /\ UNCHANGED nrSyms
  /\ UNCHANGED <<table, addr, x0, sym>>

\* Nothing is looked for outside the table.
InTable ==
  /\ symPc = "range"
  /\ symPc' = IF nrSyms = 0 \/ addr < Entry(0) \/ addr >= End(nrSyms - 1)
              THEN "done" ELSE "search"
  /\ UNCHANGED <<table, nrSyms, addr, x0, x1, sym>>

Middle == (x1 + x0) \div 2

\* Mutation: the upper bound moves below the midpoint, which is not part of
\* the interval any more.
SearchBelow ==
  /\ symPc = "search"
  /\ \/ /\ Middle # x0 /\ addr < Entry(Middle)
        /\ x1' = Middle - 1 /\ UNCHANGED <<x0, sym, symPc>>
     \/ /\ Middle # x0 /\ addr > End(Middle)
        /\ x0' = Middle /\ UNCHANGED <<x1, sym, symPc>>
     \/ /\ Middle # x0 /\ addr \in Entry(Middle) .. End(Middle)
        /\ sym' = Middle /\ symPc' = "done" /\ UNCHANGED <<x0, x1>>
     \/ /\ Middle = x0
        /\ symPc' = "done" /\ UNCHANGED <<x0, x1, sym>>
  /\ UNCHANGED <<table, nrSyms, addr>>

\* One round of find_entry.  It ends when the midpoint is the lower bound, at
\* which it does not look; the address behind a symbol counts as inside.
Search ==
  /\ symPc = "search"
  /\ \/ /\ Middle # x0 /\ addr < Entry(Middle)
        /\ x1' = Middle /\ UNCHANGED <<x0, sym, symPc>>
     \/ /\ Middle # x0 /\ addr > End(Middle)
        /\ x0' = Middle /\ UNCHANGED <<x1, sym, symPc>>
     \/ /\ Middle # x0 /\ addr \in Entry(Middle) .. End(Middle)
        /\ sym' = Middle /\ symPc' = "done" /\ UNCHANGED <<x0, x1>>
     \/ /\ Middle = x0
        /\ symPc' = "done" /\ UNCHANGED <<x0, x1, sym>>
  /\ UNCHANGED <<table, nrSyms, addr>>

SymNext == CountSymbol \/ InTable \/ Search

SymSpec == SymInit /\ [][SymNext]_symVars /\ WF_symVars(SymNext)

-----------------------------------------------------------------------------
(* Properties *)

SymTypeOK ==
  /\ table \in SymbolTables /\ addr \in 0 .. MaxAddr
  /\ nrSyms \in 0 .. Len(table)
  /\ symPc \in {"count", "range", "search", "done"}
  /\ x0 \in Nat /\ x1 \in -1 .. Len(table) - 1 /\ sym \in -1 .. Len(table) - 1
  /\ symPc = "search" => x0 <= x1 /\ x1 < nrSyms

\* An address inside a symbol that is neither the first nor the last of the
\* table is found, and the symbol that is found contains it; unless the
\* address is where the symbol before ends, which then may be found instead.
\* The search never looks at the first and the last symbol.
FindsInner ==
  symPc = "done" =>
    /\ sym # -1 => sym \in 1 .. nrSyms - 2 /\ addr \in Entry(sym) .. End(sym)
    /\ \A i \in 1 .. nrSyms - 2 :
         addr \in Entry(i) .. End(i) - 1 =>
           sym = i \/ (addr = End(i - 1) /\ sym = i - 1)

\* The search ends.
SymbolFound == <>(symPc = "done")
=============================================================================
