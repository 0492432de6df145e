------------------------------- MODULE Ledger -------------------------------
(* What traffic accounting promises: an amount that was counted for a       *)
(* subscriber stays open until it is stored or given up, and that happens   *)
(* once; what is stored or given up is final.                               *)
EXTENDS Integers

CONSTANT Keys       \* subscribers

VARIABLES counted,  \* all that was ever counted
          open,     \* counted, on its way
          stored,   \* in the database, or sent to the accounting server
          lost      \* given up: a full ring, a failing INSERT, a failing send
ledgerVars == <<counted, open, stored, lost>>

Zero == [k \in Keys |-> 0]
Grows(f, g) == \A k \in Keys : f[k] <= g[k]

LedgerInit == counted = Zero /\ open = Zero /\ stored = Zero /\ lost = Zero

Balanced ==
  \A k \in Keys : /\ open'[k] >= 0
                  /\ open'[k] - open[k] =
                       (counted'[k] - counted[k]) - (stored'[k] - stored[k]) - (lost'[k] - lost[k])
(* The counting side: traffic is counted, and given up when a ring is full. *)
Charge == Grows(counted, counted') /\ Grows(lost, lost') /\ stored' = stored /\ Balanced
(* The storing side: open amounts are stored or given up. *)
Settle == counted' = counted /\ Grows(stored, stored') /\ Grows(lost, lost') /\ Balanced

LedgerSpec == LedgerInit /\ [][Charge \/ Settle]_ledgerVars
=============================================================================
