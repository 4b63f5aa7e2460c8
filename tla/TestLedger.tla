----------------------------- MODULE TestLedger -----------------------------
(***************************************************************************)
(* What the table test_runs promises to its readers: a run that is under    *)
(* way is the newest row and its row is open; a closed row stays closed.    *)
(* A row can be left open by a process that goes away or cannot write; the  *)
(* next start settles all such rows at once.                                *)
(***************************************************************************)
EXTENDS Naturals, Sequences

VARIABLES
  status,   \* status[id] of every row: open or closed
  live      \* the id of the run under way, 0 for none

ledgerVars == <<status, live>>

LedgerInit == status = <<>> /\ live = 0

Open ==
  /\ live = 0
  /\ status' = Append(status, "open") /\ live' = Len(status) + 1

Finish ==
  /\ live # 0 /\ live' = 0
  /\ status' = [status EXCEPT ![live] = "closed"]

Abandon ==
  /\ live # 0 /\ live' = 0
  /\ UNCHANGED status

Settle ==
  /\ live = 0
  /\ status' = [id \in DOMAIN status |-> "closed"]
  /\ UNCHANGED live

LedgerNext == Open \/ Finish \/ Abandon \/ Settle

LedgerSpec == LedgerInit /\ [][LedgerNext]_ledgerVars
-----------------------------------------------------------------------------
LedgerTypeOK == status \in Seq({"open", "closed"}) /\ live \in Nat

(* The run under way is the newest row, and open.                           *)
LiveIsNewest == live # 0 => live = Len(status) /\ status[live] = "open"
=============================================================================
