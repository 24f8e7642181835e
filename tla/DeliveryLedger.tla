--------------------------- MODULE DeliveryLedger ---------------------------
(***************************************************************************)
(* What backend delivery promises, without chunks, retries, sessions or    *)
(* HTTP: for every payload the staging database keeps one durable verdict, *)
(* and the Backend API has a set of payloads it has stored.                *)
(*                                                                         *)
(*   "none"         not settled: no row, or one that is still pending      *)
(*   "failed"       a finished run gave up on it, a later run may retry    *)
(*   "sent"         delivered; final                                       *)
(*   "dead-letter"  given up; final                                        *)
(*                                                                         *)
(* A verdict changes only when a run settles, all verdicts of a run change *)
(* in one step, final verdicts never change, and "sent" is only written    *)
(* for a payload that the backend has stored.                              *)
(***************************************************************************)
CONSTANT Payloads

VARIABLES stored,   \* payloads the Backend API has stored
          ledger    \* the durable verdict of every payload

vars == <<stored, ledger>>

Final == {"sent", "dead-letter"}

LedgerInit ==
  /\ stored = {}
  /\ ledger = [p \in Payloads |-> "none"]

\* The backend stores the payloads of one request, whether or not the scraper
\* ever hears about it.
Store ==
  /\ \E S \in SUBSET Payloads : stored' = stored \cup S
  /\ UNCHANGED ledger

\* A finished run settles the payloads it attempted, all at once.
Settle ==
  /\ ledger' \in [Payloads -> {"none", "failed"} \cup Final]
  /\ \A p \in Payloads :
       \/ ledger'[p] = ledger[p]
       \/ /\ ledger[p] \notin Final
          /\ \/ ledger'[p] \in {"failed", "dead-letter"}
             \/ ledger'[p] = "sent" /\ p \in stored
  /\ UNCHANGED stored

LedgerNext == Store \/ Settle

LedgerSpec == LedgerInit /\ [][LedgerNext]_vars
=============================================================================
