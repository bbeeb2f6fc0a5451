--------------------------- MODULE TriggerLedger ---------------------------
(***************************************************************************)
(* What the trigger receipts of the scheduler promise, with rules, ticks,  *)
(* retries and crashes left out: a key is claimed once and never again; a  *)
(* claimed key is given at most one run, and only while it is claimed; a   *)
(* receipt leaves "claimed" for one outcome, "admitted" only with a run    *)
(* and "skipped" only without one.  The only outcome that may be written   *)
(* over another one, or beside a run, is "failed" (the rule was removed,   *)
(* or a write failed, before the trigger was done with it).                *)
(*                                                                         *)
(* Scheduler implements this module.                                       *)
(***************************************************************************)
CONSTANTS
  RunIds,    \* run rows
  NoKey      \* the key of a run row that does not exist

VARIABLES
  ledger,    \* status of the receipt of every claimed key
  keyOf      \* key of the trigger that admitted the run, or NoKey

ledgerVars == <<ledger, keyOf>>

Claimed == DOMAIN ledger
HasRun(k) == \E i \in RunIds : keyOf[i] = k

LedgerInit ==
  /\ ledger = [k \in {} |-> "claimed"]
  /\ keyOf = [i \in RunIds |-> NoKey]

Claim(k) ==
  /\ k \notin Claimed
  /\ ledger' = [x \in Claimed \cup {k} |-> IF x = k THEN "claimed" ELSE ledger[x]]
  /\ UNCHANGED keyOf

Admit(k, i) ==
  /\ k \in Claimed
  /\ ledger[k] = "claimed"
  /\ ~HasRun(k)
  /\ keyOf[i] = NoKey
  /\ keyOf' = [keyOf EXCEPT ![i] = k]
  /\ UNCHANGED ledger

Settle(k, outcome) ==
  /\ k \in Claimed
  /\ ledger[k] = "claimed" \/ outcome = "failed"
  /\ outcome = "admitted" => HasRun(k)
  /\ outcome = "skipped" => ~HasRun(k)
  /\ ledger' = [ledger EXCEPT ![k] = outcome]
  /\ UNCHANGED keyOf

\* Every step is about one key, and no key ever leaves the ledger.
LedgerNext ==
  \E k \in DOMAIN ledger' :
    \/ Claim(k)
    \/ \E i \in RunIds : Admit(k, i)
    \/ \E outcome \in {"admitted", "skipped", "failed"} : Settle(k, outcome)

LedgerSpec == LedgerInit /\ [][LedgerNext]_ledgerVars

=============================================================================
