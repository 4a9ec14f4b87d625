------------------------------- MODULE OnceLedger -------------------------------
(***************************************************************************)
(* What the settlement store promises: an operation is proposed under a    *)
(* key with an amount that never changes, and then is either committed,    *)
(* which takes the amount from the balance in the same step, or put on     *)
(* hold; it is committed at most once, and a charge is only committed if   *)
(* the balance covers it.  Nothing else takes from the balance.            *)
(***************************************************************************)
EXTENDS Integers

CONSTANTS Keys, InitialBalance

VARIABLES outcome,  \* [Keys -> "none" | "open" | "done" | "held"]
          amount,   \* [Keys -> the amount proposed, 0 before]
          balance

ledgerVars == <<outcome, amount, balance>>

LedgerInit ==
  /\ outcome = [k \in Keys |-> "none"]
  /\ amount = [k \in Keys |-> 0]
  /\ balance = InitialBalance

Propose(k) ==
  /\ outcome[k] = "none"
  /\ outcome' = [outcome EXCEPT ![k] = "open"]
  /\ amount'[k] \in Int
  /\ amount' = [amount EXCEPT ![k] = amount'[k]]
  /\ UNCHANGED balance

Commit(k) ==
  /\ outcome[k] = "open"
  /\ amount[k] > 0 => balance >= amount[k]
  /\ outcome' = [outcome EXCEPT ![k] = "done"]
  /\ balance' = balance - amount[k]
  /\ UNCHANGED amount

Hold(k) ==
  /\ outcome[k] = "open"
  /\ outcome' = [outcome EXCEPT ![k] = "held"]
  /\ UNCHANGED <<amount, balance>>

Credit ==
  /\ balance' > balance
  /\ UNCHANGED <<outcome, amount>>

LedgerNext == Credit \/ \E k \in Keys : Propose(k) \/ Commit(k) \/ Hold(k)

LedgerSpec == LedgerInit /\ [][LedgerNext]_ledgerVars

=============================================================================
