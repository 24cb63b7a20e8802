------------------------------ MODULE Deposit ------------------------------
(***************************************************************************)
(* A deposit to AlphaSec: deposit_to_alphasec() of either REST client      *)
(* (src/alphasec/api/api.py, async_api.py) with the signer's               *)
(* generate_deposit_transaction() (src/alphasec/transaction/sign.py), and  *)
(* the L1 account they work on, seen through one node.                     *)
(*                                                                         *)
(* A native deposit sends one transaction.  An ERC-20 deposit reads the    *)
(* allowance of the gateway, first approves the amount when that is too    *)
(* small, and waits for the receipt without looking at its status.  A      *)
(* transaction takes the number of mined ones as its nonce, read from the  *)
(* node when it is built, so a nonce is never above that number and the    *)
(* node never has to hold more than one transaction of the account.        *)
(*                                                                         *)
(* Each caller makes one deposit: a call leaves nothing behind but the     *)
(* chain, so the next deposit of a thread is that of another caller.       *)
(* Amounts are what the code sends to the contracts.  Left out: gas, the   *)
(* bridge behind the gateway, chain reorganisations (the L1 has none), and *)
(* refusals that depend on the arguments alone.                            *)
(***************************************************************************)
EXTENDS Naturals

CONSTANTS
    Callers,     \* who deposits
    Erc20,       \* the ERC-20 tokens; any other token id is the native one
    NativeToken,
    Amounts,     \* what may be deposited
    Plans,       \* bound: the deposits each caller may be asked for
    MaxGranted,  \* bound: allowances granted before
    NoTx

Tokens == Erc20 \cup {NativeToken}
Plan == [token : Tokens, amount : Amounts]

ASSUME AmountAssumption == Amounts \subseteq Nat \ {0} /\ MaxGranted \in Nat
ASSUME NativeAssumption == NativeToken \notin Erc20
ASSUME PlanAssumption == Plans \in [Callers -> SUBSET Plan]

VARIABLES
    dep,        \* the deposit of each caller
    count,      \* chain: mined transactions of the account
    pending,    \* node: the transaction waiting to be mined
    allowance,  \* chain: what the gateway may take of each token
    fate        \* chain: what became of each transaction

chainVars == <<count, pending, allowance, fate>>
vars == <<dep, count, pending, allowance, fate>>

-----------------------------------------------------------------------------
Step == {"approve", "deposit"}   \* the transactions of a deposit
Tx == [by : Callers, step : Step]

Dep ==
    [at : {"idle", "allowance", "nonce", "send", "receipt", "over"},
     token : Tokens, amount : Amounts,
     step : Step,          \* the transaction it is at
     nonce : Nat,          \* of the transaction it is about to send
     result : {"none", "ok", "failed", "error"}]

ASSUME NoTxAssumption == NoTx \notin Tx

(* "short": reverted because the gateway may not take that much. *)
Fate == {"none", "ok", "short", "reverted"}

TypeOK ==
    /\ dep \in [Callers -> Dep]
    /\ count \in Nat
    /\ pending \in Tx \cup {NoTx}
    /\ allowance \in [Erc20 -> Nat]
    /\ fate \in [Callers -> [Step -> Fate]]

Init ==
    /\ \E plan \in [Callers -> Plan] :
          /\ \A c \in Callers : plan[c] \in Plans[c]
          /\ dep = [c \in Callers |->
                      [at |-> "idle", token |-> plan[c].token, amount |-> plan[c].amount,
                       step |-> "deposit", nonce |-> 0, result |-> "none"]]
    /\ count = 0
    /\ pending = NoTx
    /\ allowance \in [Erc20 -> 0..MaxGranted]
    /\ fate = [c \in Callers |-> [s \in Step |-> "none"]]

-----------------------------------------------------------------------------
(* The calls.                                                              *)

Over(c, result) ==
    dep' = [dep EXCEPT ![c].at = "over", ![c].nonce = 0, ![c].result = result]

Begin(c) ==
    /\ dep[c].at = "idle"
    /\ dep' = [dep EXCEPT ![c].at =
                   IF dep[c].token = NativeToken THEN "nonce" ELSE "allowance"]
    /\ UNCHANGED chainVars

AnyAllowance(c) ==       \* mutant: an allowance is taken for enough of one
    allowance[dep[c].token] > 0

Enough(c) == allowance[dep[c].token] >= dep[c].amount

ReadAllowance(c) ==
    /\ dep[c].at = "allowance"
    /\ dep' = [dep EXCEPT ![c].at = "nonce",
                          ![c].step = IF Enough(c) THEN "deposit" ELSE "approve"]
    /\ UNCHANGED chainVars

ReadNonce(c) ==
    /\ dep[c].at = "nonce"
    /\ dep' = [dep EXCEPT ![c].at = "send", ![c].nonce = count]
    /\ UNCHANGED chainVars

Submitted(c) == pending' = [by |-> c, step |-> dep[c].step]

WaitOrNot(c) ==          \* mutant: the deposit does not wait for the approval
    dep' = [dep EXCEPT
              ![c].at = IF dep[c].step = "approve" THEN "nonce" ELSE "receipt",
              ![c].nonce = 0, ![c].step = "deposit"]

AwaitReceipt(c) == dep' = [dep EXCEPT ![c].at = "receipt", ![c].nonce = 0]

(* The node accepts the transaction.  It may already hold one with the same *)
(* nonce, which the new one replaces if it offers a higher fee.  Its answer *)
(* can be lost: the transaction is out, the call ends in an error.          *)
Send(c) ==
    /\ dep[c].at = "send"
    /\ dep[c].nonce = count
    /\ Submitted(c)
    /\ AwaitReceipt(c) \/ Over(c, "error")
    /\ UNCHANGED <<count, allowance, fate>>

(* The node refuses a nonce that is used, or taken by a pending transaction. *)
Refused(c) ==
    /\ dep[c].at = "send"
    /\ dep[c].nonce # count \/ pending # NoTx
    /\ Over(c, "error")
    /\ UNCHANGED chainVars

(* The node does not answer, whatever it was asked. *)
NodeFails(c) ==
    /\ dep[c].at \in {"allowance", "nonce", "send"}
    /\ Over(c, "error")
    /\ UNCHANGED chainVars

IgnoresStatus(c) ==      \* mutant: any receipt is taken for a success
    "ok"

Verdict(c) == IF fate[c]["deposit"] = "ok" THEN "ok" ELSE "failed"

(* The receipt of an approval says when to go on, not whether it worked.    *)
Receipt(c) ==
    /\ dep[c].at = "receipt"
    /\ fate[c][dep[c].step] # "none"
    /\ IF dep[c].step = "approve"
       THEN dep' = [dep EXCEPT ![c].at = "nonce", ![c].step = "deposit"]
       ELSE Over(c, Verdict(c))
    /\ UNCHANGED chainVars

(* No receipt in 120 seconds, or the node fails while it is polled.  The    *)
(* transaction stays out.                                                   *)
ReceiptTimeout(c) ==
    /\ dep[c].at = "receipt"
    /\ Over(c, "error")
    /\ UNCHANGED chainVars

-----------------------------------------------------------------------------
(* The chain.                                                              *)

Covered(tx) ==
    LET d == dep[tx.by]
    IN  tx.step = "deposit" /\ d.token \in Erc20 => allowance[d.token] >= d.amount

Mined(outcome) ==
    LET d == dep[pending.by]
    IN  /\ count' = count + 1
        /\ pending' = NoTx
        /\ fate' = [fate EXCEPT ![pending.by][pending.step] = outcome]
        /\ allowance' =
             IF outcome # "ok" \/ d.token = NativeToken THEN allowance
             ELSE [allowance EXCEPT ![d.token] =
                     IF pending.step = "approve" THEN d.amount ELSE @ - d.amount]
        /\ UNCHANGED dep

Mine ==
    /\ pending # NoTx
    /\ \/ Mined(IF Covered(pending) THEN "ok" ELSE "short")
       \/ Mined("reverted")      \* no funds, no gas, a paused token, ...

(* The node drops the transaction before it is mined. *)
Evict ==
    /\ pending # NoTx
    /\ pending' = NoTx
    /\ UNCHANGED <<dep, count, allowance, fate>>

DepositStep(c) ==
    \/ ReadAllowance(c) \/ ReadNonce(c) \/ Send(c) \/ Refused(c) \/ NodeFails(c)
    \/ Receipt(c) \/ ReceiptTimeout(c)

Chain == Mine \/ Evict

Next == Chain \/ \E c \in Callers : Begin(c) \/ DepositStep(c)

Spec == Init /\ [][Next]_vars

-----------------------------------------------------------------------------
(* Another deposit than c's has reached the chain or is on its way there.   *)
Interferes(o) ==
    \/ pending # NoTx /\ pending.by = o
    \/ \E s \in Step : fate[o][s] # "none"

Contended(c) == \E o \in Callers \ {c} : Interferes(o)

(* A deposit never gets in its own way: the nonce a transaction is about to *)
(* be sent with is free unless another deposit of the account took it; in   *)
(* particular the deposit does not reuse the nonce of its approval          *)
(* (sign.py:446-466).                                                       *)
NonceIsFree ==
    \A c \in Callers :
        dep[c].at = "send" /\ ~Contended(c) => dep[c].nonce = count /\ pending = NoTx

(* A deposit that is sent is covered: the gateway may take its amount,      *)
(* unless the approval was reverted, which nobody looks at, or another      *)
(* deposit of the account changed the allowance (sign.py:440-453).          *)
Depositing(c) ==
    /\ dep[c].step = "deposit"
    /\ dep[c].at \in {"nonce", "send", "receipt"}
    /\ fate[c]["deposit"] = "none"

DepositIsCovered ==
    \A c \in Callers :
        Depositing(c) /\ ~Contended(c) /\ dep[c].token \in Erc20 =>
            \/ allowance[dep[c].token] >= dep[c].amount
            \/ fate[c]["approve"] = "reverted"

(* What a call answers is what the chain did with its deposit, for good:    *)
(* the promise of DepositReports (api.py:463-474).                          *)
Reports == INSTANCE DepositReports WITH
    Deposits <- Callers,
    moved <- {c \in Callers : fate[c]["deposit"] = "ok"},
    answer <- [c \in Callers |-> dep[c].result]

DepositSpec == Reports!Spec
=============================================================================
