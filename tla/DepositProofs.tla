--------------------------- MODULE DepositProofs ---------------------------
(***************************************************************************)
(* Theorems about Deposit, for any number of deposits of one account, any  *)
(* tokens and amounts and any allowances granted before.                   *)
(***************************************************************************)
EXTENDS Deposit, TLAPS

(* A pending transaction is the one its deposit is at, and the chain does   *)
(* not know it yet; its call waits for it or has given up.                  *)
PendingInv ==
    pending # NoTx =>
        LET d == dep[pending.by]
        IN  /\ d.at \in {"receipt", "over"}
            /\ d.step = pending.step
            /\ d.result \in {"none", "error"}
            /\ fate[pending.by][pending.step] = "none"

(* The chain knows a transaction only after it was sent. *)
SentInv ==
    \A c \in Callers :
        /\ fate[c]["deposit"] # "none" =>
              dep[c].step = "deposit" /\ dep[c].at \in {"receipt", "over"}
        /\ fate[c]["approve"] # "none" =>
              \/ dep[c].step = "approve" /\ dep[c].at \in {"receipt", "over"}
              \/ dep[c].step = "deposit" /\ dep[c].at \notin {"idle", "allowance"}

(* An answer is what the chain did. *)
AnswerInv ==
    \A c \in Callers :
        /\ dep[c].result = "ok" => fate[c]["deposit"] = "ok"
        /\ dep[c].result = "failed" => fate[c]["deposit"] \in {"short", "reverted"}
        /\ dep[c].at # "over" => dep[c].result = "none"

(* Only mined transactions of others age a nonce or touch the allowance.    *)
(* Unlike Contended, these do not go away again.                            *)
Alone(c) == \A o \in Callers \ {c}, s \in Step : fate[o][s] = "none"

NonceInv ==
    \A c \in Callers : dep[c].at = "send" /\ Alone(c) => dep[c].nonce = count

Ready(c) == Depositing(c) \/ (fate[c]["approve"] # "none" /\ fate[c]["deposit"] = "none")

AllowanceInv ==
    \A c \in Callers :
        Ready(c) /\ Alone(c) /\ dep[c].token \in Erc20 =>
            \/ allowance[dep[c].token] >= dep[c].amount
            \/ fate[c]["approve"] = "reverted"

DepositInv ==
    /\ TypeOK
    /\ PendingInv /\ SentInv /\ AnswerInv
    /\ NonceInv /\ AllowanceInv

-----------------------------------------------------------------------------
LEMMA InitInv == Init => DepositInv
  <1> SUFFICES ASSUME Init PROVE DepositInv
    OBVIOUS
  <1>1. PICK plan \in [Callers -> Plan] :
           dep = [c \in Callers |->
                    [at |-> "idle", token |-> plan[c].token, amount |-> plan[c].amount,
                     step |-> "deposit", nonce |-> 0, result |-> "none"]]
    BY DEF Init
  <1>2. TypeOK
    <2>1. dep \in [Callers -> Dep] BY <1>1 DEF Dep, Plan, Step
    <2>2. allowance \in [Erc20 -> Nat] BY AmountAssumption DEF Init
    <2>3. fate \in [Callers -> [Step -> Fate]] BY DEF Init, Fate
    <2> QED BY <2>1, <2>2, <2>3 DEF Init, TypeOK
  <1>3. \A c \in Callers, s \in Step : fate[c][s] = "none" BY DEF Init
  <1>4. \A c \in Callers : dep[c].at = "idle" /\ dep[c].result = "none" BY <1>1
  <1>5. "approve" \in Step /\ "deposit" \in Step BY DEF Step
  <1>6. PendingInv BY DEF Init, PendingInv
  <1>7. SentInv BY <1>3, <1>5 DEF SentInv
  <1>8. AnswerInv BY <1>4 DEF AnswerInv
  <1>9. NonceInv BY <1>4 DEF NonceInv
  <1>10. AllowanceInv BY <1>3, <1>4, <1>5 DEF AllowanceInv, Ready, Depositing
  <1> QED BY <1>2, <1>6, <1>7, <1>8, <1>9, <1>10 DEF DepositInv

(* A step of one call that leaves the chain alone.                          *)
LEMMA CallStepInv ==
    ASSUME DepositInv, NEW c \in Callers, NEW d \in Dep,
           dep' = [dep EXCEPT ![c] = d], UNCHANGED chainVars,
           d.token = dep[c].token, d.amount = dep[c].amount,
           pending # NoTx /\ pending.by = c =>
              d.at \in {"receipt", "over"} /\ d.step = pending.step
                 /\ d.result \in {"none", "error"},
           fate[c]["deposit"] # "none" =>
              d.step = "deposit" /\ d.at \in {"receipt", "over"},
           fate[c]["approve"] # "none" =>
              \/ d.step = "approve" /\ d.at \in {"receipt", "over"}
              \/ d.step = "deposit" /\ d.at \notin {"idle", "allowance"},
           d.result = "ok" => fate[c]["deposit"] = "ok",
           d.result = "failed" => fate[c]["deposit"] \in {"short", "reverted"},
           d.at # "over" => d.result = "none",
           d.at = "send" => d.nonce = count,
           d.at \in {"nonce", "send", "receipt"} /\ d.step = "deposit" =>
              Ready(c) \/ fate[c]["deposit"] # "none" \/ d.token \notin Erc20
                 \/ allowance[d.token] >= d.amount
    PROVE  DepositInv'
  <1>1. /\ dep'[c] = d
        /\ \A o \in Callers \ {c} : dep'[o] = dep[o]
        /\ dep' \in [Callers -> Dep]
    BY DEF DepositInv, TypeOK
  <1>2. UNCHANGED <<count, pending, allowance, fate>> BY DEF chainVars
  <1>3. TypeOK' BY <1>1, <1>2 DEF DepositInv, TypeOK
  <1>4. PendingInv'
    <2>1. pending # NoTx => pending.by \in Callers
      BY DEF DepositInv, TypeOK, Tx
    <2> QED BY <1>1, <1>2, <2>1 DEF DepositInv, PendingInv
  <1>5. SentInv' BY <1>1, <1>2 DEF DepositInv, SentInv
  <1>6. AnswerInv' BY <1>1, <1>2 DEF DepositInv, AnswerInv
  <1>7. \A o \in Callers : Alone(o)' <=> Alone(o) BY <1>2 DEF Alone
  <1>8. NonceInv' BY <1>1, <1>2, <1>7 DEF DepositInv, NonceInv
  <1>9. AllowanceInv'
    <2> SUFFICES ASSUME NEW o \in Callers, Ready(o)', Alone(o)', dep'[o].token \in Erc20
                 PROVE  \/ allowance[dep'[o].token] >= dep'[o].amount
                        \/ fate[o]["approve"] = "reverted"
      BY <1>2 DEF AllowanceInv
    <2>1. CASE o # c
      <3>1. Ready(o) BY <1>1, <1>2, <2>1 DEF Ready, Depositing
      <3> QED BY <1>1, <1>7, <2>1, <3>1 DEF DepositInv, AllowanceInv
    <2>2. CASE o = c
      <3>1. fate[c]["deposit"] = "none" BY <1>1, <1>2, <2>2 DEF Ready, Depositing
      <3>2. Ready(c) \/ allowance[d.token] >= d.amount
        BY <1>1, <1>2, <2>2, <3>1 DEF Ready, Depositing
      <3> QED BY <1>1, <1>7, <2>2, <3>2 DEF DepositInv, AllowanceInv
    <2> QED BY <2>1, <2>2
  <1> QED BY <1>3, <1>4, <1>5, <1>6, <1>8, <1>9 DEF DepositInv

(* The answer of a call that ends in an error.                              *)
LEMMA OverError ==
    ASSUME DepositInv, NEW c \in Callers, Over(c, "error"), UNCHANGED chainVars,
           dep[c].at \in {"allowance", "nonce", "send", "receipt"}
    PROVE  DepositInv'
  <1> DEFINE d == [dep[c] EXCEPT !.at = "over", !.nonce = 0, !.result = "error"]
  <1>1. dep[c] \in Dep BY DEF DepositInv, TypeOK
  <1>2. d \in Dep BY <1>1 DEF Dep
  <1>3. dep' = [dep EXCEPT ![c] = d] BY DEF Over, DepositInv, TypeOK
  <1>4. /\ d.at = "over" /\ d.result = "error" /\ d.step = dep[c].step
        /\ d.token = dep[c].token /\ d.amount = dep[c].amount
    BY <1>1 DEF Dep
  <1>5. pending # NoTx /\ pending.by = c => d.step = pending.step
    BY <1>4 DEF DepositInv, PendingInv
  <1>6. /\ fate[c]["deposit"] # "none" => d.step = "deposit"
        /\ fate[c]["approve"] # "none" => d.step \in {"approve", "deposit"}
    BY <1>4 DEF DepositInv, SentInv
  <1> HIDE DEF d
  <1> QED BY <1>2, <1>3, <1>4, <1>5, <1>6, CallStepInv

LEMMA NotPending ==
    ASSUME DepositInv, NEW c \in Callers, dep[c].at \notin {"receipt", "over"}
    PROVE  /\ ~(pending # NoTx /\ pending.by = c)
           /\ fate[c]["deposit"] = "none"
           /\ fate[c]["approve"] # "none" =>
                 dep[c].step = "deposit" /\ dep[c].at \notin {"idle", "allowance"}
           /\ dep[c].result = "none"
  BY DEF DepositInv, PendingInv, SentInv, AnswerInv

LEMMA BeginInv ==
    ASSUME DepositInv, NEW c \in Callers, Begin(c) PROVE DepositInv'
  <1> DEFINE at == IF dep[c].token = NativeToken THEN "nonce" ELSE "allowance"
             d == [dep[c] EXCEPT !.at = at]
  <1>1. dep[c] \in Dep /\ dep[c].at = "idle" BY DEF Begin, DepositInv, TypeOK
  <1>2. d \in Dep BY <1>1 DEF Dep
  <1>3. dep' = [dep EXCEPT ![c] = d] BY DEF Begin, DepositInv, TypeOK
  <1>4. /\ d.at = at /\ d.step = dep[c].step /\ d.result = dep[c].result
        /\ d.token = dep[c].token /\ d.amount = dep[c].amount
    BY <1>1 DEF Dep
  <1>5. (at = "nonce" /\ d.token \notin Erc20) \/ at = "allowance"
    BY <1>4, NativeAssumption
  <1>6. fate[c]["deposit"] = "none" /\ fate[c]["approve"] = "none" /\ d.result = "none"
    BY <1>1, <1>4, NotPending
  <1> HIDE DEF d, at
  <1> QED BY <1>1, <1>2, <1>3, <1>4, <1>5, <1>6, NotPending, CallStepInv DEF Begin

LEMMA ReadAllowanceInv ==
    ASSUME DepositInv, NEW c \in Callers, ReadAllowance(c) PROVE DepositInv'
  <1> DEFINE step == IF Enough(c) THEN "deposit" ELSE "approve"
             d == [dep[c] EXCEPT !.at = "nonce", !.step = step]
  <1>1. dep[c] \in Dep /\ dep[c].at = "allowance"
    BY DEF ReadAllowance, DepositInv, TypeOK
  <1>2. d \in Dep BY <1>1 DEF Dep, Step
  <1>3. dep' = [dep EXCEPT ![c] = d] BY DEF ReadAllowance, DepositInv, TypeOK
  <1>4. /\ d.at = "nonce" /\ d.step = step /\ d.result = dep[c].result
        /\ d.token = dep[c].token /\ d.amount = dep[c].amount
    BY <1>1 DEF Dep
  <1>5. step = "deposit" => allowance[d.token] >= d.amount BY <1>4 DEF Enough
  <1>6. fate[c]["deposit"] = "none" /\ fate[c]["approve"] = "none" /\ d.result = "none"
    BY <1>1, <1>4, NotPending
  <1> HIDE DEF d, step
  <1> QED BY <1>1, <1>2, <1>3, <1>4, <1>5, <1>6, NotPending, CallStepInv DEF ReadAllowance

LEMMA ReadNonceInv ==
    ASSUME DepositInv, NEW c \in Callers, ReadNonce(c) PROVE DepositInv'
  <1> DEFINE d == [dep[c] EXCEPT !.at = "send", !.nonce = count]
  <1>1. dep[c] \in Dep /\ dep[c].at = "nonce" /\ count \in Nat
    BY DEF ReadNonce, DepositInv, TypeOK
  <1>2. d \in Dep BY <1>1 DEF Dep
  <1>3. dep' = [dep EXCEPT ![c] = d] BY DEF ReadNonce, DepositInv, TypeOK
  <1>4. /\ d.at = "send" /\ d.nonce = count /\ d.step = dep[c].step
        /\ d.result = dep[c].result
        /\ d.token = dep[c].token /\ d.amount = dep[c].amount
    BY <1>1 DEF Dep
  <1>5. d.step = "deposit" => Ready(c) \/ fate[c]["deposit"] # "none"
    BY <1>1, <1>4 DEF Ready, Depositing
  <1>6. /\ fate[c]["deposit"] = "none" /\ d.result = "none"
        /\ fate[c]["approve"] # "none" => d.step = "deposit"
    BY <1>1, <1>4, NotPending
  <1> HIDE DEF d
  <1> QED BY <1>1, <1>2, <1>3, <1>4, <1>5, <1>6, NotPending, CallStepInv DEF ReadNonce

LEMMA ReceiptInv ==
    ASSUME DepositInv, NEW c \in Callers, Receipt(c) PROVE DepositInv'
  <1>1. dep[c] \in Dep /\ dep[c].at = "receipt" /\ dep[c].result = "none"
    BY DEF Receipt, DepositInv, TypeOK, AnswerInv
  <1>2. ~(pending # NoTx /\ pending.by = c) BY <1>1 DEF Receipt, DepositInv, PendingInv
  <1>3. CASE dep[c].step = "approve"
    <2> DEFINE d == [dep[c] EXCEPT !.at = "nonce", !.step = "deposit"]
    <2>1. d \in Dep BY <1>1 DEF Dep, Step
    <2>2. dep' = [dep EXCEPT ![c] = d] BY <1>3 DEF Receipt, DepositInv, TypeOK
    <2>3. /\ d.at = "nonce" /\ d.step = "deposit" /\ d.result = "none"
          /\ d.token = dep[c].token /\ d.amount = dep[c].amount
      BY <1>1 DEF Dep
    <2>4. fate[c]["approve"] # "none" BY <1>3 DEF Receipt
    <2>5. fate[c]["deposit"] = "none" BY <1>3 DEF DepositInv, SentInv
    <2>6. Ready(c) BY <2>4, <2>5 DEF Ready
    <2> HIDE DEF d
    <2> QED BY <1>2, <2>1, <2>2, <2>3, <2>5, <2>6, CallStepInv DEF Receipt
  <1>4. CASE dep[c].step = "deposit"
    <2> DEFINE d == [dep[c] EXCEPT !.at = "over", !.nonce = 0, !.result = Verdict(c)]
    <2>1. Verdict(c) \in {"ok", "failed"} BY DEF Verdict
    <2>2. d \in Dep BY <1>1, <2>1 DEF Dep
    <2>3. dep' = [dep EXCEPT ![c] = d] BY <1>4 DEF Receipt, Over, DepositInv, TypeOK
    <2>4. /\ d.at = "over" /\ d.step = "deposit" /\ d.result = Verdict(c)
          /\ d.token = dep[c].token /\ d.amount = dep[c].amount
      BY <1>1, <1>4 DEF Dep
    <2>5. /\ Verdict(c) = "ok" => fate[c]["deposit"] = "ok"
          /\ Verdict(c) = "failed" => fate[c]["deposit"] \in {"short", "reverted"}
      <3>1. fate[c]["deposit"] \in Fate \ {"none"}
        BY <1>4 DEF Receipt, DepositInv, TypeOK, Step
      <3> QED BY <3>1 DEF Verdict, Fate
    <2> HIDE DEF d
    <2> QED BY <1>2, <2>2, <2>3, <2>4, <2>5, CallStepInv DEF Receipt
  <1> QED BY <1>1, <1>3, <1>4 DEF Dep, Step

(* Sending: the call waits or gives up, and the transaction is pending.     *)
LEMMA SendInv ==
    ASSUME DepositInv, NEW c \in Callers, Send(c) PROVE DepositInv'
  <1> DEFINE tx == [by |-> c, step |-> dep[c].step]
  <1>1. /\ dep[c] \in Dep /\ dep[c].at = "send" /\ tx \in Tx
        /\ pending' = tx /\ tx.by = c /\ tx.step = dep[c].step
        /\ UNCHANGED <<count, allowance, fate>>
    BY DEF Send, Submitted, DepositInv, TypeOK, Tx, Dep
  <1>2. PICK d \in Dep :
           /\ dep' = [dep EXCEPT ![c] = d]
           /\ \/ d.at = "receipt" /\ d.result = dep[c].result
              \/ d.at = "over" /\ d.result = "error"
           /\ d.step = dep[c].step /\ d.token = dep[c].token /\ d.amount = dep[c].amount
    <2>1. CASE AwaitReceipt(c)
      <3> DEFINE e == [dep[c] EXCEPT !.at = "receipt", !.nonce = 0]
      <3>1. e \in Dep /\ dep' = [dep EXCEPT ![c] = e]
        BY <1>1, <2>1 DEF AwaitReceipt, Dep, DepositInv, TypeOK
      <3>2. /\ e.at = "receipt" /\ e.result = dep[c].result /\ e.step = dep[c].step
            /\ e.token = dep[c].token /\ e.amount = dep[c].amount
        BY <1>1 DEF Dep
      <3> HIDE DEF e
      <3> QED BY <3>1, <3>2
    <2>2. CASE Over(c, "error")
      <3> DEFINE e == [dep[c] EXCEPT !.at = "over", !.nonce = 0, !.result = "error"]
      <3>1. e \in Dep /\ dep' = [dep EXCEPT ![c] = e]
        BY <1>1, <2>2 DEF Over, Dep, DepositInv, TypeOK
      <3>2. /\ e.at = "over" /\ e.result = "error" /\ e.step = dep[c].step
            /\ e.token = dep[c].token /\ e.amount = dep[c].amount
        BY <1>1 DEF Dep
      <3> HIDE DEF e
      <3> QED BY <3>1, <3>2
    <2> QED BY <2>1, <2>2 DEF Send
  <1> HIDE DEF tx
  <1>3. /\ dep'[c] = d
        /\ \A o \in Callers \ {c} : dep'[o] = dep[o]
        /\ dep' \in [Callers -> Dep]
    BY <1>2 DEF DepositInv, TypeOK
  <1>4. /\ fate[c]["deposit"] = "none" /\ dep[c].result = "none"
        /\ fate[c]["approve"] # "none" => dep[c].step = "deposit"
    BY <1>1, NotPending
  <1>5. TypeOK' BY <1>1, <1>3 DEF DepositInv, TypeOK
  <1>6. PendingInv'
    <2>1. fate[c][dep[c].step] = "none"
      BY <1>1, <1>4 DEF Dep, Step
    <2> QED BY <1>1, <1>2, <1>3, <1>4, <2>1 DEF PendingInv
  <1>7. SentInv'
    <2>1. dep[c].step \in Step BY <1>1 DEF Dep
    <2> QED BY <1>1, <1>2, <1>3, <1>4, <2>1 DEF DepositInv, SentInv
  <1>8. AnswerInv' BY <1>1, <1>2, <1>3, <1>4 DEF DepositInv, AnswerInv
  <1>9. \A o \in Callers : Alone(o)' <=> Alone(o) BY <1>1 DEF Alone
  <1>10. NonceInv' BY <1>1, <1>2, <1>3, <1>9 DEF DepositInv, NonceInv
  <1>11. \A o \in Callers : Ready(o)' => Ready(o)
    BY <1>1, <1>2, <1>3 DEF Ready, Depositing
  <1>12. \A o \in Callers : dep'[o].token = dep[o].token /\ dep'[o].amount = dep[o].amount
    BY <1>2, <1>3
  <1>13. AllowanceInv'
    BY <1>1, <1>9, <1>11, <1>12 DEF DepositInv, AllowanceInv
  <1> QED BY <1>5, <1>6, <1>7, <1>8, <1>10, <1>13 DEF DepositInv

LEMMA EvictInv == ASSUME DepositInv, Evict PROVE DepositInv'
  <1>1. TypeOK' BY DEF Evict, DepositInv, TypeOK
  <1>2. PendingInv' BY DEF Evict, PendingInv
  <1>3. SentInv' /\ AnswerInv' BY DEF Evict, DepositInv, SentInv, AnswerInv
  <1>4. NonceInv' BY DEF Evict, DepositInv, NonceInv, Alone
  <1>5. AllowanceInv'
    BY DEF Evict, DepositInv, AllowanceInv, Alone, Ready, Depositing
  <1> QED BY <1>1, <1>2, <1>3, <1>4, <1>5 DEF DepositInv

(* Mining: one transaction becomes known to the chain.                      *)
LEMMA MinedInv ==
    ASSUME DepositInv, pending # NoTx,
           NEW outcome \in {"ok", "short", "reverted"}, Mined(outcome),
           outcome = "ok" => Covered(pending), outcome = "short" => ~Covered(pending)
    PROVE  DepositInv'
  <1>0. PICK b \in Callers, s \in Step : pending.by = b /\ pending.step = s
    BY DEF DepositInv, TypeOK, Tx
  <1>1. /\ b \in Callers /\ s \in Step /\ dep[b] \in Dep
        /\ dep[b].at \in {"receipt", "over"} /\ dep[b].step = s
        /\ dep[b].result \in {"none", "error"} /\ fate[b][s] = "none"
    BY <1>0 DEF DepositInv, TypeOK, PendingInv
  <1>2. /\ count' = count + 1 /\ pending' = NoTx /\ UNCHANGED dep
        /\ fate' = [fate EXCEPT ![b][s] = outcome]
    BY <1>0 DEF Mined
  <1>3. /\ fate'[b][s] = outcome
        /\ \A t \in Step \ {s} : fate'[b][t] = fate[b][t]
        /\ \A o \in Callers \ {b} : fate'[o] = fate[o]
        /\ fate' \in [Callers -> [Step -> Fate]]
    BY <1>1, <1>2 DEF DepositInv, TypeOK, Fate
  <1>4. allowance' \in [Erc20 -> Nat]
    <2>1. CASE outcome # "ok" \/ dep[b].token = NativeToken
      BY <1>0, <2>1 DEF Mined, DepositInv, TypeOK
    <2>2. CASE outcome = "ok" /\ dep[b].token # NativeToken
      <3>1. dep[b].token \in Erc20 /\ dep[b].amount \in Nat
        BY <1>1, <2>2, AmountAssumption DEF Dep, Tokens
      <3>2. CASE s = "approve"
        <4>1. allowance' = [allowance EXCEPT ![dep[b].token] = dep[b].amount]
          BY <1>0, <2>2, <3>2 DEF Mined
        <4> QED BY <3>1, <4>1 DEF DepositInv, TypeOK
      <3>3. CASE s = "deposit"
        <4>1. allowance' = [allowance EXCEPT ![dep[b].token] = @ - dep[b].amount]
          BY <1>0, <2>2, <3>3 DEF Mined
        <4>2. allowance[dep[b].token] \in Nat /\ allowance[dep[b].token] >= dep[b].amount
          BY <1>0, <2>2, <3>1, <3>3 DEF Covered, DepositInv, TypeOK
        <4>3. allowance[dep[b].token] - dep[b].amount \in Nat BY <3>1, <4>2
        <4> QED BY <3>1, <4>1, <4>3 DEF DepositInv, TypeOK
      <3> QED BY <1>1, <3>2, <3>3 DEF Step
    <2> QED BY <2>1, <2>2
  <1>5. TypeOK' BY <1>2, <1>3, <1>4 DEF DepositInv, TypeOK
  <1>6. PendingInv' BY <1>2 DEF PendingInv
  <1>7. SentInv'
    <2> SUFFICES ASSUME NEW c \in Callers
                 PROVE  /\ fate'[c]["deposit"] # "none" =>
                              dep[c].step = "deposit" /\ dep[c].at \in {"receipt", "over"}
                        /\ fate'[c]["approve"] # "none" =>
                              \/ dep[c].step = "approve" /\ dep[c].at \in {"receipt", "over"}
                              \/ dep[c].step = "deposit" /\ dep[c].at \notin {"idle", "allowance"}
      BY <1>2 DEF SentInv
    <2>1. CASE c # b BY <1>3, <2>1 DEF DepositInv, SentInv
    <2>2. CASE c = b BY <1>1, <1>3, <2>2 DEF DepositInv, SentInv, Step
    <2> QED BY <2>1, <2>2
  <1>8. AnswerInv'
    <2> SUFFICES ASSUME NEW c \in Callers
                 PROVE  /\ dep[c].result = "ok" => fate'[c]["deposit"] = "ok"
                        /\ dep[c].result = "failed" =>
                              fate'[c]["deposit"] \in {"short", "reverted"}
                        /\ dep[c].at # "over" => dep[c].result = "none"
      BY <1>2 DEF AnswerInv
    <2>1. CASE c # b BY <1>3, <2>1 DEF DepositInv, AnswerInv
    <2>2. CASE c = b BY <1>1, <2>2 DEF DepositInv, AnswerInv
    <2> QED BY <2>1, <2>2
  <1>9. \A c \in Callers \ {b} : ~Alone(c)' BY <1>1, <1>3 DEF Alone
  <1>10. NonceInv' BY <1>1, <1>2, <1>9 DEF NonceInv
  <1>11. AllowanceInv'
    <2> SUFFICES ASSUME Ready(b)', dep[b].token \in Erc20
                 PROVE  \/ allowance'[dep[b].token] >= dep[b].amount
                        \/ fate'[b]["approve"] = "reverted"
      BY <1>2, <1>9 DEF AllowanceInv
    <2>1. s = "approve" BY <1>1, <1>3 DEF Ready, Depositing, Step
    <2>2. CASE outcome = "ok"
      <3>1. dep[b].token # NativeToken BY NativeAssumption
      <3>2. allowance' = [allowance EXCEPT ![dep[b].token] = dep[b].amount]
        BY <1>0, <2>1, <2>2, <3>1 DEF Mined
      <3>3. allowance'[dep[b].token] = dep[b].amount
        BY <3>2 DEF DepositInv, TypeOK
      <3>4. dep[b].amount \in Nat BY <1>1, AmountAssumption DEF Dep
      <3> QED BY <3>3, <3>4
    <2>3. CASE outcome = "short" BY <1>0, <2>1, <2>3 DEF Covered
    <2>4. CASE outcome = "reverted" BY <1>3, <2>1, <2>4
    <2> QED BY <2>2, <2>3, <2>4
  <1> QED BY <1>5, <1>6, <1>7, <1>8, <1>10, <1>11 DEF DepositInv

LEMMA NextInv == ASSUME DepositInv, [Next]_vars PROVE DepositInv'
  <1>1. CASE UNCHANGED vars
    BY <1>1 DEF vars, DepositInv, TypeOK, PendingInv, SentInv, AnswerInv, NonceInv,
                AllowanceInv, Alone, Ready, Depositing
  <1>2. CASE Mine
    <2>1. PICK outcome \in {"ok", "short", "reverted"} :
             /\ pending # NoTx /\ Mined(outcome)
             /\ outcome = "ok" => Covered(pending)
             /\ outcome = "short" => ~Covered(pending)
      BY <1>2 DEF Mine
    <2> QED BY <2>1, MinedInv
  <1>3. CASE Evict BY <1>3, EvictInv
  <1>4. ASSUME NEW c \in Callers, Begin(c) PROVE DepositInv' BY <1>4, BeginInv
  <1>5. ASSUME NEW c \in Callers, DepositStep(c) PROVE DepositInv'
    <2>1. CASE ReadAllowance(c) BY <2>1, ReadAllowanceInv
    <2>2. CASE ReadNonce(c) BY <2>2, ReadNonceInv
    <2>3. CASE Send(c) BY <2>3, SendInv
    <2>4. CASE Refused(c) BY <2>4, OverError DEF Refused
    <2>5. CASE NodeFails(c) BY <2>5, OverError DEF NodeFails
    <2>6. CASE Receipt(c) BY <2>6, ReceiptInv
    <2>7. CASE ReceiptTimeout(c) BY <2>7, OverError DEF ReceiptTimeout
    <2> QED BY <1>5, <2>1, <2>2, <2>3, <2>4, <2>5, <2>6, <2>7 DEF DepositStep
  <1> QED BY <1>1, <1>2, <1>3, <1>4, <1>5 DEF Next, Chain

LEMMA InvImplies ==
    ASSUME DepositInv PROVE NonceIsFree /\ DepositIsCovered
  <1>1. \A c \in Callers : ~Contended(c) => Alone(c)
    BY DEF Contended, Interferes, Alone
  <1>2. NonceIsFree
    <2> SUFFICES ASSUME NEW c \in Callers, dep[c].at = "send", ~Contended(c)
                 PROVE  dep[c].nonce = count /\ pending = NoTx
      BY DEF NonceIsFree
    <2>1. dep[c].nonce = count BY <1>1 DEF DepositInv, NonceInv
    <2>2. SUFFICES ASSUME pending # NoTx PROVE FALSE BY <2>1
    <2>3. pending.by \in Callers BY <2>2 DEF DepositInv, TypeOK, Tx
    <2>4. pending.by # c BY <2>2 DEF DepositInv, PendingInv
    <2> QED BY <2>2, <2>3, <2>4 DEF Contended, Interferes
  <1>3. DepositIsCovered
    BY <1>1 DEF DepositIsCovered, DepositInv, AllowanceInv, Ready
  <1> QED BY <1>2, <1>3

-----------------------------------------------------------------------------
(* The invariant holds in every reachable state.                            *)
THEOREM DepositInvariant == Spec => []DepositInv
  BY InitInv, NextInv, PTL DEF Spec

(* Every variable keeps its type, the chain's allowance included: it never  *)
(* falls below zero.                                                        *)
THEOREM DepositTypeCorrect == Spec => []TypeOK
  <1>1. DepositInv => TypeOK BY DEF DepositInv
  <1> QED BY <1>1, DepositInvariant, PTL

(* A deposit never takes the nonce of its own approval, and what is refused *)
(* for its nonce was overtaken by another deposit (sign.py:446-466).        *)
THEOREM OwnNonceIsFree == Spec => []NonceIsFree
  <1>1. DepositInv => NonceIsFree BY InvImplies
  <1> QED BY <1>1, DepositInvariant, PTL

(* A deposit is sent only when the gateway may take it, unless its approval *)
(* was reverted or another deposit interfered (sign.py:440-453).            *)
THEOREM SentWhenCovered == Spec => []DepositIsCovered
  <1>1. DepositInv => DepositIsCovered BY InvImplies
  <1> QED BY <1>1, DepositInvariant, PTL

-----------------------------------------------------------------------------
(* Deposit implements DepositReports.                                       *)
Moved == {c \in Callers : fate[c]["deposit"] = "ok"}
Answers == [c \in Callers |-> dep[c].result]

LEMMA InitReports == ASSUME Init PROVE Reports!Init
  <1>1. Moved = {}
    <2>1. \A c \in Callers : fate[c]["deposit"] = "none" BY DEF Init, Step
    <2> QED BY <2>1 DEF Moved
  <1>2. Answers = [c \in Callers |-> "none"] BY DEF Init, Answers
  <1> QED BY <1>1, <1>2 DEF Reports!Init, Moved, Answers

(* A step that answers nothing and carries nothing out.                     *)
LEMMA NothingReported ==
    ASSUME fate' = fate, \A c \in Callers : dep'[c].result = dep[c].result
    PROVE  UNCHANGED Reports!vars
  BY DEF Reports!vars

(* A call is over. *)
LEMMA AnswerReported ==
    ASSUME DepositInv, NEW c \in Callers, NEW result \in {"ok", "failed", "error"},
           Over(c, result), fate' = fate, dep[c].at # "over",
           result = "ok" => fate[c]["deposit"] = "ok",
           result = "failed" => fate[c]["deposit"] # "ok"
    PROVE  Reports!Next
  <1>1. dep'[c].result = result /\ \A o \in Callers \ {c} : dep'[o] = dep[o]
    BY DEF Over, DepositInv, TypeOK, Dep
  <1>2. Moved' = Moved BY DEF Moved
  <1>3. Answers' = [Answers EXCEPT ![c] = result] BY <1>1 DEF Answers
  <1>4. Answers[c] = "none" BY DEF DepositInv, AnswerInv, Answers
  <1>5. c \in Moved <=> fate[c]["deposit"] = "ok" BY DEF Moved
  <1>6. Reports!Answer(c, result)
    BY <1>2, <1>3, <1>4, <1>5 DEF Reports!Answer, Moved, Answers
  <1> QED BY <1>6 DEF Reports!Next

(* The chain carries a deposit out, or mines something else. *)
LEMMA MinedReported ==
    ASSUME DepositInv, pending # NoTx,
           NEW outcome \in {"ok", "short", "reverted"}, Mined(outcome)
    PROVE  Reports!Next \/ UNCHANGED Reports!vars
  <1>1. PICK b \in Callers, s \in Step : pending.by = b /\ pending.step = s
    BY DEF DepositInv, TypeOK, Tx
  <1>2. /\ fate[b][s] = "none" /\ dep[b].result \in {"none", "error"}
        /\ UNCHANGED dep /\ fate' = [fate EXCEPT ![b][s] = outcome]
    BY <1>1 DEF DepositInv, PendingInv, Mined
  <1>3. /\ fate'[b][s] = outcome
        /\ \A t \in Step \ {s} : fate'[b][t] = fate[b][t]
        /\ \A o \in Callers \ {b} : fate'[o] = fate[o]
    BY <1>2 DEF DepositInv, TypeOK
  <1>4. Answers' = Answers BY <1>2 DEF Answers
  <1>5. CASE s = "deposit" /\ outcome = "ok"
    <2>1. Moved' = Moved \cup {b} BY <1>3, <1>5 DEF Moved
    <2>2. b \notin Moved BY <1>2, <1>5 DEF Moved
    <2>3. Answers[b] \in {"none", "error"} BY <1>2 DEF Answers
    <2>4. Reports!Move(b)
      BY <1>4, <2>1, <2>2, <2>3 DEF Reports!Move, Moved, Answers
    <2> QED BY <2>4 DEF Reports!Next
  <1>6. CASE s # "deposit" \/ outcome # "ok"
    <2>1. \A c \in Callers : fate'[c]["deposit"] = "ok" <=> fate[c]["deposit"] = "ok"
      BY <1>2, <1>3, <1>6 DEF Step
    <2>2. Moved' = Moved BY <2>1 DEF Moved
    <2> QED BY <1>4, <2>2 DEF Reports!vars, Moved, Answers
  <1> QED BY <1>5, <1>6

LEMMA StepReported ==
    ASSUME DepositInv, [Next]_vars PROVE [Reports!Next]_(Reports!vars)
  <1>1. CASE UNCHANGED vars BY <1>1, NothingReported DEF vars
  <1>2. CASE Mine
    <2>1. PICK outcome \in {"ok", "short", "reverted"} : pending # NoTx /\ Mined(outcome)
      BY <1>2 DEF Mine
    <2> QED BY <2>1, MinedReported
  <1>3. CASE Evict BY <1>3, NothingReported DEF Evict
  <1>4. ASSUME NEW c \in Callers, Begin(c) \/ DepositStep(c)
        PROVE  Reports!Next \/ UNCHANGED Reports!vars
    <2>1. dep \in [Callers -> Dep] BY DEF DepositInv, TypeOK
    <2>2. CASE Begin(c) \/ ReadAllowance(c) \/ ReadNonce(c)
      <3>1. fate' = fate BY <2>2 DEF Begin, ReadAllowance, ReadNonce, chainVars
      <3>2. \A o \in Callers : dep'[o].result = dep[o].result
        BY <2>1, <2>2 DEF Begin, ReadAllowance, ReadNonce, Dep
      <3> QED BY <3>1, <3>2, NothingReported
    <2>3. CASE Send(c) /\ AwaitReceipt(c)
      <3>1. \A o \in Callers : dep'[o].result = dep[o].result
        BY <2>1, <2>3 DEF AwaitReceipt, Dep
      <3> QED BY <2>3, <3>1, NothingReported DEF Send
    <2>4. CASE Send(c) /\ Over(c, "error") BY <2>4, AnswerReported DEF Send
    <2>5. CASE Refused(c) \/ NodeFails(c) \/ ReceiptTimeout(c)
      BY <2>5, AnswerReported DEF Refused, NodeFails, ReceiptTimeout, chainVars
    <2>6. CASE Receipt(c) /\ dep[c].step = "approve"
      <3>1. fate' = fate BY <2>6 DEF Receipt, chainVars
      <3>2. \A o \in Callers : dep'[o].result = dep[o].result
        BY <2>1, <2>6 DEF Receipt, Dep
      <3> QED BY <3>1, <3>2, NothingReported
    <2>7. CASE Receipt(c) /\ dep[c].step # "approve"
      <3>1. /\ Over(c, Verdict(c)) /\ fate' = fate /\ dep[c].at # "over"
        BY <2>7 DEF Receipt, chainVars
      <3>2. /\ Verdict(c) \in {"ok", "failed"}
            /\ Verdict(c) = "ok" => fate[c]["deposit"] = "ok"
            /\ Verdict(c) = "failed" => fate[c]["deposit"] # "ok"
        BY DEF Verdict
      <3> QED BY <3>1, <3>2, AnswerReported
    <2> QED BY <1>4, <2>2, <2>3, <2>4, <2>5, <2>6, <2>7 DEF DepositStep, Send
  <1> QED BY <1>1, <1>2, <1>3, <1>4 DEF Next, Chain

(* What a call answers is what the chain did with its deposit, for good:    *)
(* Deposit implements DepositReports (api.py:463-474).                      *)
THEOREM DepositReported == Spec => DepositSpec
  <1>1. Init => Reports!Init BY InitReports
  <1>2. DepositInv /\ [Next]_vars => [Reports!Next]_(Reports!vars) BY StepReported
  <1> QED BY <1>1, <1>2, DepositInvariant, PTL DEF Spec, DepositSpec, Reports!Spec
=============================================================================
