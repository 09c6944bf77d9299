------------------------------- MODULE Funding -------------------------------
(***************************************************************************)
(* The funds of the ephemeral keys: the start of a client that checks the  *)
(* node and splits the root key's balance (NewClientRaw,                   *)
(* CalculateSubKeyFunding), the parallel transfers (TransferETHFromKey,    *)
(* NextNonce), and ReturnFunds.  The keys are used in between.             *)
(*                                                                         *)
(* A transfer is named by the account that is not the root key, the health *)
(* check, from the root key to itself, by the root key.  The node may fail *)
(* any call, leave one without an answer, and need not mine.               *)
(***************************************************************************)
EXTENDS Integers, FiniteSets

CONSTANTS
    Keys,             \* the ephemeral keys
    Root,             \* key 0
    RootBalances,     \* balances of the root key at the start
    RootKeyBuffer,    \* root_key_funds_buffer, in wei
    GasPrice,         \* of the configuration
    Suggested,        \* what GetSuggestedLegacyFees may answer
    Estimates,        \* what EstimateGas may answer for a transfer
    GasUsed,          \* what a transfer really needs
    TransferGasFee,   \* gas limit when the estimation fails, perhaps too low
    HealthValue,      \* what the health check sends
    Leftovers         \* nonces the root key may have in use from earlier

ASSUME FundingAssumption ==
    /\ IsFiniteSet(Keys) /\ Keys # {} /\ Root \notin Keys
    /\ RootBalances \subseteq Nat /\ RootKeyBuffer \in Nat /\ GasPrice \in Nat
    /\ Suggested \subseteq Nat /\ GasUsed \in Nat /\ HealthValue \in Nat
    /\ Estimates \subseteq Nat /\ \A g \in Estimates : g >= GasUsed
    /\ TransferGasFee \in Nat
    /\ Leftovers \subseteq Nat

Accounts == Keys \cup {Root}
GasLimits == Estimates \cup {TransferGasFee}
None == -1

VARIABLES
    balance, nonce,  \* chain: of each account, the nonce being that of the next transaction
    pool,            \* node: accepted transactions that are not mined
    done,            \* chain: kind and name of mined transactions
    refuses,         \* chain: the receiver of returned funds reverts the transfer
    leftover,        \* the root key has transactions in the pool from earlier
    healthCheck,     \* CheckRpcHealthOnStart
    Nonces,          \* NonceManager.Nonces
    stage,           \* of the client
    planned,         \* the gas limit that CalculateSubKeyFunding has reckoned with
    returnPrice,     \* the gas price of ReturnFunds
    pc,              \* of the goroutine of a transfer
    amount, txNonce, gasLimit

chain == <<balance, nonce, pool, done>>
config == <<refuses, leftover, healthCheck>>
transfers == <<pc, amount, txNonce, gasLimit>>
plan == <<planned, returnPrice>>
vars == <<chain, config, Nonces, stage, plan, transfers>>

Tx(k, t, from, n, to, v, g) ==
    [kind |-> k, name |-> t, from |-> from, nonce |-> n, to |-> to, value |-> v, limit |-> g]

Init ==
    /\ \E b \in RootBalances :
          balance = [a \in Accounts |-> IF a = Root THEN b ELSE 0]
    /\ nonce = [a \in Accounts |-> 0]
    /\ \E l \in SUBSET Leftovers :
          /\ pool = {Tx("left", Root, Root, n, Root, 0, GasUsed) : n \in l}
          /\ leftover = (l # {})
    /\ done = {}
    /\ refuses \in BOOLEAN
    /\ healthCheck \in BOOLEAN
    /\ Nonces = [a \in Accounts |-> 0]
    /\ stage = "new"
    /\ planned = None
    /\ returnPrice = GasPrice
    /\ pc = [t \in Accounts |-> "idle"]
    /\ amount = [t \in Accounts |-> None]
    /\ txNonce = [t \in Accounts |-> None]
    /\ gasLimit = [t \in Accounts |-> None]

(***************************************************************************)
(* The node.                                                               *)
(***************************************************************************)
\* At the start there is no header cache, so GetSuggestedLegacyFees fails and
\* the price is that of the configuration.
Price(tx) == IF tx.kind = "returning" THEN returnPrice ELSE GasPrice
Cost(tx, v, g) == v + g * Price(tx)

\* The transaction pool takes no second transaction of a nonce, none of a nonce
\* that is mined, none with too little gas, and none the account cannot pay.
NodeAccepts(tx) ==
    /\ tx.limit >= GasUsed
    /\ tx.nonce >= nonce[tx.from]
    /\ \A other \in pool : other.from = tx.from => other.nonce # tx.nonce
    /\ balance[tx.from] >= Cost(tx, tx.value, tx.limit)

Moved(tx) ==
    IF (refuses /\ tx.kind = "returning") \/ tx.from = tx.to THEN 0 ELSE tx.value

Mine(tx) ==
    /\ tx.nonce = nonce[tx.from]
    /\ balance[tx.from] >= Cost(tx, tx.value, tx.limit)
    /\ balance' = [a \in Accounts |->
          balance[a] - (IF a = tx.from THEN Cost(tx, Moved(tx), GasUsed) ELSE 0)
                     + (IF a = tx.to THEN Moved(tx) ELSE 0)]
    /\ nonce' = [nonce EXCEPT ![tx.from] = @ + 1]
    /\ pool' = pool \ {tx}
    /\ done' = done \cup {<<tx.kind, tx.name>>}
    /\ UNCHANGED <<config, Nonces, stage, plan, transfers>>

(***************************************************************************)
(* TransferETHFromKey.                                                     *)
(***************************************************************************)
From(t) == IF stage = "returning" THEN t ELSE Root
To(t) == IF stage = "returning" THEN Root ELSE t
TransferTx(t) == Tx(stage, t, From(t), txNonce[t], To(t), amount[t], gasLimit[t])

Goto(t, l) == pc' = [pc EXCEPT ![t] = l]

NextNonce(t) ==
    /\ txNonce' = [txNonce EXCEPT ![t] = Nonces[From(t)]]
    /\ Nonces' = [Nonces EXCEPT ![From(t)] = @ + 1]

\* The network id and the gas limit are asked for before the nonce is taken.
Prepare(t) ==
    /\ pc[t] = "prepare"
    /\ \E g \in GasLimits : gasLimit' = [gasLimit EXCEPT ![t] = g]
    /\ NextNonce(t)
    /\ Goto(t, "send")
    /\ UNCHANGED <<chain, config, stage, plan, amount>>

\* NetworkID, BalanceAt and the gas price of the health check are asked for on a
\* context without a deadline: the goroutine waits for as long as the node does
\* not answer.
NoAnswer(t) ==
    /\ pc[t] \in {"prepare", "balance"}
    /\ Goto(t, "unanswered")
    /\ UNCHANGED <<chain, config, Nonces, stage, plan, amount, txNonce, gasLimit>>

PrepareFails(t) ==
    /\ pc[t] = "prepare"
    /\ Goto(t, "err")
    /\ UNCHANGED <<chain, config, Nonces, stage, plan, amount, txNonce, gasLimit>>

Send(t) ==
    /\ pc[t] = "send"
    /\ NodeAccepts(TransferTx(t))
    /\ pool' = pool \cup {TransferTx(t)}
    /\ Goto(t, "wait")
    /\ UNCHANGED <<balance, nonce, done, config, Nonces, stage, plan, amount, txNonce, gasLimit>>

\* The node refuses, is not reached, or the context of the group is cancelled;
\* the nonce is not given back.
SendFails(t) ==
    /\ pc[t] = "send"
    /\ Goto(t, "err")
    /\ UNCHANGED <<chain, config, Nonces, stage, plan, amount, txNonce, gasLimit>>

SendReplyLost(t) ==
    /\ pc[t] = "send"
    /\ NodeAccepts(TransferTx(t))
    /\ pool' = pool \cup {TransferTx(t)}
    /\ Goto(t, "err")
    /\ UNCHANGED <<balance, nonce, done, config, Nonces, stage, plan, amount, txNonce, gasLimit>>

\* WaitMined; the status in the receipt is not looked at.
ReceiptFound(t) ==
    /\ pc[t] = "wait" /\ <<stage, t>> \in done
    /\ Goto(t, "ok")
    /\ UNCHANGED <<chain, config, Nonces, stage, plan, amount, txNonce, gasLimit>>

\* Mutant of ContextDone: the context of the group has no deadline.
ContextCancelled(t) ==
    /\ pc[t] = "wait" /\ \E o \in Accounts : pc[o] = "err"
    /\ Goto(t, "err")
    /\ UNCHANGED <<chain, config, Nonces, stage, plan, amount, txNonce, gasLimit>>

\* TxnTimeout has passed, or another transfer of the group has failed.
ContextDone(t) ==
    /\ pc[t] = "wait"
    /\ Goto(t, "err")
    /\ UNCHANGED <<chain, config, Nonces, stage, plan, amount, txNonce, gasLimit>>

(***************************************************************************)
(* The start of a client: UpdateNonces, the health check, the funding.     *)
(***************************************************************************)
AfterStart == IF healthCheck THEN "health" ELSE "calculate"

\* The goroutines of a stage begin at label l.
Spawn(ts, l) == pc' = [t \in Accounts |-> IF t \in ts THEN l ELSE "idle"]

Start ==
    /\ stage = "new"
    /\ Nonces' = nonce
    /\ stage' = AfterStart
    /\ Spawn({Root} \cap {t \in Accounts : healthCheck}, "prepare")
    /\ amount' = [amount EXCEPT ![Root] = IF healthCheck THEN HealthValue ELSE @]
    /\ UNCHANGED <<chain, config, plan, txNonce, gasLimit>>

StartFails ==
    /\ stage \in {"new", "calculate"}
    /\ stage' = "failed"
    /\ UNCHANGED <<chain, config, Nonces, plan, transfers>>

\* NonceAt, SuggestGasPrice and BalanceAt have no deadline either.
StartUnanswered ==
    /\ stage \in {"new", "calculate"}
    /\ stage' = "unanswered"
    /\ UNCHANGED <<chain, config, Nonces, plan, transfers>>

HealthChecked ==
    /\ stage = "health" /\ pc[Root] \in {"ok", "err"}
    /\ stage' = IF pc[Root] = "ok" THEN "calculate" ELSE "failed"
    /\ UNCHANGED <<chain, config, Nonces, plan, transfers>>

\* Mutant of FreeBalance: the fee of one transfer is kept, not of all.
FreeBalanceOneFee(g) == balance[Root] - (GasPrice * g + RootKeyBuffer)

\* What is left of the balance for the keys, with g the gas of a transfer.
FreeBalance(g) ==
    balance[Root] - (Cardinality(Keys) * (GasPrice * g) + RootKeyBuffer)

CalculateSubKeyFunding ==
    /\ stage = "calculate"
    /\ \E g \in GasLimits :
          \/ /\ FreeBalance(g) < 0
             /\ stage' = "failed"
             /\ UNCHANGED <<pc, amount, planned>>
          \/ /\ FreeBalance(g) >= 0
             /\ stage' = "funding"
             /\ planned' = g
             /\ Spawn(Keys, "prepare")
             /\ amount' = [t \in Accounts |->
                   IF t \in Keys THEN FreeBalance(g) \div Cardinality(Keys) ELSE None]
    /\ UNCHANGED <<chain, config, Nonces, returnPrice, txNonce, gasLimit>>

\* eg.Wait: all goroutines have returned, perhaps one with an error.
AllDone == \A k \in Keys : pc[k] \in {"ok", "err"}

\* Mutant of AllOk: errors of the group are dropped when one transfer succeeds.
AnyOk == \E k \in Keys : pc[k] = "ok"

AllOk == \A k \in Keys : pc[k] = "ok"

FundingDone ==
    /\ stage = "funding" /\ AllDone
    /\ stage' = IF AllOk THEN "ready" ELSE "failed"
    /\ UNCHANGED <<chain, config, Nonces, plan, transfers>>

(***************************************************************************)
(* The client in use: a key sends a transaction, with the nonce the node   *)
(* gives, or the nonces are refreshed.                                     *)
(***************************************************************************)
UseKey(k) ==
    LET tx == Tx("using", k, k, nonce[k], k, 0, GasUsed) IN
    /\ stage = "ready"
    /\ <<"using", k>> \notin done
    /\ NodeAccepts(tx)
    /\ pool' = pool \cup {tx}
    /\ UNCHANGED <<balance, nonce, done, config, Nonces, stage, plan, transfers>>

UpdateNonces ==
    /\ stage = "ready"
    /\ Nonces' = nonce
    /\ UNCHANGED <<chain, config, stage, plan, transfers>>

(***************************************************************************)
(* ReturnFunds.                                                            *)
(***************************************************************************)
ReturnFunds ==
    /\ stage = "ready"
    /\ stage' = "pricing"
    /\ UNCHANGED <<chain, config, Nonces, plan, transfers>>

\* If it fails, for want of a header cache too, the price is the configured one.
GetSuggestedLegacyFees ==
    /\ stage = "pricing"
    /\ stage' = "returning"
    /\ returnPrice' \in Suggested \cup {GasPrice}
    /\ Spawn(Keys, "balance")
    /\ UNCHANGED <<chain, config, Nonces, planned, amount, txNonce, gasLimit>>

\* SuggestGasPrice has no deadline, and the congestion metric is waited for for
\* ever when a header cannot be fetched (CongestionMetric).
NoPrice ==
    /\ stage = "pricing"
    /\ stage' = "noPrice"
    /\ UNCHANGED <<chain, config, Nonces, plan, transfers>>

FundsToReturn(k, g) == balance[k] - returnPrice * g

\* A key without enough for the fee is skipped.
ReadBalance(k) ==
    /\ pc[k] = "balance"
    /\ \E g \in GasLimits :
          \/ /\ FundsToReturn(k, g) < 0
             /\ Goto(k, "ok")
             /\ UNCHANGED amount
          \/ /\ FundsToReturn(k, g) >= 0
             /\ amount' = [amount EXCEPT ![k] = FundsToReturn(k, g)]
             /\ Goto(k, "prepare")
    /\ UNCHANGED <<chain, config, Nonces, stage, plan, txNonce, gasLimit>>

\* Mutant of ReadBalanceFails: the error is logged and the key skipped.
ReadBalanceFailsSilently(k) ==
    /\ pc[k] = "balance"
    /\ Goto(k, "ok")
    /\ UNCHANGED <<chain, config, Nonces, stage, plan, amount, txNonce, gasLimit>>

ReadBalanceFails(k) ==
    /\ pc[k] = "balance"
    /\ Goto(k, "err")
    /\ UNCHANGED <<chain, config, Nonces, stage, plan, amount, txNonce, gasLimit>>

ReturnDone ==
    /\ stage = "returning" /\ AllDone
    /\ stage' = IF AllOk THEN "returned" ELSE "notReturned"
    /\ UNCHANGED <<chain, config, Nonces, plan, transfers>>

-----------------------------------------------------------------------------
Transfer(t) ==
    \/ Prepare(t) \/ PrepareFails(t) \/ NoAnswer(t)
    \/ Send(t) \/ SendFails(t) \/ SendReplyLost(t)
    \/ ReceiptFound(t) \/ ContextDone(t)

Client ==
    \/ Start \/ StartFails \/ StartUnanswered \/ HealthChecked \/ CalculateSubKeyFunding
    \/ FundingDone \/ GetSuggestedLegacyFees \/ NoPrice \/ ReturnDone

Next ==
    \/ Client
    \/ \E t \in Accounts : Transfer(t)
    \/ \E k \in Keys : ReadBalance(k) \/ ReadBalanceFails(k) \/ UseKey(k)
    \/ UpdateNonces
    \/ ReturnFunds
    \/ \E tx \in pool : Mine(tx)

\* A call of the client goes on; contexts have deadlines.
Fairness ==
    /\ WF_vars(Client)
    /\ \A t \in Accounts : WF_vars(Transfer(t))
    /\ \A k \in Keys : WF_vars(ReadBalance(k) \/ ReadBalanceFails(k))

Spec == Init /\ [][Next]_vars /\ Fairness

-----------------------------------------------------------------------------
\* What a key has spent on the transaction it was used for.
Spent(k) == IF <<"using", k>> \in done THEN GasUsed * GasPrice ELSE 0

\* NewClientRaw returns a client only when every ephemeral key has its funds,
\* and then no nonce below the root key's next one is missing on the chain.
ReadyMeansFunded ==
    stage = "ready" =>
        /\ \A k \in Keys : balance[k] + Spent(k) = amount[k]
        /\ nonce[Root] >= Nonces[Root]

\* The fees that the calculation has left out, if the configured gas limit stood
\* in for an estimate and is too low.
Underestimated ==
    IF planned < GasUsed THEN Cardinality(Keys) * ((GasUsed - planned) * GasPrice) ELSE 0

\* The funding leaves root_key_funds_buffer on the root key, whichever
\* transfers fail, are lost or are mined after the call has returned, and
\* however the gas limits of the transfers differ from the one that was
\* calculated with; where that one was below what a transfer needs, the buffer
\* may have to pay the difference and never more.
RootKeepsBuffer ==
    planned # None /\ ~leftover => balance[Root] + Underestimated >= RootKeyBuffer

\* When ReturnFunds reports no error, no key has more left than a transfer
\* costs, unless the receiver has refused the funds: stale nonces, pending
\* transactions and changed gas limits lead to an error.
ReturnedMeansEmpty ==
    stage = "returned" /\ ~refuses =>
        \A k \in Keys : \E g \in GasLimits : balance[k] =< g * returnPrice

\* Some call without a deadline is never answered.
Unanswered == stage = "unanswered" \/ \E t \in Accounts : pc[t] = "unanswered"

\* Creating a client and returning its funds end, also when a transfer waits
\* above a nonce that was taken and never sent: all that either can wait for
\* for ever is an answer to a call without a deadline and, when funds are
\* returned, the gas price with its congestion metric.
CallsReturn ==
    /\ stage \in {"new", "health", "calculate", "funding"} ~>
           stage \in {"failed", "ready"} \/ Unanswered
    /\ stage \in {"pricing", "returning"} ~>
           stage \in {"returned", "notReturned", "noPrice"} \/ Unanswered
=============================================================================
