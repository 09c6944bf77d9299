------------------------------- MODULE GasBump -------------------------------
(***************************************************************************)
(* Gas bumping (retry.go): one transaction of a known nonce, the           *)
(* replacements Seth sends when it is not mined in time, and the network   *)
(* that mines at most one of them.  Decode and DeployContract extend this  *)
(* module with their own waiting loops; both run it inside retry.Do of     *)
(* avast/retry-go, which calls OnRetry after every retryable failure, the  *)
(* last one included.                                                      *)
(*                                                                         *)
(* txs holds the fees of the original transaction and of the replacements  *)
(* the node has accepted; an index of txs stands for a transaction hash.   *)
(***************************************************************************)
EXTENDS Naturals, Sequences

CONSTANTS
    TxTypes,        \* transaction types to start from
    Priorities,     \* gas_price_estimation_tx_priority, chooses the strategy
    InitialPrices,  \* fees of the original transaction
    MaxPrices,      \* gas_bumps.max_gas_price; 0 is "not set"
    Retries         \* gas_bumps.retries; 0 disables bumping

ASSUME GasBumpAssumption ==
    /\ InitialPrices \subseteq Nat \ {0}
    /\ MaxPrices \subseteq Nat
    /\ Retries \subseteq Nat

VARIABLES
    cfg,        \* configuration and transaction type, fixed at the start
    txs,        \* fees of the original and of the accepted replacements
    current,    \* the transaction Seth waits for
    live,       \* the transactions the network can still mine
    mined,      \* the mined one, 0 while there is none
    status,     \* status of its receipt: 0 reverted, 1 successful
    candidate,  \* the replacement that is about to be sent
    pc,         \* where the calling goroutine is
    attempt,    \* attempts of retry.Do so far
    input,      \* what the caller, Decode or DeployContract, starts from
    result      \* what it returned

network == <<txs, live, mined, status>>
bumpVars == <<cfg, network, current, candidate, pc, attempt>>

\* With an unreliable node a replaced transaction may still be mined, on a
\* node that has not seen the replacement, and RPC calls may fail or lose
\* their answer.
Unreliable == ~cfg.reliable

NoFees == [gasPrice |-> 0, feeCap |-> 0, tipCap |-> 0, blobFeeCap |-> 0]
Total(f) == f.gasPrice + f.feeCap + f.tipCap + f.blobFeeCap

\* Which fees a transaction of each type carries.
InitialFees(type, p, tip) ==
    CASE type = "dynamic" -> [NoFees EXCEPT !.feeCap = p, !.tipCap = tip]
      [] type = "blob"    -> [NoFees EXCEPT !.feeCap = p, !.tipCap = tip, !.blobFeeCap = p]
      [] OTHER            -> [NoFees EXCEPT !.gasPrice = p]

\* submitted: the node has the original transaction from the start.
BumpInit(submitted) ==
    /\ cfg \in [txType : TxTypes, priority : Priorities, maxPrice : MaxPrices,
                retries : Retries, senderLoaded : BOOLEAN, reliable : BOOLEAN]
    /\ \E p, tip \in InitialPrices :
          tip =< p /\ txs = <<InitialFees(cfg.txType, p, tip)>>
    /\ current = 1
    /\ live = IF submitted THEN {1} ELSE {}
    /\ mined = 0
    /\ status = 0
    /\ candidate = NoFees
    /\ pc = "start"
    /\ attempt = 1

-----------------------------------------------------------------------------
(***************************************************************************)
(* Waiting for the receipt of the current transaction: a poll, then a      *)
(* select between the ticker and the context's deadline.  Decode has its   *)
(* own WaitMined, DeployContract uses the one of go-ethereum's bind.       *)
(***************************************************************************)
\* Mutant of ReceiptFound: the receipt of any transaction of the nonce will do.
ReceiptFoundForNonce == mined # 0

ReceiptFound == mined = current

PollSucceeds ==
    /\ pc = "poll"
    /\ ReceiptFound
    /\ pc' = "receipt"
    /\ UNCHANGED <<cfg, network, current, candidate, attempt>>

\* No receipt yet, or the RPC call failed: wait for the ticker.
PollFails ==
    /\ pc = "poll"
    /\ ReceiptFound => Unreliable
    /\ pc' = "tick"
    /\ UNCHANGED <<cfg, network, current, candidate, attempt>>

Tick ==
    /\ pc = "tick"
    /\ pc' = "poll"
    /\ UNCHANGED <<cfg, network, current, candidate, attempt>>

\* RetryIf for a deadline: it is retried only with bumping enabled.
AfterDeadline == IF cfg.retries = 0 THEN "gaveup" ELSE "bump"

\* The context is done: DeadlineExceeded.
Deadline ==
    /\ pc = "tick"
    /\ pc' = AfterDeadline
    /\ UNCHANGED <<cfg, network, current, candidate, attempt>>

WaitStep ==
    \/ PollSucceeds
    \/ PollFails
    \/ Tick

-----------------------------------------------------------------------------
(***************************************************************************)
(* PriorityBasedGasBumpingStrategyFn.  The percentages are applied in      *)
(* float64 and truncated; 1.15 is below 115/100 in binary, so an exact     *)
(* product may come out one too low.                                       *)
(***************************************************************************)
StrategyFn(p) ==
    CASE cfg.priority = "degen"    -> {2 * p}
      [] cfg.priority = "fast"     -> {(p * 130) \div 100}
      [] cfg.priority = "standard" -> IF p > 0 /\ (p * 115) % 100 = 0
                                      THEN {(p * 115) \div 100 - 1, (p * 115) \div 100}
                                      ELSE {(p * 115) \div 100}
      [] cfg.priority = "slow"     -> {(p * 105) \div 100}
      [] OTHER                     -> {p}

\* Mutant of Bumped: the tip of the replacement is not raised.
BumpedWithoutTip(f) ==
    [gasPrice : StrategyFn(f.gasPrice), feeCap : StrategyFn(f.feeCap),
     tipCap : {f.tipCap}, blobFeeCap : StrategyFn(f.blobFeeCap)]

\* The strategy is applied to every fee of the transaction.
Bumped(f) ==
    [gasPrice : StrategyFn(f.gasPrice), feeCap : StrategyFn(f.feeCap),
     tipCap : StrategyFn(f.tipCap), blobFeeCap : StrategyFn(f.blobFeeCap)]

\* Mutant of WithinMaxPrice: the tip is left out of the sum.
WithinMaxPriceNoTip(f) ==
    cfg.maxPrice > 0 => Total(f) - f.tipCap =< cfg.maxPrice

\* checkMaxPrice
WithinMaxPrice(f) == cfg.maxPrice > 0 => Total(f) =< cfg.maxPrice

\* The fees that end up in the replacement: the AccessListTx is built without
\* its GasPrice, which is then zero.
Replacement(f) == IF cfg.txType = "accessList" THEN NoFees ELSE f

SupportedTypes == {"legacy", "dynamic", "blob", "accessList"}

\* TransactionByHash finds the transaction and says that it is pending.
IsPending == mined = 0 /\ current \in live

(***************************************************************************)
(* prepareReplacementTransaction up to the signed replacement.             *)
(***************************************************************************)
PrepareReplacement ==
    /\ pc = "bump"
    /\ IsPending
    /\ cfg.senderLoaded
    /\ cfg.txType \in SupportedTypes
    /\ \E f \in Bumped(txs[current]) :
          WithinMaxPrice(f) /\ candidate' = Replacement(f)
    /\ pc' = "send"
    /\ UNCHANGED <<cfg, network, current, attempt>>

\* It fails: the transaction is no longer pending, the sender's key is not
\* loaded, the type is not supported, a fee is above the maximum, or the RPC
\* call fails, which may happen at any time.
PrepareFails ==
    /\ pc = "bump"
    /\ pc' = "next"
    /\ UNCHANGED <<cfg, network, current, candidate, attempt>>

\* f outbids g: the node replaces g only if every fee in use is higher.
Outbids(f, g) ==
    \A fee \in DOMAIN g : g[fee] > 0 => f[fee] > g[fee]

\* The node accepts a replacement of the last transaction it accepted.
NodeAccepts(f) == mined = 0 /\ Outbids(f, txs[Len(txs)])

Accept(f) ==
    /\ txs' = Append(txs, f)
    /\ live' = IF Unreliable THEN live \cup {Len(txs) + 1} ELSE {Len(txs) + 1}

\* SendTransaction succeeds; Decode and DeployContract then wait for the
\* replacement.
SendReplacement ==
    /\ pc = "send"
    /\ NodeAccepts(candidate)
    /\ Accept(candidate)
    /\ current' = Len(txs) + 1
    /\ candidate' = NoFees
    /\ pc' = "next"
    /\ UNCHANGED <<cfg, mined, status, attempt>>

\* The node accepted the replacement but its answer is lost: Seth sees an error.
SendReplyLost ==
    /\ Unreliable
    /\ pc = "send"
    /\ NodeAccepts(candidate)
    /\ Accept(candidate)
    /\ candidate' = NoFees
    /\ pc' = "next"
    /\ UNCHANGED <<cfg, current, mined, status, attempt>>

\* Mutant of SendFails: tx is assigned although SendTransaction failed.
SendFailsButAssigned ==
    /\ pc = "send"
    /\ current' = Len(txs) + 1
    /\ candidate' = NoFees
    /\ pc' = "next"
    /\ UNCHANGED <<cfg, network, attempt>>

\* SendTransaction fails: nonce too low, underpriced, or the connection.
SendFails ==
    /\ pc = "send"
    /\ candidate' = NoFees
    /\ pc' = "next"
    /\ UNCHANGED <<cfg, network, current, attempt>>

\* Mutant of NextAttempt: the attempts are not counted.
NextAttemptUncounted(attempts) ==
    /\ pc = "next"
    /\ pc' = "poll"
    /\ UNCHANGED <<cfg, network, current, candidate, attempt>>

\* retry.Do after OnRetry: another attempt, unless this was the last one.
NextAttempt(attempts) ==
    /\ pc = "next"
    /\ IF attempt = attempts
       THEN pc' = "gaveup" /\ attempt' = attempt
       ELSE pc' = "poll" /\ attempt' = attempt + 1
    /\ UNCHANGED <<cfg, network, current, candidate>>

\* The network mines one of the transactions of this nonce.
Mine(i) ==
    /\ mined = 0
    /\ i \in live
    /\ mined' = i
    /\ status' \in {0, 1}
    /\ live' = {}
    /\ UNCHANGED <<cfg, txs, current, candidate, pc, attempt>>

BumpStep ==
    \/ PrepareReplacement
    \/ PrepareFails
    \/ SendReplacement
    \/ SendReplyLost
    \/ SendFails

-----------------------------------------------------------------------------
(***************************************************************************)
(* README.md 575: "Once the gas price bump would go above the limit we     *)
(* stop bumping and use the last gas price that was below the limit."      *)
(* No replacement ever exceeds the limit, by the sum of all its fees.      *)
(***************************************************************************)
CapRespected ==
    cfg.maxPrice > 0 =>
        /\ Total(candidate) =< cfg.maxPrice
        /\ \A i \in DOMAIN txs : i > 1 => Total(txs[i]) =< cfg.maxPrice

(***************************************************************************)
(* A replacement that Seth sends is dearer, fee by fee, than the           *)
(* transaction it replaces (README.md 564-568 and 577-581), so that the    *)
(* node has a reason to take it.  Not so for an access list transaction:   *)
(* retry.go 221-228 leaves out the GasPrice it has computed.               *)
(***************************************************************************)
BumpOutbids ==
    pc = "send" /\ cfg.txType # "accessList" => Outbids(candidate, txs[current])
=============================================================================
