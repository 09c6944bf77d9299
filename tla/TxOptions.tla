------------------------------ MODULE TxOptions ------------------------------
(***************************************************************************)
(* NewTXKeyOpts (client.go): goroutines that share one Client ask for      *)
(* transaction options.  They read the key's nonces from the node, test    *)
(* them (pending-nonce protection), estimate the fees and fill in the      *)
(* options.  The estimation writes two flags of the shared configuration,  *)
(* and failures are appended to the shared slice Client.Errors; nothing    *)
(* is locked.  NewTXOpts is NewTXKeyOpts for key 0.                        *)
(*                                                                         *)
(* The functional options of the caller are left out; so is the failure of *)
(* bind.NewKeyedTransactorWithChainID, which needs a nil chain id.         *)
(***************************************************************************)
EXTENDS Fees

CONSTANTS
    Callers,    \* goroutines
    NumKeys,    \* len(m.Addresses); keys are counted from 0
    KeyNums,    \* what callers pass as keyNum
    TxPriorities,  \* GasPriceEstimationTxPriority, as ValidateConfig accepts it
    NodeData,   \* fee data that the node may report
    Fallback,   \* GasPrice, GasFeeCap and GasTipCap of the configuration
    MaxTxs      \* bound: transactions of a key besides those of the callers

Keys == 0 .. NumKeys - 1
Percentiles ==
    {q \in [{"Perc25", "Perc50", "Perc99", "Max"} -> Nat] :
        q["Perc25"] =< q["Perc50"] /\ q["Perc50"] =< q["Perc99"] /\ q["Perc99"] =< q["Max"]}

ASSUME TxOptionsAssumption ==
    /\ NumKeys \in Nat \ {0}
    /\ KeyNums \subseteq Int
    /\ TxPriorities \subseteq Priorities
    /\ \A d \in NodeData :
           /\ d.base \in Percentiles /\ d.tip \in Percentiles
           /\ d.suggestedTip \in Nat /\ d.price \in Nat /\ d.metric \in Nat
    /\ Fallback \in [gasPrice : Nat, feeCap : Nat, tipCap : Nat]
    /\ MaxTxs \in Nat

VARIABLES
    cfg,        \* configuration that nothing writes
    EIP1559DynamicFees,
    GasPriceEstimationEnabled,
    Errors,     \* Client.Errors: the callers whose error is in the slice
    node,       \* fee data of the node
    sent,       \* transactions of a key that the node has accepted ...
    mined,      \* ... and those in a block
    pc,
    keyNum,
    PendingNonce,
    failed,     \* an error has been put into the Context of the options
    seen,       \* the slice as append has read it
    resume,     \* where the caller goes on after append
    est,        \* GasEstimations
    opts,       \* the options returned
    panicked    \* the process has crashed

shared == <<EIP1559DynamicFees, GasPriceEstimationEnabled, Errors>>
chain == <<sent, mined>>
local == <<pc, keyNum, PendingNonce, failed, seen, resume, est, opts>>
vars == <<cfg, node, shared, chain, local, panicked>>

NoEstimations == [gasPrice |-> Nil, feeCap |-> Nil, tipCap |-> Nil]
NoOpts == [nonce |-> Nil, gasPrice |-> Nil, feeCap |-> Nil, tipCap |-> Nil]

Init ==
    /\ cfg \in [protection : BOOLEAN, simulated : BOOLEAN, equalizer : BOOLEAN,
                priority : TxPriorities]
    /\ EIP1559DynamicFees \in BOOLEAN
    /\ GasPriceEstimationEnabled \in BOOLEAN
    /\ Errors = {}
    /\ node \in NodeData
    /\ sent = [k \in Keys |-> 0] /\ mined = [k \in Keys |-> 0]
    /\ pc = [c \in Callers |-> "idle"]
    /\ keyNum = [c \in Callers |-> 0]
    /\ PendingNonce = [c \in Callers |-> 0]
    /\ failed = [c \in Callers |-> FALSE]
    /\ seen = [c \in Callers |-> {}]
    /\ resume = [c \in Callers |-> "configure"]
    /\ est = [c \in Callers |-> NoEstimations]
    /\ opts = [c \in Callers |-> NoOpts]
    /\ panicked = FALSE

Fee == Nat \cup {Nil}

TypeOK ==
    /\ cfg \in [protection : BOOLEAN, simulated : BOOLEAN, equalizer : BOOLEAN,
                priority : TxPriorities]
    /\ EIP1559DynamicFees \in BOOLEAN /\ GasPriceEstimationEnabled \in BOOLEAN
    /\ Errors \subseteq Callers
    /\ node \in NodeData
    /\ sent \in [Keys -> Nat] /\ mined \in [Keys -> Nat]
    /\ \A k \in Keys : mined[k] =< sent[k]
    /\ pc \in [Callers -> {"idle", "pending", "last", "append", "request", "estimate",
                           "eip1559", "legacy", "configure", "returned"}]
    /\ keyNum \in [Callers -> KeyNums \cup {0}]
    /\ \A c \in Callers : pc[c] \in {"pending", "last", "request"} => keyNum[c] \in Keys
    /\ PendingNonce \in [Callers -> Nat]
    /\ failed \in [Callers -> BOOLEAN]
    /\ seen \in [Callers -> SUBSET Callers]
    /\ resume \in [Callers -> {"request", "configure", "returned"}]
    /\ est \in [Callers -> [gasPrice : Fee, feeCap : Fee, tipCap : Fee]]
    /\ opts \in [Callers -> [nonce : Fee, gasPrice : Fee, feeCap : Fee, tipCap : Fee]]
    /\ panicked \in BOOLEAN

Goto(c, l) == pc' = [pc EXCEPT ![c] = l]

(***************************************************************************)
(* Errors = append(Errors, err) and the Context that carries err.  append  *)
(* reads the slice and stores it back later: two calls can overlap.        *)
(***************************************************************************)
Fail(c, next) ==
    /\ failed' = [failed EXCEPT ![c] = TRUE]
    /\ seen' = [seen EXCEPT ![c] = Errors]
    /\ resume' = [resume EXCEPT ![c] = next]
    /\ Goto(c, "append")

AppendError(c) ==
    /\ pc[c] = "append"
    /\ Errors' = seen[c] \cup {c}
    /\ Goto(c, resume[c])
    /\ UNCHANGED <<EIP1559DynamicFees, GasPriceEstimationEnabled, chain>>
    /\ UNCHANGED <<keyNum, PendingNonce, failed, seen, resume, est, opts>>

(***************************************************************************)
(* NewTXKeyOpts: the range of keyNum.                                      *)
(***************************************************************************)
OutOfRange(k) == k > NumKeys \/ k < 0

KeyOutOfRange(c, k) ==
    /\ pc[c] = "idle"
    /\ OutOfRange(k)
    /\ keyNum' = [keyNum EXCEPT ![c] = k]
    /\ Fail(c, "returned")
    /\ UNCHANGED <<shared, chain, PendingNonce, est, opts>>

Start(c, k) ==
    /\ pc[c] = "idle"
    /\ k \in Keys
    /\ keyNum' = [keyNum EXCEPT ![c] = k]
    /\ Goto(c, "pending")
    /\ UNCHANGED <<shared, chain, PendingNonce, failed, seen, resume, est, opts>>

\* keyNum = len(m.Addresses) passes the test, and m.Addresses[keyNum] panics.
IndexPanics(c, k) ==
    /\ pc[c] = "idle"
    /\ ~OutOfRange(k) /\ k \notin Keys
    /\ panicked' = TRUE
    /\ UNCHANGED <<shared, chain, local>>

(***************************************************************************)
(* getNonceStatus: two calls to the node, the pending nonce first.         *)
(***************************************************************************)
PendingNonceAt(c) ==
    /\ pc[c] = "pending"
    /\ PendingNonce' = [PendingNonce EXCEPT ![c] = sent[keyNum[c]]]
    /\ Goto(c, "last")
    /\ UNCHANGED <<shared, chain, keyNum, failed, seen, resume, est, opts>>

\* Either call fails: the options are configured from zero values.
NonceStatusFails(c) ==
    /\ pc[c] \in {"pending", "last"}
    /\ PendingNonce' = [PendingNonce EXCEPT ![c] = 0]
    /\ Fail(c, "configure")
    /\ UNCHANGED <<shared, chain, keyNum, est, opts>>

\* Mutants of Protected: the comparison is off by one, in either direction.
ToleratesOnePending(c, LastNonce) == cfg.protection /\ PendingNonce[c] > LastNonce + 1
RejectsEqualNonces(c, LastNonce) == cfg.protection /\ PendingNonce[c] >= LastNonce

\* NonceAt, and the pending-nonce protection.
Protected(c, LastNonce) == cfg.protection /\ PendingNonce[c] > LastNonce

NonceAt(c) ==
    /\ pc[c] = "last"
    /\ \/ /\ Protected(c, mined[keyNum[c]])
          /\ Fail(c, "request")
       \/ /\ ~Protected(c, mined[keyNum[c]])
          /\ Goto(c, "request")
          /\ UNCHANGED <<failed, seen, resume>>
    /\ UNCHANGED <<shared, chain, keyNum, PendingNonce, est, opts>>

(***************************************************************************)
(* CalculateGasEstimations.                                                *)
(***************************************************************************)
SetEst(c, e) == est' = [est EXCEPT ![c] = e]

\* NewDefaultGasEstimationRequest; without estimation the configured fees.
Request(c) ==
    /\ pc[c] = "request"
    /\ IF cfg.simulated \/ ~GasPriceEstimationEnabled
       THEN SetEst(c, Fallback) /\ Goto(c, "configure")
       ELSE UNCHANGED est /\ Goto(c, "estimate")
    /\ UNCHANGED <<shared, chain, keyNum, PendingNonce, failed, seen, resume, opts>>

ChooseFees(c) ==
    /\ pc[c] = "estimate"
    /\ Goto(c, IF EIP1559DynamicFees THEN "eip1559" ELSE "legacy")
    /\ UNCHANGED <<shared, chain, keyNum, PendingNonce, failed, seen, resume, est, opts>>

FallbackCaps == [gasPrice |-> Nil, feeCap |-> Fallback.feeCap, tipCap |-> Fallback.tipCap]

\* GetSuggestedEIP1559Fees gets its answers; the metric may be missing.  A base
\* fee of 0 switches estimation off, for all callers.
EIP1559Answered(c, metric) ==
    LET fees == EIP1559Fees(node, cfg.priority, cfg.equalizer, metric)
    IN  /\ pc[c] = "eip1559"
        /\ SetEst(c, IF fees.error = "none"
                     THEN [gasPrice |-> Nil, feeCap |-> fees.feeCap, tipCap |-> fees.tipCap]
                     ELSE FallbackCaps)
        /\ GasPriceEstimationEnabled' = (GasPriceEstimationEnabled /\ fees.error # "zero")
        /\ Goto(c, "configure")
        /\ UNCHANGED <<EIP1559DynamicFees, Errors, chain>>
        /\ UNCHANGED <<keyNum, PendingNonce, failed, seen, resume, opts>>

\* A call fails for another reason.
EIP1559Fails(c) ==
    /\ pc[c] = "eip1559"
    /\ SetEst(c, FallbackCaps)
    /\ Goto(c, "configure")
    /\ UNCHANGED <<shared, chain, keyNum, PendingNonce, failed, seen, resume, opts>>

\* Mutant of EIP1559Unsupported: the flag is switched, but no legacy price is computed this time.
UnsupportedWithoutLegacy(c) ==
    /\ pc[c] = "eip1559"
    /\ SetEst(c, FallbackCaps)
    /\ EIP1559DynamicFees' = FALSE
    /\ Goto(c, "configure")
    /\ UNCHANGED <<GasPriceEstimationEnabled, Errors, chain>>
    /\ UNCHANGED <<keyNum, PendingNonce, failed, seen, resume, opts>>

\* The node does not know the method: legacy fees from now on, for all callers.
EIP1559Unsupported(c) ==
    /\ pc[c] = "eip1559"
    /\ SetEst(c, FallbackCaps)
    /\ EIP1559DynamicFees' = FALSE
    /\ Goto(c, "legacy")
    /\ UNCHANGED <<GasPriceEstimationEnabled, Errors, chain>>
    /\ UNCHANGED <<keyNum, PendingNonce, failed, seen, resume, opts>>

SetGasPrice(c, price) ==
    SetEst(c, [gasPrice |-> price, feeCap |-> est[c].feeCap, tipCap |-> est[c].tipCap])

\* calculateLegacyFees.
LegacyAnswered(c, metric) ==
    LET fees == LegacyFees(node.price, cfg.priority, metric)
    IN  /\ pc[c] = "legacy"
        /\ SetGasPrice(c, IF fees.error = "none" THEN fees.gasPrice ELSE Fallback.gasPrice)
        /\ Goto(c, "configure")
        /\ UNCHANGED <<shared, chain, keyNum, PendingNonce, failed, seen, resume, opts>>

LegacyFails(c) ==
    /\ pc[c] = "legacy"
    /\ SetGasPrice(c, Fallback.gasPrice)
    /\ Goto(c, "configure")
    /\ UNCHANGED <<shared, chain, keyNum, PendingNonce, failed, seen, resume, opts>>

(***************************************************************************)
(* configureTransactionOpts reads the flag again.                          *)
(***************************************************************************)
Configure(c) ==
    /\ pc[c] = "configure"
    /\ opts' = [opts EXCEPT ![c] =
           IF EIP1559DynamicFees
           THEN [nonce |-> PendingNonce[c], gasPrice |-> Nil,
                 feeCap |-> est[c].feeCap, tipCap |-> est[c].tipCap]
           ELSE [nonce |-> PendingNonce[c], gasPrice |-> est[c].gasPrice,
                 feeCap |-> Nil, tipCap |-> Nil]]
    /\ Goto(c, "returned")
    /\ UNCHANGED <<shared, chain, keyNum, PendingNonce, failed, seen, resume, est>>

(***************************************************************************)
(* The chain: transactions of the keys, sent by others, are accepted and   *)
(* mined at any time.                                                      *)
(***************************************************************************)
Accept(k) ==
    /\ sent[k] < MaxTxs
    /\ sent' = [sent EXCEPT ![k] = @ + 1]
    /\ UNCHANGED <<shared, mined, local>>

Mine(k) ==
    /\ mined[k] < sent[k]
    /\ mined' = [mined EXCEPT ![k] = @ + 1]
    /\ UNCHANGED <<shared, sent, local>>

Step(c) ==
    \/ AppendError(c)
    \/ \E k \in KeyNums : KeyOutOfRange(c, k) \/ Start(c, k)
    \/ PendingNonceAt(c) \/ NonceStatusFails(c) \/ NonceAt(c)
    \/ Request(c) \/ ChooseFees(c)
    \/ \E m \in {node.metric, NoMetric} : EIP1559Answered(c, m) \/ LegacyAnswered(c, m)
    \/ EIP1559Fails(c) \/ EIP1559Unsupported(c) \/ LegacyFails(c)
    \/ Configure(c)

Next ==
    /\ ~panicked
    /\ UNCHANGED <<cfg, node>>
    /\ \/ \E c \in Callers : Step(c) /\ UNCHANGED panicked
       \/ \E c \in Callers, k \in KeyNums : IndexPanics(c, k)
       \/ \E k \in Keys : (Accept(k) \/ Mine(k)) /\ UNCHANGED panicked

Spec == Init /\ [][Next]_vars

-----------------------------------------------------------------------------
Returned(c) == pc[c] = "returned"
HasPrice(o) == o.gasPrice # Nil
HasCaps(o) == o.feeCap # Nil /\ o.tipCap # Nil

\* Another caller has found that the node does not know EIP-1559.
SwitchedByAnother(c) ==
    \E d \in Callers \ {c} :
        est[d].feeCap # Nil /\ (est[d].gasPrice # Nil \/ pc[d] = "legacy")

\* Options without an error carry a gas price or the two caps of EIP-1559,
\* never both and never half of one.  They carry neither only if another
\* caller switched the client to legacy fees between this caller's estimation
\* and its configureTransactionOpts.
PricedUnlessSwitched ==
    \A c \in Callers : Returned(c) /\ ~failed[c] =>
        LET o == opts[c] IN
        \/ HasPrice(o) /\ o.feeCap = Nil /\ o.tipCap = Nil
        \/ HasCaps(o) /\ ~HasPrice(o)
        \/ /\ ~HasPrice(o) /\ o.feeCap = Nil /\ o.tipCap = Nil
           /\ ~EIP1559DynamicFees /\ SwitchedByAnother(c)

\* With the pending-nonce protection, a nonce given out without an error has
\* no gap below it: every transaction with a smaller nonce is in a block,
\* although the two nonces come from two calls and others use the key.
ProtectedNonceHasNoGap ==
    \A c \in Callers :
        Returned(c) /\ ~failed[c] /\ cfg.protection => opts[c].nonce =< mined[keyNum[c]]

\* The protection raises an error only for a key that has a transaction not
\* yet mined at that moment: pending is read first, so a block between the two
\* calls is never mistaken for a stuck transaction.
ProtectionErrorsAreReal ==
    [][\A c \in Callers :
          pc[c] = "last" /\ failed'[c] /\ resume'[c] = "request"
              => mined[keyNum[c]] < sent[keyNum[c]]]_vars

\* A more urgent priority never suggests lower fees for the same node data,
\* nor fails where the less urgent one has an answer (without the fee
\* equalizer): percentile, factor, buffer and truncation are all monotone.
UrgencyNeverPaysLess ==
    \A q \in Priorities, m \in {node.metric, NoMetric} :
        Urgency[cfg.priority] =< Urgency[q] =>
            LET p == cfg.priority
                dynamic == EIP1559Fees(node, p, FALSE, m)
                urgent == EIP1559Fees(node, q, FALSE, m)
            IN  /\ dynamic.error = "none" =>
                       /\ urgent.error = "none"
                       /\ dynamic.feeCap =< urgent.feeCap /\ dynamic.tipCap =< urgent.tipCap
                /\ LegacyFees(node.price, p, m).gasPrice =< LegacyFees(node.price, q, m).gasPrice
=============================================================================
