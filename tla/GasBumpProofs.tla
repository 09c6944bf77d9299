---------------------------- MODULE GasBumpProofs ----------------------------
(***************************************************************************)
(* What gas bumping promises whichever loop runs it, for any transaction   *)
(* type, fees, limits, strategies, numbers of attempts and tracing levels: *)
(* lemmas about GasBump, then the theorems about its two callers, whose    *)
(* specifications are Spec (Client.Decode) and DeploySpec                  *)
(* (Client.DeployContract).                                                *)
(***************************************************************************)
EXTENDS Decode, DeployContract, TLAPS

Fees == [gasPrice : Nat, feeCap : Nat, tipCap : Nat, blobFeeCap : Nat]

\* A step of the waiting loop, of the bump or of the network, or of retry.Do.
BumpMoves ==
    \/ WaitStep
    \/ Deadline
    \/ BumpStep
    \/ \E n \in Nat : NextAttempt(n)
    \/ \E i \in live : Mine(i)

\* current, the transaction Seth waits for, is one the node has accepted.
BumpTypes ==
    /\ cfg.maxPrice \in Nat /\ cfg.retries \in Nat
    /\ txs \in Seq(Fees)
    /\ candidate \in Fees
    /\ current \in 1 .. Len(txs)
    /\ live \subseteq 1 .. Len(txs)
    /\ mined \in 0 .. Len(txs)
    /\ status \in {0, 1}

-----------------------------------------------------------------------------
(* The fees. *)

LEMMA NoFeesTotal == NoFees \in Fees /\ Total(NoFees) = 0
  BY DEF NoFees, Fees, Total

LEMMA StrategyType == \A p \in Nat : StrategyFn(p) \subseteq Nat
<1> SUFFICES ASSUME NEW p \in Nat PROVE StrategyFn(p) \subseteq Nat
  OBVIOUS
<1>1. 2 * p \in Nat /\ (p * 130) \div 100 \in Nat /\ (p * 105) \div 100 \in Nat
      /\ (p * 115) \div 100 \in Nat
  OBVIOUS
<1>2. p > 0 /\ (p * 115) % 100 = 0 => (p * 115) \div 100 - 1 \in Nat
  OBVIOUS
<1>3. QED
  BY <1>1, <1>2 DEF StrategyFn

LEMMA BumpedType == \A f \in Fees : Bumped(f) \subseteq Fees
<1> SUFFICES ASSUME NEW f \in Fees, NEW g \in Bumped(f) PROVE g \in Fees
  OBVIOUS
<1>1. /\ g = [gasPrice |-> g.gasPrice, feeCap |-> g.feeCap, tipCap |-> g.tipCap,
              blobFeeCap |-> g.blobFeeCap]
      /\ g.gasPrice \in StrategyFn(f.gasPrice) /\ g.feeCap \in StrategyFn(f.feeCap)
      /\ g.tipCap \in StrategyFn(f.tipCap) /\ g.blobFeeCap \in StrategyFn(f.blobFeeCap)
  BY DEF Bumped
<1>2. /\ f.gasPrice \in Nat /\ f.feeCap \in Nat /\ f.tipCap \in Nat /\ f.blobFeeCap \in Nat
  BY DEF Fees
<1>3. /\ g.gasPrice \in Nat /\ g.feeCap \in Nat /\ g.tipCap \in Nat /\ g.blobFeeCap \in Nat
  BY <1>1, <1>2, StrategyType
<1>4. QED
  BY <1>1, <1>3 DEF Fees

LEMMA InitialFeesType ==
  ASSUME NEW type, NEW p \in Nat, NEW tip \in Nat
  PROVE  InitialFees(type, p, tip) \in Fees
  BY DEF InitialFees, NoFees, Fees

-----------------------------------------------------------------------------
(* The transactions of the nonce, and the limit on their fees. *)

BumpInv == BumpTypes /\ CapRespected

LEMMA BumpInitial ==
  ASSUME NEW submitted \in BOOLEAN, BumpInit(submitted)
  PROVE  BumpInv
<1>1. PICK p \in InitialPrices, tip \in InitialPrices :
        txs = <<InitialFees(cfg.txType, p, tip)>>
  BY DEF BumpInit
<1>2. InitialFees(cfg.txType, p, tip) \in Fees
  BY InitialFeesType, GasBumpAssumption
<1>3. txs \in Seq(Fees) /\ Len(txs) = 1
  BY <1>1, <1>2
<1>4. cfg.maxPrice \in Nat /\ cfg.retries \in Nat
  BY GasBumpAssumption DEF BumpInit
<1>5. BumpTypes
  BY <1>3, <1>4, NoFeesTotal DEF BumpInit, BumpTypes
<1>6. CapRespected
  BY <1>3, <1>4, NoFeesTotal DEF BumpInit, CapRespected
<1>7. QED
  BY <1>5, <1>6 DEF BumpInv

LEMMA BumpUnmoved ==
  ASSUME BumpInv, UNCHANGED <<cfg, network, current, candidate>>
  PROVE  BumpInv'
  BY DEF BumpInv, BumpTypes, CapRespected, Total, network

\* An accepted replacement is the next transaction of the nonce.
LEMMA AcceptKeeps ==
  ASSUME BumpInv, cfg' = cfg, Accept(candidate), candidate' = NoFees,
         current' \in {current, Len(txs) + 1}, UNCHANGED <<mined, status>>
  PROVE  BumpInv'
<1>1. /\ txs' \in Seq(Fees) /\ Len(txs') = Len(txs) + 1 /\ Len(txs) \in Nat
      /\ \A i \in 1 .. Len(txs) : txs'[i] = txs[i]
      /\ txs'[Len(txs) + 1] = candidate
  BY DEF BumpInv, BumpTypes, Accept
<1>2. live' \subseteq 1 .. Len(txs) + 1
  <2> DEFINE n == Len(txs)
  <2>1. n \in Nat /\ live \subseteq 1 .. n /\ live' \subseteq live \cup {n + 1}
    BY <1>1 DEF BumpInv, BumpTypes, Accept
  <2> HIDE DEF n
  <2>2. live' \subseteq 1 .. n + 1
    BY <2>1
  <2>3. QED
    BY <2>2 DEF n
<1>3. BumpTypes'
  <2>1. current' \in 1 .. Len(txs') /\ mined' \in 0 .. Len(txs') /\ live' \subseteq 1 .. Len(txs')
    BY <1>1, <1>2 DEF BumpInv, BumpTypes
  <2>2. QED
    BY <1>1, <2>1, NoFeesTotal DEF BumpInv, BumpTypes
<1>4. ASSUME cfg.maxPrice > 0, NEW i \in 1 .. Len(txs) + 1, i > 1
      PROVE  Total(txs'[i]) =< cfg.maxPrice
  <2>1. CASE i = Len(txs) + 1
    BY <1>1, <1>4, <2>1 DEF BumpInv, CapRespected
  <2>2. CASE i # Len(txs) + 1
    <3>1. i \in 1 .. Len(txs) /\ DOMAIN txs = 1 .. Len(txs)
      BY <1>1, <2>2 DEF BumpInv, BumpTypes
    <3>2. QED
      BY <1>1, <1>4, <3>1 DEF BumpInv, CapRespected
  <2>3. QED
    BY <2>1, <2>2
<1>5. DOMAIN txs' = 1 .. Len(txs) + 1
  BY <1>1
<1>6. CapRespected'
  BY <1>4, <1>5, NoFeesTotal DEF CapRespected, Total, BumpInv, BumpTypes
<1>7. QED
  BY <1>3, <1>6 DEF BumpInv

LEMMA PrepareKeeps ==
  ASSUME BumpInv, PrepareReplacement
  PROVE  BumpInv' /\ candidate' \in Fees
<1>1. txs[current] \in Fees
  BY DEF BumpInv, BumpTypes
<1>2. PICK f \in Bumped(txs[current]) : WithinMaxPrice(f) /\ candidate' = Replacement(f)
  BY DEF PrepareReplacement
<1>3. f \in Fees
  BY <1>1, <1>2, BumpedType
<1>4. candidate' \in Fees /\ (cfg.maxPrice > 0 => Total(candidate') =< cfg.maxPrice)
  <2>1. CASE cfg.txType = "accessList"
    BY <1>2, <2>1, NoFeesTotal DEF Replacement, BumpInv, BumpTypes
  <2>2. CASE cfg.txType # "accessList"
    BY <1>2, <1>3, <2>2 DEF Replacement, WithinMaxPrice
  <2>3. QED
    BY <2>1, <2>2
<1>5. UNCHANGED <<cfg, txs, live, mined, status, current>>
  BY DEF PrepareReplacement, network
<1>6. BumpTypes'
  BY <1>4, <1>5 DEF BumpInv, BumpTypes
<1>7. CapRespected'
  BY <1>4, <1>5 DEF BumpInv, CapRespected, Total
<1>8. QED
  BY <1>4, <1>6, <1>7 DEF BumpInv

LEMMA BumpKeeps ==
  ASSUME BumpInv, BumpMoves
  PROVE  BumpInv'
<1>1. CASE WaitStep \/ Deadline \/ (\E n \in Nat : NextAttempt(n)) \/ PrepareFails
  BY <1>1, BumpUnmoved DEF WaitStep, PollSucceeds, PollFails, Tick, Deadline, NextAttempt,
     PrepareFails
<1>2. CASE PrepareReplacement
  BY <1>2, PrepareKeeps
<1>3. CASE SendReplacement \/ SendReplyLost
  BY <1>3, AcceptKeeps DEF SendReplacement, SendReplyLost
<1>4. CASE SendFails
  BY <1>4, NoFeesTotal DEF SendFails, BumpInv, BumpTypes, CapRespected, network, Total
<1>5. ASSUME NEW i \in live, Mine(i) PROVE BumpInv'
  <2>1. /\ UNCHANGED <<cfg, txs, current, candidate>> /\ mined' = i /\ live' = {}
        /\ status' \in {0, 1}
    BY <1>5 DEF Mine
  <2>2. QED
    BY <2>1 DEF BumpInv, BumpTypes, CapRespected, Total
<1>6. QED
  BY BumpMoves, <1>1, <1>2, <1>3, <1>4, <1>5 DEF BumpMoves, BumpStep

\* Seth never takes up another transaction once one is mined: NodeAccepts
\* refuses what it sends, so the transaction it waits for stays the mined one.
LEMMA MinedIsKept ==
  ASSUME BumpInv, BumpMoves, mined = current
  PROVE  mined' = current' /\ status' = status
<1>1. mined # 0
  BY DEF BumpInv, BumpTypes
<1>2. QED
  BY <1>1 DEF BumpMoves, WaitStep, PollSucceeds, PollFails, Tick, Deadline, BumpStep,
     PrepareReplacement, PrepareFails, SendReplacement, SendReplyLost, SendFails, NodeAccepts,
     NextAttempt, Mine, network

\* The waiting loop leaves with a receipt only when it is that of the transaction
\* Seth waits for.
LEMMA ReceiptIsCurrent ==
  ASSUME BumpMoves, pc' # pc
  PROVE  /\ pc' \in {"receipt", "tick", "poll", "gaveup", "bump", "send", "next"}
         /\ pc \in {"poll", "tick", "bump", "send", "next"}
         /\ pc' = "receipt" => mined' = current'
  BY DEF BumpMoves, WaitStep, PollSucceeds, PollFails, Tick, Deadline, AfterDeadline, BumpStep,
     PrepareReplacement, PrepareFails, SendReplacement, SendReplyLost, SendFails, NextAttempt,
     Mine, ReceiptFound, network

-----------------------------------------------------------------------------
(***************************************************************************)
(* Replacements outbid.  With one of the four priorities a bump raises     *)
(* every fee, if the fee is at least 20 wei: 5 percent of less is nothing  *)
(* after truncation.  A replacement is then dearer than what it replaces,  *)
(* so its fees are at least 20 as well and the next bump raises them too.  *)
(***************************************************************************)
BumpPriorities == {"degen", "fast", "standard", "slow"}

\* The hypothesis of the theorems: what the configuration and the chain provide.
PricesRise ==
    /\ Priorities \subseteq BumpPriorities
    /\ \A p \in InitialPrices : p >= 20

Raisable(x) == x = 0 \/ x >= 20

AllRaisable(f) ==
    Raisable(f.gasPrice) /\ Raisable(f.feeCap) /\ Raisable(f.tipCap) /\ Raisable(f.blobFeeCap)

LEMMA StrategyRises ==
  ASSUME cfg.priority \in BumpPriorities, NEW p \in Nat, Raisable(p), NEW q \in StrategyFn(p)
  PROVE  q \in Nat /\ Raisable(q) /\ (p > 0 => q > p)
<1>1. CASE cfg.priority = "degen"
  <2>1. q = 2 * p
    BY <1>1 DEF StrategyFn
  <2>2. QED
    BY <2>1 DEF Raisable
<1>2. CASE cfg.priority = "fast"
  <2>1. q = (p * 130) \div 100
    BY <1>2 DEF StrategyFn
  <2>2. QED
    BY <2>1 DEF Raisable
<1>3. CASE cfg.priority = "standard"
  <2>1. \/ q = (p * 115) \div 100
        \/ q = (p * 115) \div 100 - 1 /\ p > 0
    BY <1>3 DEF StrategyFn
  <2>2. QED
    BY <2>1 DEF Raisable
<1>4. CASE cfg.priority = "slow"
  <2>1. q = (p * 105) \div 100
    BY <1>4 DEF StrategyFn
  <2>2. QED
    BY <2>1 DEF Raisable
<1>5. QED
  BY <1>1, <1>2, <1>3, <1>4 DEF BumpPriorities

LEMMA BumpedOutbids ==
  ASSUME cfg.priority \in BumpPriorities, NEW f \in Fees, AllRaisable(f), NEW g \in Bumped(f)
  PROVE  AllRaisable(g) /\ Outbids(g, f)
<1>1. /\ g.gasPrice \in StrategyFn(f.gasPrice) /\ g.feeCap \in StrategyFn(f.feeCap)
      /\ g.tipCap \in StrategyFn(f.tipCap) /\ g.blobFeeCap \in StrategyFn(f.blobFeeCap)
  BY DEF Bumped
<1>2. /\ f.gasPrice \in Nat /\ f.feeCap \in Nat /\ f.tipCap \in Nat /\ f.blobFeeCap \in Nat
      /\ DOMAIN f = {"gasPrice", "feeCap", "tipCap", "blobFeeCap"}
  BY DEF Fees
<1>3. /\ Raisable(g.gasPrice) /\ (f.gasPrice > 0 => g.gasPrice > f.gasPrice)
      /\ Raisable(g.feeCap) /\ (f.feeCap > 0 => g.feeCap > f.feeCap)
      /\ Raisable(g.tipCap) /\ (f.tipCap > 0 => g.tipCap > f.tipCap)
      /\ Raisable(g.blobFeeCap) /\ (f.blobFeeCap > 0 => g.blobFeeCap > f.blobFeeCap)
  BY <1>1, <1>2, StrategyRises DEF AllRaisable
<1>4. QED
  BY <1>2, <1>3 DEF AllRaisable, Outbids

OutbidInv ==
    /\ BumpInv
    /\ cfg.priority \in BumpPriorities
    /\ \A i \in DOMAIN txs : AllRaisable(txs[i])
    /\ AllRaisable(candidate)
    /\ BumpOutbids

LEMMA NoFeesRaisable == AllRaisable(NoFees)
  BY DEF NoFees, AllRaisable, Raisable

LEMMA OutbidInitial ==
  ASSUME PricesRise, NEW submitted \in BOOLEAN, BumpInit(submitted)
  PROVE  OutbidInv
<1>1. PICK p \in InitialPrices, tip \in InitialPrices :
        txs = <<InitialFees(cfg.txType, p, tip)>>
  BY DEF BumpInit
<1>2. Raisable(p) /\ Raisable(tip) /\ Raisable(0)
  BY DEF PricesRise, Raisable
<1>3. AllRaisable(InitialFees(cfg.txType, p, tip))
  BY <1>2 DEF InitialFees, NoFees, AllRaisable
<1>4. \A i \in DOMAIN txs : AllRaisable(txs[i])
  BY <1>1, <1>3
<1>5. cfg.priority \in BumpPriorities
  BY DEF BumpInit, PricesRise
<1>6. candidate = NoFees /\ pc = "start"
  BY DEF BumpInit
<1>7. QED
  BY <1>4, <1>5, <1>6, BumpInitial, NoFeesRaisable DEF OutbidInv, BumpOutbids

\* A step that neither prepares nor sends.
LEMMA OutbidUnmoved ==
  ASSUME OutbidInv, BumpInv', UNCHANGED <<cfg, txs, current, candidate>>,
         pc' = "send" => pc = "send"
  PROVE  OutbidInv'
  BY DEF OutbidInv, BumpOutbids, Outbids, AllRaisable, Raisable

\* A step after which there is no replacement to send, and at most one
\* transaction more.
LEMMA OutbidSent ==
  ASSUME OutbidInv, BumpInv', cfg' = cfg, txs' \in {txs, Append(txs, candidate)},
         candidate' = NoFees, pc' = "next"
  PROVE  OutbidInv'
<1>1. txs \in Seq(Fees) /\ candidate \in Fees
  BY DEF OutbidInv, BumpInv, BumpTypes
<1>2. ASSUME NEW i \in DOMAIN txs' PROVE AllRaisable(txs'[i])
  <2>1. CASE txs' = txs
    BY <2>1, <1>2 DEF OutbidInv
  <2>2. CASE txs' = Append(txs, candidate)
    <3>1. \/ i \in DOMAIN txs /\ txs'[i] = txs[i]
          \/ txs'[i] = candidate
      BY <1>1, <1>2, <2>2
    <3>2. QED
      BY <3>1 DEF OutbidInv
  <2>3. QED
    BY <2>1, <2>2
<1>3. (\A i \in DOMAIN txs : AllRaisable(txs[i]))'
  BY <1>2 DEF AllRaisable, Raisable
<1>4. AllRaisable(candidate)'
  BY NoFeesRaisable DEF AllRaisable, Raisable
<1>5. QED
  BY <1>3, <1>4 DEF OutbidInv, BumpOutbids

LEMMA OutbidPrepared ==
  ASSUME OutbidInv, BumpInv', PrepareReplacement
  PROVE  OutbidInv'
<1>1. txs[current] \in Fees /\ AllRaisable(txs[current])
  BY DEF OutbidInv, BumpInv, BumpTypes
<1>2. PICK f \in Bumped(txs[current]) : candidate' = Replacement(f)
  BY DEF PrepareReplacement
<1>3. AllRaisable(f) /\ Outbids(f, txs[current])
  BY <1>1, <1>2, BumpedOutbids DEF OutbidInv
<1>4. UNCHANGED <<cfg, txs, current>>
  BY DEF PrepareReplacement, network
<1>5. AllRaisable(candidate')
  BY <1>2, <1>3, NoFeesRaisable DEF Replacement
<1>6. BumpOutbids'
  BY <1>2, <1>3, <1>4 DEF BumpOutbids, Replacement, Outbids
<1>7. QED
  BY <1>4, <1>5, <1>6 DEF OutbidInv, AllRaisable, Raisable

LEMMA OutbidKeeps ==
  ASSUME OutbidInv, BumpMoves
  PROVE  OutbidInv'
<1>1. BumpInv'
  BY BumpKeeps DEF OutbidInv
<1>2. CASE \/ WaitStep \/ Deadline \/ PrepareFails
           \/ \E n \in Nat : NextAttempt(n)
           \/ \E i \in live : Mine(i)
  BY <1>1, <1>2, OutbidUnmoved DEF WaitStep, PollSucceeds, PollFails, Tick, Deadline,
     AfterDeadline, PrepareFails, NextAttempt, Mine, network
<1>3. CASE SendReplacement \/ SendReplyLost \/ SendFails
  BY <1>1, <1>3, OutbidSent DEF SendReplacement, SendReplyLost, SendFails, Accept, network
<1>4. CASE PrepareReplacement
  BY <1>1, <1>4, OutbidPrepared
<1>5. QED
  BY BumpMoves, <1>2, <1>3, <1>4 DEF BumpMoves, BumpStep

-----------------------------------------------------------------------------
(***************************************************************************)
(* Client.Decode.                                                          *)
(***************************************************************************)
\* Decode's own steps leave the transactions, the fees and the network alone.
LEMMA DecodeStepLeaves ==
  ASSUME DecodeStep
  PROVE  UNCHANGED <<cfg, network, current, candidate>> /\ pc' # "send"
  BY DEF DecodeStep, Start, GiveUp, RevertReason, DecodeTransaction, Panics, NoAnswer, Trace,
     TraceNotSupported, Return

LEMMA NextIsBumpOrDecode ==
  ASSUME BumpInv, Next
  PROVE  DecodeStep \/ (BumpMoves /\ UNCHANGED decodeVars)
<1>1. Attempts \in Nat
  BY DEF Attempts, BumpInv, BumpTypes
<1>2. QED
  BY <1>1 DEF Next, BumpMoves

LEMMA DecodeBumpInit == Init => BumpInv
<1> SUFFICES ASSUME Init PROVE BumpInv
  OBVIOUS
<1>1. (input \in {"tx", "stickyErrors"}) \in BOOLEAN
  OBVIOUS
<1>2. QED
  BY <1>1, BumpInitial DEF Init

LEMMA DecodeBumpStep == BumpInv /\ [Next]_vars => BumpInv'
<1> SUFFICES ASSUME BumpInv, [Next]_vars PROVE BumpInv'
  OBVIOUS
<1>1. CASE Next
  BY <1>1, NextIsBumpOrDecode, DecodeStepLeaves, BumpUnmoved, BumpKeeps
<1>2. CASE UNCHANGED vars
  BY <1>2, BumpUnmoved DEF vars, bumpVars
<1>3. QED
  BY <1>1, <1>2

(***************************************************************************)
(* No replacement that Decode sends or is about to send has fees whose sum *)
(* exceeds gas_bumps.max_gas_price, whatever is bumped, lost or mined      *)
(* (retry.go, prepareReplacementTransaction).                              *)
(***************************************************************************)
THEOREM DecodeRespectsCap == Spec => []CapRespected
<1>1. BumpInv => CapRespected
  BY DEF BumpInv
<1>2. QED
  BY <1>1, DecodeBumpInit, DecodeBumpStep, PTL DEF Spec

(***************************************************************************)
(* With one of the four priorities and fees of at least 20 wei, every      *)
(* replacement that Decode sends is dearer, fee by fee, than the           *)
(* transaction it replaces, however often it is bumped; access list        *)
(* transactions excepted (retry.go, PriorityBasedGasBumpingStrategyFn).    *)
(***************************************************************************)
THEOREM DecodeOutbids == ASSUME PricesRise PROVE Spec => []BumpOutbids
<1>1. Init => OutbidInv
  <2> SUFFICES ASSUME Init PROVE OutbidInv
    OBVIOUS
  <2>1. (input \in {"tx", "stickyErrors"}) \in BOOLEAN
    OBVIOUS
  <2>2. QED
    BY <2>1, OutbidInitial DEF Init
<1>2. OutbidInv /\ [Next]_vars => OutbidInv'
  <2> SUFFICES ASSUME OutbidInv, [Next]_vars PROVE OutbidInv'
    OBVIOUS
  <2>1. BumpInv /\ BumpInv'
    BY DecodeBumpStep DEF OutbidInv
  <2>2. CASE Next
    BY <2>1, <2>2, NextIsBumpOrDecode, DecodeStepLeaves, OutbidUnmoved, OutbidKeeps DEF network
  <2>3. CASE UNCHANGED vars
    BY <2>1, <2>3, OutbidUnmoved DEF vars, bumpVars, network
  <2>4. QED
    BY <2>2, <2>3
<1>3. OutbidInv => BumpOutbids
  BY DEF OutbidInv
<1>4. QED
  BY <1>1, <1>2, <1>3, PTL DEF Spec

-----------------------------------------------------------------------------
(***************************************************************************)
(* The receipt Decode works with is that of the transaction it waits for,  *)
(* and no later bump can replace a mined transaction.  The revert error it *)
(* remembers while tracing is the one the receipt calls for.               *)
(***************************************************************************)
DecodeInv ==
    /\ BumpInv
    /\ pc \in {"receipt", "decode", "trace"} => mined = current
    /\ pc \in {"decode", "trace"} => revertErr = (status = 0)
    /\ ResultMatchesChain

LEMMA DecodeInit == Init => DecodeInv
  BY DecodeBumpInit DEF Init, BumpInit, DecodeInv, ResultMatchesChain

LEMMA DecodeOwnStep ==
  ASSUME DecodeInv, DecodeStep
  PROVE  DecodeInv'
<1>1. /\ UNCHANGED <<current, mined, status>>
      /\ BumpInv'
  BY DecodeStepLeaves, BumpUnmoved DEF DecodeInv, network
<1>2. CASE Start \/ GiveUp
  BY <1>1, <1>2 DEF Start, GiveUp, Return, DecodeInv, ResultMatchesChain
<1>3. CASE RevertReason
  BY <1>1, <1>3 DEF RevertReason, DecodeInv, ResultMatchesChain
<1>6. CASE DecodeTransaction
  <2>1. mined' = current' /\ revertErr' = (status' = 0)
    BY <1>1, <1>6 DEF DecodeTransaction, DecodeInv
  <2>2. \/ pc' = "trace"
        \/ pc' = "returned" /\ result'.err = ErrorOf(revertErr)
    BY <1>6 DEF DecodeTransaction, Return
  <2>3. CASE pc' = "trace"
    BY <1>1, <2>1, <2>3 DEF DecodeInv, ResultMatchesChain
  <2>4. CASE pc' = "returned" /\ result'.err = ErrorOf(revertErr)
    <3>1. (result'.err = "revert") = (status' = 0)
      <4>1. revertErr = (status' = 0)
        BY <1>1, <1>6 DEF DecodeTransaction, DecodeInv
      <4>2. QED
        BY <4>1, <2>4 DEF ErrorOf
    <3>2. QED
      BY <1>1, <2>1, <2>4, <3>1 DEF DecodeInv, ResultMatchesChain
  <2>5. QED
    BY <2>2, <2>3, <2>4
<1>7. CASE Panics \/ NoAnswer
  BY <1>1, <1>7 DEF Panics, NoAnswer, DecodeInv, ResultMatchesChain
<1>4. CASE Trace \/ TraceNotSupported
  <2>1. /\ mined' = current' /\ revertErr = (status' = 0)
        /\ pc' = "returned" /\ result'.err = ErrorOf(revertErr)
    BY <1>1, <1>4 DEF Trace, TraceNotSupported, Return, DecodeInv
  <2>2. (result'.err = "revert") = (status' = 0)
    BY <2>1 DEF ErrorOf
  <2>3. QED
    BY <1>1, <2>1, <2>2 DEF DecodeInv, ResultMatchesChain
<1>5. QED
  BY <1>2, <1>3, <1>4, <1>6, <1>7 DEF DecodeStep

LEMMA DecodeMoves ==
  ASSUME DecodeInv, BumpMoves, UNCHANGED decodeVars
  PROVE  DecodeInv'
<1>1. BumpInv'
  BY BumpKeeps DEF DecodeInv
<1>2. mined = current => mined' = current' /\ status' = status
  BY MinedIsKept DEF DecodeInv
<1>3. CASE pc' = pc
  BY <1>1, <1>2, <1>3 DEF DecodeInv, decodeVars, ResultMatchesChain
<1>4. CASE pc' # pc
  <2>1. pc' \notin {"decode", "trace", "returned"} /\ (pc' = "receipt" => mined' = current')
    BY <1>4, ReceiptIsCurrent
  <2>2. QED
    BY <1>1, <2>1 DEF DecodeInv, ResultMatchesChain
<1>5. QED
  BY <1>3, <1>4

LEMMA DecodeInvStep == DecodeInv /\ [Next]_vars => DecodeInv'
<1> SUFFICES ASSUME DecodeInv, [Next]_vars PROVE DecodeInv'
  OBVIOUS
<1>1. BumpInv /\ BumpInv'
  BY DecodeBumpStep DEF DecodeInv
<1>2. CASE Next
  BY <1>1, <1>2, NextIsBumpOrDecode, DecodeOwnStep, DecodeMoves
<1>3. CASE UNCHANGED vars
  BY <1>1, <1>3 DEF vars, bumpVars, decodeVars, network, DecodeInv, ResultMatchesChain
<1>4. QED
  BY <1>2, <1>3

(***************************************************************************)
(* A transaction that Decode returns as decoded is the mined one, and the  *)
(* error that comes with it is the revert error exactly when its receipt   *)
(* says reverted, however timeouts, bumps, lost answers, tracing and       *)
(* mining interleave (client.go, Decode).                                  *)
(***************************************************************************)
THEOREM DecodedIsMined == Spec => []ResultMatchesChain
<1>1. DecodeInv => ResultMatchesChain
  BY DEF DecodeInv
<1>2. QED
  BY <1>1, DecodeInit, DecodeInvStep, PTL DEF Spec

-----------------------------------------------------------------------------
(***************************************************************************)
(* Client.DeployContract.                                                  *)
(***************************************************************************)
(***************************************************************************)
(* Only a successful creation leaves code, and the receipt the loop works  *)
(* with is that of the transaction it waits for.                           *)
(***************************************************************************)
DeployInv ==
    /\ BumpInv
    /\ code \in BOOLEAN
    /\ code => mined # 0 /\ status = 1
    /\ pc \in {"receipt", "deployed"} => mined = current
    /\ pc = "deployed" => code
    /\ DeployedIsUsable

LEMMA DeployInvInit == DeployInit => DeployInv
<1> SUFFICES ASSUME DeployInit PROVE DeployInv
  OBVIOUS
<1>1. BumpInv
  BY BumpInitial DEF DeployInit
<1>2. pc = "start" /\ ~code /\ code \in BOOLEAN /\ ~result.ok /\ ~saved
  BY DEF DeployInit, BumpInit, NotDeployed
<1>3. QED
  BY <1>1, <1>2 DEF DeployInv, DeployedIsUsable

\* Nothing but a bump or the network changes the transactions of the nonce.
LEMMA DeployStepLeaves ==
  ASSUME DeployStep
  PROVE  /\ UNCHANGED <<cfg, txs, mined, status, current, candidate, code>>
         /\ live' \in {live, {1}} /\ pc' # "send"
  BY DEF DeployStep, StartFails, Submit, Register, CodeFound, CodeMissing, CodeDeadline,
     ConfirmStatus, ConfirmDeadline, AttemptFails, AfterDeadline, DeployGivesUp, Deployed, DeployReturn,
     network, deployVars

LEMMA DeployStepBumpInv ==
  ASSUME BumpInv, DeployStep
  PROVE  BumpInv'
<1>1. live' \subseteq 1 .. Len(txs)
  <2>1. Len(txs) \in Nat /\ 1 =< Len(txs) /\ live \subseteq 1 .. Len(txs)
    BY DEF BumpInv, BumpTypes
  <2>2. 1 \in 1 .. Len(txs)
    BY <2>1
  <2>3. QED
    BY <2>1, <2>2, DeployStepLeaves
<1>2. QED
  BY <1>1, DeployStepLeaves DEF BumpInv, BumpTypes, CapRespected, Total

LEMMA DeployOwnStep ==
  ASSUME DeployInv, DeployStep
  PROVE  DeployInv'
<1>1. UNCHANGED <<current, mined, status, code>> /\ BumpInv'
  BY DeployStepLeaves, DeployStepBumpInv DEF DeployInv
<1>2. CASE \/ StartFails \/ Submit \/ Register \/ CodeMissing \/ CodeDeadline
           \/ ConfirmStatus \/ ConfirmDeadline \/ DeployGivesUp
  <2>1. pc' \notin {"receipt", "deployed"}
    BY <1>2 DEF StartFails, Submit, Register, CodeMissing, CodeDeadline,
       ConfirmStatus, ConfirmDeadline, AttemptFails, AfterDeadline, DeployGivesUp, DeployReturn
  <2>2. saved' = saved /\ (result' = result \/ ~result'.ok)
    BY <1>2 DEF StartFails, Submit, Register, CodeMissing, CodeDeadline,
       ConfirmStatus, ConfirmDeadline, AttemptFails, DeployGivesUp, DeployReturn, deployVars
  <2>3. QED
    BY <1>1, <2>1, <2>2 DEF DeployInv, DeployedIsUsable
<1>3. CASE CodeFound
  BY <1>1, <1>3 DEF CodeFound, deployVars, DeployInv, DeployedIsUsable
<1>4. CASE Deployed
  BY <1>1, <1>4 DEF Deployed, DeployReturn, DeployInv, DeployedIsUsable
<1>5. QED
  BY <1>2, <1>3, <1>4 DEF DeployStep

\* A step of the wait, of the bump or of the attempts, and the code left alone.
LEMMA DeployMoves ==
  ASSUME DeployInv, BumpMoves, UNCHANGED <<code, saved, result, mined, status>>
  PROVE  DeployInv'
<1>1. BumpInv'
  BY BumpKeeps DEF DeployInv
<1>2. mined = current => mined' = current'
  BY MinedIsKept DEF DeployInv
<1>3. CASE pc' = pc
  BY <1>1, <1>2, <1>3 DEF DeployInv, DeployedIsUsable
<1>4. CASE pc' # pc
  <2>1. pc' # "deployed" /\ (pc' = "receipt" => mined' = current')
    BY <1>4, ReceiptIsCurrent
  <2>2. QED
    BY <1>1, <1>2, <2>1 DEF DeployInv, DeployedIsUsable
<1>5. QED
  BY <1>3, <1>4

LEMMA DeployInvStep == DeployInv /\ [DeployNext]_deploymentVars => DeployInv'
<1> SUFFICES ASSUME DeployInv, [DeployNext]_deploymentVars PROVE DeployInv'
  OBVIOUS
<1>1. CASE DeployStep
  BY <1>1, DeployOwnStep
<1>2. CASE \/ WaitStep /\ UNCHANGED deployVars
           \/ WaitDeadline
           \/ BumpStep /\ UNCHANGED deployVars
           \/ NextAttempt(DeployAttempts) /\ UNCHANGED deployVars
  <2>1. DeployAttempts \in Nat
    BY NoBumpAttemptsAssumption DEF DeployAttempts, DeployInv, BumpInv, BumpTypes
  <2>2. BumpMoves /\ UNCHANGED <<code, saved, result>>
    BY <1>2, <2>1 DEF BumpMoves, WaitDeadline, deployVars
  <2>3. UNCHANGED <<mined, status>>
    BY <1>2 DEF WaitStep, PollSucceeds, PollFails, Tick, WaitDeadline, Deadline, BumpStep,
       PrepareReplacement, PrepareFails, SendReplacement, SendReplyLost, SendFails, NextAttempt,
       network
  <2>4. QED
    BY <2>2, <2>3, DeployMoves
<1>3. ASSUME NEW i \in live, MineCreation(i) PROVE DeployInv'
  <2>1. BumpInv'
    BY <1>3, BumpKeeps DEF MineCreation, BumpMoves, DeployInv
  <2>2. mined = 0 /\ current # 0 /\ mined' # 0 /\ UNCHANGED <<current, pc>>
    BY <1>3 DEF MineCreation, Mine, DeployInv, BumpInv, BumpTypes
  <2>3. ~code /\ ~result.ok /\ ~saved /\ pc \notin {"receipt", "deployed"}
    BY <2>2 DEF DeployInv, DeployedIsUsable
  <2>4. code' \in BOOLEAN /\ (code' => status' = 1) /\ UNCHANGED <<saved, result>>
    BY <1>3 DEF MineCreation, Mine
  <2>5. QED
    BY <2>1, <2>2, <2>3, <2>4 DEF DeployInv, DeployedIsUsable
<1>4. CASE CodeAppears
  <2>1. BumpInv'
    BY <1>4, BumpUnmoved DEF CodeAppears, bumpVars, DeployInv
  <2>2. QED
    BY <1>4, <2>1 DEF CodeAppears, bumpVars, network, DeployInv, DeployedIsUsable
<1>5. CASE UNCHANGED deploymentVars
  <2>1. BumpInv'
    BY <1>5, BumpUnmoved DEF deploymentVars, bumpVars, DeployInv
  <2>2. QED
    BY <1>5, <2>1 DEF deploymentVars, bumpVars, deployVars, network, DeployInv, DeployedIsUsable
<1>6. QED
  BY <1>1, <1>2, <1>3, <1>4, <1>5 DEF DeployNext

(***************************************************************************)
(* When DeployContract returns a contract, or has written its address to   *)
(* the contract map file, the transaction it returns is the mined one, its *)
(* receipt says success and the code is at the address, however timeouts,  *)
(* bumps, lost answers and a lagging node interleave (client.go,           *)
(* DeployContract).                                                        *)
(***************************************************************************)
THEOREM DeployedContractIsUsable == DeploySpec => []DeployedIsUsable
<1>1. DeployInv => DeployedIsUsable
  BY DEF DeployInv
<1>2. QED
  BY <1>1, DeployInvInit, DeployInvStep, PTL DEF DeploySpec

-----------------------------------------------------------------------------
(***************************************************************************)
(* No replacement of a contract creation that DeployContract sends has     *)
(* fees whose sum exceeds gas_bumps.max_gas_price: the retry loop bumps    *)
(* through the same prepareReplacementTransaction as Decode (retry.go).    *)
(***************************************************************************)
THEOREM DeployRespectsCap == DeploySpec => []CapRespected
<1>1. DeployInv => CapRespected
  BY DEF DeployInv, BumpInv
<1>2. QED
  BY <1>1, DeployInvInit, DeployInvStep, PTL DEF DeploySpec

\* What a step of DeployContract is to the transactions of the nonce.
LEMMA NextIsBumpOrDeploy ==
  ASSUME BumpInv, [DeployNext]_deploymentVars
  PROVE  \/ BumpMoves
         \/ UNCHANGED <<cfg, txs, current, candidate>> /\ (pc' = "send" => pc = "send")
<1>1. DeployAttempts \in Nat
  BY NoBumpAttemptsAssumption DEF DeployAttempts, BumpInv, BumpTypes
<1>2. CASE DeployStep
  BY <1>2, DeployStepLeaves
<1>3. CASE CodeAppears \/ UNCHANGED deploymentVars
  BY <1>3 DEF CodeAppears, deploymentVars, bumpVars, network
<1>4. CASE DeployNext /\ ~DeployStep /\ ~CodeAppears
  BY <1>1, <1>4 DEF DeployNext, BumpMoves, WaitDeadline, MineCreation
<1>5. QED
  BY <1>2, <1>3, <1>4

(***************************************************************************)
(* With one of the four priorities and fees of at least 20 wei, every      *)
(* replacement of a contract creation is dearer, fee by fee, than the      *)
(* creation it replaces (retry.go, PriorityBasedGasBumpingStrategyFn).     *)
(***************************************************************************)
THEOREM DeployOutbids == ASSUME PricesRise PROVE DeploySpec => []BumpOutbids
<1>1. DeployInit => OutbidInv
  BY OutbidInitial DEF DeployInit
<1>2. DeployInv /\ OutbidInv /\ [DeployNext]_deploymentVars => OutbidInv'
  <2> SUFFICES ASSUME DeployInv, OutbidInv, [DeployNext]_deploymentVars PROVE OutbidInv'
    OBVIOUS
  <2>1. BumpInv /\ BumpInv'
    BY DeployInvStep DEF DeployInv
  <2>2. QED
    BY <2>1, NextIsBumpOrDeploy, OutbidUnmoved, OutbidKeeps
<1>3. OutbidInv => BumpOutbids
  BY DEF OutbidInv
<1>4. QED
  BY <1>1, <1>2, <1>3, DeployInvInit, DeployInvStep, PTL DEF DeploySpec
=============================================================================
