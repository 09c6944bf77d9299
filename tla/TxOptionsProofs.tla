--------------------------- MODULE TxOptionsProofs ---------------------------
(***************************************************************************)
(* Theorems about transaction options, for any number of callers, keys and *)
(* transactions of others, and any fee data.                               *)
(***************************************************************************)
EXTENDS TxOptions, TLAPS

\* A caller that has passed the range test and goes on without an error.
Underway == {"request", "estimate", "eip1559", "legacy", "configure"}

Shape ==
    /\ sent \in [Keys -> Nat] /\ mined \in [Keys -> Nat]
    /\ pc \in [Callers -> {"idle", "pending", "last", "append", "returned"} \cup Underway]
    /\ keyNum \in [Callers -> Int]
    /\ PendingNonce \in [Callers -> Nat]
    /\ failed \in [Callers -> BOOLEAN]
    /\ resume \in [Callers -> {"request", "configure", "returned"}]
    /\ DOMAIN opts = Callers

\* Nothing has failed before the nonces are known.
NotYetFailed(c) == pc[c] \in {"idle", "pending", "last"} => ~failed[c]
FailedWhenAppending(c) == pc[c] = "append" => failed[c]
KeyKnown(c) == pc[c] \in {"pending", "last"} \/ (~failed[c] /\ pc[c] # "idle") => keyNum[c] \in Keys

\* The pending nonce was that of the chain when it was read.
PendingWasSent(c) == pc[c] = "last" => PendingNonce[c] =< sent[keyNum[c]]
NoGapUnderway(c) ==
    cfg.protection /\ ~failed[c] /\ pc[c] \in Underway => PendingNonce[c] =< mined[keyNum[c]]
NoGapReturned(c) ==
    cfg.protection /\ ~failed[c] /\ pc[c] = "returned" =>
        PendingNonce[c] =< mined[keyNum[c]] /\ opts[c].nonce = PendingNonce[c]

CallerInv(c) ==
    /\ NotYetFailed(c) /\ FailedWhenAppending(c) /\ KeyKnown(c)
    /\ PendingWasSent(c) /\ NoGapUnderway(c) /\ NoGapReturned(c)

NonceInv == Shape /\ \A c \in Callers : CallerInv(c)

LEMMA NonceInit == Init => NonceInv
  BY DEF Init, NonceInv, Shape, Underway, CallerInv, NotYetFailed, FailedWhenAppending, KeyKnown,
     PendingWasSent, NoGapUnderway, NoGapReturned

\* A step of one caller changes nothing that the invariant says of another.
LEMMA OthersKeep ==
  ASSUME NEW d \in Callers, CallerInv(d), cfg' = cfg, sent' = sent, mined' = mined,
         pc'[d] = pc[d], keyNum'[d] = keyNum[d], PendingNonce'[d] = PendingNonce[d],
         failed'[d] = failed[d], opts'[d] = opts[d]
  PROVE  CallerInv(d)'
  BY DEF CallerInv, NotYetFailed, FailedWhenAppending, KeyKnown, PendingWasSent,
     NoGapUnderway, NoGapReturned

\* The steps of CalculateGasEstimations leave the nonces alone.
LEMMA EstimationKeeps ==
  ASSUME NonceInv, NEW c \in Callers, pc[c] \in Underway, NEW l \in Underway, Goto(c, l),
         cfg' = cfg, UNCHANGED <<chain, keyNum, PendingNonce, failed, resume, opts>>
  PROVE  NonceInv'
<1>1. Shape'
  BY DEF NonceInv, Shape, Goto, chain
<1>2. pc'[c] = l /\ \A d \in Callers \ {c} : pc'[d] = pc[d]
  BY DEF NonceInv, Shape, Goto
<1>3. CallerInv(c)'
  BY <1>2 DEF NonceInv, CallerInv, NotYetFailed, FailedWhenAppending, KeyKnown, PendingWasSent,
     NoGapUnderway, NoGapReturned, Underway, chain
<1>4. \A d \in Callers \ {c} : CallerInv(d)'
  BY <1>2, OthersKeep DEF NonceInv, chain
<1>5. QED
  BY <1>1, <1>3, <1>4 DEF NonceInv

\* A failure stops the caller's claims about its nonce.
LEMMA FailKeeps ==
  ASSUME NonceInv, NEW c \in Callers, NEW next \in {"request", "configure", "returned"},
         Fail(c, next), cfg' = cfg, UNCHANGED <<chain, opts>>,
         keyNum' \in [Callers -> Int], \A d \in Callers \ {c} : keyNum'[d] = keyNum[d],
         PendingNonce' \in [Callers -> Nat],
         \A d \in Callers \ {c} : PendingNonce'[d] = PendingNonce[d]
  PROVE  NonceInv'
<1>1. Shape'
  BY DEF NonceInv, Shape, Fail, Goto, chain
<1>2. /\ pc'[c] = "append" /\ failed'[c]
      /\ \A d \in Callers \ {c} : pc'[d] = pc[d] /\ failed'[d] = failed[d]
  BY DEF NonceInv, Shape, Fail, Goto
<1>3. CallerInv(c)'
  BY <1>2 DEF CallerInv, NotYetFailed, FailedWhenAppending, KeyKnown, PendingWasSent,
     NoGapUnderway, NoGapReturned, Underway
<1>4. \A d \in Callers \ {c} : CallerInv(d)'
  BY <1>2, OthersKeep DEF NonceInv, chain
<1>5. QED
  BY <1>1, <1>3, <1>4 DEF NonceInv

LEMMA StepKeeps ==
  ASSUME NonceInv, NEW c \in Callers, Step(c), UNCHANGED <<cfg, node, panicked>>
  PROVE  NonceInv'
<1> USE DEF local, shared, chain
<1>1. CASE AppendError(c)
  <2>1. pc[c] = "append" /\ failed[c] /\ resume[c] \in {"request", "configure", "returned"}
    BY <1>1 DEF AppendError, NonceInv, Shape, CallerInv, FailedWhenAppending
  <2>2. pc'[c] = resume[c] /\ failed'[c] /\ \A d \in Callers \ {c} : pc'[d] = pc[d]
    BY <1>1, <2>1 DEF AppendError, Goto, NonceInv, Shape
  <2>3. Shape'
    BY <1>1, <2>1 DEF AppendError, Goto, NonceInv, Shape, Underway
  <2>4. CallerInv(c)'
    BY <2>1, <2>2 DEF CallerInv, NotYetFailed, FailedWhenAppending, KeyKnown, PendingWasSent,
       NoGapUnderway, NoGapReturned
  <2>5. \A d \in Callers \ {c} : CallerInv(d)'
    BY <1>1, <2>2, OthersKeep DEF AppendError, NonceInv
  <2>6. QED
    BY <2>3, <2>4, <2>5 DEF NonceInv
<1>2. ASSUME NEW k \in KeyNums, KeyOutOfRange(c, k) PROVE NonceInv'
  <2>1. k \in Int
    BY TxOptionsAssumption
  <2>2. keyNum' \in [Callers -> Int] /\ \A d \in Callers \ {c} : keyNum'[d] = keyNum[d]
    BY <1>2, <2>1 DEF KeyOutOfRange, NonceInv, Shape
  <2>3. PendingNonce' = PendingNonce /\ PendingNonce \in [Callers -> Nat]
    BY <1>2 DEF KeyOutOfRange, NonceInv, Shape
  <2>4. QED
    BY <1>2, <2>2, <2>3, FailKeeps DEF KeyOutOfRange
<1>3. ASSUME NEW k \in KeyNums, Start(c, k) PROVE NonceInv'
  <2>1. k \in Int /\ k \in Keys
    BY <1>3, TxOptionsAssumption DEF Start
  <2>2. /\ pc'[c] = "pending" /\ keyNum'[c] = k /\ pc[c] = "idle" /\ failed' = failed
        /\ \A d \in Callers \ {c} : pc'[d] = pc[d] /\ keyNum'[d] = keyNum[d]
    BY <1>3 DEF Start, Goto, NonceInv, Shape
  <2>3. Shape'
    BY <1>3, <2>1 DEF Start, Goto, NonceInv, Shape
  <2>4. ~failed[c]
    BY <2>2 DEF NonceInv, CallerInv, NotYetFailed
  <2>5. CallerInv(c)'
    BY <2>1, <2>2, <2>4 DEF CallerInv, NotYetFailed, FailedWhenAppending, KeyKnown, PendingWasSent,
       NoGapUnderway, NoGapReturned, Underway
  <2>6. \A d \in Callers \ {c} : CallerInv(d)'
    BY <1>3, <2>2, OthersKeep DEF Start, NonceInv
  <2>7. QED
    BY <2>3, <2>5, <2>6 DEF NonceInv
<1>4. CASE PendingNonceAt(c)
  <2>1. pc[c] = "pending" /\ keyNum[c] \in Keys /\ ~failed[c] /\ sent[keyNum[c]] \in Nat
    BY <1>4 DEF PendingNonceAt, NonceInv, Shape, CallerInv, KeyKnown, NotYetFailed
  <2>2. /\ pc'[c] = "last" /\ PendingNonce'[c] = sent[keyNum[c]]
        /\ \A d \in Callers \ {c} : pc'[d] = pc[d] /\ PendingNonce'[d] = PendingNonce[d]
    BY <1>4 DEF PendingNonceAt, Goto, NonceInv, Shape
  <2>3. Shape'
    BY <1>4, <2>1 DEF PendingNonceAt, Goto, NonceInv, Shape
  <2>4. UNCHANGED <<cfg, sent, mined, keyNum, failed, opts>>
    BY <1>4 DEF PendingNonceAt
  <2>5. CallerInv(c)'
    BY <2>1, <2>2, <2>4 DEF CallerInv, NotYetFailed, FailedWhenAppending, KeyKnown, PendingWasSent,
       NoGapUnderway, NoGapReturned, Underway
  <2>6. \A d \in Callers \ {c} : CallerInv(d)'
    BY <2>2, <2>4, OthersKeep DEF NonceInv
  <2>7. QED
    BY <2>3, <2>5, <2>6 DEF NonceInv
<1>5. CASE NonceStatusFails(c)
  <2>1. PendingNonce' \in [Callers -> Nat] /\ \A d \in Callers \ {c} : PendingNonce'[d] = PendingNonce[d]
    BY <1>5 DEF NonceStatusFails, NonceInv, Shape
  <2>2. keyNum' = keyNum /\ keyNum \in [Callers -> Int]
    BY <1>5 DEF NonceStatusFails, NonceInv, Shape
  <2>3. QED
    BY <1>5, <2>1, <2>2, FailKeeps DEF NonceStatusFails
<1>6. CASE NonceAt(c)
  <2>1. /\ pc[c] = "last" /\ keyNum[c] \in Keys /\ ~failed[c]
        /\ PendingNonce[c] \in Nat /\ mined[keyNum[c]] \in Nat
    BY <1>6 DEF NonceAt, NonceInv, Shape, CallerInv, KeyKnown, NotYetFailed
  <2>2. UNCHANGED <<cfg, chain, keyNum, PendingNonce, opts>>
    BY <1>6 DEF NonceAt
  <2>3. CASE Protected(c, mined[keyNum[c]])
    <3>1. Fail(c, "request")
      BY <1>6, <2>3 DEF NonceAt
    <3>2. keyNum \in [Callers -> Int] /\ PendingNonce \in [Callers -> Nat]
      BY DEF NonceInv, Shape
    <3>3. QED
      BY <2>2, <3>1, <3>2, FailKeeps
  <2>4. CASE ~Protected(c, mined[keyNum[c]])
    <3>1. Goto(c, "request") /\ UNCHANGED <<failed, resume>>
      BY <1>6, <2>4 DEF NonceAt
    <3>2. pc'[c] = "request" /\ \A d \in Callers \ {c} : pc'[d] = pc[d]
      BY <3>1 DEF Goto, NonceInv, Shape
    <3>3. Shape'
      BY <2>2, <3>1 DEF Goto, NonceInv, Shape, Underway
    <3>4. cfg.protection => PendingNonce[c] =< mined[keyNum[c]]
      BY <2>1, <2>4 DEF Protected
    <3>5. CallerInv(c)'
      BY <2>1, <2>2, <3>1, <3>2, <3>4 DEF CallerInv, NotYetFailed, FailedWhenAppending, KeyKnown,
         PendingWasSent, NoGapUnderway, NoGapReturned, Underway
    <3>6. \A d \in Callers \ {c} : CallerInv(d)'
      BY <2>2, <3>1, <3>2, OthersKeep DEF NonceInv
    <3>7. QED
      BY <3>3, <3>5, <3>6 DEF NonceInv
  <2>5. QED
    BY <2>3, <2>4
<1>7. CASE Request(c)
  BY <1>7, EstimationKeeps DEF Request, Underway
<1>8. CASE ChooseFees(c)
  BY <1>8, EstimationKeeps DEF ChooseFees, Underway
<1>9. ASSUME NEW m, EIP1559Answered(c, m) PROVE NonceInv'
  BY <1>9, EstimationKeeps DEF EIP1559Answered, Underway
<1>10. ASSUME NEW m, LegacyAnswered(c, m) PROVE NonceInv'
  BY <1>10, EstimationKeeps DEF LegacyAnswered, Underway
<1>11. CASE EIP1559Fails(c)
  BY <1>11, EstimationKeeps DEF EIP1559Fails, Underway
<1>12. CASE EIP1559Unsupported(c)
  BY <1>12, EstimationKeeps DEF EIP1559Unsupported, Underway
<1>13. CASE LegacyFails(c)
  BY <1>13, EstimationKeeps DEF LegacyFails, Underway
<1>14. CASE Configure(c)
  <2>1. pc[c] = "configure" /\ DOMAIN opts = Callers
    BY <1>14 DEF Configure, NonceInv, Shape
  <2>2. /\ pc'[c] = "returned" /\ opts'[c].nonce = PendingNonce[c]
        /\ \A d \in Callers \ {c} : pc'[d] = pc[d] /\ opts'[d] = opts[d]
    BY <1>14, <2>1 DEF Configure, Goto, NonceInv, Shape
  <2>3. Shape'
    BY <1>14 DEF Configure, Goto, NonceInv, Shape
  <2>4. UNCHANGED <<cfg, sent, mined, keyNum, PendingNonce, failed>>
    BY <1>14 DEF Configure
  <2>5. CallerInv(c)'
    BY <2>1, <2>2, <2>4 DEF NonceInv, CallerInv, NotYetFailed, FailedWhenAppending, KeyKnown,
       PendingWasSent, NoGapUnderway, NoGapReturned, Underway
  <2>6. \A d \in Callers \ {c} : CallerInv(d)'
    BY <2>2, <2>4, OthersKeep DEF NonceInv
  <2>7. QED
    BY <2>3, <2>5, <2>6 DEF NonceInv
<1>15. QED
  BY <1>1, <1>2, <1>3, <1>4, <1>5, <1>6, <1>7, <1>8, <1>9, <1>10, <1>11, <1>12, <1>13, <1>14
     DEF Step

\* Transactions of others only move the chain forward.
LEMMA ChainKeeps ==
  ASSUME NonceInv, cfg' = cfg, UNCHANGED local, NEW k \in Keys, Accept(k) \/ Mine(k)
  PROVE  NonceInv'
<1>1. /\ sent' \in [Keys -> Nat] /\ mined' \in [Keys -> Nat]
      /\ \A j \in Keys : sent[j] =< sent'[j] /\ mined[j] =< mined'[j]
  BY DEF Accept, Mine, NonceInv, Shape
<1>2. Shape'
  BY <1>1 DEF NonceInv, Shape, local
<1>3. ASSUME NEW c \in Callers PROVE CallerInv(c)'
  <2>1. /\ CallerInv(c) /\ PendingNonce[c] \in Nat
        /\ keyNum[c] \in Keys => /\ sent[keyNum[c]] \in Nat /\ sent'[keyNum[c]] \in Nat
                                 /\ mined[keyNum[c]] \in Nat /\ mined'[keyNum[c]] \in Nat
    BY <1>1 DEF NonceInv, Shape
  <2>2. NotYetFailed(c)' /\ FailedWhenAppending(c)' /\ KeyKnown(c)'
    BY <2>1 DEF CallerInv, NotYetFailed, FailedWhenAppending, KeyKnown, local
  <2>3. PendingWasSent(c)'
    BY <1>1, <2>1 DEF CallerInv, PendingWasSent, KeyKnown, local
  <2>4. NoGapUnderway(c)'
    BY <1>1, <2>1 DEF CallerInv, NoGapUnderway, KeyKnown, Underway, local
  <2>5. NoGapReturned(c)'
    BY <1>1, <2>1 DEF CallerInv, NoGapReturned, KeyKnown, local
  <2>6. QED
    BY <2>2, <2>3, <2>4, <2>5 DEF CallerInv
<1>4. QED
  BY <1>2, <1>3 DEF NonceInv

LEMMA NonceNext == NonceInv /\ [Next]_vars => NonceInv'
<1> SUFFICES ASSUME NonceInv, [Next]_vars PROVE NonceInv'
  OBVIOUS
<1>1. ASSUME NEW c \in Callers, Step(c), UNCHANGED <<cfg, node, panicked>> PROVE NonceInv'
  BY <1>1, StepKeeps
<1>2. ASSUME NEW k \in Keys, Accept(k) \/ Mine(k), cfg' = cfg PROVE NonceInv'
  BY <1>2, ChainKeeps DEF Accept, Mine
<1>3. ASSUME UNCHANGED <<cfg, chain, local>> PROVE NonceInv'
  BY <1>3 DEF NonceInv, Shape, CallerInv, NotYetFailed, FailedWhenAppending, KeyKnown,
     PendingWasSent, NoGapUnderway, NoGapReturned, chain, local
<1>4. QED
  BY <1>1, <1>2, <1>3 DEF Next, IndexPanics, vars

\* Under the pending-nonce protection every options without an error have a
\* nonce with no gap below it (NewTXKeyOpts, getNonceStatus), for any number
\* of callers and keys and whatever others do with the keys.
THEOREM NoGapBelowProtectedNonce == Spec => []ProtectedNonceHasNoGap
<1>1. NonceInv => ProtectedNonceHasNoGap
  BY DEF NonceInv, CallerInv, NoGapReturned, ProtectedNonceHasNoGap, Returned
<1>2. QED
  BY <1>1, NonceInit, NonceNext, PTL DEF Spec

\* A step that raises the protection error meets an unmined transaction.
LEMMA RaisedForPending ==
  ASSUME NonceInv, [Next]_vars, NEW c \in Callers,
         pc[c] = "last", failed'[c], resume'[c] = "request"
  PROVE  mined[keyNum[c]] < sent[keyNum[c]]
<1>1. /\ ~failed[c] /\ keyNum[c] \in Keys /\ PendingNonce[c] =< sent[keyNum[c]]
      /\ PendingNonce[c] \in Nat /\ sent[keyNum[c]] \in Nat /\ mined[keyNum[c]] \in Nat
  BY DEF NonceInv, Shape, CallerInv, NotYetFailed, KeyKnown, PendingWasSent
<1>2. failed' # failed
  BY <1>1
<1>3. PICK d \in Callers : Step(d)
  BY <1>2 DEF Next, vars, local, IndexPanics, Accept, Mine
<1>4. d = c
  <2>1. failed'[c] = failed[c] \/ d = c
    BY <1>3 DEF Step, AppendError, KeyOutOfRange, Start, PendingNonceAt, NonceStatusFails, NonceAt,
       Request, ChooseFees, EIP1559Answered, EIP1559Fails, EIP1559Unsupported, LegacyAnswered,
       LegacyFails, Configure, Fail, NonceInv, Shape
  <2>2. QED
    BY <1>1, <2>1
<1>5. Step(c)
  BY <1>3, <1>4
<1>6. NonceAt(c) \/ NonceStatusFails(c)
  BY <1>5 DEF Step, AppendError, KeyOutOfRange, Start, PendingNonceAt, Request, ChooseFees,
     EIP1559Answered, EIP1559Fails, EIP1559Unsupported, LegacyAnswered, LegacyFails, Configure
<1>7. ~NonceStatusFails(c)
  BY DEF NonceStatusFails, Fail, NonceInv, Shape
<1>8. Protected(c, mined[keyNum[c]])
  BY <1>2, <1>6, <1>7 DEF NonceAt
<1>9. QED
  BY <1>1, <1>8 DEF Protected

\* The protection never mistakes a block between the two nonce calls for a
\* stuck transaction (getProposedTransactionOptions).
THEOREM ProtectionIsPrecise == Spec => ProtectionErrorsAreReal
<1>1. NonceInv /\ [Next]_vars =>
        [\A c \in Callers :
            pc[c] = "last" /\ failed'[c] /\ resume'[c] = "request"
                => mined[keyNum[c]] < sent[keyNum[c]]]_vars
  BY RaisedForPending
<1>2. QED
  BY <1>1, NonceInit, NonceNext, PTL DEF Spec, ProtectionErrorsAreReal

-----------------------------------------------------------------------------
(* The suggested fees grow with the urgency. *)

LEMMA AdjustedGrows ==
  ASSUME NEW p \in Priorities, NEW q \in Priorities, Urgency[p] =< Urgency[q],
         NEW a \in Nat, NEW b \in Nat, a =< b
  PROVE  Adjusted(a, p) \in Nat /\ Adjusted(b, q) \in Nat /\ Adjusted(a, p) =< Adjusted(b, q)
<1>1. /\ adjustmentFactor[p] \in {8, 10, 12, 15} /\ adjustmentFactor[q] \in {8, 10, 12, 15}
      /\ adjustmentFactor[p] =< adjustmentFactor[q]
  BY DEF Priorities, Urgency, adjustmentFactor
<1>2. ASSUME NEW f \in {8, 10, 12, 15}, NEW g \in {8, 10, 12, 15}, f =< g
      PROVE  (a * f) \div 10 \in Nat /\ (b * g) \div 10 \in Nat /\ (a * f) \div 10 =< (b * g) \div 10
  BY <1>2
<1>3. QED
  BY <1>1, <1>2 DEF Adjusted

LEMMA BufferedGrows ==
  ASSUME NEW m \in Nat \cup {NoMetric}, NEW a \in Nat, NEW b \in Nat, a =< b
  PROVE  Buffered(a, m) \in Nat /\ Buffered(b, m) \in Nat /\ Buffered(a, m) =< Buffered(b, m)
<1>1. CASE m = NoMetric
  BY <1>1 DEF Buffered
<1>2. CASE m # NoMetric
  <2>1. m \in Nat /\ congestionFactor(m) \in {11, 12, 13, 14}
    BY <1>2 DEF congestionFactor
  <2>2. ASSUME NEW f \in {11, 12, 13, 14}
        PROVE  /\ Truncated(a * f, f) \in Nat /\ Truncated(b * f, f) \in Nat
               /\ Truncated(a * f, f) =< Truncated(b * f, f)
    BY DEF Truncated
  <2>3. QED
    BY <1>2, <2>1, <2>2 DEF Buffered
<1>3. QED
  BY <1>1, <1>2

LEMMA SuggestedGrows ==
  ASSUME NEW p \in Priorities, NEW q \in Priorities, Urgency[p] =< Urgency[q],
         NEW m \in Nat \cup {NoMetric}, NEW a \in Nat, NEW b \in Nat, a =< b
  PROVE  /\ Suggested(a, p, m) \in Nat /\ Suggested(b, q, m) \in Nat
         /\ Suggested(a, p, m) =< Suggested(b, q, m)
  BY AdjustedGrows, BufferedGrows DEF Suggested

\* The percentile that belongs to a more urgent priority is no lower.
LEMMA PercentileGrows ==
  ASSUME NEW p \in Priorities, NEW q \in Priorities, Urgency[p] =< Urgency[q],
         NEW h \in Percentiles
  PROVE  /\ h[percentile[p]] \in Nat /\ h[percentile[q]] \in Nat
         /\ h[percentile[p]] =< h[percentile[q]]
  BY DEF Priorities, Urgency, Percentiles, percentile

LEMMA DynamicFeesGrow ==
  ASSUME NEW p \in Priorities, NEW q \in Priorities, Urgency[p] =< Urgency[q],
         NEW m \in Nat \cup {NoMetric}, NEW d, d.base \in Percentiles, d.tip \in Percentiles,
         d.suggestedTip \in Nat, EIP1559Fees(d, p, FALSE, m).error = "none"
  PROVE  /\ EIP1559Fees(d, q, FALSE, m).error = "none"
         /\ EIP1559Fees(d, p, FALSE, m).feeCap =< EIP1559Fees(d, q, FALSE, m).feeCap
         /\ EIP1559Fees(d, p, FALSE, m).tipCap =< EIP1559Fees(d, q, FALSE, m).tipCap
<1> DEFINE s == StartingFees(d, p, FALSE)
           t == StartingFees(d, q, FALSE)
           x == EIP1559Fees(d, p, FALSE, m)
           y == EIP1559Fees(d, q, FALSE, m)
<1>1. /\ s.base \in Nat /\ t.base \in Nat /\ s.base =< t.base
      /\ s.tip \in Nat /\ t.tip \in Nat /\ s.tip =< t.tip
  BY PercentileGrows DEF StartingFees
<1>2. /\ x = IF s.base = 0
             THEN [error |-> "zero", feeCap |-> Nil, tipCap |-> Nil]
             ELSE [error |-> "none",
                   feeCap |-> Suggested(s.base, p, m) + Suggested(s.tip, p, m),
                   tipCap |-> Suggested(s.tip, p, m)]
      /\ y = IF t.base = 0
             THEN [error |-> "zero", feeCap |-> Nil, tipCap |-> Nil]
             ELSE [error |-> "none",
                   feeCap |-> Suggested(t.base, q, m) + Suggested(t.tip, q, m),
                   tipCap |-> Suggested(t.tip, q, m)]
  BY DEF EIP1559Fees
<1>3. x.error = "none"
  OBVIOUS
<1> HIDE DEF s, t, x, y
<1>4. s.base # 0
  BY <1>2, <1>3
<1>5. t.base # 0
  BY <1>1, <1>4
<1>6. /\ Suggested(s.base, p, m) \in Nat /\ Suggested(t.base, q, m) \in Nat
      /\ Suggested(s.base, p, m) =< Suggested(t.base, q, m)
  BY <1>1, SuggestedGrows
<1>7. /\ Suggested(s.tip, p, m) \in Nat /\ Suggested(t.tip, q, m) \in Nat
      /\ Suggested(s.tip, p, m) =< Suggested(t.tip, q, m)
  BY <1>1, SuggestedGrows
<1>8. y.error = "none" /\ x.feeCap =< y.feeCap /\ x.tipCap =< y.tipCap
  BY <1>2, <1>4, <1>5, <1>6, <1>7
<1>9. QED
  BY <1>8 DEF x, y

ConfigInv == node \in NodeData /\ cfg.priority \in TxPriorities

\* For any fee data a more urgent priority never pays less and never fails
\* where a less urgent one has an answer (GetSuggestedEIP1559Fees without the
\* equalizer, GetSuggestedLegacyFees).
THEOREM UrgencyIsMonotone == Spec => []UrgencyNeverPaysLess
<1>1. Init => ConfigInv
  BY DEF Init, ConfigInv
<1>2. ConfigInv /\ [Next]_vars => ConfigInv'
  BY DEF ConfigInv, Next, vars
<1>3. ConfigInv => UrgencyNeverPaysLess
  <2> SUFFICES ASSUME ConfigInv, NEW q \in Priorities, NEW m \in {node.metric, NoMetric},
                      Urgency[cfg.priority] =< Urgency[q]
               PROVE  LET p == cfg.priority
                          dynamic == EIP1559Fees(node, p, FALSE, m)
                          urgent == EIP1559Fees(node, q, FALSE, m)
                      IN  /\ dynamic.error = "none" =>
                                 /\ urgent.error = "none"
                                 /\ dynamic.feeCap =< urgent.feeCap
                                 /\ dynamic.tipCap =< urgent.tipCap
                          /\ LegacyFees(node.price, p, m).gasPrice
                                 =< LegacyFees(node.price, q, m).gasPrice
    BY DEF UrgencyNeverPaysLess
  <2>1. /\ cfg.priority \in Priorities /\ m \in Nat \cup {NoMetric}
        /\ node.base \in Percentiles /\ node.tip \in Percentiles
        /\ node.suggestedTip \in Nat /\ node.price \in Nat /\ node.price =< node.price
    BY TxOptionsAssumption DEF ConfigInv
  <2>2. /\ Suggested(node.price, cfg.priority, m) \in Nat /\ Suggested(node.price, q, m) \in Nat
        /\ Suggested(node.price, cfg.priority, m) =< Suggested(node.price, q, m)
    BY <2>1, SuggestedGrows
  <2>3. LegacyFees(node.price, cfg.priority, m).gasPrice =< LegacyFees(node.price, q, m).gasPrice
    BY <2>2 DEF LegacyFees, Nil
  <2>4. QED
    BY <2>1, <2>3, DynamicFeesGrow
<1>4. QED
  BY <1>1, <1>2, <1>3, PTL DEF Spec

-----------------------------------------------------------------------------
(* Every caller gets a price although others switch the kind of fees. *)

Estimating == {"idle", "pending", "last", "append", "request", "estimate", "eip1559"}

Unpriced(e) == e.gasPrice = Nil /\ e.feeCap = Nil /\ e.tipCap = Nil
CapsOnly(e) == e.gasPrice = Nil /\ e.feeCap # Nil /\ e.tipCap # Nil
PriceOnly(e) == e.gasPrice # Nil /\ e.feeCap = Nil /\ e.tipCap = Nil
PriceAndCaps(e) == e.gasPrice # Nil /\ e.feeCap # Nil /\ e.tipCap # Nil

\* The caller has been told that the node does not know EIP-1559, or has the
\* configured fees of both kinds.
Signals(d) == est[d].feeCap # Nil /\ (est[d].gasPrice # Nil \/ pc[d] = "legacy")

\* What a caller has estimated, and why it is enough or whose fault it is.
NothingEstimated(c) == pc[c] \in Estimating => Unpriced(est[c])
LegacyForGood(c) ==
    pc[c] = "legacy" => ~EIP1559DynamicFees /\ (Unpriced(est[c]) \/ CapsOnly(est[c]))
DynamicOrSwitched(c) == pc[c] = "eip1559" => EIP1559DynamicFees \/ SwitchedByAnother(c)
EnoughEstimated(c) ==
    pc[c] = "configure" /\ ~failed[c] =>
        \/ PriceAndCaps(est[c])
        \/ PriceOnly(est[c]) /\ ~EIP1559DynamicFees
        \/ CapsOnly(est[c]) /\ (EIP1559DynamicFees \/ SwitchedByAnother(c))
OptionsPriced(c) ==
    pc[c] = "returned" /\ ~failed[c] =>
        \/ PriceOnly(opts[c])
        \/ CapsOnly(opts[c])
        \/ Unpriced(opts[c]) /\ ~EIP1559DynamicFees /\ SwitchedByAnother(c)

PriceOf(c) ==
    /\ NothingEstimated(c) /\ LegacyForGood(c) /\ DynamicOrSwitched(c)
    /\ EnoughEstimated(c) /\ OptionsPriced(c)

PriceInv ==
    /\ DOMAIN est = Callers /\ EIP1559DynamicFees \in BOOLEAN
    /\ \A c \in Callers : PriceOf(c)

LEMMA PriceInit == Init => PriceInv
  BY DEF Init, PriceInv, PriceOf, NothingEstimated, LegacyForGood, DynamicOrSwitched, EnoughEstimated,
     OptionsPriced, Estimating, Unpriced, NoEstimations

\* The fees that the node's answers give are neither nil nor negative.
LEMMA FeesAreSet ==
  ASSUME ConfigInv, NEW m \in {node.metric, NoMetric}
  PROVE  LET dynamic == EIP1559Fees(node, cfg.priority, cfg.equalizer, m)
             legacy == LegacyFees(node.price, cfg.priority, m)
         IN  /\ dynamic.error = "none" => dynamic.feeCap \in Nat /\ dynamic.tipCap \in Nat
             /\ legacy.error = "none" => legacy.gasPrice \in Nat
<1> DEFINE p == cfg.priority
           s == StartingFees(node, p, cfg.equalizer)
<1>1. /\ p \in Priorities /\ m \in Nat \cup {NoMetric}
      /\ node.base \in Percentiles /\ node.tip \in Percentiles
      /\ node.suggestedTip \in Nat /\ node.price \in Nat
  BY TxOptionsAssumption DEF ConfigInv
<1>2. Urgency[p] \in Nat /\ Urgency[p] =< Urgency[p]
  BY <1>1 DEF Priorities, Urgency
<1>3. node.base[percentile[p]] \in Nat /\ node.tip[percentile[p]] \in Nat
  BY <1>1, <1>2, PercentileGrows
<1>4. s.base \in Nat /\ s.tip \in Nat
  BY <1>1, <1>3 DEF StartingFees
<1>5. \A a \in Nat : Suggested(a, p, m) \in Nat
  <2> SUFFICES ASSUME NEW a \in Nat PROVE Suggested(a, p, m) \in Nat
    OBVIOUS
  <2>1. a =< a
    OBVIOUS
  <2>2. QED
    BY <1>1, <1>2, <2>1, SuggestedGrows
<1> HIDE DEF p, s
<1>6. /\ Suggested(s.base, p, m) \in Nat /\ Suggested(s.tip, p, m) \in Nat
      /\ Suggested(node.price, p, m) \in Nat
  BY <1>1, <1>4, <1>5
<1>7. LegacyFees(node.price, p, m).error = "none" => LegacyFees(node.price, p, m).gasPrice \in Nat
  BY <1>6 DEF LegacyFees
<1>8. EIP1559Fees(node, p, cfg.equalizer, m) =
        IF s.base = 0
        THEN [error |-> "zero", feeCap |-> Nil, tipCap |-> Nil]
        ELSE [error |-> "none", feeCap |-> Suggested(s.base, p, m) + Suggested(s.tip, p, m),
              tipCap |-> Suggested(s.tip, p, m)]
  BY DEF EIP1559Fees, s
<1>9. LET dynamic == EIP1559Fees(node, p, cfg.equalizer, m)
      IN  dynamic.error = "none" => dynamic.feeCap \in Nat /\ dynamic.tipCap \in Nat
  BY <1>6, <1>8
<1>10. QED
  BY <1>7, <1>9 DEF p

LEMMA FallbackIsSet == Fallback.gasPrice # Nil /\ Fallback.feeCap # Nil /\ Fallback.tipCap # Nil
  BY TxOptionsAssumption DEF Nil

\* The other callers have not moved.
OthersStay(c) ==
    \A d \in Callers \ {c} :
        pc'[d] = pc[d] /\ failed'[d] = failed[d] /\ est'[d] = est[d] /\ opts'[d] = opts[d]

LEMMA SwitchSeen ==
  ASSUME NEW c \in Callers, OthersStay(c)
  PROVE  SwitchedByAnother(c) => SwitchedByAnother(c)'
  BY DEF OthersStay, SwitchedByAnother

\* One caller moves: when it switches the client to legacy fees, this shows in
\* its own estimation for good.
LEMMA PriceMove ==
  ASSUME PriceInv, NEW c \in Callers, OthersStay(c), DOMAIN est' = Callers,
         \/ EIP1559DynamicFees' = EIP1559DynamicFees
         \/ EIP1559DynamicFees' = FALSE /\ Signals(c)',
         Signals(c) => Signals(c)', PriceOf(c)'
  PROVE  PriceInv'
<1>1. EIP1559DynamicFees' \in BOOLEAN /\ (EIP1559DynamicFees' => EIP1559DynamicFees)
  <2>1. EIP1559DynamicFees \in BOOLEAN
    BY DEF PriceInv
  <2>2. CASE EIP1559DynamicFees' = EIP1559DynamicFees
    BY <2>1, <2>2, Zenon
  <2>3. CASE EIP1559DynamicFees' = FALSE
    BY <2>3, Zenon
  <2>4. QED
    BY <2>2, <2>3
<1>2. ASSUME NEW d \in Callers \ {c} PROVE PriceOf(d)'
  <2>1. PriceOf(d)
    BY DEF PriceInv
  <2>2. \A e \in Callers : Signals(e) => Signals(e)'
    BY DEF OthersStay, Signals
  <2>3. SwitchedByAnother(d) => SwitchedByAnother(d)'
    BY <2>2 DEF SwitchedByAnother, Signals
  <2>4. EIP1559DynamicFees => EIP1559DynamicFees' \/ SwitchedByAnother(d)'
    <3>1. Signals(c)' => SwitchedByAnother(d)'
      BY DEF SwitchedByAnother, Signals
    <3>2. QED
      BY <3>1
  <2>5. pc'[d] = pc[d] /\ failed'[d] = failed[d] /\ est'[d] = est[d] /\ opts'[d] = opts[d]
    BY DEF OthersStay
  <2>6. QED
    BY <1>1, <2>1, <2>3, <2>4, <2>5 DEF PriceOf, NothingEstimated, LegacyForGood, DynamicOrSwitched,
       EnoughEstimated, OptionsPriced
<1>3. QED
  BY <1>1, <1>2 DEF PriceInv

\* Before its estimation a caller has nothing, and may fail.
LEMMA BeforeEstimation ==
  ASSUME NonceInv, PriceInv, NEW c \in Callers, OthersStay(c),
         EIP1559DynamicFees' = EIP1559DynamicFees, est' = est,
         pc[c] \in Estimating, 
         \/ pc'[c] \in Estimating \ {"eip1559"}
         \/ pc'[c] \in {"configure", "returned"} /\ failed'[c]
  PROVE  PriceInv'
<1>1. Unpriced(est[c]) /\ ~Signals(c)
  BY DEF PriceInv, PriceOf, NothingEstimated, Signals, Unpriced, Estimating
<1>2. PriceOf(c)'
  BY <1>1 DEF PriceOf, NothingEstimated, LegacyForGood, DynamicOrSwitched, EnoughEstimated,
     OptionsPriced, Estimating
<1>3. QED
  BY <1>1, <1>2, PriceMove DEF PriceInv

\* A caller finishes its estimation.
LEMMA AfterEstimation ==
  ASSUME NonceInv, PriceInv, NEW c \in Callers, NEW e, OthersStay(c),
         EIP1559DynamicFees' = EIP1559DynamicFees, DOMAIN est' = Callers, est'[c] = e,
         pc'[c] = "configure", Signals(c) => PriceAndCaps(e),
         \/ PriceAndCaps(e)
         \/ PriceOnly(e) /\ ~EIP1559DynamicFees
         \/ CapsOnly(e) /\ (EIP1559DynamicFees \/ SwitchedByAnother(c))
  PROVE  PriceInv'
<1>1. SwitchedByAnother(c) => SwitchedByAnother(c)'
  BY SwitchSeen
<1>2. PriceOf(c)'
  BY <1>1 DEF PriceOf, NothingEstimated, LegacyForGood, DynamicOrSwitched, EnoughEstimated,
     OptionsPriced, Estimating
<1>3. Signals(c) => Signals(c)'
  BY DEF Signals, PriceAndCaps
<1>4. QED
  BY <1>2, <1>3, PriceMove

LEMMA PriceStep ==
  ASSUME NonceInv, PriceInv, ConfigInv, NEW c \in Callers, Step(c)
  PROVE  PriceInv'
<1> USE DEF local, shared, chain
<1>0. /\ pc \in [Callers -> {"idle", "pending", "last", "append", "returned"} \cup Underway]
      /\ failed \in [Callers -> BOOLEAN] /\ DOMAIN est = Callers /\ DOMAIN opts = Callers
      /\ PriceOf(c)
  BY DEF NonceInv, Shape, PriceInv
<1>1. OthersStay(c)
  BY <1>0 DEF Step, AppendError, KeyOutOfRange, Start, PendingNonceAt, NonceStatusFails, NonceAt,
     Request, ChooseFees, EIP1559Answered, EIP1559Fails, EIP1559Unsupported, LegacyAnswered,
     LegacyFails, Configure, Fail, Goto, SetEst, SetGasPrice, OthersStay
<1>2. CASE AppendError(c)
  <2>1. failed[c] /\ resume[c] \in {"request", "configure", "returned"}
    BY <1>2 DEF AppendError, NonceInv, Shape, CallerInv, FailedWhenAppending
  <2>2. pc[c] = "append" /\ pc'[c] = resume[c] /\ failed'[c]
    BY <1>0, <1>2, <2>1 DEF AppendError, Goto
  <2>3. EIP1559DynamicFees' = EIP1559DynamicFees /\ est' = est
    BY <1>2 DEF AppendError
  <2>4. QED
    BY <1>1, <2>1, <2>2, <2>3, BeforeEstimation DEF Estimating
<1>3. CASE \/ \E k \in KeyNums : KeyOutOfRange(c, k) \/ Start(c, k)
           \/ PendingNonceAt(c) \/ NonceStatusFails(c) \/ NonceAt(c)
  <2>1. pc[c] \in {"idle", "pending", "last"} /\ pc'[c] \in {"append", "pending", "last", "request"}
    BY <1>0, <1>3 DEF KeyOutOfRange, Start, PendingNonceAt, NonceStatusFails, NonceAt, Fail, Goto
  <2>2. EIP1559DynamicFees' = EIP1559DynamicFees /\ est' = est
    BY <1>3 DEF KeyOutOfRange, Start, PendingNonceAt, NonceStatusFails, NonceAt
  <2>3. QED
    BY <1>1, <2>1, <2>2, BeforeEstimation DEF Estimating
<1>4. CASE Request(c)
  <2>1. pc[c] = "request" /\ EIP1559DynamicFees' = EIP1559DynamicFees
    BY <1>4 DEF Request
  <2>2. CASE SetEst(c, Fallback) /\ Goto(c, "configure")
    <3>1. DOMAIN est' = Callers /\ est'[c] = Fallback /\ pc'[c] = "configure"
      BY <1>0, <2>2 DEF SetEst, Goto
    <3>2. PriceAndCaps(Fallback)
      BY FallbackIsSet DEF PriceAndCaps
    <3>3. QED
      BY <1>1, <2>1, <3>1, <3>2, AfterEstimation
  <2>3. CASE UNCHANGED est /\ Goto(c, "estimate")
    <3>1. pc'[c] = "estimate"
      BY <1>0, <2>3 DEF Goto
    <3>2. QED
      BY <1>1, <2>1, <2>3, <3>1, BeforeEstimation DEF Estimating
  <2>4. QED
    BY <1>4, <2>2, <2>3 DEF Request
<1>5. CASE ChooseFees(c)
  <2>1. /\ pc[c] = "estimate" /\ EIP1559DynamicFees' = EIP1559DynamicFees /\ est' = est
        /\ pc'[c] = IF EIP1559DynamicFees THEN "eip1559" ELSE "legacy"
    BY <1>0, <1>5 DEF ChooseFees, Goto
  <2>2. Unpriced(est[c]) /\ ~Signals(c)
    BY <1>0, <2>1 DEF PriceOf, NothingEstimated, Signals, Unpriced, Estimating
  <2>3. PriceOf(c)'
    BY <2>1, <2>2 DEF PriceOf, NothingEstimated, LegacyForGood, DynamicOrSwitched, EnoughEstimated,
       OptionsPriced, Estimating
  <2>4. QED
    BY <1>0, <1>1, <2>1, <2>2, <2>3, PriceMove
<1>6. CASE EIP1559Fails(c) \/ \E m \in {node.metric, NoMetric} : EIP1559Answered(c, m)
  <2>1. CapsOnly(FallbackCaps)
    BY FallbackIsSet DEF CapsOnly, FallbackCaps
  <2>2. PICK e : SetEst(c, e) /\ CapsOnly(e)
    <3>1. CASE EIP1559Fails(c)
      BY <2>1, <3>1 DEF EIP1559Fails
    <3>2. ASSUME NEW m \in {node.metric, NoMetric}, EIP1559Answered(c, m)
          PROVE  \E e : SetEst(c, e) /\ CapsOnly(e)
      <4> DEFINE fees == EIP1559Fees(node, cfg.priority, cfg.equalizer, m)
                 e == IF fees.error = "none"
                      THEN [gasPrice |-> Nil, feeCap |-> fees.feeCap, tipCap |-> fees.tipCap]
                      ELSE FallbackCaps
      <4>1. SetEst(c, e)
        BY <3>2 DEF EIP1559Answered
      <4>2. fees.error = "none" => fees.feeCap # Nil /\ fees.tipCap # Nil
        BY FeesAreSet DEF Nil
      <4> HIDE DEF fees
      <4>3. CapsOnly(e)
        BY <2>1, <4>2 DEF CapsOnly
      <4>4. QED
        BY <4>1, <4>3
    <3>3. QED
      BY <1>6, <3>1, <3>2
  <2>3. pc[c] = "eip1559" /\ pc'[c] = "configure" /\ EIP1559DynamicFees' = EIP1559DynamicFees
    BY <1>0, <1>6 DEF EIP1559Fails, EIP1559Answered, Goto
  <2>4. DOMAIN est' = Callers /\ est'[c] = e
    BY <1>0, <2>2 DEF SetEst
  <2>5. ~Signals(c) /\ (EIP1559DynamicFees \/ SwitchedByAnother(c))
    BY <1>0, <2>3 DEF PriceOf, NothingEstimated, DynamicOrSwitched, Signals, Unpriced, Estimating
  <2>6. QED
    BY <1>1, <2>2, <2>3, <2>4, <2>5, AfterEstimation
<1>7. CASE EIP1559Unsupported(c)
  <2>1. pc[c] = "eip1559" /\ pc'[c] = "legacy" /\ EIP1559DynamicFees' = FALSE
    BY <1>0, <1>7 DEF EIP1559Unsupported, Goto
  <2>2. DOMAIN est' = Callers /\ est'[c] = FallbackCaps
    BY <1>0, <1>7 DEF EIP1559Unsupported, SetEst
  <2>3. CapsOnly(FallbackCaps)
    BY FallbackIsSet DEF CapsOnly, FallbackCaps
  <2>4. Signals(c)'
    BY <2>1, <2>2, <2>3 DEF Signals, CapsOnly
  <2>5. PriceOf(c)'
    BY <2>1, <2>2, <2>3 DEF PriceOf, NothingEstimated, LegacyForGood, DynamicOrSwitched,
       EnoughEstimated, OptionsPriced, Estimating
  <2>6. QED
    BY <1>1, <2>1, <2>2, <2>4, <2>5, PriceMove
<1>8. CASE LegacyFails(c) \/ \E m \in {node.metric, NoMetric} : LegacyAnswered(c, m)
  <2>1. PICK price : SetGasPrice(c, price) /\ price # Nil
    <3>1. CASE LegacyFails(c)
      BY <3>1, FallbackIsSet DEF LegacyFails
    <3>2. ASSUME NEW m \in {node.metric, NoMetric}, LegacyAnswered(c, m)
          PROVE  \E price : SetGasPrice(c, price) /\ price # Nil
      <4>1. LET fees == LegacyFees(node.price, cfg.priority, m)
            IN  fees.error = "none" => fees.gasPrice # Nil
        BY FeesAreSet DEF Nil
      <4>2. QED
        BY <3>2, <4>1, FallbackIsSet DEF LegacyAnswered
    <3>3. QED
      BY <1>8, <3>1, <3>2
  <2>2. pc[c] = "legacy" /\ pc'[c] = "configure" /\ EIP1559DynamicFees' = EIP1559DynamicFees
    BY <1>0, <1>8 DEF LegacyFails, LegacyAnswered, Goto
  <2>3. /\ DOMAIN est' = Callers /\ est'[c].gasPrice = price
        /\ est'[c].feeCap = est[c].feeCap /\ est'[c].tipCap = est[c].tipCap
    BY <1>0, <2>1 DEF SetGasPrice, SetEst
  <2>4. ~EIP1559DynamicFees /\ (Unpriced(est[c]) \/ CapsOnly(est[c]))
    BY <1>0, <2>2 DEF PriceOf, LegacyForGood
  <2>5. PriceAndCaps(est'[c]) \/ (PriceOnly(est'[c]) /\ est[c].feeCap = Nil)
    BY <2>1, <2>3, <2>4 DEF PriceAndCaps, PriceOnly, Unpriced, CapsOnly
  <2>6. Signals(c) => PriceAndCaps(est'[c])
    BY <2>5 DEF Signals
  <2>7. PICK e : e = est'[c]
    OBVIOUS
  <2>8. QED
    BY <1>1, <2>2, <2>3, <2>4, <2>5, <2>6, <2>7, AfterEstimation
<1>9. CASE Configure(c)
  <2>1. /\ pc[c] = "configure" /\ pc'[c] = "returned" /\ est' = est /\ failed' = failed
        /\ EIP1559DynamicFees' = EIP1559DynamicFees
    BY <1>0, <1>9 DEF Configure, Goto
  <2>2. opts'[c] = IF EIP1559DynamicFees
                   THEN [nonce |-> PendingNonce[c], gasPrice |-> Nil,
                         feeCap |-> est[c].feeCap, tipCap |-> est[c].tipCap]
                   ELSE [nonce |-> PendingNonce[c], gasPrice |-> est[c].gasPrice,
                         feeCap |-> Nil, tipCap |-> Nil]
    BY <1>0, <1>9 DEF Configure
  <2>3. SwitchedByAnother(c) => SwitchedByAnother(c)'
    BY <1>1, SwitchSeen
  <2>4. OptionsPriced(c)'
    <3>1. ~failed[c] =>
            \/ PriceAndCaps(est[c])
            \/ PriceOnly(est[c]) /\ ~EIP1559DynamicFees
            \/ CapsOnly(est[c]) /\ (EIP1559DynamicFees \/ SwitchedByAnother(c))
      BY <1>0, <2>1 DEF PriceOf, EnoughEstimated
    <3>2. CASE EIP1559DynamicFees
      BY <2>1, <2>2, <3>1, <3>2 DEF OptionsPriced, PriceAndCaps, PriceOnly, CapsOnly
    <3>3. CASE ~EIP1559DynamicFees
      BY <2>1, <2>2, <2>3, <3>1, <3>3 DEF OptionsPriced, PriceAndCaps, PriceOnly, CapsOnly, Unpriced
    <3>4. QED
      BY <3>2, <3>3
  <2>5. PriceOf(c)'
    BY <2>1, <2>4 DEF PriceOf, NothingEstimated, LegacyForGood, DynamicOrSwitched, EnoughEstimated,
       Estimating
  <2>6. Signals(c) => Signals(c)'
    BY <2>1 DEF Signals
  <2>7. QED
    BY <1>0, <1>1, <2>1, <2>5, <2>6, PriceMove
<1>10. QED
  BY <1>2, <1>3, <1>4, <1>5, <1>6, <1>7, <1>8, <1>9 DEF Step

LEMMA PriceNext == NonceInv /\ ConfigInv /\ PriceInv /\ [Next]_vars => PriceInv'
<1> SUFFICES ASSUME NonceInv, ConfigInv, PriceInv, [Next]_vars PROVE PriceInv'
  OBVIOUS
<1>1. ASSUME NEW c \in Callers, Step(c) PROVE PriceInv'
  BY <1>1, PriceStep
<1>2. CASE UNCHANGED <<EIP1559DynamicFees, local>>
  BY <1>2 DEF PriceInv, PriceOf, NothingEstimated, LegacyForGood, DynamicOrSwitched, EnoughEstimated,
     OptionsPriced, SwitchedByAnother, local
<1>3. QED
  BY <1>1, <1>2 DEF Next, IndexPanics, Accept, Mine, vars, shared, local

\* Options that NewTXKeyOpts returns without an error carry one kind of price,
\* complete, or none because of another caller that switched the shared flag
\* (CalculateGasEstimations, configureTransactionOpts); for any number of
\* callers, any fee data and any configured fees.
THEOREM PriceMissingOnlyWhenSwitched == Spec => []PricedUnlessSwitched
<1>1. PriceInv => PricedUnlessSwitched
  BY DEF PriceInv, PriceOf, OptionsPriced, PricedUnlessSwitched, Returned, HasPrice, HasCaps,
     PriceOnly, CapsOnly, Unpriced
<1>2. Init => ConfigInv
  BY DEF Init, ConfigInv
<1>3. ConfigInv /\ [Next]_vars => ConfigInv'
  BY DEF ConfigInv, Next, vars
<1>4. QED
  BY <1>1, <1>2, <1>3, NonceInit, NonceNext, PriceInit, PriceNext, PTL DEF Spec

-----------------------------------------------------------------------------
(***************************************************************************)
(* Type correctness.  The key of a caller that goes on after a protection  *)
(* error is in range: TypeOK alone does not say so while it appends.       *)
(***************************************************************************)
ResumesWithKey ==
    \A c \in Callers : pc[c] = "append" /\ resume[c] = "request" => keyNum[c] \in Keys

Estimations == [gasPrice : Fee, feeCap : Fee, tipCap : Fee]

\* What a caller has and what the client has, apart from the fees.
LEMMA TypeStep ==
  ASSUME TypeOK, ResumesWithKey, NEW c \in Callers, Step(c), UNCHANGED <<cfg, node, panicked>>
  PROVE  TypeOK' /\ ResumesWithKey'
<1> USE DEF local, shared, chain
<1>1. CASE AppendError(c)
  BY <1>1 DEF AppendError, Goto, TypeOK, ResumesWithKey
<1>2. ASSUME NEW k \in KeyNums, KeyOutOfRange(c, k) PROVE TypeOK' /\ ResumesWithKey'
  BY <1>2 DEF KeyOutOfRange, Fail, Goto, TypeOK, ResumesWithKey
<1>3. ASSUME NEW k \in KeyNums, Start(c, k) PROVE TypeOK' /\ ResumesWithKey'
  BY <1>3 DEF Start, Goto, TypeOK, ResumesWithKey
<1>4. CASE PendingNonceAt(c)
  BY <1>4 DEF PendingNonceAt, Goto, TypeOK, ResumesWithKey
<1>5. CASE NonceStatusFails(c)
  BY <1>5 DEF NonceStatusFails, Fail, Goto, TypeOK, ResumesWithKey
<1>6. CASE NonceAt(c)
  <2>1. keyNum[c] \in Keys /\ UNCHANGED <<shared, chain, keyNum, PendingNonce, est, opts>>
    BY <1>6 DEF NonceAt, TypeOK
  <2>2. CASE Fail(c, "request")
    BY <2>1, <2>2 DEF Fail, Goto, TypeOK, ResumesWithKey
  <2>3. CASE Goto(c, "request") /\ UNCHANGED <<failed, seen, resume>>
    BY <2>1, <2>3 DEF Goto, TypeOK, ResumesWithKey
  <2>4. QED
    BY <1>6, <2>2, <2>3 DEF NonceAt
<1>7. CASE ChooseFees(c)
  BY <1>7 DEF ChooseFees, Goto, TypeOK, ResumesWithKey
<1>8. ASSUME NEW e \in Estimations, SetEst(c, e), NEW l \in {"legacy", "configure"}, Goto(c, l),
             GasPriceEstimationEnabled' \in BOOLEAN, EIP1559DynamicFees' \in BOOLEAN,
             UNCHANGED <<Errors, chain, keyNum, PendingNonce, failed, seen, resume, opts>>
      PROVE  TypeOK' /\ ResumesWithKey'
  BY <1>8 DEF SetEst, Goto, Estimations, TypeOK, ResumesWithKey
<1>9. Fallback \in Estimations /\ FallbackCaps \in Estimations
  BY TxOptionsAssumption DEF Estimations, FallbackCaps, Fee
<1>10. CASE Request(c)
  <2>1. CASE SetEst(c, Fallback) /\ Goto(c, "configure")
    BY <1>8, <1>9, <1>10, <2>1 DEF Request, TypeOK
  <2>2. CASE UNCHANGED est /\ Goto(c, "estimate")
    BY <1>10, <2>2 DEF Request, Goto, TypeOK, ResumesWithKey
  <2>3. QED
    BY <1>10, <2>1, <2>2 DEF Request
<1>11. ConfigInv
  BY DEF TypeOK, ConfigInv
<1>12. ASSUME NEW m \in {node.metric, NoMetric}, EIP1559Answered(c, m) PROVE TypeOK' /\ ResumesWithKey'
  <2> DEFINE fees == EIP1559Fees(node, cfg.priority, cfg.equalizer, m)
             e == IF fees.error = "none"
                  THEN [gasPrice |-> Nil, feeCap |-> fees.feeCap, tipCap |-> fees.tipCap]
                  ELSE FallbackCaps
  <2>1. fees.error = "none" => fees.feeCap \in Nat /\ fees.tipCap \in Nat
    BY <1>11, FeesAreSet
  <2>2. /\ SetEst(c, e) /\ Goto(c, "configure")
        /\ GasPriceEstimationEnabled' = (GasPriceEstimationEnabled /\ fees.error # "zero")
        /\ UNCHANGED <<EIP1559DynamicFees, Errors, chain, keyNum, PendingNonce, failed, seen, resume, opts>>
    BY <1>12 DEF EIP1559Answered
  <2> HIDE DEF fees
  <2>3. e \in Estimations
    BY <1>9, <2>1 DEF Estimations, Fee
  <2>4. GasPriceEstimationEnabled' \in BOOLEAN
    BY <2>2, Zenon
  <2>5. EIP1559DynamicFees' \in BOOLEAN
    BY <2>2 DEF TypeOK
  <2> HIDE DEF e
  <2>6. QED
    BY <1>8, <2>2, <2>3, <2>4, <2>5
<1>13. CASE EIP1559Fails(c)
  BY <1>8, <1>9, <1>13 DEF EIP1559Fails, TypeOK
<1>14. CASE EIP1559Unsupported(c)
  BY <1>8, <1>9, <1>14 DEF EIP1559Unsupported, TypeOK
<1>15. ASSUME NEW price \in Nat, SetGasPrice(c, price), Goto(c, "configure"),
              UNCHANGED <<shared, chain, keyNum, PendingNonce, failed, seen, resume, opts>>
       PROVE  TypeOK' /\ ResumesWithKey'
  <2>1. [gasPrice |-> price, feeCap |-> est[c].feeCap, tipCap |-> est[c].tipCap] \in Estimations
    BY DEF TypeOK, Estimations, Fee
  <2>2. QED
    BY <1>8, <1>15, <2>1 DEF SetGasPrice, TypeOK
<1>16. Fallback.gasPrice \in Nat
  BY TxOptionsAssumption
<1>17. CASE LegacyFails(c)
  BY <1>15, <1>16, <1>17 DEF LegacyFails
<1>18. ASSUME NEW m \in {node.metric, NoMetric}, LegacyAnswered(c, m) PROVE TypeOK' /\ ResumesWithKey'
  <2> DEFINE fees == LegacyFees(node.price, cfg.priority, m)
             price == IF fees.error = "none" THEN fees.gasPrice ELSE Fallback.gasPrice
  <2>1. price \in Nat
    BY <1>11, <1>16, FeesAreSet
  <2>2. /\ SetGasPrice(c, price) /\ Goto(c, "configure")
        /\ UNCHANGED <<shared, chain, keyNum, PendingNonce, failed, seen, resume, opts>>
    BY <1>18 DEF LegacyAnswered
  <2> HIDE DEF price
  <2>3. QED
    BY <1>15, <2>1, <2>2
<1>19. CASE Configure(c)
  <2> DEFINE o == IF EIP1559DynamicFees
                  THEN [nonce |-> PendingNonce[c], gasPrice |-> Nil,
                        feeCap |-> est[c].feeCap, tipCap |-> est[c].tipCap]
                  ELSE [nonce |-> PendingNonce[c], gasPrice |-> est[c].gasPrice,
                        feeCap |-> Nil, tipCap |-> Nil]
  <2>1. o \in [nonce : Fee, gasPrice : Fee, feeCap : Fee, tipCap : Fee]
    BY DEF TypeOK, Fee
  <2>2. opts' = [opts EXCEPT ![c] = o]
    BY <1>19 DEF Configure
  <2> HIDE DEF o
  <2>3. opts' \in [Callers -> [nonce : Fee, gasPrice : Fee, feeCap : Fee, tipCap : Fee]]
    BY <2>1, <2>2 DEF TypeOK
  <2>4. QED
    BY <1>19, <2>3 DEF Configure, Goto, TypeOK, ResumesWithKey
<1>20. QED
  BY <1>1, <1>2, <1>3, <1>4, <1>5, <1>6, <1>7, <1>10, <1>12, <1>13, <1>14, <1>17, <1>18, <1>19
     DEF Step

LEMMA TypeInit == Init => TypeOK /\ ResumesWithKey
<1> SUFFICES ASSUME Init PROVE TypeOK /\ ResumesWithKey
  OBVIOUS
<1>1. /\ NoEstimations \in Estimations
      /\ NoOpts \in [nonce : Fee, gasPrice : Fee, feeCap : Fee, tipCap : Fee]
  BY DEF NoEstimations, NoOpts, Estimations, Fee
<1>2. /\ est \in [Callers -> Estimations]
      /\ opts \in [Callers -> [nonce : Fee, gasPrice : Fee, feeCap : Fee, tipCap : Fee]]
  BY <1>1 DEF Init
<1>3. ResumesWithKey
  BY DEF Init, ResumesWithKey
<1>4. /\ Errors \subseteq Callers /\ seen \in [Callers -> SUBSET Callers]
      /\ sent \in [Keys -> Nat] /\ mined \in [Keys -> Nat]
      /\ \A k \in Keys : mined[k] =< sent[k]
      /\ keyNum \in [Callers -> KeyNums \cup {0}] /\ PendingNonce \in [Callers -> Nat]
      /\ failed \in [Callers -> BOOLEAN]
      /\ resume \in [Callers -> {"request", "configure", "returned"}]
  BY DEF Init
<1>5. /\ pc \in [Callers -> {"idle", "pending", "last", "append", "request", "estimate",
                             "eip1559", "legacy", "configure", "returned"}]
      /\ \A c \in Callers : pc[c] \in {"pending", "last", "request"} => keyNum[c] \in Keys
  BY DEF Init
<1>6. /\ cfg \in [protection : BOOLEAN, simulated : BOOLEAN, equalizer : BOOLEAN,
                  priority : TxPriorities]
      /\ EIP1559DynamicFees \in BOOLEAN /\ GasPriceEstimationEnabled \in BOOLEAN
      /\ node \in NodeData /\ panicked \in BOOLEAN
  BY Zenon DEF Init
<1>7. QED
  BY <1>2, <1>3, <1>4, <1>5, <1>6, Zenon DEF TypeOK, Estimations

LEMMA TypeNext == TypeOK /\ ResumesWithKey /\ [Next]_vars => TypeOK' /\ ResumesWithKey'
<1> SUFFICES ASSUME TypeOK, ResumesWithKey, [Next]_vars PROVE TypeOK' /\ ResumesWithKey'
  OBVIOUS
<1>1. ASSUME NEW c \in Callers, Step(c), UNCHANGED <<cfg, node, panicked>>
      PROVE  TypeOK' /\ ResumesWithKey'
  BY <1>1, TypeStep
<1>2. ASSUME NEW k \in Keys, Accept(k) \/ Mine(k), UNCHANGED <<cfg, node, panicked>>
      PROVE  TypeOK' /\ ResumesWithKey'
  <2>1. /\ sent' \in [Keys -> Nat] /\ mined' \in [Keys -> Nat]
        /\ \A j \in Keys : mined'[j] =< sent'[j]
    <3>1. CASE Accept(k)
      BY <3>1 DEF Accept, TypeOK
    <3>2. CASE Mine(k)
      BY <3>2 DEF Mine, TypeOK
    <3>3. QED
      BY <1>2, <3>1, <3>2
  <2>2. UNCHANGED <<shared, local>>
    BY <1>2 DEF Accept, Mine
  <2>3. QED
    BY <1>2, <2>1, <2>2 DEF shared, local, TypeOK, ResumesWithKey
<1>3. ASSUME NEW c \in Callers, NEW k \in KeyNums, IndexPanics(c, k), UNCHANGED <<cfg, node>>
      PROVE  TypeOK' /\ ResumesWithKey'
  BY <1>3 DEF IndexPanics, shared, chain, local, TypeOK, ResumesWithKey
<1>4. CASE UNCHANGED vars
  BY <1>4 DEF vars, shared, chain, local, TypeOK, ResumesWithKey
<1>5. QED
  BY <1>1, <1>2, <1>3, <1>4 DEF Next

\* NewTXKeyOpts works with a key that is in range wherever it uses one, also
\* after a protection error, the chain never has more transactions mined than
\* sent, and no fee that is estimated or returned is negative.
THEOREM TypeCorrect == Spec => []TypeOK
  BY TypeInit, TypeNext, PTL DEF Spec
=============================================================================
