---------------------------- MODULE FundingProofs ----------------------------
(***************************************************************************)
(* Theorems about the funds of the ephemeral keys, for any number of keys, *)
(* any balances, prices and gas limits, and any transactions of the root   *)
(* key that are pending from earlier.                                      *)
(***************************************************************************)
EXTENDS Funding, FiniteSetTheorems, TLAPS

\* The stages before the funds are divided, after all transfers have been
\* confirmed, and from the first return on.
Early == {"new", "health", "calculate"}
Funded == {"ready", "pricing", "noPrice", "returning", "returned", "notReturned"}
Returning == {"returning", "returned", "notReturned"}

Shape ==
    /\ balance \in [Accounts -> Int] /\ nonce \in [Accounts -> Nat]
    /\ Nonces \in [Accounts -> Nat]
    /\ stage \in Early \cup Funded \cup {"funding", "failed", "unanswered"}
    /\ planned \in Nat \cup {None} /\ returnPrice \in Nat
    /\ pc \in [Accounts -> {"idle", "balance", "prepare", "send", "wait", "ok", "err", "unanswered"}]
    /\ amount \in [Accounts -> Int] /\ txNonce \in [Accounts -> Int]
    /\ gasLimit \in [Accounts -> Int]

\* All keys are given their amounts at once.
Amounts ==
    /\ stage \in Early => \A k \in Keys : amount[k] = None
    /\ stage \in Funded \cup {"funding"} => \A k \in Keys : amount[k] \in Nat
    /\ planned = None => \A k \in Keys : amount[k] = None
    /\ planned # None => \A k \in Keys : amount[k] \in Nat

\* The transfers that are running belong to the stage.
Running ==
    \A t \in Accounts :
        /\ pc[t] \in {"prepare", "send", "wait"} =>
              (stage = "health" /\ t = Root) \/ (stage \in {"funding", "returning"} /\ t \in Keys)
        /\ pc[t] = "balance" => stage = "returning" /\ t \in Keys

Sent(t) == pc[t] \in {"wait", "ok", "err"}
TransferOf(kind, t, from, to) == Tx(kind, t, from, txNonce[t], to, amount[t], gasLimit[t])

(***************************************************************************)
(* What can be in the pool: transactions from earlier, and for each kind   *)
(* and account at most the one that was built last, which is not mined.    *)
(***************************************************************************)
LeftPending(tx) ==
    leftover /\ tx.kind = "left" /\ tx.name = Root /\ tx.from = Root /\ tx.to = Root

HealthPending(tx) ==
    /\ tx = TransferOf("health", Root, Root, Root) /\ <<"health", Root>> \notin done
    /\ stage \in {"health", "failed"} /\ Sent(Root)
    /\ \A k \in Keys : amount[k] = None

FundingPending(tx, k) ==
    /\ tx = TransferOf("funding", k, Root, k) /\ <<"funding", k>> \notin done
    /\ stage \in {"funding", "failed"} /\ Sent(k)
    /\ amount[k] \in Nat

UsingPending(tx, k) ==
    /\ tx = Tx("using", k, k, tx.nonce, k, 0, GasUsed)
    /\ stage \in Funded
    /\ stage \notin Returning => tx.nonce = nonce[k] /\ <<"using", k>> \notin done

ReturnPending(tx, k) ==
    /\ tx = TransferOf("returning", k, k, Root) /\ <<"returning", k>> \notin done
    /\ stage \in Returning /\ Sent(k)

Pool ==
    \A tx \in pool :
        \/ LeftPending(tx) \/ HealthPending(tx)
        \/ \E k \in Keys : FundingPending(tx, k) \/ UsingPending(tx, k) \/ ReturnPending(tx, k)

\* What has been mined was sent, and a transfer is successful only when mined;
\* funds are returned when every transfer is successful.
Mined ==
    /\ stage = "returned" => \A k \in Keys : pc[k] = "ok"
    /\ <<"health", Root>> \in done =>
          stage # "new" /\ (stage = "health" => Sent(Root))
    /\ stage = "health" /\ pc[Root] = "ok" => <<"health", Root>> \in done
    /\ \A k \in Keys :
          /\ <<"funding", k>> \in done =>
                stage \notin Early /\ (stage = "funding" => Sent(k))
          /\ (stage = "funding" /\ pc[k] = "ok") \/ stage \in Funded => <<"funding", k>> \in done
          /\ <<"using", k>> \in done => stage \in Funded
          /\ <<"returning", k>> \in done => stage \in Returning /\ Sent(k)

\* The last nonce taken from the root key belongs to a transfer that is not
\* confirmed, or is on the chain.
NonceTaken(t) == pc[t] \in {"send", "wait", "ok", "err"} /\ txNonce[t] + 1 = Nonces[Root]

NoncesOfRoot ==
    /\ stage \in {"calculate", "ready"} => nonce[Root] >= Nonces[Root]
    /\ stage = "health" => nonce[Root] >= Nonces[Root] \/ NonceTaken(Root)
    /\ stage = "health" /\ <<"health", Root>> \in done => nonce[Root] >= txNonce[Root] + 1
    /\ stage = "funding" => nonce[Root] >= Nonces[Root] \/ \E k \in Keys : NonceTaken(k)
    /\ stage = "funding" =>
          \A k \in Keys : <<"funding", k>> \in done => nonce[Root] >= txNonce[k] + 1

\* Until funds are returned a key has what it was given, less what it spent.
KeyFunds ==
    stage \notin Returning =>
        \A k \in Keys :
            balance[k] + Spent(k) = IF <<"funding", k>> \in done THEN amount[k] ELSE 0

Small(k) == \E g \in GasLimits : balance[k] =< g * returnPrice
Covered(k) == \E g \in GasLimits : balance[k] =< amount[k] + g * returnPrice

\* What a key returns is all it has but the fee of one transfer.
ReturnsAll ==
    stage \in Returning /\ ~refuses =>
        \A k \in Keys :
            /\ <<"returning", k>> \in done => Small(k)
            /\ pc[k] = "ok" => Small(k)
            /\ pc[k] \in {"prepare", "send"} => Covered(k)
            /\ \A tx \in pool : tx.kind = "returning" /\ tx.name = k => Covered(k)

\* The root key can pay, above the buffer and but for fees that were left out,
\* for every transfer not yet mined.
Unfunded == {k \in Keys : <<"funding", k>> \notin done}
Reserved(c) ==
    /\ \A k \in Unfunded : amount[k] + GasUsed * GasPrice = c
    /\ balance[Root] + Underestimated >= RootKeyBuffer + Cardinality(Unfunded) * c

Buffer ==
    planned # None /\ ~leftover => \E c \in Nat : Reserved(c)

FundsInv ==
    /\ Shape /\ Amounts /\ Running /\ Pool /\ Mined
    /\ NoncesOfRoot /\ KeyFunds /\ ReturnsAll /\ Buffer

-----------------------------------------------------------------------------
LEMMA RootIsNoKey == Root \notin Keys /\ Root \in Accounts /\ Keys \subseteq Accounts
  BY FundingAssumption DEF Accounts

\* What was left out is at most an amount that the plan alone determines.
LEMMA UnderestimatedType ==
  ASSUME Shape, planned # None PROVE Underestimated \in Nat
<1>1. CASE planned < GasUsed
  <2>1. PICK d \in Nat : d = (GasUsed - planned) * GasPrice
    <3>1. GasUsed - planned \in Nat /\ GasPrice \in Nat
      BY <1>1, FundingAssumption DEF Shape
    <3>2. QED
      BY <3>1
  <2>2. Cardinality(Keys) \in Nat
    BY FundingAssumption, FS_CardinalityType
  <2>3. Cardinality(Keys) * d \in Nat
    BY <2>2
  <2>4. QED
    BY <1>1, <2>1, <2>3 DEF Underestimated
<1>2. CASE ~(planned < GasUsed)
  BY <1>2 DEF Underestimated
<1>3. QED
  BY <1>1, <1>2

LEMMA UnderestimatedKept ==
  ASSUME UNCHANGED planned PROVE Underestimated' = Underestimated
  BY DEF Underestimated

\* A step that keeps the plan and what is known of the chain keeps the buffer.
LEMMA BufferKept ==
  ASSUME Buffer, UNCHANGED <<planned, leftover, balance, done>>,
         \A k \in Unfunded : amount'[k] = amount[k]
  PROVE  Buffer'
<1>1. Unfunded' = Unfunded /\ Underestimated' = Underestimated
  BY UnderestimatedKept DEF Unfunded
<1>2. \A c \in Nat : Reserved(c) => Reserved(c)'
  BY <1>1 DEF Reserved
<1>3. QED
  BY <1>2 DEF Buffer

LEMMA FundsInit == Init => FundsInv
<1> SUFFICES ASSUME Init PROVE FundsInv
  OBVIOUS
<1> USE RootIsNoKey
<1>0. stage = "new" /\ planned = None /\ done = {} /\ pc = [t \in Accounts |-> "idle"]
      /\ amount = [t \in Accounts |-> None]
  BY DEF Init
<1>1. Shape
  <2>1. PICK b \in RootBalances : balance = [a \in Accounts |-> IF a = Root THEN b ELSE 0]
    BY DEF Init
  <2>2. b \in Nat
    BY <2>1, FundingAssumption
  <2>3. balance \in [Accounts -> Int]
    BY <2>1, <2>2
  <2>4. QED
    BY <1>0, <2>3, FundingAssumption DEF Init, Shape, Early, None
<1>2. Amounts
  BY <1>0 DEF Amounts, Early, Funded
<1>3. Running /\ Mined /\ NoncesOfRoot
  BY <1>0 DEF Running, Mined, NoncesOfRoot, Funded
<1>4. Pool
  <2>1. PICK l \in SUBSET Leftovers :
          /\ pool = {Tx("left", Root, Root, n, Root, 0, GasUsed) : n \in l}
          /\ leftover = (l # {})
    BY DEF Init
  <2>2. ASSUME NEW tx \in pool PROVE LeftPending(tx)
    <3>1. PICK n \in l : tx = Tx("left", Root, Root, n, Root, 0, GasUsed)
      BY <2>1, <2>2
    <3>2. leftover
      BY <2>1, <3>1
    <3>3. QED
      BY <3>1, <3>2 DEF LeftPending, Tx
  <2>3. QED
    BY <2>2 DEF Pool
<1>5. KeyFunds
  <2>1. \A k \in Keys : balance[k] = 0
    BY DEF Init
  <2>2. QED
    BY <1>0, <2>1 DEF KeyFunds, Spent
<1>6. ReturnsAll /\ Buffer
  BY <1>0 DEF ReturnsAll, Returning, Buffer
<1>7. QED
  BY <1>1, <1>2, <1>3, <1>4, <1>5, <1>6 DEF FundsInv

\* A step of the running transfers keeps what is in the pool apart.
LEMMA PoolKept ==
  ASSUME Pool, UNCHANGED <<pool, done, leftover, nonce, stage>>,
         \A t \in Accounts : Sent(t) =>
             /\ Sent(t)' /\ txNonce'[t] = txNonce[t] /\ amount'[t] = amount[t]
             /\ gasLimit'[t] = gasLimit[t],
         stage \in {"health", "failed"} => UNCHANGED amount
  PROVE  Pool'
<1> USE RootIsNoKey
<1> SUFFICES ASSUME NEW tx \in pool
             PROVE  \/ LeftPending(tx)' \/ HealthPending(tx)'
                    \/ \E k \in Keys : FundingPending(tx, k)' \/ UsingPending(tx, k)'
                                       \/ ReturnPending(tx, k)'
  BY DEF Pool
<1>1. CASE LeftPending(tx)
  BY <1>1 DEF LeftPending
<1>2. CASE HealthPending(tx)
  BY <1>2 DEF HealthPending, TransferOf
<1>3. ASSUME NEW k \in Keys, FundingPending(tx, k) PROVE FundingPending(tx, k)'
  BY <1>3 DEF FundingPending, TransferOf
<1>4. ASSUME NEW k \in Keys, UsingPending(tx, k) PROVE UsingPending(tx, k)'
  BY <1>4 DEF UsingPending
<1>5. ASSUME NEW k \in Keys, ReturnPending(tx, k) PROVE ReturnPending(tx, k)'
  BY <1>5 DEF ReturnPending, TransferOf
<1>6. QED
  BY <1>1, <1>2, <1>3, <1>4, <1>5 DEF Pool

-----------------------------------------------------------------------------
(* The transfers. *)

\* A transfer ends: with an error, with success once it is mined or, when funds
\* are returned, not needed, or by waiting for ever before it takes a nonce.
LEMMA TransferEnds ==
  ASSUME FundsInv, NEW t \in Accounts, NEW l \in {"ok", "err", "unanswered"},
         pc[t] \in {"balance", "prepare", "send", "wait"},
         pc' = [pc EXCEPT ![t] = l],
         UNCHANGED <<chain, config, Nonces, stage, plan, amount, txNonce, gasLimit>>,
         l = "unanswered" => pc[t] \in {"balance", "prepare"},
         l = "ok" /\ stage # "returning" => <<stage, t>> \in done,
         l = "ok" /\ stage = "returning" /\ ~refuses => Small(t)
  PROVE  FundsInv'
<1> USE RootIsNoKey DEF chain, config, plan
<1>1. pc'[t] = l /\ \A o \in Accounts \ {t} : pc'[o] = pc[o]
  BY DEF FundsInv, Shape
<1>2. Shape' /\ Amounts'
  BY DEF FundsInv, Shape, Amounts
<1>3. Running'
  BY <1>1 DEF FundsInv, Running
<1>4. Pool'
  BY <1>1, PoolKept DEF FundsInv, Sent
<1>5. Mined'
  BY <1>1 DEF FundsInv, Mined, Sent, Running, Funded
<1>6. NoncesOfRoot'
  <2>1. \A o \in Accounts : NonceTaken(o) => NonceTaken(o)'
    BY <1>1 DEF NonceTaken
  <2>2. QED
    BY <2>1 DEF FundsInv, NoncesOfRoot
<1>7. KeyFunds'
  BY DEF FundsInv, KeyFunds, Spent
<1>8. ReturnsAll'
  <2> SUFFICES ASSUME stage \in Returning, ~refuses, NEW k \in Keys
               PROVE  /\ <<"returning", k>> \in done => Small(k)'
                      /\ pc'[k] = "ok" => Small(k)'
                      /\ pc'[k] \in {"prepare", "send"} => Covered(k)'
                      /\ \A tx \in pool : tx.kind = "returning" /\ tx.name = k => Covered(k)'
    BY DEF ReturnsAll
  <2>1. (Small(k) => Small(k)') /\ (Covered(k) => Covered(k)')
    BY DEF Small, Covered
  <2>2. k = t => stage = "returning"
    BY DEF FundsInv, Running, Returning
  <2>3. QED
    BY <1>1, <2>1, <2>2 DEF FundsInv, ReturnsAll
<1>9. Buffer'
  BY BufferKept DEF FundsInv
<1>10. QED
  BY <1>2, <1>3, <1>4, <1>5, <1>6, <1>7, <1>8, <1>9 DEF FundsInv

\* A transfer that takes its nonce is that of the stage.
LEMMA TransferOfStage ==
  ASSUME FundsInv, NEW t \in Accounts, pc[t] \in {"prepare", "send", "wait"}
  PROVE  \/ stage = "health" /\ t = Root /\ From(t) = Root /\ To(t) = Root
         \/ stage = "funding" /\ t \in Keys /\ From(t) = Root /\ To(t) = t
         \/ stage = "returning" /\ t \in Keys /\ From(t) = t /\ To(t) = Root
  BY DEF FundsInv, Running, From, To

LEMMA PrepareKeeps ==
  ASSUME FundsInv, NEW t \in Accounts, Prepare(t)
  PROVE  FundsInv'
<1> USE RootIsNoKey DEF chain, config, plan
<1>1. PICK g \in GasLimits : gasLimit' = [gasLimit EXCEPT ![t] = g]
  BY DEF Prepare
<1>2. /\ pc[t] = "prepare" /\ pc' = [pc EXCEPT ![t] = "send"]
      /\ txNonce' = [txNonce EXCEPT ![t] = Nonces[From(t)]]
      /\ Nonces' = [Nonces EXCEPT ![From(t)] = Nonces[From(t)] + 1]
      /\ UNCHANGED <<balance, nonce, pool, done, refuses, leftover, stage, plan, amount>>
  BY DEF Prepare, NextNonce, Goto
<1>3. From(t) \in Accounts /\ g \in Int /\ Nonces[From(t)] \in Nat
  BY <1>2, TransferOfStage, FundingAssumption DEF GasLimits, FundsInv, Shape
<1>4. /\ pc'[t] = "send" /\ txNonce'[t] = Nonces[From(t)] /\ Nonces'[From(t)] = Nonces[From(t)] + 1
      /\ \A o \in Accounts \ {t} : pc'[o] = pc[o] /\ txNonce'[o] = txNonce[o]
                                   /\ gasLimit'[o] = gasLimit[o]
      /\ \A o \in Accounts \ {From(t)} : Nonces'[o] = Nonces[o]
  BY <1>1, <1>2, <1>3 DEF FundsInv, Shape
<1>5. Shape' /\ Amounts'
  BY <1>1, <1>2, <1>3 DEF FundsInv, Shape, Amounts
<1>6. Running'
  BY <1>2, <1>4 DEF FundsInv, Running
<1>7. Pool'
  <2>1. ~Sent(t) /\ \A o \in Accounts \ {t} : Sent(o) => Sent(o)'
    BY <1>2, <1>4 DEF Sent
  <2>2. QED
    BY <1>2, <1>4, <2>1, PoolKept DEF FundsInv
<1>8. Mined'
  BY <1>2, <1>4 DEF FundsInv, Mined, Sent, Running, Funded
<1>9. NoncesOfRoot'
  <2>1. CASE stage \in {"health", "funding"}
    <3>1. NonceTaken(t)' /\ From(t) = Root
      BY <1>2, <1>4, <2>1, TransferOfStage DEF NonceTaken
    <3>2. stage = "health" => t = Root /\ <<"health", Root>> \notin done
      BY <1>2, TransferOfStage DEF FundsInv, Mined, Sent
    <3>3. stage = "funding" => t \in Keys /\ <<"funding", t>> \notin done
      BY <1>2, TransferOfStage DEF FundsInv, Mined, Sent
    <3>4. QED
      BY <1>2, <1>4, <2>1, <3>1, <3>2, <3>3 DEF FundsInv, NoncesOfRoot
  <2>2. CASE stage \notin {"health", "funding"}
    <3>1. stage = "returning"
      BY <1>2, <2>2, TransferOfStage
    <3>2. QED
      BY <1>2, <3>1 DEF NoncesOfRoot
  <2>3. QED
    BY <2>1, <2>2
<1>10. KeyFunds'
  BY <1>2 DEF FundsInv, KeyFunds, Spent
<1>11. ReturnsAll'
  <2> SUFFICES ASSUME stage \in Returning, ~refuses, NEW k \in Keys
               PROVE  /\ <<"returning", k>> \in done => Small(k)'
                      /\ pc'[k] = "ok" => Small(k)'
                      /\ pc'[k] \in {"prepare", "send"} => Covered(k)'
                      /\ \A tx \in pool : tx.kind = "returning" /\ tx.name = k => Covered(k)'
    BY <1>2 DEF ReturnsAll
  <2>1. (Small(k) => Small(k)') /\ (Covered(k) => Covered(k)')
    BY <1>2 DEF Small, Covered
  <2>2. QED
    BY <1>2, <1>4, <2>1 DEF FundsInv, ReturnsAll
<1>12. Buffer'
  BY <1>2, BufferKept DEF FundsInv
<1>13. QED
  BY <1>5, <1>6, <1>7, <1>8, <1>9, <1>10, <1>11, <1>12 DEF FundsInv

\* The node has the transaction, whether the caller knows it (wait) or not (err).
LEMMA SendKeeps ==
  ASSUME FundsInv, NEW t \in Accounts, NEW l \in {"wait", "err"}, pc[t] = "send",
         pool' = pool \cup {TransferTx(t)}, pc' = [pc EXCEPT ![t] = l],
         UNCHANGED <<balance, nonce, done, config, Nonces, stage, plan, amount, txNonce, gasLimit>>
  PROVE  FundsInv'
<1> USE RootIsNoKey DEF config, plan
<1> DEFINE new == TransferTx(t)
<1>1. /\ pc'[t] = l /\ \A o \in Accounts \ {t} : pc'[o] = pc[o]
  BY DEF FundsInv, Shape
<1>2. Shape' /\ Amounts'
  BY DEF FundsInv, Shape, Amounts
<1>3. Running'
  BY <1>1 DEF FundsInv, Running
<1>4. new = TransferOf(stage, t, From(t), To(t)) /\ new.kind = stage /\ new.name = t
  BY DEF TransferTx, TransferOf, Tx
<1> HIDE DEF new
<1>5. Pool'
  <2> SUFFICES ASSUME NEW tx \in pool'
               PROVE  \/ LeftPending(tx)' \/ HealthPending(tx)'
                      \/ \E k \in Keys : FundingPending(tx, k)' \/ UsingPending(tx, k)'
                                         \/ ReturnPending(tx, k)'
    BY DEF Pool
  <2>1. \A o \in Accounts : Sent(o) => Sent(o)'
    BY <1>1 DEF Sent
  <2>2. Sent(t)'
    BY <1>1 DEF Sent
  <2>3. CASE tx \in pool
    <3>1. CASE LeftPending(tx)
      BY <3>1 DEF LeftPending
    <3>2. CASE HealthPending(tx)
      BY <2>1, <3>2 DEF HealthPending, TransferOf
    <3>3. ASSUME NEW k \in Keys, FundingPending(tx, k) PROVE FundingPending(tx, k)'
      BY <2>1, <3>3 DEF FundingPending, TransferOf
    <3>4. ASSUME NEW k \in Keys, UsingPending(tx, k) PROVE UsingPending(tx, k)'
      BY <3>4 DEF UsingPending
    <3>5. ASSUME NEW k \in Keys, ReturnPending(tx, k) PROVE ReturnPending(tx, k)'
      BY <2>1, <3>5 DEF ReturnPending, TransferOf
    <3>6. QED
      BY <2>3, <3>1, <3>2, <3>3, <3>4, <3>5 DEF FundsInv, Pool
  <2>4. CASE tx = new
    <3>1. CASE stage = "health"
      <4>1. t = Root /\ tx = TransferOf("health", Root, Root, Root) /\ <<"health", Root>> \notin done
        BY <1>4, <2>4, <3>1, TransferOfStage DEF FundsInv, Mined, Sent
      <4>2. HealthPending(tx)'
        BY <2>2, <3>1, <4>1 DEF HealthPending, TransferOf, FundsInv, Amounts, Early
      <4>3. QED
        BY <4>2
    <3>2. CASE stage = "funding"
      <4>1. t \in Keys /\ tx = TransferOf("funding", t, Root, t) /\ <<"funding", t>> \notin done
        BY <1>4, <2>4, <3>2, TransferOfStage DEF FundsInv, Mined, Sent
      <4>2. FundingPending(tx, t)'
        BY <2>2, <3>2, <4>1 DEF FundingPending, TransferOf, FundsInv, Amounts
      <4>3. QED
        BY <4>1, <4>2
    <3>3. CASE stage = "returning"
      <4>1. t \in Keys /\ tx = TransferOf("returning", t, t, Root) /\ <<"returning", t>> \notin done
        BY <1>4, <2>4, <3>3, TransferOfStage DEF FundsInv, Mined, Sent
      <4>2. ReturnPending(tx, t)'
        BY <2>2, <3>3, <4>1 DEF ReturnPending, TransferOf, Returning
      <4>3. QED
        BY <4>1, <4>2
    <3>4. QED
      BY <3>1, <3>2, <3>3, TransferOfStage
  <2>5. QED
    BY <2>3, <2>4 DEF new
<1>6. Mined'
  BY <1>1 DEF FundsInv, Mined, Sent
<1>7. NoncesOfRoot'
  <2>1. \A o \in Accounts : NonceTaken(o) => NonceTaken(o)'
    BY <1>1 DEF NonceTaken
  <2>2. QED
    BY <2>1 DEF FundsInv, NoncesOfRoot
<1>8. KeyFunds'
  BY DEF FundsInv, KeyFunds, Spent
<1>9. ReturnsAll'
  <2> SUFFICES ASSUME stage \in Returning, ~refuses, NEW k \in Keys
               PROVE  /\ <<"returning", k>> \in done => Small(k)'
                      /\ pc'[k] = "ok" => Small(k)'
                      /\ pc'[k] \in {"prepare", "send"} => Covered(k)'
                      /\ \A tx \in pool' : tx.kind = "returning" /\ tx.name = k => Covered(k)'
    BY DEF ReturnsAll
  <2>1. (Small(k) => Small(k)') /\ (Covered(k) => Covered(k)')
    BY DEF Small, Covered
  <2>2. \A tx \in pool' : tx \in pool \/ tx = new
    BY DEF new
  <2>3. QED
    BY <1>1, <1>4, <2>1, <2>2 DEF FundsInv, ReturnsAll
<1>10. Buffer'
  BY BufferKept DEF FundsInv
<1>11. QED
  BY <1>2, <1>3, <1>5, <1>6, <1>7, <1>8, <1>9, <1>10 DEF FundsInv

\* ReturnFunds reads a balance and takes the fee of one transfer off it.
LEMMA AmountKeeps ==
  ASSUME FundsInv, NEW k \in Keys, NEW g \in GasLimits, pc[k] = "balance",
         FundsToReturn(k, g) >= 0,
         amount' = [amount EXCEPT ![k] = FundsToReturn(k, g)],
         pc' = [pc EXCEPT ![k] = "prepare"],
         UNCHANGED <<chain, config, Nonces, stage, plan, txNonce, gasLimit>>
  PROVE  FundsInv'
<1> USE RootIsNoKey DEF chain, config, plan
<1>1. stage = "returning" /\ stage \in Funded /\ stage \in Returning
  BY DEF FundsInv, Running, Funded, Returning
<1>2. g \in Nat /\ returnPrice \in Nat /\ balance[k] \in Int
  BY FundingAssumption DEF GasLimits, FundsInv, Shape
<1>3. FundsToReturn(k, g) \in Nat /\ balance[k] =< FundsToReturn(k, g) + g * returnPrice
  BY <1>2 DEF FundsToReturn
<1>4. /\ pc'[k] = "prepare" /\ amount'[k] = FundsToReturn(k, g)
      /\ \A o \in Accounts \ {k} : pc'[o] = pc[o] /\ amount'[o] = amount[o]
  BY DEF FundsInv, Shape
<1>5. Shape'
  BY <1>3 DEF FundsInv, Shape
<1>6. Amounts'
  <2>1. \A j \in Keys : amount'[j] \in Nat
    BY <1>1, <1>3, <1>4 DEF FundsInv, Amounts
  <2>2. amount[k] \in Nat /\ amount[k] # None
    BY <1>1 DEF FundsInv, Amounts, None
  <2>3. planned # None
    BY <2>2 DEF FundsInv, Amounts
  <2>4. QED
    BY <1>1, <2>1, <2>3 DEF Amounts, Early
<1>7. Running'
  BY <1>1, <1>4 DEF FundsInv, Running
<1>8. Pool'
  <2>1. ~Sent(k) /\ \A o \in Accounts \ {k} : Sent(o) => Sent(o)'
    BY <1>4 DEF Sent
  <2>2. QED
    BY <1>1, <1>4, <2>1, PoolKept DEF FundsInv
<1>9. Mined'
  BY <1>1, <1>4 DEF FundsInv, Mined, Sent
<1>10. NoncesOfRoot' /\ KeyFunds'
  BY <1>1 DEF NoncesOfRoot, KeyFunds
<1>11. ReturnsAll'
  <2> SUFFICES ASSUME ~refuses, NEW j \in Keys
               PROVE  /\ <<"returning", j>> \in done => Small(j)'
                      /\ pc'[j] = "ok" => Small(j)'
                      /\ pc'[j] \in {"prepare", "send"} => Covered(j)'
                      /\ \A tx \in pool : tx.kind = "returning" /\ tx.name = j => Covered(j)'
    BY DEF ReturnsAll
  <2>1. Small(j) => Small(j)'
    BY DEF Small
  <2>2. j # k /\ Covered(j) => Covered(j)'
    BY <1>4 DEF Covered
  <2>3. Covered(k)'
    BY <1>3, <1>4 DEF Covered
  <2>4. QED
    BY <1>1, <1>4, <2>1, <2>2, <2>3 DEF FundsInv, ReturnsAll
<1>12. Buffer'
  <2>1. Unfunded = {}
    BY <1>1 DEF FundsInv, Mined, Unfunded
  <2>2. QED
    BY <2>1, BufferKept DEF FundsInv
<1>13. QED
  BY <1>5, <1>6, <1>7, <1>8, <1>9, <1>10, <1>11, <1>12 DEF FundsInv

LEMMA TransferKeeps ==
  ASSUME FundsInv, NEW t \in Accounts, Transfer(t)
  PROVE  FundsInv'
<1>1. CASE Prepare(t)
  BY <1>1, PrepareKeeps
<1>2. CASE Send(t) \/ SendReplyLost(t)
  BY <1>2, SendKeeps DEF Send, SendReplyLost, Goto
<1>3. CASE PrepareFails(t) \/ NoAnswer(t) \/ SendFails(t) \/ ContextDone(t)
  BY <1>3, TransferEnds DEF PrepareFails, NoAnswer, SendFails, ContextDone, Goto
<1>4. CASE ReceiptFound(t)
  <2>1. /\ pc[t] = "wait" /\ <<stage, t>> \in done /\ pc' = [pc EXCEPT ![t] = "ok"]
        /\ UNCHANGED <<chain, config, Nonces, stage, plan, amount, txNonce, gasLimit>>
    BY <1>4 DEF ReceiptFound, Goto
  <2>2. stage = "returning" /\ ~refuses => Small(t)
    BY <2>1, TransferOfStage DEF FundsInv, ReturnsAll, Returning
  <2>3. QED
    BY <2>1, <2>2, TransferEnds
<1>5. QED
  BY <1>1, <1>2, <1>3, <1>4 DEF Transfer

LEMMA ReadBalanceKeeps ==
  ASSUME FundsInv, NEW k \in Keys, ReadBalance(k) \/ ReadBalanceFails(k)
  PROVE  FundsInv'
<1> USE RootIsNoKey
<1>1. CASE ReadBalanceFails(k)
  BY <1>1, TransferEnds DEF ReadBalanceFails, Goto
<1>2. CASE ReadBalance(k)
  <2>1. PICK g \in GasLimits :
          \/ FundsToReturn(k, g) < 0 /\ Goto(k, "ok") /\ UNCHANGED amount
          \/ /\ FundsToReturn(k, g) >= 0 /\ Goto(k, "prepare")
             /\ amount' = [amount EXCEPT ![k] = FundsToReturn(k, g)]
    BY <1>2 DEF ReadBalance
  <2>2. pc[k] = "balance" /\ UNCHANGED <<chain, config, Nonces, stage, plan, txNonce, gasLimit>>
    BY <1>2 DEF ReadBalance
  <2>3. CASE FundsToReturn(k, g) < 0 /\ Goto(k, "ok") /\ UNCHANGED amount
    <3>1. g \in Nat /\ returnPrice \in Nat /\ balance[k] \in Int
      BY FundingAssumption DEF GasLimits, FundsInv, Shape
    <3>2. Small(k)
      BY <2>3, <3>1 DEF Small, FundsToReturn
    <3>3. stage = "returning"
      BY <2>2 DEF FundsInv, Running
    <3>4. QED
      BY <2>2, <2>3, <3>2, <3>3, TransferEnds DEF Goto
  <2>4. CASE /\ FundsToReturn(k, g) >= 0 /\ Goto(k, "prepare")
             /\ amount' = [amount EXCEPT ![k] = FundsToReturn(k, g)]
    BY <2>2, <2>4, AmountKeeps DEF Goto
  <2>5. QED
    BY <2>1, <2>3, <2>4
<1>3. QED
  BY <1>1, <1>2

-----------------------------------------------------------------------------
(* The client. *)

LEMMA StartKeeps ==
  ASSUME FundsInv, Start
  PROVE  FundsInv'
<1> USE RootIsNoKey DEF chain, config, plan
<1>1. /\ stage = "new" /\ Nonces' = nonce /\ stage' \in {"health", "calculate"}
      /\ UNCHANGED <<balance, nonce, pool, done, refuses, leftover, plan, txNonce, gasLimit>>
  BY DEF Start, AfterStart
<1>2. /\ pc' \in [Accounts -> {"idle", "prepare"}]
      /\ \A t \in Accounts : pc'[t] = "prepare" => t = Root /\ stage' = "health"
  BY DEF Start, Spawn, AfterStart
<1>3. /\ amount' \in [Accounts -> Int] /\ \A k \in Keys : amount'[k] = amount[k]
  <2>1. HealthValue \in Int
    BY FundingAssumption
  <2>2. QED
    BY <2>1 DEF Start, FundsInv, Shape
<1>4. Shape'
  BY <1>1, <1>2, <1>3 DEF FundsInv, Shape, Early
<1>5. Amounts'
  BY <1>1, <1>3 DEF FundsInv, Amounts, Early, Funded
<1>6. Running'
  BY <1>1, <1>2 DEF Running
<1>7. Pool'
  <2>1. \A tx \in pool : LeftPending(tx)
    BY <1>1 DEF FundsInv, Pool, HealthPending, FundingPending, UsingPending, ReturnPending,
       Funded, Returning
  <2>2. \A tx \in pool : LeftPending(tx)'
    BY <1>1, <2>1 DEF LeftPending
  <2>3. QED
    BY <1>1, <2>2 DEF Pool
<1>8. Mined'
  BY <1>1, <1>2 DEF FundsInv, Mined, Early, Funded, Returning
<1>9. NoncesOfRoot'
  <2>1. nonce'[Root] >= Nonces'[Root] /\ <<"health", Root>> \notin done
    BY <1>1 DEF FundsInv, Shape, Mined
  <2>2. QED
    BY <1>1, <2>1 DEF NoncesOfRoot
<1>10. KeyFunds'
  BY <1>1, <1>3 DEF FundsInv, KeyFunds, Spent, Returning
<1>11. ReturnsAll'
  BY <1>1 DEF ReturnsAll, Returning
<1>12. Buffer'
  BY <1>1, <1>3, BufferKept DEF FundsInv, Unfunded
<1>13. QED
  BY <1>4, <1>5, <1>6, <1>7, <1>8, <1>9, <1>10, <1>11, <1>12 DEF FundsInv

\* A call of the client ends and only its stage changes.
LEMMA StageKeeps ==
  ASSUME FundsInv, UNCHANGED <<chain, config, Nonces, plan, transfers>>,
         \/ stage \in {"new", "calculate"} /\ stage' \in {"failed", "unanswered"}
         \/ HealthChecked
         \/ FundingDone
         \/ ReturnFunds
         \/ NoPrice
         \/ ReturnDone
  PROVE  FundsInv'
<1> USE RootIsNoKey DEF chain, config, plan, transfers
<1>1. \/ stage \in {"new", "calculate"} /\ stage' \in {"failed", "unanswered"}
      \/ stage = "health" /\ pc[Root] = "ok" /\ stage' = "calculate"
      \/ stage = "health" /\ pc[Root] = "err" /\ stage' = "failed"
      \/ stage = "funding" /\ AllDone /\ AllOk /\ stage' = "ready"
      \/ stage = "funding" /\ AllDone /\ stage' = "failed"
      \/ stage = "ready" /\ stage' = "pricing"
      \/ stage = "pricing" /\ stage' = "noPrice"
      \/ stage = "returning" /\ AllDone /\ AllOk /\ stage' = "returned"
      \/ stage = "returning" /\ AllDone /\ stage' = "notReturned"
  BY DEF HealthChecked, FundingDone, ReturnFunds, NoPrice, ReturnDone
<1>2. Shape'
  BY <1>1 DEF FundsInv, Shape, Early, Funded
<1>3. Amounts'
  BY <1>1 DEF FundsInv, Amounts, Early, Funded
<1>4. Running'
  BY <1>1 DEF FundsInv, Running, AllDone
<1>5. stage = "funding" /\ stage' = "ready" => \A k \in Keys : <<"funding", k>> \in done
  BY <1>1 DEF FundsInv, Mined, AllOk
<1>6. stage = "health" /\ stage' = "calculate" => <<"health", Root>> \in done
  BY <1>1 DEF FundsInv, Mined
<1>7. Pool'
  <2> SUFFICES ASSUME NEW tx \in pool
               PROVE  \/ LeftPending(tx)' \/ HealthPending(tx)'
                      \/ \E k \in Keys : FundingPending(tx, k)' \/ UsingPending(tx, k)'
                                         \/ ReturnPending(tx, k)'
    BY DEF Pool
  <2>1. CASE LeftPending(tx)
    BY <2>1 DEF LeftPending
  <2>2. CASE HealthPending(tx)
    BY <1>1, <1>6, <2>2 DEF HealthPending, TransferOf, Sent
  <2>3. ASSUME NEW k \in Keys, FundingPending(tx, k) PROVE FundingPending(tx, k)'
    BY <1>1, <1>5, <2>3 DEF FundingPending, TransferOf, Sent
  <2>4. ASSUME NEW k \in Keys, UsingPending(tx, k) PROVE UsingPending(tx, k)'
    BY <1>1, <2>4 DEF UsingPending, Funded, Returning
  <2>5. ASSUME NEW k \in Keys, ReturnPending(tx, k) PROVE ReturnPending(tx, k)'
    BY <1>1, <2>5 DEF ReturnPending, TransferOf, Sent, Returning
  <2>6. QED
    BY <2>1, <2>2, <2>3, <2>4, <2>5 DEF FundsInv, Pool
<1>8. Mined'
  BY <1>1, <1>5 DEF FundsInv, Mined, Sent, AllOk, Early, Funded, Returning
<1>9. NoncesOfRoot'
  <2>1. CASE stage = "health" /\ pc[Root] = "ok" /\ stage' = "calculate"
    <3>1. nonce[Root] \in Nat /\ Nonces[Root] \in Nat /\ txNonce[Root] \in Int
      BY DEF FundsInv, Shape
    <3>2. nonce[Root] >= Nonces[Root]
      BY <1>6, <2>1, <3>1 DEF FundsInv, NoncesOfRoot, NonceTaken
    <3>3. QED
      BY <2>1, <3>2 DEF NoncesOfRoot
  <2>2. CASE stage = "funding" /\ AllDone /\ AllOk /\ stage' = "ready"
    <3>1. /\ nonce[Root] \in Nat /\ Nonces[Root] \in Nat
          /\ \A k \in Keys : txNonce[k] \in Int
      BY DEF FundsInv, Shape
    <3>2. nonce[Root] >= Nonces[Root]
      BY <1>5, <2>2, <3>1 DEF FundsInv, NoncesOfRoot, NonceTaken
    <3>3. QED
      BY <2>2, <3>2 DEF NoncesOfRoot
  <2>3. CASE stage' \notin {"calculate", "ready"}
    BY <1>1, <2>3 DEF NoncesOfRoot
  <2>4. QED
    BY <1>1, <2>1, <2>2, <2>3
<1>10. KeyFunds'
  BY <1>1 DEF FundsInv, KeyFunds, Spent, Returning
<1>11. ReturnsAll'
  BY <1>1 DEF FundsInv, ReturnsAll, Small, Covered, Returning
<1>12. Buffer'
  BY BufferKept DEF FundsInv
<1>13. QED
  BY <1>2, <1>3, <1>4, <1>7, <1>8, <1>9, <1>10, <1>11, <1>12 DEF FundsInv

LEMMA UseKeyKeeps ==
  ASSUME FundsInv, NEW k \in Keys, UseKey(k)
  PROVE  FundsInv'
<1> USE RootIsNoKey DEF config, plan, transfers
<1> DEFINE new == Tx("using", k, k, nonce[k], k, 0, GasUsed)
<1>1. /\ stage = "ready" /\ <<"using", k>> \notin done /\ pool' = pool \cup {new}
      /\ UNCHANGED <<balance, nonce, done, refuses, leftover, Nonces, stage, plan, pc, amount,
                     txNonce, gasLimit>>
  BY DEF UseKey
<1>2. new = Tx("using", k, k, new.nonce, k, 0, GasUsed) /\ new.nonce = nonce[k]
  BY DEF Tx
<1> HIDE DEF new
<1>3. Pool'
  <2> SUFFICES ASSUME NEW tx \in pool'
               PROVE  \/ LeftPending(tx)' \/ HealthPending(tx)'
                      \/ \E j \in Keys : FundingPending(tx, j)' \/ UsingPending(tx, j)'
                                         \/ ReturnPending(tx, j)'
    BY DEF Pool
  <2>1. CASE tx \in pool
    <3>1. CASE LeftPending(tx)
      BY <1>1, <3>1 DEF LeftPending
    <3>2. ASSUME NEW j \in Keys, UsingPending(tx, j) PROVE UsingPending(tx, j)'
      BY <1>1, <3>2 DEF UsingPending
    <3>3. QED
      BY <1>1, <2>1, <3>1, <3>2 DEF FundsInv, Pool, HealthPending, FundingPending, ReturnPending,
         Returning
  <2>2. CASE tx = new
    <3>1. UsingPending(tx, k)'
      BY <1>1, <1>2, <2>2 DEF UsingPending, Funded
    <3>2. QED
      BY <3>1
  <2>3. QED
    BY <1>1, <2>1, <2>2
<1>4. Shape' /\ Amounts' /\ Running'
  BY <1>1 DEF FundsInv, Shape, Amounts, Running
<1>5. Mined' /\ NoncesOfRoot' /\ KeyFunds'
  BY <1>1 DEF FundsInv, Mined, Sent, NoncesOfRoot, NonceTaken, KeyFunds, Spent
<1>6. ReturnsAll'
  BY <1>1 DEF ReturnsAll, Returning
<1>7. Buffer'
  BY <1>1, BufferKept DEF FundsInv
<1>8. QED
  BY <1>3, <1>4, <1>5, <1>6, <1>7 DEF FundsInv

LEMMA UpdateNoncesKeeps ==
  ASSUME FundsInv, UpdateNonces
  PROVE  FundsInv'
<1> USE RootIsNoKey DEF chain, config, plan, transfers
<1>1. /\ stage = "ready" /\ Nonces' = nonce
      /\ UNCHANGED <<balance, nonce, pool, done, refuses, leftover, stage, plan, pc, amount,
                     txNonce, gasLimit>>
  BY DEF UpdateNonces
<1>2. Shape' /\ Amounts' /\ Running'
  BY <1>1 DEF FundsInv, Shape, Amounts, Running
<1>3. Pool'
  BY <1>1, PoolKept DEF FundsInv, Sent
<1>4. Mined' /\ KeyFunds'
  BY <1>1 DEF FundsInv, Mined, Sent, KeyFunds, Spent
<1>5. NoncesOfRoot'
  BY <1>1 DEF FundsInv, Shape, NoncesOfRoot
<1>6. ReturnsAll'
  BY <1>1 DEF ReturnsAll, Returning
<1>7. Buffer'
  BY <1>1, BufferKept DEF FundsInv
<1>8. QED
  BY <1>2, <1>3, <1>4, <1>5, <1>6, <1>7 DEF FundsInv

LEMMA ReturnPriceKeeps ==
  ASSUME FundsInv, GetSuggestedLegacyFees
  PROVE  FundsInv'
<1> USE RootIsNoKey DEF chain, config, plan
<1>1. /\ stage = "pricing" /\ stage' = "returning" /\ returnPrice' \in Nat
      /\ pc' = [t \in Accounts |-> IF t \in Keys THEN "balance" ELSE "idle"]
      /\ UNCHANGED <<balance, nonce, pool, done, refuses, leftover, Nonces, planned, amount,
                     txNonce, gasLimit>>
  BY FundingAssumption DEF GetSuggestedLegacyFees, Spawn
<1>2. Shape' /\ Amounts' /\ Running'
  BY <1>1 DEF FundsInv, Shape, Amounts, Running, Early, Funded
<1>3. Pool'
  <2> SUFFICES ASSUME NEW tx \in pool
               PROVE  LeftPending(tx)' \/ \E k \in Keys : UsingPending(tx, k)'
    BY <1>1 DEF Pool
  <2>1. CASE LeftPending(tx)
    BY <1>1, <2>1 DEF LeftPending
  <2>2. ASSUME NEW k \in Keys, UsingPending(tx, k) PROVE UsingPending(tx, k)'
    BY <1>1, <2>2 DEF UsingPending, Funded, Returning
  <2>3. QED
    BY <1>1, <2>1, <2>2 DEF FundsInv, Pool, HealthPending, FundingPending, ReturnPending, Returning
<1>4. Mined'
  BY <1>1 DEF FundsInv, Mined, Early, Funded, Returning
<1>5. NoncesOfRoot' /\ KeyFunds'
  BY <1>1 DEF NoncesOfRoot, KeyFunds, Returning
<1>6. ReturnsAll'
  <2>1. \A tx \in pool : tx.kind # "returning"
    <3> SUFFICES ASSUME NEW tx \in pool PROVE tx.kind # "returning"
      OBVIOUS
    <3>1. LeftPending(tx) \/ \E k \in Keys : UsingPending(tx, k)
      BY <1>1 DEF FundsInv, Pool, HealthPending, FundingPending, ReturnPending, Returning
    <3>2. CASE LeftPending(tx)
      BY <3>2 DEF LeftPending
    <3>3. ASSUME NEW k \in Keys, UsingPending(tx, k) PROVE tx.kind = "using"
      BY <3>3 DEF UsingPending, Tx
    <3>4. QED
      BY <3>1, <3>2, <3>3
  <2>2. \A k \in Keys : <<"returning", k>> \notin done
    BY <1>1 DEF FundsInv, Mined, Returning
  <2>3. QED
    BY <1>1, <2>1, <2>2 DEF ReturnsAll
<1>7. Buffer'
  BY <1>1, BufferKept DEF FundsInv
<1>8. QED
  BY <1>2, <1>3, <1>4, <1>5, <1>6, <1>7 DEF FundsInv

LEMMA DivideBound == \A n \in Nat \ {0}, x \in Nat : x \div n \in Nat /\ n * (x \div n) =< x
  OBVIOUS

LEMMA Distribute == \A n, a, b \in Nat : n * (a + b) = n * a + n * b
  OBVIOUS

LEMMA ProductOrder == \A n, a, b \in Nat : a =< b => n * a \in Nat /\ n * b \in Nat /\ n * a =< n * b
  OBVIOUS

LEMMA OneLess == \A n \in Nat \ {0}, c \in Nat : (n - 1) * c = n * c - c /\ n * c \in Nat
  OBVIOUS

\* The shares and the fees add up to what the root key has above the buffer, but
\* for what the gas limit g that was reckoned with leaves out.
LEMMA SharesFit ==
  ASSUME FundsInv, NEW g \in GasLimits, FreeBalance(g) >= 0
  PROVE  LET share == FreeBalance(g) \div Cardinality(Keys)
             short == IF g < GasUsed THEN Cardinality(Keys) * ((GasUsed - g) * GasPrice) ELSE 0
         IN  /\ share \in Nat
             /\ balance[Root] + short >=
                   RootKeyBuffer + Cardinality(Keys) * (share + GasUsed * GasPrice)
<1> DEFINE n == Cardinality(Keys)
<1> DEFINE free == FreeBalance(g)
<1> DEFINE share == free \div n
<1> DEFINE cost == GasUsed * GasPrice
<1> DEFINE limit == GasPrice * g
<1> DEFINE short == IF g < GasUsed THEN n * ((GasUsed - g) * GasPrice) ELSE 0
<1>1. n \in Nat \ {0}
  <2>1. n \in Nat
    BY FundingAssumption, FS_CardinalityType
  <2>2. n # 0
    BY FundingAssumption, FS_EmptySet
  <2>3. QED
    BY <2>1, <2>2
<1>2. /\ g \in Nat /\ GasPrice \in Nat /\ GasUsed \in Nat
      /\ RootKeyBuffer \in Nat /\ balance[Root] \in Int
  BY FundingAssumption, RootIsNoKey DEF GasLimits, FundsInv, Shape
<1>3. cost \in Nat /\ limit \in Nat
  BY <1>2
<1>4. free = balance[Root] - (n * limit + RootKeyBuffer)
  BY DEF FreeBalance
<1>5. /\ short \in Nat /\ n * cost \in Nat /\ n * limit \in Nat
      /\ n * cost =< n * limit + short
  <2>1. CASE g < GasUsed
    <3> DEFINE d == (GasUsed - g) * GasPrice
    <3>1. d \in Nat /\ cost = limit + d
      <4>1. PICK e \in Nat : e = GasUsed - g /\ GasUsed = g + e
        BY <1>2, <2>1
      <4>2. GasPrice * (g + e) = GasPrice * g + GasPrice * e
        BY <1>2, Distribute
      <4>3. d = GasPrice * e /\ cost = GasPrice * (g + e) /\ GasPrice * e \in Nat
        BY <1>2, <4>1
      <4>4. QED
        BY <4>2, <4>3
    <3>2. short = n * d
      BY <2>1
    <3> HIDE DEF d, cost, limit, short, n
    <3>3. n * (limit + d) = n * limit + n * d /\ n * limit \in Nat /\ n * d \in Nat
      BY <1>1, <1>3, <3>1, Distribute
    <3>4. QED
      BY <3>1, <3>2, <3>3
  <2>2. CASE g >= GasUsed
    <3>1. cost =< limit
      <4>1. GasPrice * GasUsed =< GasPrice * g
        BY <1>2, <2>2, ProductOrder
      <4>2. cost = GasPrice * GasUsed
        BY <1>2
      <4>3. QED
        BY <4>1, <4>2
    <3>2. short = 0
      BY <1>2, <2>2
    <3> HIDE DEF cost, limit, short, n
    <3>3. n * cost =< n * limit /\ n * cost \in Nat /\ n * limit \in Nat
      BY <1>1, <1>3, <3>1, ProductOrder
    <3>4. QED
      BY <3>2, <3>3
  <2>3. QED
    BY <1>2, <2>1, <2>2
<1> HIDE DEF n, free, cost, limit, short
<1>6. free \in Nat
  BY <1>2, <1>4, <1>5 DEF free
<1>7. share \in Nat /\ n * share =< free
  BY <1>1, <1>6, DivideBound
<1> HIDE DEF share
<1>8. n * (share + cost) = n * share + n * cost /\ n * share \in Nat
  BY <1>1, <1>3, <1>7, Distribute
<1>9. balance[Root] + short >= RootKeyBuffer + n * (share + cost)
  BY <1>2, <1>4, <1>5, <1>6, <1>7, <1>8
<1>10. QED
  BY <1>7, <1>9 DEF n, free, share, cost, short

LEMMA CalculateKeeps ==
  ASSUME FundsInv, CalculateSubKeyFunding
  PROVE  FundsInv'
<1> USE RootIsNoKey DEF chain, config, plan
<1>1. PICK g \in GasLimits :
        \/ FreeBalance(g) < 0 /\ stage' = "failed" /\ UNCHANGED <<pc, amount, planned>>
        \/ /\ FreeBalance(g) >= 0 /\ stage' = "funding" /\ planned' = g /\ Spawn(Keys, "prepare")
           /\ amount' = [t \in Accounts |->
                 IF t \in Keys THEN FreeBalance(g) \div Cardinality(Keys) ELSE None]
  BY DEF CalculateSubKeyFunding
<1>2. /\ stage = "calculate"
      /\ UNCHANGED <<balance, nonce, pool, done, refuses, leftover, healthCheck, Nonces,
                     returnPrice, txNonce, gasLimit>>
  BY DEF CalculateSubKeyFunding
<1>3. CASE stage' = "failed"
  BY <1>1, <1>2, <1>3, StageKeeps DEF transfers
<1>4. CASE stage' # "failed"
  <2> DEFINE share == FreeBalance(g) \div Cardinality(Keys)
  <2> DEFINE cost == GasUsed * GasPrice
  <2> DEFINE short == IF g < GasUsed THEN Cardinality(Keys) * ((GasUsed - g) * GasPrice) ELSE 0
  <2>1. /\ share \in Nat
        /\ balance[Root] + short >= RootKeyBuffer + Cardinality(Keys) * (share + cost)
    BY <1>1, <1>4, SharesFit
  <2>a. short = Underestimated'
    BY <1>1, <1>4 DEF Underestimated
  <2> HIDE DEF short
  <2>b. g \in Nat
    BY FundingAssumption DEF GasLimits
  <2>2. /\ stage' = "funding" /\ planned' = g
        /\ pc' = [t \in Accounts |-> IF t \in Keys THEN "prepare" ELSE "idle"]
        /\ amount' = [t \in Accounts |-> IF t \in Keys THEN share ELSE None]
    BY <1>1, <1>4 DEF Spawn
  <2> HIDE DEF share
  <2>3. cost \in Nat
    BY FundingAssumption
  <2> HIDE DEF cost
  <2>4. \A k \in Keys : <<"funding", k>> \notin done
    BY <1>2 DEF FundsInv, Mined, Early
  <2>5. Shape' /\ Amounts' /\ Running'
    BY <1>2, <2>1, <2>2, <2>b DEF FundsInv, Shape, Amounts, Running, Early, Funded, None
  <2>6. Pool'
    <3>1. \A tx \in pool : LeftPending(tx)
      BY <1>2 DEF FundsInv, Pool, HealthPending, FundingPending, UsingPending, ReturnPending,
         Funded, Returning
    <3>2. \A tx \in pool : LeftPending(tx)'
      BY <1>2, <3>1 DEF LeftPending
    <3>3. QED
      BY <1>2, <3>2 DEF Pool
  <2>7. Mined'
    BY <1>2, <2>2, <2>4 DEF FundsInv, Mined, Early, Funded, Returning
  <2>8. NoncesOfRoot'
    BY <1>2, <2>2, <2>4 DEF FundsInv, NoncesOfRoot
  <2>9. KeyFunds'
    BY <1>2, <2>2, <2>4 DEF FundsInv, KeyFunds, Spent, Returning
  <2>10. ReturnsAll'
    BY <2>2 DEF ReturnsAll, Returning
  <2>11. Buffer'
    <3>1. Unfunded' = Keys
      BY <1>2, <2>4 DEF Unfunded
    <3>2. \A k \in Keys : amount'[k] + GasUsed * GasPrice = share + cost
      BY <2>2 DEF cost
    <3>3. balance'[Root] + Underestimated' >= RootKeyBuffer + Cardinality(Unfunded') * (share + cost)
      BY <1>2, <2>1, <2>a, <3>1, Zenon
    <3>4. share + cost \in Nat
      <4>1. share \in Nat
        BY <2>1
      <4>2. QED
        BY <2>3, <4>1
    <3>5. PICK c \in Nat : c = share + cost
      BY <3>4
    <3>6. Reserved(c)'
      BY <3>1, <3>2, <3>3, <3>5 DEF Reserved
    <3>7. QED
      BY <3>6 DEF Buffer
  <2>12. QED
    BY <2>5, <2>6, <2>7, <2>8, <2>9, <2>10, <2>11 DEF FundsInv
<1>5. QED
  BY <1>3, <1>4

-----------------------------------------------------------------------------
(* The network mines a transaction. *)

\* The fields of what is in the pool.
LEMMA PendingFields ==
  ASSUME FundsInv, NEW tx \in pool
  PROVE  \/ LeftPending(tx)
         \/ HealthPending(tx) /\ tx.kind = "health" /\ tx.name = Root /\ tx.from = Root
            /\ tx.to = Root /\ tx.nonce = txNonce[Root]
         \/ \E k \in Keys :
              \/ FundingPending(tx, k) /\ tx.kind = "funding" /\ tx.name = k /\ tx.from = Root
                 /\ tx.to = k /\ tx.value = amount[k] /\ tx.nonce = txNonce[k]
              \/ UsingPending(tx, k) /\ tx.kind = "using" /\ tx.name = k /\ tx.from = k /\ tx.to = k
              \/ ReturnPending(tx, k) /\ tx.kind = "returning" /\ tx.name = k /\ tx.from = k
                 /\ tx.to = Root /\ tx.value = amount[k]
<1>1. CASE LeftPending(tx)
  BY <1>1
<1>2. CASE HealthPending(tx)
  BY <1>2 DEF HealthPending, TransferOf, Tx
<1>3. ASSUME NEW k \in Keys, FundingPending(tx, k)
      PROVE  /\ tx.kind = "funding" /\ tx.name = k /\ tx.from = Root /\ tx.to = k
             /\ tx.value = amount[k] /\ tx.nonce = txNonce[k]
  BY <1>3 DEF FundingPending, TransferOf, Tx
<1>4. ASSUME NEW k \in Keys, UsingPending(tx, k)
      PROVE  tx.kind = "using" /\ tx.name = k /\ tx.from = k /\ tx.to = k
  BY <1>4 DEF UsingPending, Tx
<1>5. ASSUME NEW k \in Keys, ReturnPending(tx, k)
      PROVE  /\ tx.kind = "returning" /\ tx.name = k /\ tx.from = k /\ tx.to = Root
             /\ tx.value = amount[k]
  BY <1>5 DEF ReturnPending, TransferOf, Tx
<1>6. QED
  BY <1>1, <1>2, <1>3, <1>4, <1>5 DEF FundsInv, Pool

LEMMA PoolMined ==
  ASSUME FundsInv, NEW tx \in pool, Mine(tx)
  PROVE  Pool'
<1> USE RootIsNoKey DEF config, plan, transfers
<1>1. /\ pool' = pool \ {tx} /\ done' = done \cup {<<tx.kind, tx.name>>}
      /\ nonce' = [nonce EXCEPT ![tx.from] = nonce[tx.from] + 1]
      /\ UNCHANGED <<leftover, stage, pc, amount, txNonce, gasLimit>>
  BY DEF Mine
<1> SUFFICES ASSUME NEW other \in pool, other # tx
             PROVE  \/ LeftPending(other)' \/ HealthPending(other)'
                    \/ \E k \in Keys : FundingPending(other, k)' \/ UsingPending(other, k)'
                                       \/ ReturnPending(other, k)'
  BY <1>1 DEF Pool
<1>2. CASE LeftPending(other)
  BY <1>1, <1>2 DEF LeftPending
<1>3. CASE HealthPending(other)
  <2>1. tx.kind # "health"
    BY <1>3, PendingFields DEF HealthPending, LeftPending
  <2>2. HealthPending(other)'
    BY <1>1, <1>3, <2>1 DEF HealthPending, TransferOf, Sent
  <2>3. QED
    BY <2>2
<1>4. ASSUME NEW k \in Keys, FundingPending(other, k) PROVE FundingPending(other, k)'
  <2>1. ~(tx.kind = "funding" /\ tx.name = k)
    BY <1>4, PendingFields DEF FundingPending, LeftPending
  <2>2. QED
    BY <1>1, <1>4, <2>1 DEF FundingPending, TransferOf, Sent
<1>5. ASSUME NEW k \in Keys, UsingPending(other, k) PROVE UsingPending(other, k)'
  <2>1. ASSUME stage \notin Returning PROVE tx.from # k /\ ~(tx.kind = "using" /\ tx.name = k)
    <3>1. \/ LeftPending(tx)
          \/ \E j \in Keys : UsingPending(tx, j) /\ tx.name = j /\ tx.from = j
      BY <1>5, <2>1, PendingFields DEF UsingPending, HealthPending, FundingPending, ReturnPending,
         Funded
    <3>2. ~UsingPending(tx, k)
      BY <1>5, <2>1 DEF UsingPending
    <3>3. QED
      BY <3>1, <3>2 DEF LeftPending
  <2>2. stage \notin Returning => nonce'[k] = nonce[k]
    BY <1>1, <2>1 DEF FundsInv, Shape
  <2>3. QED
    BY <1>1, <1>5, <2>1, <2>2 DEF UsingPending
<1>6. ASSUME NEW k \in Keys, ReturnPending(other, k) PROVE ReturnPending(other, k)'
  <2>1. ~(tx.kind = "returning" /\ tx.name = k)
    BY <1>6, PendingFields DEF ReturnPending, LeftPending
  <2>2. QED
    BY <1>1, <1>6, <2>1 DEF ReturnPending, TransferOf, Sent
<1>7. QED
  BY <1>2, <1>3, <1>4, <1>5, <1>6 DEF FundsInv, Pool

\* What a transaction of each kind does to the balances.
LEMMA MinedBalances ==
  ASSUME FundsInv, NEW tx \in pool, Mine(tx), NEW fee \in Nat, fee = GasUsed * GasPrice,
         NEW back \in Nat, back = GasUsed * returnPrice
  PROVE  \/ /\ LeftPending(tx) \/ (HealthPending(tx) /\ tx.kind = "health" /\ tx.name = Root)
            /\ tx.from = Root /\ \A k \in Keys : balance'[k] = balance[k]
         \/ \E k \in Keys :
              /\ FundingPending(tx, k) /\ tx.kind = "funding" /\ tx.name = k
              /\ tx.from = Root /\ balance'[Root] = balance[Root] - (amount[k] + fee)
              /\ balance'[k] = balance[k] + amount[k]
              /\ \A a \in Keys \ {k} : balance'[a] = balance[a]
         \/ \E k \in Keys :
              /\ UsingPending(tx, k) /\ tx.kind = "using" /\ tx.name = k /\ tx.from = k
              /\ balance'[k] = balance[k] - fee
              /\ \A a \in Accounts \ {k} : balance'[a] = balance[a]
         \/ \E k \in Keys :
              /\ ReturnPending(tx, k) /\ tx.kind = "returning" /\ tx.name = k
              /\ tx.from = k /\ amount[k] \in Nat
              /\ IF refuses THEN balance'[k] = balance[k] - back
                            ELSE balance'[k] = balance[k] - (amount[k] + back)
              /\ balance'[Root] >= balance[Root]
              /\ \A a \in Keys \ {k} : balance'[a] = balance[a]
<1> USE RootIsNoKey
<1>1. \A a \in Accounts :
        balance'[a] = balance[a]
            - (IF a = tx.from THEN Moved(tx) + (IF tx.kind = "returning" THEN back ELSE fee) ELSE 0)
            + (IF a = tx.to THEN Moved(tx) ELSE 0)
  BY DEF Mine, Cost, Price
<1>2. \A a \in Accounts : balance[a] \in Int
  BY DEF FundsInv, Shape
<1>3. CASE LeftPending(tx) \/ (HealthPending(tx) /\ tx.kind = "health" /\ tx.name = Root
                              /\ tx.from = Root /\ tx.to = Root)
  <2>1. tx.from = Root /\ tx.to = Root
    BY <1>3 DEF LeftPending
  <2>2. \A k \in Keys : balance'[k] = balance[k]
    BY <1>1, <1>2, <2>1
  <2>3. QED
    BY <1>3, <2>1, <2>2
<1>4. ASSUME NEW k \in Keys, FundingPending(tx, k), tx.kind = "funding", tx.name = k,
             tx.from = Root, tx.to = k, tx.value = amount[k]
      PROVE  /\ balance'[Root] = balance[Root] - (amount[k] + fee)
             /\ balance'[k] = balance[k] + amount[k]
             /\ \A a \in Keys \ {k} : balance'[a] = balance[a]
  <2>1. Moved(tx) = amount[k] /\ amount[k] \in Nat /\ k # Root
    BY <1>4 DEF Moved, FundingPending
  <2>2. QED
    BY <1>1, <1>2, <1>4, <2>1
<1>5. ASSUME NEW k \in Keys, UsingPending(tx, k), tx.kind = "using", tx.from = k, tx.to = k
      PROVE  /\ balance'[k] = balance[k] - fee
             /\ \A a \in Accounts \ {k} : balance'[a] = balance[a]
  <2>1. Moved(tx) = 0
    BY <1>5 DEF Moved
  <2>2. QED
    BY <1>1, <1>2, <1>5, <2>1
<1>6. ASSUME NEW k \in Keys, ReturnPending(tx, k), tx.kind = "returning", tx.name = k,
             tx.from = k, tx.to = Root, tx.value = amount[k]
      PROVE  /\ amount[k] \in Nat
             /\ IF refuses THEN balance'[k] = balance[k] - back
                           ELSE balance'[k] = balance[k] - (amount[k] + back)
             /\ balance'[Root] >= balance[Root]
             /\ \A a \in Keys \ {k} : balance'[a] = balance[a]
  <2>1. Moved(tx) = (IF refuses THEN 0 ELSE amount[k]) /\ k # Root
    BY <1>6 DEF Moved
  <2>2. amount[k] \in Nat
    BY <1>6 DEF ReturnPending, Returning, Funded, FundsInv, Amounts
  <2>3. CASE refuses
    BY <1>1, <1>2, <1>6, <2>1, <2>2, <2>3
  <2>4. CASE ~refuses
    BY <1>1, <1>2, <1>6, <2>1, <2>2, <2>4
  <2>5. QED
    BY <2>2, <2>3, <2>4
<1>7. QED
  BY <1>3, <1>4, <1>5, <1>6, PendingFields

\* What is kept whatever is mined.
LEMMA MinedSteps ==
  ASSUME FundsInv, NEW tx \in pool, Mine(tx)
  PROVE  Shape' /\ Amounts' /\ Running' /\ Mined' /\ NoncesOfRoot'
<1> USE RootIsNoKey DEF config, plan, transfers
<1>1. /\ done' = done \cup {<<tx.kind, tx.name>>} /\ tx.nonce = nonce[tx.from]
      /\ nonce' = [nonce EXCEPT ![tx.from] = nonce[tx.from] + 1]
      /\ UNCHANGED <<leftover, refuses, Nonces, stage, plan, pc, amount, txNonce, gasLimit>>
  BY DEF Mine
<1>2. tx.from \in Accounts
  BY PendingFields DEF LeftPending
<1>3. /\ nonce' \in [Accounts -> Nat] /\ nonce'[tx.from] = nonce[tx.from] + 1
      /\ \A a \in Accounts : nonce'[a] >= nonce[a]
  BY <1>1, <1>2 DEF FundsInv, Shape
<1>4. balance' \in [Accounts -> Int]
  <2>1. PICK fee \in Nat : fee = GasUsed * Price(tx)
    <3>1. Price(tx) \in Nat /\ GasUsed \in Nat
      BY FundingAssumption DEF Price, FundsInv, Shape
    <3>2. QED
      BY <3>1
  <2>2. Moved(tx) \in Int
    <3>1. CASE tx.from = tx.to
      BY <3>1 DEF Moved
    <3>2. CASE tx.from # tx.to
      <4>1. PICK k \in Keys : tx.value = amount[k]
        BY <3>2, PendingFields DEF LeftPending
      <4>2. QED
        BY <4>1 DEF Moved, FundsInv, Shape
    <3>3. QED
      BY <3>1, <3>2
  <2>3. \A a \in Accounts : balance[a] \in Int
    BY DEF FundsInv, Shape
  <2>4. balance' = [a \in Accounts |->
          balance[a] - (IF a = tx.from THEN Moved(tx) + fee ELSE 0)
                     + (IF a = tx.to THEN Moved(tx) ELSE 0)]
    BY <2>1 DEF Mine, Cost
  <2>5. QED
    BY <2>2, <2>3, <2>4
<1>5. Shape' /\ Amounts' /\ Running'
  BY <1>1, <1>3, <1>4 DEF FundsInv, Shape, Amounts, Running
<1>6. \A p : p \in done' => p \in done \/ p = <<tx.kind, tx.name>>
  BY <1>1
<1>7. tx.kind = "health" => stage \in {"health", "failed"} /\ Sent(Root) /\ tx.nonce = txNonce[Root]
                            /\ tx.from = Root
  BY PendingFields DEF LeftPending, HealthPending
<1>8. \A k \in Keys : tx.kind = "funding" /\ tx.name = k =>
        stage \in {"funding", "failed"} /\ Sent(k) /\ tx.nonce = txNonce[k] /\ tx.from = Root
  BY PendingFields DEF LeftPending, FundingPending
<1>9. tx.kind = "using" => stage \in Funded
  BY PendingFields DEF LeftPending, UsingPending
<1>10. \A k \in Keys : tx.kind = "returning" /\ tx.name = k => stage \in Returning /\ Sent(k)
  BY PendingFields DEF LeftPending, ReturnPending
<1>11. Mined'
  <2>1. \A t \in Accounts : Sent(t)' <=> Sent(t)
    BY <1>1 DEF Sent
  <2>2. <<"health", Root>> \in done' => stage # "new" /\ (stage = "health" => Sent(Root))
    BY <1>6, <1>7 DEF FundsInv, Mined
  <2>3. ASSUME NEW k \in Keys
        PROVE  /\ <<"funding", k>> \in done' =>
                     stage \notin Early /\ (stage = "funding" => Sent(k))
               /\ <<"using", k>> \in done' => stage \in Funded
               /\ <<"returning", k>> \in done' => stage \in Returning /\ Sent(k)
    BY <1>6, <1>8, <1>9, <1>10 DEF FundsInv, Mined, Early
  <2>4. QED
    BY <1>1, <2>1, <2>2, <2>3 DEF FundsInv, Mined
<1>12. NoncesOfRoot'
  <2>1. /\ nonce[Root] \in Nat /\ nonce'[Root] \in Nat /\ nonce'[Root] >= nonce[Root]
        /\ Nonces[Root] \in Nat /\ \A t \in Accounts : txNonce[t] \in Int
    BY <1>3 DEF FundsInv, Shape
  <2>2. \A t \in Accounts : NonceTaken(t)' <=> NonceTaken(t)
    BY <1>1 DEF NonceTaken
  <2>3. stage = "health" /\ <<"health", Root>> \in done' => nonce'[Root] >= txNonce[Root] + 1
    BY <1>1, <1>3, <1>6, <1>7, <2>1 DEF FundsInv, NoncesOfRoot
  <2>4. stage = "funding" =>
          \A k \in Keys : <<"funding", k>> \in done' => nonce'[Root] >= txNonce[k] + 1
    BY <1>1, <1>3, <1>6, <1>8, <2>1 DEF FundsInv, NoncesOfRoot
  <2>5. nonce[Root] >= Nonces[Root] => nonce'[Root] >= Nonces'[Root]
    BY <1>1, <2>1
  <2>6. QED
    BY <1>1, <2>2, <2>3, <2>4, <2>5 DEF FundsInv, NoncesOfRoot
<1>13. QED
  BY <1>5, <1>11, <1>12

LEMMA KeyFundsMined ==
  ASSUME FundsInv, NEW tx \in pool, Mine(tx)
  PROVE  KeyFunds'
<1> USE RootIsNoKey DEF config, plan, transfers
<1>1. PICK fee \in Nat : fee = GasUsed * GasPrice
  BY FundingAssumption
<1>b. PICK back \in Nat : back = GasUsed * returnPrice
  BY FundingAssumption DEF FundsInv, Shape
<1>2. /\ done' = done \cup {<<tx.kind, tx.name>>} /\ UNCHANGED <<stage, amount>>
  BY DEF Mine
<1> SUFFICES ASSUME stage \notin Returning, NEW k \in Keys
             PROVE  balance'[k] + Spent(k)' = IF <<"funding", k>> \in done' THEN amount[k] ELSE 0
  BY <1>2 DEF KeyFunds
<1>3. balance[k] + Spent(k) = IF <<"funding", k>> \in done THEN amount[k] ELSE 0
  BY DEF FundsInv, KeyFunds
<1>4. /\ Spent(k) = IF <<"using", k>> \in done THEN fee ELSE 0
      /\ Spent(k)' = IF <<"using", k>> \in done' THEN fee ELSE 0
  BY <1>1 DEF Spent
<1>5. balance[k] \in Int /\ amount[k] \in Int
  BY DEF FundsInv, Shape
<1>6. CASE tx.name # k \/ tx.kind \notin {"funding", "using"}
  <2>1. /\ <<"funding", k>> \in done' <=> <<"funding", k>> \in done
        /\ <<"using", k>> \in done' <=> <<"using", k>> \in done
    BY <1>2, <1>6
  <2>2. balance'[k] = balance[k]
    BY <1>1, <1>b, <1>6, MinedBalances DEF ReturnPending
  <2>3. QED
    BY <1>3, <1>4, <2>1, <2>2
<1>7. CASE tx.name = k /\ tx.kind = "funding"
  <2>1. /\ balance'[k] = balance[k] + amount[k] /\ <<"funding", k>> \notin done
        /\ stage \in {"funding", "failed"}
    BY <1>1, <1>b, <1>7, MinedBalances DEF LeftPending, FundingPending
  <2>2. <<"using", k>> \notin done /\ <<"using", k>> \notin done' /\ <<"funding", k>> \in done'
    BY <1>2, <1>7, <2>1 DEF FundsInv, Mined, Funded
  <2>3. QED
    BY <1>3, <1>4, <1>5, <2>1, <2>2
<1>8. CASE tx.name = k /\ tx.kind = "using"
  <2>1. balance'[k] = balance[k] - fee /\ UsingPending(tx, k)
    BY <1>1, <1>b, <1>8, MinedBalances DEF LeftPending
  <2>2. <<"using", k>> \notin done /\ <<"using", k>> \in done'
    BY <1>2, <1>8, <2>1 DEF UsingPending
  <2>3. <<"funding", k>> \in done' <=> <<"funding", k>> \in done
    BY <1>2, <1>8
  <2>4. QED
    BY <1>3, <1>4, <1>5, <2>1, <2>2, <2>3
<1>9. QED
  BY <1>6, <1>7, <1>8

LEMMA ReturnsMined ==
  ASSUME FundsInv, NEW tx \in pool, Mine(tx)
  PROVE  ReturnsAll'
<1> USE RootIsNoKey DEF config, plan, transfers
<1>1. PICK fee \in Nat : fee = GasUsed * GasPrice
  BY FundingAssumption
<1>b. PICK back \in Nat : back = GasUsed * returnPrice
  BY FundingAssumption DEF FundsInv, Shape
<1>2. /\ done' = done \cup {<<tx.kind, tx.name>>} /\ pool' = pool \ {tx}
      /\ UNCHANGED <<stage, refuses, plan, pc, amount>>
  BY DEF Mine
<1> SUFFICES ASSUME stage \in Returning, ~refuses, NEW k \in Keys
             PROVE  /\ <<"returning", k>> \in done' => Small(k)'
                    /\ pc[k] = "ok" => Small(k)'
                    /\ pc[k] \in {"prepare", "send"} => Covered(k)'
                    /\ \A other \in pool :
                          other.kind = "returning" /\ other.name = k => Covered(k)'
  BY <1>2 DEF ReturnsAll
<1>3. balance[k] \in Int /\ amount[k] \in Int
  BY DEF FundsInv, Shape
<1>4. \A g \in GasLimits : g * returnPrice \in Nat
  <2>1. returnPrice \in Nat /\ GasLimits \subseteq Nat
    BY FundingAssumption DEF GasLimits, FundsInv, Shape
  <2>2. QED
    BY <2>1
<1>5. balance'[k] \in Int /\ balance'[k] =< balance[k]
  <2>1. balance'[k] \in Int
    BY MinedSteps DEF Shape
  <2>2. \A j \in Keys : ~FundingPending(tx, j)
    BY DEF FundingPending, Returning
  <2>3. \/ balance'[k] = balance[k]
        \/ balance'[k] = balance[k] - fee \/ balance'[k] = balance[k] - back
        \/ (amount[k] \in Nat /\ balance'[k] = balance[k] - (amount[k] + back))
    BY <1>1, <1>b, <2>2, MinedBalances
  <2>4. QED
    BY <1>3, <2>1, <2>3
<1>6. Small(k) => Small(k)'
  <2>1. ASSUME NEW g \in GasLimits, balance[k] =< g * returnPrice PROVE balance'[k] =< g * returnPrice
    BY <1>3, <1>4, <1>5, <2>1
  <2>2. QED
    BY <1>2, <2>1 DEF Small
<1>7. Covered(k) => Covered(k)'
  <2>1. ASSUME NEW g \in GasLimits, balance[k] =< amount[k] + g * returnPrice
        PROVE  balance'[k] =< amount'[k] + g * returnPrice
    <3>1. g * returnPrice \in Nat /\ amount'[k] = amount[k]
      BY <1>2, <1>4
    <3>2. QED
      BY <1>3, <1>5, <2>1, <3>1
  <2>2. QED
    BY <1>2, <2>1 DEF Covered
<1>8. tx.kind = "returning" /\ tx.name = k => Small(k)'
  <2> SUFFICES ASSUME tx.kind = "returning", tx.name = k PROVE Small(k)'
    OBVIOUS
  <2>1. balance'[k] = balance[k] - (amount[k] + back)
    BY <1>1, <1>b, MinedBalances DEF LeftPending
  <2>2. PICK g \in GasLimits : balance[k] =< amount[k] + g * returnPrice
    BY DEF FundsInv, ReturnsAll, Covered
  <2>3. g * returnPrice \in Nat
    BY <1>4
  <2>4. balance'[k] =< g * returnPrice
    BY <1>3, <2>1, <2>2, <2>3
  <2>5. QED
    BY <1>2, <2>4 DEF Small
<1>9. <<"returning", k>> \in done' =>
        <<"returning", k>> \in done \/ (tx.kind = "returning" /\ tx.name = k)
  BY <1>2
<1>10. QED
  BY <1>6, <1>7, <1>8, <1>9 DEF FundsInv, ReturnsAll

LEMMA BufferMined ==
  ASSUME FundsInv, NEW tx \in pool, Mine(tx)
  PROVE  Buffer'
<1> USE RootIsNoKey DEF config, plan, transfers
<1>1. PICK fee \in Nat : fee = GasUsed * GasPrice
  BY FundingAssumption
<1>b. PICK back \in Nat : back = GasUsed * returnPrice
  BY FundingAssumption DEF FundsInv, Shape
<1>2. /\ done' = done \cup {<<tx.kind, tx.name>>} /\ UNCHANGED <<leftover, plan, amount>>
  BY DEF Mine
<1> SUFFICES ASSUME planned # None, ~leftover
             PROVE  \E c \in Nat : Reserved(c)'
  BY <1>2 DEF Buffer
<1>3. PICK c \in Nat : Reserved(c)
  BY DEF FundsInv, Buffer
<1>4. ~LeftPending(tx) /\ ~HealthPending(tx)
  <2>1. PICK k \in Keys : amount[k] \in Nat
    BY FundingAssumption DEF FundsInv, Amounts
  <2>2. amount[k] # None
    BY <2>1 DEF None
  <2>3. QED
    BY <2>2 DEF LeftPending, HealthPending
<1>u. PICK short \in Nat : short = Underestimated /\ short = Underestimated'
  <2>1. Underestimated \in Nat
    BY UnderestimatedType DEF FundsInv
  <2>2. Underestimated' = Underestimated
    BY <1>2, UnderestimatedKept
  <2>3. QED
    BY <2>1, <2>2
<1>5. balance[Root] \in Int /\ RootKeyBuffer \in Nat
  BY FundingAssumption DEF FundsInv, Shape
<1>6. IsFiniteSet(Unfunded)
  BY FundingAssumption, FS_Subset DEF Unfunded
<1> DEFINE n == Cardinality(Unfunded)
<1>7. n \in Nat
  BY <1>6, FS_CardinalityType
<1>8. /\ balance[Root] + short >= RootKeyBuffer + n * c
      /\ \A k \in Unfunded : amount[k] + fee = c
  BY <1>1, <1>3, <1>u DEF Reserved
<1>9. CASE tx.kind = "funding"
  <2>1. PICK k \in Keys :
          /\ tx.name = k /\ FundingPending(tx, k)
          /\ balance'[Root] = balance[Root] - (amount[k] + fee)
    BY <1>1, <1>b, <1>4, <1>9, MinedBalances
  <2>2. k \in Unfunded /\ Unfunded' = Unfunded \ {k}
    BY <1>2, <1>9, <2>1 DEF Unfunded, FundingPending
  <2>3. Cardinality(Unfunded') = n - 1 /\ n # 0
    <3>1. Cardinality(Unfunded \ {k}) = n - 1
      BY <1>6, <2>2, FS_RemoveElement
    <3>2. n # 0
      BY <1>6, <2>2, FS_EmptySet
    <3>3. QED
      BY <2>2, <3>1, <3>2
  <2> HIDE DEF n
  <2>4. (n - 1) * c = n * c - c /\ n * c \in Nat
    BY <1>7, <2>3, OneLess
  <2>5. balance'[Root] = balance[Root] - c
    BY <1>8, <2>1, <2>2
  <2>6. balance'[Root] + short >= RootKeyBuffer + (n - 1) * c
    BY <1>5, <1>8, <2>4, <2>5
  <2>7. \A j \in Unfunded' : amount'[j] + GasUsed * GasPrice = c
    BY <1>1, <1>2, <1>8, <2>2
  <2>8. Reserved(c)'
    BY <1>u, <2>3, <2>6, <2>7 DEF Reserved
  <2>9. QED
    BY <2>8
<1>10. CASE tx.kind # "funding"
  <2>1. balance'[Root] \in Int /\ balance'[Root] >= balance[Root]
    <3>1. balance'[Root] \in Int
      BY MinedSteps DEF Shape
    <3>2. balance'[Root] = balance[Root] \/ balance'[Root] >= balance[Root]
      BY <1>1, <1>b, <1>4, <1>10, MinedBalances
    <3>3. QED
      BY <1>5, <3>1, <3>2
  <2>2. Unfunded' = Unfunded
    BY <1>2, <1>10 DEF Unfunded
  <2> HIDE DEF n
  <2>3. n * c \in Nat
    BY <1>7
  <2>4. balance'[Root] + short >= RootKeyBuffer + n * c
    BY <1>5, <1>8, <2>1, <2>3
  <2>5. \A j \in Unfunded' : amount'[j] + GasUsed * GasPrice = c
    BY <1>1, <1>2, <1>8, <2>2
  <2>6. Reserved(c)'
    BY <1>u, <2>2, <2>4, <2>5 DEF Reserved, n
  <2>7. QED
    BY <2>6
<1>11. QED
  BY <1>9, <1>10

LEMMA MineKeeps ==
  ASSUME FundsInv, NEW tx \in pool, Mine(tx)
  PROVE  FundsInv'
  BY MinedSteps, PoolMined, KeyFundsMined, ReturnsMined, BufferMined DEF FundsInv

-----------------------------------------------------------------------------
LEMMA FundsStep == FundsInv /\ [Next]_vars => FundsInv'
<1> SUFFICES ASSUME FundsInv, [Next]_vars PROVE FundsInv'
  OBVIOUS
<1>1. CASE Client
  <2>1. CASE Start
    BY <2>1, StartKeeps
  <2>2. CASE StartFails \/ StartUnanswered \/ HealthChecked \/ FundingDone \/ NoPrice \/ ReturnDone
    BY <2>2, StageKeeps DEF StartFails, StartUnanswered, HealthChecked, FundingDone, NoPrice,
       ReturnDone
  <2>3. CASE CalculateSubKeyFunding
    BY <2>3, CalculateKeeps
  <2>4. CASE GetSuggestedLegacyFees
    BY <2>4, ReturnPriceKeeps
  <2>5. QED
    BY <1>1, <2>1, <2>2, <2>3, <2>4 DEF Client
<1>2. ASSUME NEW t \in Accounts, Transfer(t) PROVE FundsInv'
  BY <1>2, TransferKeeps
<1>3. ASSUME NEW k \in Keys, ReadBalance(k) \/ ReadBalanceFails(k) \/ UseKey(k) PROVE FundsInv'
  BY <1>3, ReadBalanceKeeps, UseKeyKeeps
<1>4. CASE UpdateNonces \/ ReturnFunds
  BY <1>4, UpdateNoncesKeeps, StageKeeps DEF ReturnFunds
<1>5. ASSUME NEW tx \in pool, Mine(tx) PROVE FundsInv'
  BY <1>5, MineKeeps
<1>6. CASE UNCHANGED vars
  <2>1. /\ UNCHANGED <<balance, nonce, pool, done, refuses, leftover, healthCheck>>
        /\ UNCHANGED <<Nonces, stage, planned, returnPrice, pc, amount, txNonce, gasLimit>>
    BY <1>6 DEF vars, chain, config, plan, transfers
  <2>2. Pool'
    BY <2>1, PoolKept DEF FundsInv, Sent
  <2>3. Shape' /\ Amounts' /\ Running' /\ Mined' /\ NoncesOfRoot'
    BY <2>1 DEF FundsInv, Shape, Amounts, Running, Mined, Sent, NoncesOfRoot, NonceTaken
  <2>4. KeyFunds' /\ ReturnsAll' /\ Buffer'
    BY <2>1, BufferKept DEF FundsInv, KeyFunds, Spent, ReturnsAll, Small, Covered
  <2>5. QED
    BY <2>2, <2>3, <2>4 DEF FundsInv
<1>7. QED
  BY <1>1, <1>2, <1>3, <1>4, <1>5, <1>6 DEF Next

LEMMA FundsInvariant == Spec => []FundsInv
  BY FundsInit, FundsStep, PTL DEF Spec

\* NewClientRaw returns a client only when the chain has the funds of every
\* ephemeral key and every nonce that was taken from the root key, although
\* each transfer of the group may fail, be lost or be mined at any time.
THEOREM FundedWhenReady == Spec => []ReadyMeansFunded
<1>1. FundsInv => ReadyMeansFunded
  <2> SUFFICES ASSUME FundsInv, stage = "ready"
               PROVE  /\ \A k \in Keys : balance[k] + Spent(k) = amount[k]
                      /\ nonce[Root] >= Nonces[Root]
    BY DEF ReadyMeansFunded
  <2>1. \A k \in Keys : <<"funding", k>> \in done
    BY DEF FundsInv, Mined, Funded
  <2>2. \A k \in Keys : balance[k] + Spent(k) = amount[k]
    BY <2>1 DEF FundsInv, KeyFunds, Returning
  <2>3. nonce[Root] >= Nonces[Root]
    BY DEF FundsInv, NoncesOfRoot
  <2>4. QED
    BY <2>2, <2>3
<1>2. QED
  BY <1>1, FundsInvariant, PTL

\* What CalculateSubKeyFunding gives to the keys leaves root_key_funds_buffer
\* on the root key, at every moment of the transfers and after them, for every
\* number of keys: the division rounds down and a fee is kept for each transfer.
\* If that fee was reckoned with a configured gas limit below what a transfer
\* needs, at most the difference is missing.
THEOREM BufferIsKept == Spec => []RootKeepsBuffer
<1>1. FundsInv => RootKeepsBuffer
  <2> SUFFICES ASSUME FundsInv, planned # None, ~leftover
               PROVE  balance[Root] + Underestimated >= RootKeyBuffer
    BY DEF RootKeepsBuffer
  <2>1. PICK c \in Nat : Reserved(c)
    BY DEF FundsInv, Buffer
  <2>2. PICK n \in Nat : n = Cardinality(Unfunded)
    BY FundingAssumption, FS_Subset, FS_CardinalityType DEF Unfunded
  <2>3. PICK short \in Nat : short = Underestimated
    BY UnderestimatedType DEF FundsInv
  <2>4. balance[Root] + short >= RootKeyBuffer + n * c
    BY <2>1, <2>2, <2>3 DEF Reserved
  <2>5. n * c \in Nat /\ balance[Root] \in Int /\ RootKeyBuffer \in Nat
    BY FundingAssumption, RootIsNoKey DEF FundsInv, Shape
  <2>6. balance[Root] + short >= RootKeyBuffer
    BY <2>4, <2>5
  <2>7. QED
    BY <2>3, <2>6
<1>2. QED
  BY <1>1, FundsInvariant, PTL

\* ReturnFunds reports no error only when every key has at most the fee of a
\* transfer left, unless the root key's account has refused the funds.
THEOREM ReturnedKeysAreEmpty == Spec => []ReturnedMeansEmpty
<1>1. FundsInv => ReturnedMeansEmpty
  BY DEF FundsInv, Mined, ReturnsAll, Small, Returning, ReturnedMeansEmpty
<1>2. QED
  BY <1>1, FundsInvariant, PTL
=============================================================================
