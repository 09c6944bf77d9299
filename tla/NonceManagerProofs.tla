------------------------- MODULE NonceManagerProofs -------------------------
(* Theorems about the key pool of nonce.go, for any number of keys and goroutines. *)
EXTENDS NonceManager, FiniteSetTheorems, FunctionTheorems, TLAPS

-----------------------------------------------------------------------------
(* Type correctness. *)

\* Every goroutine state the actions build is well typed.
LEMMA UserStates ==
    /\ IdleUser \in UserState
    /\ FailedUser \in UserState
    /\ ExpiredUser \in UserState
    /\ \A ch \in Gens : WaitingOn(ch) \in UserState
    /\ \A len \in Nat : TimedOut(len) \in UserState
    /\ \A kn \in KeyNonce : Holding(kn) \in UserState
<1>1. NoKey \in KeyNonce /\ 0 \in Gens
  BY NonceManagerAssumption DEF NoKey, KeyNonce, Keys, Gens
<1>2. QED
  BY <1>1 DEF IdleUser, FailedUser, ExpiredUser, WaitingOn, TimedOut, Holding, UserAt, UserState

LEMMA SyncerStates ==
    /\ FreeSyncer \in SyncerState
    /\ \A kn \in KeyNonce, n \in 0 .. KeySyncRetries - 1 : Polling(kn, n) \in SyncerState
    /\ \A kn \in KeyNonce : Matched(kn) \in SyncerState /\ Exhausted(kn) \in SyncerState
    /\ \A kn \in KeyNonce, ch \in Gens : Sending(kn, ch) \in SyncerState
    /\ \A kn \in KeyNonce, len \in Nat : Appending(kn, len) \in SyncerState
<1>1. NoKey \in KeyNonce /\ 0 \in Gens /\ 0 \in 0 .. KeySyncRetries - 1
  BY NonceManagerAssumption DEF NoKey, KeyNonce, Keys, Gens
<1>2. QED
  BY <1>1 DEF FreeSyncer, Polling, Matched, Exhausted, Sending, Appending,
     SyncerAt, SyncerState

LEMMA UpdaterStates ==
    /\ IdleUpdater \in UpdaterState
    /\ \A todo \in SUBSET Keys : UpdaterAt("reading", todo, 1) \in UpdaterState
    /\ \A n \in 1 .. NumKeys : UpdaterAt("filling", {}, n) \in UpdaterState
  BY NonceManagerAssumption DEF IdleUpdater, UpdaterAt, UpdaterState

LEMMA TypeInit == Init => TypeOK
<1> SUFFICES ASSUME Init PROVE TypeOK
  OBVIOUS
<1>1. /\ mined \in [Keys -> Nat] /\ inflight \in [Keys -> Nat] /\ Nonces \in [Keys -> Nat]
      /\ gen \in Gens /\ updates \in 0 .. MaxUpdates /\ Errors \in Nat
  BY NonceManagerAssumption DEF Init, Gens
<1>2. /\ user \in [Users -> UserState] /\ syncer \in [Syncers -> SyncerState]
      /\ updater \in UpdaterState
  BY UserStates, SyncerStates, UpdaterStates DEF Init
<1>3. chans \in [Gens -> Seq(KeyNonce)]
  BY DEF Init
<1>4. \A g \in Gens : Len(chans[g]) =< Capacity
  BY NonceManagerAssumption DEF Init, Capacity
<1>5. QED
  BY <1>1, <1>2, <1>3, <1>4 DEF Init, TypeOK

\* Sending to and receiving from a channel keep the channels well typed.
LEMMA ChannelSend ==
  ASSUME TypeOK, NEW c \in Gens, NEW kn \in KeyNonce, Len(chans[c]) < Capacity,
         chans' = [chans EXCEPT ![c] = Append(@, kn)]
  PROVE  /\ chans' \in [Gens -> Seq(KeyNonce)]
         /\ \A g \in Gens : Len(chans'[g]) =< Capacity
<1>1. chans \in [Gens -> Seq(KeyNonce)] /\ chans[c] \in Seq(KeyNonce)
  BY DEF TypeOK
<1>2. \A g \in Gens : chans'[g] = IF g = c THEN Append(chans[c], kn) ELSE chans[g]
  BY <1>1
<1>3. Append(chans[c], kn) \in Seq(KeyNonce) /\ Len(Append(chans[c], kn)) = Len(chans[c]) + 1
  BY <1>1
<1>4. \A g \in Gens : Len(chans[g]) =< Capacity
  BY DEF TypeOK
<1>5. Capacity \in Nat /\ Len(chans[c]) \in Nat
  BY <1>1, NonceManagerAssumption DEF Capacity
<1>6. QED
  BY <1>1, <1>2, <1>3, <1>4, <1>5

LEMMA ChannelReceive ==
  ASSUME TypeOK, NEW c \in Gens, chans[c] # <<>>,
         chans' = [chans EXCEPT ![c] = Tail(@)]
  PROVE  /\ Head(chans[c]) \in KeyNonce
         /\ chans' \in [Gens -> Seq(KeyNonce)]
         /\ \A g \in Gens : Len(chans'[g]) =< Capacity
<1>1. chans \in [Gens -> Seq(KeyNonce)] /\ chans[c] \in Seq(KeyNonce)
  BY DEF TypeOK
<1>2. \A g \in Gens : chans'[g] = IF g = c THEN Tail(chans[c]) ELSE chans[g]
  BY <1>1
<1>3. Tail(chans[c]) \in Seq(KeyNonce) /\ Len(Tail(chans[c])) = Len(chans[c]) - 1
  BY <1>1
<1>4. \A g \in Gens : Len(chans[g]) =< Capacity
  BY DEF TypeOK
<1>5. Capacity \in Nat /\ Len(chans[c]) \in Nat
  BY <1>1, NonceManagerAssumption DEF Capacity
<1>6. QED
  BY <1>1, <1>2, <1>3, <1>4, <1>5

LEMMA TypeStep == TypeOK /\ [Next]_vars => TypeOK'
<1> SUFFICES ASSUME TypeOK, [Next]_vars PROVE TypeOK'
  OBVIOUS
<1>a. /\ \A u \in Users : user[u].ch \in Gens /\ user[u].seen \in Nat
                            /\ user[u].kn \in KeyNonce
      /\ \A s \in Syncers : /\ syncer[s].kn \in KeyNonce
                            /\ syncer[s].tries \in 0 .. KeySyncRetries - 1
                            /\ syncer[s].ch \in Gens /\ syncer[s].seen \in Nat
      /\ updater.todo \in SUBSET Keys /\ updater.next \in 1 .. NumKeys
  BY DEF TypeOK, UserState, SyncerState, UpdaterState
<1> USE NonceManagerAssumption DEF node, pool, update
<1>1. CASE UpdateNonces
  BY <1>1, UpdaterStates DEF UpdateNonces, TypeOK, Gens
<1>2. ASSUME NEW k \in Keys, ReadNonce(k) PROVE TypeOK'
  <2>1. updater.todo \ {k} \in SUBSET Keys
    BY <1>a
  <2>2. QED
    BY <1>2, <2>1, UpdaterStates DEF ReadNonce, TypeOK
<1>3. CASE ReadNonceFails
  BY <1>3, UpdaterStates DEF ReadNonceFails, TypeOK
<1>4. CASE MakeChannel
  BY <1>4, UpdaterStates DEF MakeChannel, TypeOK, Gens
<1>5. CASE Enqueue
  <2> DEFINE kn == [KeyNum |-> updater.next, Nonce |-> Nonces[updater.next]]
  <2>1. kn \in KeyNonce /\ updater.next + 1 \in 1 .. NumKeys
    <3>1. updater.next \in Keys /\ updater.next + 1 \in 1 .. NumKeys
      BY <1>5, <1>a DEF Enqueue, Keys
    <3>2. Nonces[updater.next] \in Nat
      BY <3>1 DEF TypeOK
    <3>3. QED
      BY <3>1, <3>2 DEF KeyNonce
  <2>2. gen \in Gens /\ Len(chans[gen]) < Capacity /\ chans' = [chans EXCEPT ![gen] = Append(@, kn)]
    BY <1>5 DEF Enqueue, TypeOK
  <2> HIDE DEF kn
  <2>3. chans' \in [Gens -> Seq(KeyNonce)] /\ \A g \in Gens : Len(chans'[g]) =< Capacity
    BY <2>1, <2>2, ChannelSend
  <2>4. updater' \in UpdaterState
    BY <1>5, <2>1, UpdaterStates DEF Enqueue
  <2>5. QED
    BY <1>5, <2>3, <2>4 DEF Enqueue, TypeOK
<1>6. CASE UpdateNoncesReturns
  BY <1>6, UpdaterStates DEF UpdateNoncesReturns, TypeOK
<1>7. ASSUME NEW u \in Users, AnySyncedKey(u) PROVE TypeOK'
  BY <1>7, UserStates DEF AnySyncedKey, TypeOK
<1>8. ASSUME NEW u \in Users, NEW s \in Syncers, ReceiveKey(u, s) PROVE TypeOK'
  <2> DEFINE kn == Head(chans[user[u].ch])
  <2>1. /\ kn \in KeyNonce
        /\ chans' \in [Gens -> Seq(KeyNonce)]
        /\ \A g \in Gens : Len(chans'[g]) =< Capacity
    BY <1>8, <1>a, ChannelReceive DEF ReceiveKey
  <2>2. Polling(kn, 0) \in SyncerState /\ Holding(kn) \in UserState
    BY <2>1, UserStates, SyncerStates
  <2>3. QED
    BY <1>8, <2>1, <2>2 DEF ReceiveKey, TypeOK
<1>9. ASSUME NEW u \in Users, Timeout(u) PROVE TypeOK'
  BY <1>9, UserStates DEF Timeout, TypeOK
<1>9a. ASSUME NEW u \in Users, TimeoutLock(u) PROVE TypeOK'
  <2>1. TimedOut(Errors) \in UserState
    BY UserStates DEF TypeOK
  <2>2. QED
    BY <1>9a, <2>1 DEF TimeoutLock, TypeOK
<1>10. ASSUME NEW u \in Users, TimeoutReturns(u) PROVE TypeOK'
  <2>1. Errors' \in Nat
    BY <1>10, <1>a DEF TimeoutReturns
  <2>2. QED
    BY <1>10, <2>1, UserStates DEF TimeoutReturns, TypeOK
<1>11. ASSUME NEW u \in Users, SendTx(u) PROVE TypeOK'
  <2>1. inflight' \in [Keys -> Nat]
    <3>1. user[u].kn.KeyNum \in Keys
      BY <1>a DEF KeyNonce
    <3>2. inflight' = [inflight EXCEPT ![user[u].kn.KeyNum] = inflight[user[u].kn.KeyNum] + 1]
      BY <1>11 DEF SendTx
    <3>3. inflight \in [Keys -> Nat]
      BY DEF TypeOK
    <3>4. QED
      BY <3>1, <3>2, <3>3
  <2>2. user' \in [Users -> UserState]
    BY <1>11, UserStates DEF SendTx, TypeOK
  <2>3. QED
    BY <1>11, <2>1, <2>2 DEF SendTx, TypeOK
<1>12. ASSUME NEW u \in Users, SendTxFails(u) PROVE TypeOK'
  BY <1>12, UserStates DEF SendTxFails, TypeOK
<1>13. ASSUME NEW s \in Syncers, NonceMatches(s) PROVE TypeOK'
  BY <1>13, <1>a, SyncerStates DEF NonceMatches, TypeOK
<1>14. ASSUME NEW s \in Syncers, AttemptFails(s) PROVE TypeOK'
  <2>1. ~LastAttempt(s) => syncer[s].tries + 1 \in 0 .. KeySyncRetries - 1
    BY <1>a DEF LastAttempt
  <2>2. QED
    BY <1>14, <1>a, <2>1, SyncerStates DEF AttemptFails, TypeOK
<1>15. ASSUME NEW s \in Syncers, EvaluateChannel(s) PROVE TypeOK'
  BY <1>15, <1>a, SyncerStates DEF EvaluateChannel, TypeOK
<1>16. ASSUME NEW s \in Syncers, ReturnKey(s) PROVE TypeOK'
  <2>1. SyncedKey(s) \in KeyNonce
    BY <1>a DEF SyncedKey, KeyNonce
  <2>2. chans' \in [Gens -> Seq(KeyNonce)] /\ \A g \in Gens : Len(chans'[g]) =< Capacity
    BY <1>16, <1>a, <2>1, ChannelSend DEF ReturnKey
  <2>3. QED
    BY <1>16, <2>2, SyncerStates DEF ReturnKey, TypeOK
<1>17. ASSUME NEW s \in Syncers, ReadErrors(s) PROVE TypeOK'
  BY <1>17, <1>a, SyncerStates DEF ReadErrors, TypeOK
<1>18. ASSUME NEW s \in Syncers, AppendError(s) PROVE TypeOK'
  BY <1>18, <1>a, SyncerStates DEF AppendError, TypeOK
<1>19. ASSUME NEW k \in Keys, Mine(k) PROVE TypeOK'
  BY <1>19 DEF Mine, TypeOK
<1>20. CASE UNCHANGED vars
  BY <1>20 DEF vars, TypeOK
<1>21. QED
  BY <1>1, <1>2, <1>3, <1>4, <1>5, <1>6, <1>7, <1>8, <1>9, <1>9a, <1>10, <1>11, <1>12,
     <1>13, <1>14, <1>15, <1>16, <1>17, <1>18, <1>19, <1>20
     DEF Next, Updater, User, Syncer

(***************************************************************************)
(* Every reachable state is well typed; in particular no channel of        *)
(* nonce.go ever holds more than len(m.Addresses) keys and a retry loop    *)
(* never exceeds KeySyncRetries.                                           *)
(***************************************************************************)
THEOREM TypeCorrect == Spec => []TypeOK
  BY TypeInit, TypeStep, PTL DEF Spec

-----------------------------------------------------------------------------
(* What a send and a receive do to the keys in the channels. *)

LEMMA SendEntries ==
  ASSUME TypeOK, NEW c \in Gens, NEW kn \in KeyNonce,
         chans' = [chans EXCEPT ![c] = Append(@, kn)]
  PROVE  /\ \A g \in Gens \ {c} : chans'[g] = chans[g]
         /\ DOMAIN chans'[c] = 1 .. Len(chans[c]) + 1
         /\ DOMAIN chans[c] = 1 .. Len(chans[c])
         /\ Len(chans[c]) \in Nat
         /\ \A i \in DOMAIN chans[c] : chans'[c][i] = chans[c][i]
         /\ chans'[c][Len(chans[c]) + 1] = kn
<1>1. chans \in [Gens -> Seq(KeyNonce)] /\ chans[c] \in Seq(KeyNonce)
  BY DEF TypeOK
<1>2. chans'[c] = Append(chans[c], kn) /\ \A g \in Gens \ {c} : chans'[g] = chans[g]
  BY <1>1
<1>3. QED
  BY <1>1, <1>2

LEMMA ReceiveEntries ==
  ASSUME TypeOK, NEW c \in Gens, chans[c] # <<>>,
         chans' = [chans EXCEPT ![c] = Tail(@)]
  PROVE  /\ \A g \in Gens \ {c} : chans'[g] = chans[g]
         /\ DOMAIN chans'[c] = 1 .. Len(chans[c]) - 1
         /\ DOMAIN chans[c] = 1 .. Len(chans[c])
         /\ Len(chans[c]) \in Nat \ {0}
         /\ \A i \in DOMAIN chans'[c] : chans'[c][i] = chans[c][i + 1]
         /\ chans[c][1] = Head(chans[c])
<1>1. chans \in [Gens -> Seq(KeyNonce)] /\ chans[c] \in Seq(KeyNonce)
  BY DEF TypeOK
<1>2. chans'[c] = Tail(chans[c]) /\ \A g \in Gens \ {c} : chans'[g] = chans[g]
  BY <1>1
<1>3. Len(chans[c]) \in Nat \ {0} /\ DOMAIN chans[c] = 1 .. Len(chans[c])
  BY <1>1
<1>4. QED
  BY <1>1, <1>2, <1>3

-----------------------------------------------------------------------------
(* No pooled key is lost without an error. *)

\* The inductive invariant: from the first replaced channel on, every pooled
\* key is accounted for until an error is recorded.
LossInv ==
    /\ updater.pc # "idle" => updates > 0
    /\ updater.pc = "filling" => gen # 0
    /\ ready => gen # 0
    /\ gen # 0 /\ Errors = 0 => \A k \in PooledKeys : KeyAccounted(k)

LEMMA LossInit == Init => LossInv
  BY NonceManagerAssumption DEF Init, LossInv, IdleUpdater, UpdaterAt

\* A step that leaves the pool, the updater and the accounted syncers alone.
LEMMA AccountedUnchanged ==
  ASSUME UNCHANGED <<chans, gen, updater, syncer>>, NEW k \in PooledKeys, KeyAccounted(k)
  PROVE  KeyAccounted(k)'
  BY DEF KeyAccounted

\* A syncer that stays accounted for with the same key.
LEMMA AccountedSyncer ==
  ASSUME TypeOK, UNCHANGED <<chans, gen, updater>>, NEW s \in Syncers, NEW st,
         syncer' = [syncer EXCEPT ![s] = st], st.kn = syncer[s].kn,
         \/ st.pc \in {"sync", "matched", "exhausted", "append"}
         \/ st.pc = "sending" /\ st.ch = gen,
         NEW k \in PooledKeys, KeyAccounted(k)
  PROVE  KeyAccounted(k)'
<1>1. syncer \in [Syncers -> SyncerState]
  BY DEF TypeOK
<1>2. syncer'[s] = st /\ \A t \in Syncers \ {s} : syncer'[t] = syncer[t]
  BY <1>1
<1>3. QED
  BY <1>2 DEF KeyAccounted

LEMMA LossStep == TypeOK /\ LossInv /\ [Next]_vars => LossInv'
<1> SUFFICES ASSUME TypeOK, LossInv, [Next]_vars PROVE LossInv'
  OBVIOUS
<1> USE NonceManagerAssumption DEF node, pool, update
<1>a. /\ \A u \in Users : user[u].ch \in Gens /\ user[u].seen \in Nat
      /\ \A s \in Syncers : /\ syncer[s].kn \in KeyNonce
                            /\ syncer[s].ch \in Gens /\ syncer[s].seen \in Nat
      /\ updater.next \in 1 .. NumKeys
      /\ syncer \in [Syncers -> SyncerState]
      /\ gen \in Gens /\ updates \in Nat
  BY DEF TypeOK, UserState, SyncerState, UpdaterState, Gens
<1>1. CASE UpdateNonces
  BY <1>1, <1>a DEF UpdateNonces, LossInv, KeyAccounted, UpdaterAt
<1>2. ASSUME NEW k \in Keys, ReadNonce(k) PROVE LossInv'
  BY <1>2 DEF ReadNonce, LossInv, KeyAccounted, UpdaterAt
<1>3. CASE ReadNonceFails
  BY <1>3 DEF ReadNonceFails, LossInv, KeyAccounted, IdleUpdater, UpdaterAt
<1>4. CASE MakeChannel
  <2>1. updater' = UpdaterAt("filling", {}, 1) /\ gen' = updates /\ gen' # 0
    BY <1>4, <1>a DEF MakeChannel, LossInv
  <2>2. \A k \in PooledKeys : KeyAccounted(k)'
    BY <2>1 DEF KeyAccounted, PooledKeys, UpdaterAt
  <2>3. QED
    BY <1>4, <2>1, <2>2, <1>a DEF MakeChannel, LossInv, UpdaterAt
<1>5. CASE Enqueue
  <2> DEFINE kn == [KeyNum |-> updater.next, Nonce |-> Nonces[updater.next]]
  <2>1. /\ updater.pc = "filling" /\ updater.next < NumKeys
        /\ updater' = UpdaterAt("filling", {}, updater.next + 1)
        /\ chans' = [chans EXCEPT ![gen] = Append(@, kn)]
        /\ UNCHANGED <<gen, syncer, Errors, updates, ready>>
    BY <1>5 DEF Enqueue
  <2>2. kn \in KeyNonce /\ kn.KeyNum = updater.next
    <3>1. updater.next \in Keys
      BY <2>1, <1>a DEF Keys
    <3>2. Nonces[updater.next] \in Nat
      BY <3>1 DEF TypeOK
    <3>3. QED
      BY <3>1, <3>2 DEF KeyNonce
  <2> HIDE DEF kn
  <2>3. /\ \A i \in DOMAIN chans[gen] : i \in DOMAIN chans'[gen] /\ chans'[gen][i] = chans[gen][i]
        /\ \E i \in DOMAIN chans'[gen] : chans'[gen][i] = kn
    <3>1. /\ DOMAIN chans'[gen] = 1 .. Len(chans[gen]) + 1
          /\ DOMAIN chans[gen] = 1 .. Len(chans[gen]) /\ Len(chans[gen]) \in Nat
          /\ \A i \in DOMAIN chans[gen] : chans'[gen][i] = chans[gen][i]
          /\ chans'[gen][Len(chans[gen]) + 1] = kn
      BY <2>1, <2>2, <1>a, SendEntries
    <3>2. QED
      BY <3>1
  <2>4. ASSUME NEW k \in PooledKeys, KeyAccounted(k) PROVE KeyAccounted(k)'
    <3>1. CASE \E i \in DOMAIN chans[gen] : chans[gen][i].KeyNum = k
      BY <3>1, <2>1, <2>3 DEF KeyAccounted
    <3>2. CASE updater.next = k
      BY <3>2, <2>1, <2>2, <2>3 DEF KeyAccounted
    <3>3. CASE updater.next < k
      BY <3>3, <2>1, <1>a DEF KeyAccounted, UpdaterAt, PooledKeys
    <3>4. QED
      BY <2>4, <3>1, <3>2, <3>3, <2>1, <1>a DEF KeyAccounted, PooledKeys
  <2>5. QED
    BY <2>1, <2>4 DEF LossInv, UpdaterAt
<1>6. CASE UpdateNoncesReturns
  <2>1. /\ updater.pc = "filling" /\ updater.next = NumKeys /\ updater' = IdleUpdater
        /\ UNCHANGED <<chans, gen, syncer, Errors, updates>>
    BY <1>6 DEF UpdateNoncesReturns
  <2>2. ASSUME NEW k \in PooledKeys, KeyAccounted(k) PROVE KeyAccounted(k)'
    BY <2>1, <2>2 DEF KeyAccounted, PooledKeys
  <2>3. QED
    BY <2>1, <2>2 DEF LossInv, IdleUpdater, UpdaterAt
<1>7. ASSUME NEW u \in Users, AnySyncedKey(u) PROVE LossInv'
  BY <1>7, AccountedUnchanged DEF AnySyncedKey, LossInv
<1>8. ASSUME NEW u \in Users, NEW s \in Syncers, ReceiveKey(u, s) PROVE LossInv'
  <2> DEFINE c == user[u].ch
  <2> DEFINE kn == Head(chans[c])
  <2>1. /\ chans[c] # <<>> /\ syncer[s].pc = "free"
        /\ chans' = [chans EXCEPT ![c] = Tail(@)]
        /\ syncer' = [syncer EXCEPT ![s] = Polling(kn, 0)]
        /\ UNCHANGED <<gen, updater, updates, ready, Errors>>
    BY <1>8 DEF ReceiveKey
  <2>2. /\ \A g \in Gens \ {c} : chans'[g] = chans[g]
        /\ DOMAIN chans'[c] = 1 .. Len(chans[c]) - 1
        /\ DOMAIN chans[c] = 1 .. Len(chans[c])
        /\ Len(chans[c]) \in Nat \ {0}
        /\ \A i \in DOMAIN chans'[c] : chans'[c][i] = chans[c][i + 1]
        /\ chans[c][1] = kn
    BY <2>1, <1>a, ReceiveEntries
  <2> HIDE DEF kn
  <2>3. /\ syncer'[s].pc = "sync" /\ syncer'[s].kn = kn
        /\ \A t \in Syncers \ {s} : syncer'[t] = syncer[t]
    BY <2>1, <1>a DEF Polling, SyncerAt
  <2>4. ASSUME NEW k \in PooledKeys, KeyAccounted(k) PROVE KeyAccounted(k)'
    <3>1. ASSUME NEW i \in DOMAIN chans[gen], chans[gen][i].KeyNum = k
          PROVE  KeyAccounted(k)'
      <4>1. CASE gen = c /\ i = 1
        BY <3>1, <4>1, <2>2, <2>3 DEF KeyAccounted
      <4>2. CASE gen = c /\ i # 1
        <5>1. i - 1 \in DOMAIN chans'[c] /\ chans'[c][i - 1] = chans[c][i]
          <6> DEFINE n == Len(chans[c])
          <6>1. n \in Nat \ {0} /\ i \in 1 .. n /\ DOMAIN chans'[c] = 1 .. n - 1
            BY <4>2, <2>2
          <6> HIDE DEF n
          <6>2. i - 1 \in 1 .. n - 1 /\ (i - 1) + 1 = i
            BY <6>1, <4>2
          <6>3. QED
            BY <6>1, <6>2, <2>2
        <5>2. /\ i - 1 \in DOMAIN chans'[gen'] /\ chans'[gen'][i - 1].KeyNum = k
          BY <3>1, <4>2, <5>1, <2>1
        <5>3. QED
          BY <5>2 DEF KeyAccounted
      <4>3. CASE gen # c
        BY <3>1, <4>3, <2>1, <2>2, <1>a DEF KeyAccounted
      <4>4. QED
        BY <4>1, <4>2, <4>3
    <3>2. CASE updater.pc = "filling" /\ updater.next =< k
      BY <3>2, <2>1 DEF KeyAccounted
    <3>3. CASE \E t \in Syncers :
                 /\ syncer[t].kn.KeyNum = k
                 /\ \/ syncer[t].pc \in {"sync", "matched", "exhausted", "append"}
                    \/ syncer[t].pc = "sending" /\ syncer[t].ch = gen
      BY <3>3, <2>1, <2>3 DEF KeyAccounted
    <3>4. QED
      BY <2>4, <3>1, <3>2, <3>3 DEF KeyAccounted
  <2>5. QED
    BY <2>1, <2>4 DEF LossInv
<1>9. ASSUME NEW u \in Users, Timeout(u) PROVE LossInv'
  BY <1>9, AccountedUnchanged DEF Timeout, LossInv
<1>9a. ASSUME NEW u \in Users, TimeoutLock(u) PROVE LossInv'
  BY <1>9a, AccountedUnchanged DEF TimeoutLock, LossInv
<1>10. ASSUME NEW u \in Users, TimeoutReturns(u) PROVE LossInv'
  BY <1>10, <1>a DEF TimeoutReturns, LossInv
<1>11. ASSUME NEW u \in Users, SendTx(u) PROVE LossInv'
  BY <1>11, AccountedUnchanged DEF SendTx, LossInv
<1>12. ASSUME NEW u \in Users, SendTxFails(u) PROVE LossInv'
  BY <1>12, AccountedUnchanged DEF SendTxFails, LossInv
<1>13. ASSUME NEW s \in Syncers, NonceMatches(s) PROVE LossInv'
  <2>1. Matched(syncer[s].kn).pc = "matched" /\ Matched(syncer[s].kn).kn = syncer[s].kn
    BY DEF Matched, SyncerAt
  <2>2. \A k \in PooledKeys : KeyAccounted(k) => KeyAccounted(k)'
    BY <1>13, <2>1, AccountedSyncer DEF NonceMatches
  <2>3. QED
    BY <1>13, <2>2 DEF NonceMatches, LossInv
<1>14. ASSUME NEW s \in Syncers, AttemptFails(s) PROVE LossInv'
  <2> DEFINE st == IF LastAttempt(s) THEN Exhausted(syncer[s].kn)
                   ELSE Polling(syncer[s].kn, syncer[s].tries + 1)
  <2>1. st.pc \in {"sync", "exhausted"} /\ st.kn = syncer[s].kn
    BY DEF Exhausted, Polling, SyncerAt
  <2>2. syncer' = [syncer EXCEPT ![s] = st] /\ UNCHANGED <<chans, gen, updater, updates, ready, Errors>>
    BY <1>14 DEF AttemptFails
  <2> HIDE DEF st
  <2>3. \A k \in PooledKeys : KeyAccounted(k) => KeyAccounted(k)'
    BY <2>1, <2>2, AccountedSyncer
  <2>4. QED
    BY <2>2, <2>3 DEF LossInv
<1>15. ASSUME NEW s \in Syncers, EvaluateChannel(s) PROVE LossInv'
  <2> DEFINE st == Sending(syncer[s].kn, gen)
  <2>1. st.pc = "sending" /\ st.ch = gen /\ st.kn = syncer[s].kn
    BY DEF Sending, SyncerAt
  <2>2. syncer' = [syncer EXCEPT ![s] = st] /\ UNCHANGED <<chans, gen, updater, updates, ready, Errors>>
    BY <1>15 DEF EvaluateChannel
  <2> HIDE DEF st
  <2>3. \A k \in PooledKeys : KeyAccounted(k) => KeyAccounted(k)'
    BY <2>1, <2>2, AccountedSyncer
  <2>4. QED
    BY <2>2, <2>3 DEF LossInv
<1>16. ASSUME NEW s \in Syncers, ReturnKey(s) PROVE LossInv'
  <2> DEFINE c == syncer[s].ch
  <2>1. SyncedKey(s) \in KeyNonce /\ SyncedKey(s).KeyNum = syncer[s].kn.KeyNum
    BY <1>a DEF SyncedKey, KeyNonce
  <2>2. /\ syncer[s].pc = "sending"
        /\ chans' = [chans EXCEPT ![c] = Append(@, SyncedKey(s))]
        /\ syncer' = [syncer EXCEPT ![s] = FreeSyncer]
        /\ UNCHANGED <<gen, updater, updates, ready, Errors>>
    BY <1>16 DEF ReturnKey
  <2>3. /\ \A g \in Gens : \A i \in DOMAIN chans[g] :
              i \in DOMAIN chans'[g] /\ chans'[g][i] = chans[g][i]
        /\ \E i \in DOMAIN chans'[c] : chans'[c][i] = SyncedKey(s)
    <3>1. /\ \A g \in Gens \ {c} : chans'[g] = chans[g]
          /\ DOMAIN chans'[c] = 1 .. Len(chans[c]) + 1
          /\ DOMAIN chans[c] = 1 .. Len(chans[c]) /\ Len(chans[c]) \in Nat
          /\ \A i \in DOMAIN chans[c] : chans'[c][i] = chans[c][i]
          /\ chans'[c][Len(chans[c]) + 1] = SyncedKey(s)
      BY <2>1, <2>2, <1>a, SendEntries
    <3>2. QED
      BY <3>1
  <2>4. \A t \in Syncers \ {s} : syncer'[t] = syncer[t]
    BY <2>2, <1>a
  <2>5. ASSUME NEW k \in PooledKeys, KeyAccounted(k) PROVE KeyAccounted(k)'
    <3>1. CASE \E i \in DOMAIN chans[gen] : chans[gen][i].KeyNum = k
      BY <3>1, <2>2, <2>3, <1>a DEF KeyAccounted
    <3>2. CASE updater.pc = "filling" /\ updater.next =< k
      BY <3>2, <2>2 DEF KeyAccounted
    <3>3. ASSUME NEW t \in Syncers, syncer[t].kn.KeyNum = k,
                 \/ syncer[t].pc \in {"sync", "matched", "exhausted", "append"}
                 \/ syncer[t].pc = "sending" /\ syncer[t].ch = gen
          PROVE  KeyAccounted(k)'
      <4>1. CASE t = s
        BY <3>3, <4>1, <2>1, <2>2, <2>3 DEF KeyAccounted
      <4>2. CASE t # s
        BY <3>3, <4>2, <2>2, <2>4 DEF KeyAccounted
      <4>3. QED
        BY <4>1, <4>2
    <3>4. QED
      BY <2>5, <3>1, <3>2, <3>3 DEF KeyAccounted
  <2>6. QED
    BY <2>2, <2>5 DEF LossInv
<1>17. ASSUME NEW s \in Syncers, ReadErrors(s) PROVE LossInv'
  <2> DEFINE st == Appending(syncer[s].kn, Errors)
  <2>1. st.pc = "append" /\ st.kn = syncer[s].kn
    BY DEF Appending, SyncerAt
  <2>2. syncer' = [syncer EXCEPT ![s] = st] /\ UNCHANGED <<chans, gen, updater, updates, ready, Errors>>
    BY <1>17 DEF ReadErrors
  <2> HIDE DEF st
  <2>3. \A k \in PooledKeys : KeyAccounted(k) => KeyAccounted(k)'
    BY <2>1, <2>2, AccountedSyncer
  <2>4. QED
    BY <2>2, <2>3 DEF LossInv
<1>18. ASSUME NEW s \in Syncers, AppendError(s) PROVE LossInv'
  BY <1>18, <1>a DEF AppendError, LossInv
<1>19. ASSUME NEW k \in Keys, Mine(k) PROVE LossInv'
  BY <1>19, AccountedUnchanged DEF Mine, LossInv
<1>20. CASE UNCHANGED vars
  BY <1>20, AccountedUnchanged DEF vars, LossInv
<1>21. QED
  BY <1>1, <1>2, <1>3, <1>4, <1>5, <1>6, <1>7, <1>8, <1>9, <1>9a, <1>10, <1>11, <1>12,
     <1>13, <1>14, <1>15, <1>16, <1>17, <1>18, <1>19, <1>20
     DEF Next, Updater, User, Syncer

(***************************************************************************)
(* For any number of UpdateNonces calls, at any moment: a pooled key is    *)
(* missing from the pool of nonce.go, with nobody about to return it, only *)
(* when Client.Errors is not empty.                                        *)
(***************************************************************************)
THEOREM KeysNotLostSilently == Spec => []NoSilentKeyLoss
<1>1. LossInv => NoSilentKeyLoss
  BY DEF LossInv, NoSilentKeyLoss
<1>2. QED
  BY TypeInit, TypeStep, LossInit, LossStep, <1>1, PTL DEF Spec

-----------------------------------------------------------------------------
(* A key that is handed out is synced, up to what was pending at the start. *)

InPool(k) == \E g \in Gens : \E i \in DOMAIN chans[g] : chans[g][i].KeyNum = k
Lent(k) == \E s \in Syncers : Busy(s) /\ syncer[s].kn.KeyNum = k

\* Transactions of a key on the node, and those that its holders may yet send.
Load(k) == mined[k] + inflight[k] + Cardinality(Holders(k))

\* The call of UpdateNonces at start-up has yet to put k into the channel.
Unfilled(k) ==
    \/ updates = 0
    \/ updater.pc = "reading"
    \/ updater.pc = "filling" /\ updater.next =< k

(***************************************************************************)
(* The inductive invariant, while UpdateNonces has been called once: a key *)
(* is on its way into the pool, in one place of one channel, or with one   *)
(* syncer, and in each of these places its load exceeds its nonce by no    *)
(* more than the backlog, and by one more while a syncer waits for the     *)
(* transaction of the user it was given to.  Nobody but one user holds a   *)
(* key without backlog.                                                    *)
(***************************************************************************)
UnfilledBounded ==
    \A k \in Keys : Unfilled(k) =>
        /\ ~InPool(k) /\ ~Lent(k)
        /\ Load(k) =< backlog[k]
        /\ updates # 0 /\ k \notin updater.todo => Nonces[k] =< mined[k]

PoolBounded ==
    \A g \in Gens : \A i \in DOMAIN chans[g] :
        /\ chans[g][i].Nonce =< mined[chans[g][i].KeyNum]
        /\ Load(chans[g][i].KeyNum) =< chans[g][i].Nonce + backlog[chans[g][i].KeyNum]
        /\ ~Lent(chans[g][i].KeyNum)
        /\ \A h \in Gens : \A j \in DOMAIN chans[h] :
              chans[h][j].KeyNum = chans[g][i].KeyNum => h = g /\ j = i

HeldAlone ==
    \A u \in Users : user[u].pc = "holding" /\ backlog[user[u].kn.KeyNum] = 0 =>
        /\ FullySynced(user[u].kn)
        /\ \A v \in Users :
              user[v].pc = "holding" /\ user[v].kn.KeyNum = user[u].kn.KeyNum => v = u

LentBounded ==
    \A s \in Syncers : Busy(s) =>
        /\ syncer[s].kn.Nonce =< mined[syncer[s].kn.KeyNum]
        /\ Load(syncer[s].kn.KeyNum) =< syncer[s].kn.Nonce + 1 + backlog[syncer[s].kn.KeyNum]
        /\ syncer[s].pc \in {"matched", "sending"} =>
              syncer[s].kn.Nonce + 1 =< mined[syncer[s].kn.KeyNum]
        /\ \A t \in Syncers :
              Busy(t) /\ syncer[t].kn.KeyNum = syncer[s].kn.KeyNum => t = s

SyncParts == UnfilledBounded /\ PoolBounded /\ HeldAlone /\ LentBounded

SyncInv ==
    /\ updater.pc # "idle" => updates > 0
    /\ updater.pc = "filling" => updater.todo = {}
    /\ updates =< 1 => SyncParts

\* The numbers that the invariant compares, and the key that is in a place.
LEMMA Numbers ==
  ASSUME TypeOK
  PROVE  /\ \A k \in Keys : /\ mined[k] \in Nat /\ inflight[k] \in Nat /\ backlog[k] \in Nat
                            /\ Nonces[k] \in Nat /\ Load(k) \in Nat
                            /\ IsFiniteSet(Holders(k)) /\ Cardinality(Holders(k)) \in Nat
         /\ \A g \in Gens : \A i \in DOMAIN chans[g] :
               chans[g][i] \in KeyNonce /\ chans[g][i].KeyNum \in Keys /\ chans[g][i].Nonce \in Nat
         /\ \A s \in Syncers : /\ syncer[s].kn \in KeyNonce /\ syncer[s].kn.KeyNum \in Keys
                               /\ syncer[s].kn.Nonce \in Nat
         /\ \A u \in Users : /\ user[u].kn \in KeyNonce /\ user[u].kn.KeyNum \in Keys
                             /\ user[u].kn.Nonce \in Nat
<1>1. \A k \in Keys : /\ mined[k] \in Nat /\ inflight[k] \in Nat
                      /\ backlog[k] \in Nat /\ Nonces[k] \in Nat
  BY DEF TypeOK
<1>2. \A k : IsFiniteSet(Holders(k))
  <2>1. \A k : Holders(k) \in SUBSET Users
    BY DEF Holders
  <2>2. QED
    BY <2>1, FS_Subset, NonceManagerAssumption
<1>3. \A k : Cardinality(Holders(k)) \in Nat
  BY <1>2, FS_CardinalityType
<1>4. \A k \in Keys : Load(k) \in Nat
  BY <1>1, <1>3 DEF Load
<1>5. ASSUME NEW g \in Gens, NEW i \in DOMAIN chans[g] PROVE chans[g][i] \in KeyNonce
  <2>1. chans[g] \in Seq(KeyNonce)
    BY DEF TypeOK
  <2>2. QED
    BY <2>1
<1>6. /\ \A s \in Syncers : syncer[s].kn \in KeyNonce
      /\ \A u \in Users : user[u].kn \in KeyNonce
  BY DEF TypeOK, SyncerState, UserState
<1>7. \A kn \in KeyNonce : kn.KeyNum \in Keys /\ kn.Nonce \in Nat
  BY DEF KeyNonce
<1>8. QED
  BY <1>1, <1>2, <1>3, <1>4, <1>5, <1>6, <1>7

LEMMA SyncInit == Init => SyncInv
<1> SUFFICES ASSUME Init PROVE SyncInv
  OBVIOUS
<1>1. /\ \A k \in Keys : mined[k] = 0 /\ inflight[k] = backlog[k]
      /\ \A g \in Gens : chans[g] = <<>>
      /\ \A u \in Users : user[u].pc = "idle"
      /\ \A s \in Syncers : syncer[s].pc = "free"
      /\ updates = 0 /\ updater.pc = "idle"
  BY DEF Init, IdleUser, UserAt, FreeSyncer, SyncerAt, IdleUpdater, UpdaterAt
<1>2. \A k \in Keys : Load(k) =< backlog[k]
  <2>1. \A k : Holders(k) = {}
    BY <1>1 DEF Holders
  <2>2. \A k : Cardinality(Holders(k)) = 0
    BY <2>1, FS_EmptySet
  <2>3. \A k \in Keys : backlog[k] \in Nat
    BY NonceManagerAssumption DEF Init
  <2>4. QED
    BY <1>1, <2>2, <2>3 DEF Load
<1>3. UnfilledBounded
  BY <1>1, <1>2 DEF UnfilledBounded, InPool, Lent, Busy
<1>4. PoolBounded
  BY <1>1 DEF PoolBounded
<1>5. HeldAlone /\ LentBounded
  BY <1>1 DEF HeldAlone, LentBounded, Busy
<1>6. QED
  BY <1>1, <1>3, <1>4, <1>5 DEF SyncInv, SyncParts

(***************************************************************************)
(* The steps that move no key into or out of the pool: they add nothing to *)
(* the load of any key, and nothing happens to a key without backlog that  *)
(* somebody holds.                                                         *)
(***************************************************************************)
LEMMA SyncUnmoved ==
  ASSUME TypeOK, TypeOK', SyncInv,
         UNCHANGED <<backlog, Nonces, chans, updater, updates>>,
         \A k \in Keys : mined[k] =< mined'[k] /\ Load(k)' =< Load(k),
         \A u \in Users : user'[u].pc = "holding" =>
             /\ user'[u] = user[u]
             /\ backlog[user[u].kn.KeyNum] = 0 =>
                   UNCHANGED <<mined[user[u].kn.KeyNum], inflight[user[u].kn.KeyNum]>>,
         \A s \in Syncers : syncer'[s].pc # "free" =>
             /\ syncer[s].pc # "free"
             /\ syncer'[s].kn = syncer[s].kn
             /\ \/ syncer'[s].pc \in {"exhausted", "append", "sync"}
                \/ syncer'[s].pc = syncer[s].pc
                \/ syncer'[s].pc = "sending" /\ syncer[s].pc = "matched"
                \/ syncer[s].kn.Nonce + 1 =< mined[syncer[s].kn.KeyNum]
  PROVE  SyncInv'
<1> SUFFICES ASSUME updates =< 1 PROVE SyncParts'
  BY DEF SyncInv
<1>1. \A k : /\ InPool(k)' => InPool(k)
             /\ Lent(k)' => Lent(k)
  BY DEF InPool, Lent, Busy
<1>2. /\ UnfilledBounded /\ PoolBounded /\ HeldAlone /\ LentBounded
  BY DEF SyncInv, SyncParts
<1>3. \A k \in Keys : /\ mined[k] \in Nat /\ mined'[k] \in Nat /\ Load(k) \in Nat /\ Load(k)' \in Nat
                      /\ backlog[k] \in Nat /\ Nonces[k] \in Nat
  <2>1. \A k \in Keys : mined[k] \in Nat /\ Load(k) \in Nat /\ backlog[k] \in Nat /\ Nonces[k] \in Nat
    BY Numbers
  <2>2. \A k \in Keys : mined'[k] \in Nat /\ Load(k)' \in Nat
    <3> SUFFICES ASSUME NEW k \in Keys PROVE mined'[k] \in Nat /\ Load(k)' \in Nat
      OBVIOUS
    <3>1. mined'[k] \in Nat /\ inflight'[k] \in Nat
      BY DEF TypeOK
    <3>2. Holders(k)' \in SUBSET Users
      BY DEF Holders
    <3>3. Cardinality(Holders(k)') \in Nat
      BY <3>2, FS_Subset, FS_CardinalityType, NonceManagerAssumption
    <3>4. QED
      BY <3>1, <3>3 DEF Load
  <2>3. QED
    BY <2>1, <2>2
<1>4. UnfilledBounded'
  BY <1>1, <1>2, <1>3 DEF UnfilledBounded, Unfilled
<1>5. PoolBounded'
  <2>1. \A g \in Gens : \A i \in DOMAIN chans[g] :
           chans[g][i].KeyNum \in Keys /\ chans[g][i].Nonce \in Nat
    BY Numbers
  <2>2. QED
    BY <2>1, <1>1, <1>2, <1>3 DEF PoolBounded
<1>6. HeldAlone'
  BY <1>2 DEF HeldAlone, FullySynced
<1>7. LentBounded'
  <2>1. \A s \in Syncers : syncer[s].kn.KeyNum \in Keys /\ syncer[s].kn.Nonce \in Nat
    BY Numbers
  <2>2. ASSUME NEW s \in Syncers, syncer'[s].pc # "free", NEW k \in Keys, k = syncer[s].kn.KeyNum
        PROVE  /\ syncer'[s].kn = syncer[s].kn
               /\ syncer[s].kn.Nonce =< mined'[k]
               /\ Load(k)' =< syncer[s].kn.Nonce + 1 + backlog[k]
               /\ syncer'[s].pc \in {"matched", "sending"} => syncer[s].kn.Nonce + 1 =< mined'[k]
               /\ \A t \in Syncers :
                     syncer'[t].pc # "free" /\ syncer'[t].kn.KeyNum = syncer'[s].kn.KeyNum => t = s
    <3>1. /\ syncer[s].kn.Nonce =< mined[k]
          /\ Load(k) =< syncer[s].kn.Nonce + 1 + backlog[k]
          /\ syncer[s].pc \in {"matched", "sending"} => syncer[s].kn.Nonce + 1 =< mined[k]
      BY <2>2, <1>2 DEF LentBounded, Busy
    <3>2. /\ syncer[s].kn.Nonce \in Nat /\ mined[k] =< mined'[k] /\ Load(k)' =< Load(k)
          /\ mined[k] \in Nat /\ mined'[k] \in Nat /\ Load(k) \in Nat /\ Load(k)' \in Nat
          /\ backlog[k] \in Nat
      BY <2>1, <1>3
    <3>3. syncer'[s].pc \in {"matched", "sending"} => syncer[s].kn.Nonce + 1 =< mined[k]
      BY <2>2, <3>1
    <3>4. \A t \in Syncers :
             syncer'[t].pc # "free" /\ syncer'[t].kn.KeyNum = syncer'[s].kn.KeyNum => t = s
      BY <2>2, <1>2 DEF LentBounded, Busy
    <3>5. /\ syncer[s].kn.Nonce =< mined'[k]
          /\ Load(k)' =< syncer[s].kn.Nonce + 1 + backlog[k]
          /\ syncer'[s].pc \in {"matched", "sending"} => syncer[s].kn.Nonce + 1 =< mined'[k]
      BY <3>1, <3>2, <3>3
    <3>6. QED
      BY <2>2, <3>4, <3>5
  <2>3. QED
    BY <2>1, <2>2 DEF LentBounded, Busy
<1>8. QED
  BY <1>4, <1>5, <1>6, <1>7 DEF SyncParts

\* Users that stop holding a key lighten its load.
LEMMA LoadOfFewer ==
  ASSUME TypeOK, UNCHANGED <<mined, inflight>>,
         \A u \in Users : user'[u].pc = "holding" => user'[u] = user[u]
  PROVE  \A k \in Keys : Load(k)' =< Load(k)
<1> SUFFICES ASSUME NEW k \in Keys PROVE Load(k)' =< Load(k)
  OBVIOUS
<1>1. Holders(k)' \in SUBSET Holders(k)
  BY DEF Holders
<1>2. /\ IsFiniteSet(Holders(k)) /\ mined[k] \in Nat /\ inflight[k] \in Nat
      /\ Cardinality(Holders(k)) \in Nat
  BY Numbers
<1>3. IsFiniteSet(Holders(k)')
  BY <1>1, <1>2, FS_Subset
<1>4. Cardinality(Holders(k)') =< Cardinality(Holders(k)) /\ Cardinality(Holders(k)') \in Nat
  BY <1>1, <1>2, <1>3, FS_Subset, FS_CardinalityType
<1>5. QED
  BY <1>2, <1>4 DEF Load

\* The user that holds a key sends its transaction.
LEMMA SyncSendTx ==
  ASSUME TypeOK, TypeOK', SyncInv, NEW u \in Users, SendTx(u)
  PROVE  SyncInv'
<1> DEFINE k == user[u].kn.KeyNum
<1> USE DEF node, pool, update
<1>1. /\ user \in [Users -> UserState] /\ inflight \in [Keys -> Nat]
      /\ k \in Keys /\ \A v \in Users : user[v].kn.KeyNum \in Keys
      /\ user[u].pc = "holding"
      /\ UNCHANGED <<mined, backlog, Nonces, chans, updater, updates, syncer>>
  BY Numbers DEF TypeOK, SendTx
<1>2. /\ user'[u].pc = "idle" /\ \A v \in Users \ {u} : user'[v] = user[v]
      /\ inflight'[k] = inflight[k] + 1 /\ \A l \in Keys \ {k} : inflight'[l] = inflight[l]
  BY <1>1 DEF SendTx, IdleUser, UserAt
<1> HIDE DEF k
<1>3. \A l \in Keys : Load(l)' =< Load(l)
  <2> SUFFICES ASSUME NEW l \in Keys PROVE Load(l)' =< Load(l)
    OBVIOUS
  <2>1. /\ mined[l] \in Nat /\ inflight[l] \in Nat
        /\ IsFiniteSet(Holders(l)) /\ Cardinality(Holders(l)) \in Nat
    BY Numbers
  <2>2. Holders(l)' = IF l = k THEN Holders(l) \ {u} ELSE Holders(l)
    BY <1>1, <1>2 DEF Holders, k
  <2>3. u \in Holders(k)
    BY <1>1 DEF Holders, k
  <2>4. Cardinality(Holders(k) \ {u}) = Cardinality(Holders(k)) - 1
    <3>1. IsFiniteSet(Holders(k))
      BY <1>1, Numbers
    <3>2. QED
      BY <3>1, <2>3, FS_RemoveElement
  <2>5. CASE l = k
    <3>1. inflight'[l] = inflight[l] + 1 /\ mined'[l] = mined[l]
      BY <1>1, <1>2, <2>5
    <3>2. Cardinality(Holders(l)') = Cardinality(Holders(l)) - 1
      BY <2>2, <2>4, <2>5
    <3>3. QED
      BY <2>1, <3>1, <3>2 DEF Load
  <2>6. CASE l # k
    <3>1. inflight'[l] = inflight[l] /\ mined'[l] = mined[l] /\ Holders(l)' = Holders(l)
      BY <1>1, <1>2, <2>2, <2>6
    <3>2. QED
      BY <2>1, <3>1 DEF Load
  <2>7. QED
    BY <2>5, <2>6
\* Whoever holds a key without backlog is alone, so the sender's is another.
<1>4. \A v \in Users : user'[v].pc = "holding" =>
         /\ user'[v] = user[v]
         /\ updates =< 1 /\ backlog[user[v].kn.KeyNum] = 0 => user[v].kn.KeyNum # k
  BY <1>1, <1>2 DEF SyncInv, SyncParts, HeldAlone, k
<1>5. CASE updates =< 1
  <2>1. \A v \in Users : user'[v].pc = "holding" =>
           /\ user'[v] = user[v]
           /\ backlog[user[v].kn.KeyNum] = 0 =>
                 UNCHANGED <<mined[user[v].kn.KeyNum], inflight[user[v].kn.KeyNum]>>
    BY <1>1, <1>2, <1>4, <1>5
  <2>2. \A l \in Keys : mined[l] =< mined'[l]
    BY <1>1, Numbers
  <2>3. QED
    BY <1>1, <1>3, <2>1, <2>2, SyncUnmoved
<1>6. CASE ~(updates =< 1)
  BY <1>1, <1>6 DEF SyncInv
<1>7. QED
  BY <1>5, <1>6

\* The node mines: a key without backlog that somebody holds has nothing pending.
LEMMA SyncMine ==
  ASSUME TypeOK, TypeOK', SyncInv, NEW k \in Keys, Mine(k)
  PROVE  SyncInv'
<1> USE DEF node, pool, update
<1>1. /\ mined \in [Keys -> Nat] /\ inflight \in [Keys -> Nat]
      /\ \A u \in Users : user[u].kn.KeyNum \in Keys
      /\ inflight[k] > 0
      /\ UNCHANGED <<backlog, Nonces, chans, updater, updates, user, syncer>>
  BY Numbers DEF TypeOK, Mine
<1>2. /\ inflight'[k] = inflight[k] - 1 /\ mined'[k] = mined[k] + 1
      /\ \A l \in Keys \ {k} : inflight'[l] = inflight[l] /\ mined'[l] = mined[l]
  BY <1>1 DEF Mine
<1>3. \A l \in Keys : mined[l] =< mined'[l] /\ Load(l)' =< Load(l)
  <2> SUFFICES ASSUME NEW l \in Keys PROVE mined[l] =< mined'[l] /\ Load(l)' =< Load(l)
    OBVIOUS
  <2>1. mined[l] \in Nat /\ inflight[l] \in Nat /\ Cardinality(Holders(l)) \in Nat
    BY Numbers
  <2>2. Holders(l)' = Holders(l)
    BY <1>1 DEF Holders
  <2>3. QED
    BY <1>2, <2>1, <2>2 DEF Load
<1>4. CASE updates =< 1
  <2>1. \A u \in Users : user[u].pc = "holding" /\ backlog[user[u].kn.KeyNum] = 0 =>
           inflight[user[u].kn.KeyNum] = 0
    BY <1>4 DEF SyncInv, SyncParts, HeldAlone, FullySynced
  <2>2. \A u \in Users : user'[u].pc = "holding" =>
           /\ user'[u] = user[u]
           /\ backlog[user[u].kn.KeyNum] = 0 =>
                 UNCHANGED <<mined[user[u].kn.KeyNum], inflight[user[u].kn.KeyNum]>>
    BY <1>1, <1>2, <2>1
  <2>3. QED
    BY <1>1, <1>3, <2>2, SyncUnmoved
<1>5. CASE ~(updates =< 1)
  BY <1>1, <1>5 DEF SyncInv
<1>6. QED
  BY <1>4, <1>5

\* A user receives a key and the key's syncer is spawned.
LEMMA SyncReceiveKey ==
  ASSUME TypeOK, SyncInv, updates =< 1, NEW u \in Users, NEW s \in Syncers, ReceiveKey(u, s)
  PROVE  SyncParts'
<1> DEFINE c == user[u].ch
<1> DEFINE kn == Head(chans[c])
<1> USE DEF node, pool, update
<1>1. /\ UnfilledBounded /\ PoolBounded /\ HeldAlone /\ LentBounded
      /\ user \in [Users -> UserState] /\ syncer \in [Syncers -> SyncerState] /\ c \in Gens
  BY DEF SyncInv, SyncParts, TypeOK, UserState
<1>2. /\ user[u].pc = "waiting" /\ chans[c] # <<>> /\ syncer[s].pc = "free"
      /\ chans' = [chans EXCEPT ![c] = Tail(@)]
      /\ syncer' = [syncer EXCEPT ![s] = Polling(kn, 0)]
      /\ user' = [user EXCEPT ![u] = Holding(kn)]
      /\ UNCHANGED <<mined, inflight, backlog, Nonces, updater, updates>>
  BY DEF ReceiveKey
<1>3. /\ \A g \in Gens \ {c} : chans'[g] = chans[g]
      /\ DOMAIN chans'[c] = 1 .. Len(chans[c]) - 1
      /\ DOMAIN chans[c] = 1 .. Len(chans[c])
      /\ Len(chans[c]) \in Nat \ {0}
      /\ \A i \in DOMAIN chans'[c] : chans'[c][i] = chans[c][i + 1]
      /\ chans[c][1] = kn
  BY <1>1, <1>2, ReceiveEntries
<1>4. PICK key \in Keys, nonce \in Nat : kn.KeyNum = key /\ kn.Nonce = nonce
  <2>1. kn \in KeyNonce
    BY <1>1, <1>2, ChannelReceive
  <2>2. QED
    BY <2>1 DEF KeyNonce
<1> HIDE DEF kn, c
<1>5. /\ syncer'[s].pc = "sync" /\ syncer'[s].kn = kn
      /\ \A t \in Syncers \ {s} : syncer'[t] = syncer[t]
      /\ user'[u].pc = "holding" /\ user'[u].kn = kn
      /\ \A v \in Users \ {u} : user'[v] = user[v]
  BY <1>1, <1>2 DEF Polling, SyncerAt, Holding, UserAt
<1>6. /\ nonce =< mined[key] /\ Load(key) =< nonce + backlog[key]
      /\ InPool(key) /\ ~Lent(key)
  <2>1. 1 \in DOMAIN chans[c]
    BY <1>3
  <2>2. QED
    BY <2>1, <1>1, <1>3, <1>4 DEF PoolBounded, InPool
<1>n. \A l \in Keys : /\ mined[l] \in Nat /\ inflight[l] \in Nat /\ backlog[l] \in Nat
                      /\ Load(l) \in Nat /\ IsFiniteSet(Holders(l)) /\ Cardinality(Holders(l)) \in Nat
  BY Numbers
<1>l. Load(key)' = Load(key) + 1 /\ \A l \in Keys \ {key} : Load(l)' = Load(l)
  <2>1. u \notin Holders(key) /\ Holders(key)' = Holders(key) \cup {u}
    BY <1>2, <1>4, <1>5 DEF Holders
  <2>2. Cardinality(Holders(key)') = Cardinality(Holders(key)) + 1
    <3>1. IsFiniteSet(Holders(key))
      BY <1>n
    <3>2. QED
      BY <2>1, <3>1, FS_AddElement
  <2>3. \A l \in Keys \ {key} : Holders(l)' = Holders(l)
    BY <1>2, <1>4, <1>5 DEF Holders
  <2>4. Load(key)' = Load(key) + 1
    <3>1. /\ mined[key] \in Nat /\ inflight[key] \in Nat /\ Cardinality(Holders(key)) \in Nat
          /\ mined'[key] = mined[key] /\ inflight'[key] = inflight[key]
      BY <1>2, <1>n
    <3>2. QED
      BY <2>2, <3>1 DEF Load
  <2>5. \A l \in Keys \ {key} : Load(l)' = Load(l)
    BY <1>2, <2>3 DEF Load
  <2>6. QED
    BY <2>4, <2>5
\* Every entry that is left was there before, at one place, and is not kn's.
<1>7. ASSUME NEW g \in Gens, NEW i \in DOMAIN chans'[g]
      PROVE  LET p == IF g = c THEN i + 1 ELSE i
             IN  /\ p \in DOMAIN chans[g] /\ chans'[g][i] = chans[g][p]
                 /\ chans[g][p].KeyNum # key
  <2>1. CASE g = c
    <3>1. i + 1 \in DOMAIN chans[g] /\ chans'[g][i] = chans[g][i + 1] /\ i + 1 # 1
      BY <2>1, <1>3
    <3>2. 1 \in DOMAIN chans[c]
      BY <1>3
    <3>3. QED
      BY <2>1, <3>1, <3>2, <1>1, <1>3, <1>4 DEF PoolBounded
  <2>2. CASE g # c
    <3>1. i \in DOMAIN chans[g] /\ chans'[g][i] = chans[g][i]
      BY <2>2, <1>3
    <3>2. 1 \in DOMAIN chans[c]
      BY <1>3
    <3>3. QED
      BY <2>2, <3>1, <3>2, <1>1, <1>3, <1>4 DEF PoolBounded
  <2>3. QED
    BY <2>1, <2>2
<1>8. \A l : /\ InPool(l)' => InPool(l) /\ l # key
             /\ Lent(l)' => Lent(l) \/ l = key
  <2>1. \A l : InPool(l)' => InPool(l) /\ l # key
    BY <1>7 DEF InPool
  <2>2. QED
    BY <2>1, <1>4, <1>5 DEF Lent, Busy
<1>9. UnfilledBounded'
  BY <1>1, <1>2, <1>6, <1>8, <1>l DEF UnfilledBounded, Unfilled
<1>10. PoolBounded'
  <2>1. ASSUME NEW g \in Gens, NEW i \in DOMAIN chans'[g], NEW l \in Keys, l = chans'[g][i].KeyNum
        PROVE  /\ chans'[g][i].Nonce =< mined[l]
               /\ Load(l)' =< chans'[g][i].Nonce + backlog[l]
               /\ ~Lent(l)'
               /\ \A h \in Gens : \A j \in DOMAIN chans'[h] :
                     chans'[h][j].KeyNum = chans'[g][i].KeyNum => h = g /\ j = i
    <3> DEFINE p == IF g = c THEN i + 1 ELSE i
    <3>1. p \in DOMAIN chans[g] /\ chans'[g][i] = chans[g][p] /\ l # key
      BY <2>1, <1>7
    <3>2. /\ chans[g][p].Nonce =< mined[l] /\ Load(l) =< chans[g][p].Nonce + backlog[l]
          /\ ~Lent(l)
      BY <2>1, <3>1, <1>1 DEF PoolBounded
    <3>3. ASSUME NEW h \in Gens, NEW j \in DOMAIN chans'[h], chans'[h][j].KeyNum = chans'[g][i].KeyNum
          PROVE  h = g /\ j = i
      <4> DEFINE q == IF h = c THEN j + 1 ELSE j
      <4>1. q \in DOMAIN chans[h] /\ chans'[h][j] = chans[h][q]
        BY <1>7
      <4>2. h = g /\ q = p
        BY <3>1, <3>3, <4>1, <1>1 DEF PoolBounded
      <4>3. i \in Nat /\ j \in Nat
        <5>1. chans' \in [Gens -> Seq(KeyNonce)]
          BY <1>1, <1>2, ChannelReceive
        <5>2. chans'[g] \in Seq(KeyNonce) /\ chans'[h] \in Seq(KeyNonce)
          BY <5>1
        <5>3. QED
          BY <5>2
      <4>4. QED
        BY <4>2, <4>3
    <3>4. Load(l)' = Load(l) /\ ~Lent(l)'
      BY <3>1, <3>2, <1>8, <1>l
    <3> HIDE DEF p
    <3>5. QED
      BY <3>1, <3>2, <3>3, <3>4
  <2>2. ASSUME NEW g \in Gens, NEW i \in DOMAIN chans'[g] PROVE chans'[g][i].KeyNum \in Keys
    <3> DEFINE p == IF g = c THEN i + 1 ELSE i
    <3>1. p \in DOMAIN chans[g] /\ chans'[g][i] = chans[g][p]
      BY <1>7
    <3>2. chans[g][p].KeyNum \in Keys
      BY <3>1, Numbers
    <3>3. QED
      BY <3>1, <3>2
  <2>3. QED
    BY <2>1, <2>2, <1>2 DEF PoolBounded
<1>11. HeldAlone'
  \* If the key has no backlog, nobody holds it, and nothing is pending.
  <2>1. backlog[key] = 0 => mined[key] = nonce /\ inflight[key] = 0 /\ Holders(key) = {}
    <3>1. backlog[key] = 0 => mined[key] = nonce /\ inflight[key] = 0 /\ Cardinality(Holders(key)) = 0
      BY <1>6, <1>n DEF Load
    <3>2. Cardinality(Holders(key)) = 0 => Holders(key) = {}
      BY <1>n, FS_EmptySet
    <3>3. QED
      BY <3>1, <3>2
  <2>2. ASSUME NEW v \in Users, user'[v].pc = "holding", backlog[user'[v].kn.KeyNum] = 0
        PROVE  /\ FullySynced(user[v].kn)'
               /\ \A w \in Users :
                     user'[w].pc = "holding" /\ user'[w].kn.KeyNum = user'[v].kn.KeyNum => w = v
    <3>1. CASE v = u
      <4>1. backlog[key] = 0 /\ Holders(key) = {} /\ mined[key] = nonce /\ inflight[key] = 0
        BY <3>1, <2>1, <2>2, <1>4, <1>5
      <4>2. FullySynced(user[v].kn)'
        BY <4>1, <3>1, <1>2, <1>4, <1>5 DEF FullySynced
      <4>3. QED
        BY <4>1, <4>2, <3>1, <1>4, <1>5 DEF Holders
    <3>2. CASE v # u
      <4>1. user'[v] = user[v] /\ user[v].pc = "holding" /\ backlog[user[v].kn.KeyNum] = 0
        BY <3>2, <2>2, <1>5
      <4>2. user[v].kn.KeyNum # key
        BY <4>1, <2>1 DEF Holders
      <4>3. QED
        BY <4>1, <4>2, <3>2, <1>1, <1>2, <1>4, <1>5 DEF HeldAlone, FullySynced
    <3>3. QED
      BY <3>1, <3>2
  <2>3. QED
    BY <2>2, <1>2 DEF HeldAlone
<1>12. LentBounded'
  <2>1. ASSUME NEW t \in Syncers, syncer'[t].pc # "free", NEW l \in Keys, l = syncer'[t].kn.KeyNum
        PROVE  /\ syncer'[t].kn.Nonce =< mined[l]
               /\ Load(l)' =< syncer'[t].kn.Nonce + 1 + backlog[l]
               /\ syncer'[t].pc \in {"matched", "sending"} => syncer'[t].kn.Nonce + 1 =< mined[l]
               /\ \A r \in Syncers :
                     syncer'[r].pc # "free" /\ syncer'[r].kn.KeyNum = syncer'[t].kn.KeyNum => r = t
    <3>1. CASE t = s
      <4>1. l = key /\ syncer'[t].kn.Nonce = nonce /\ syncer'[t].pc = "sync"
        BY <3>1, <2>1, <1>4, <1>5
      <4>2. Load(l)' =< nonce + 1 + backlog[l]
        BY <4>1, <1>6, <1>l, <1>n, <1>4
      <4>3. QED
        BY <4>1, <4>2, <3>1, <1>4, <1>5, <1>6 DEF Lent, Busy
    <3>2. CASE t # s
      <4>1. syncer'[t] = syncer[t] /\ syncer[t].kn.KeyNum # key
        BY <3>2, <2>1, <1>5, <1>6 DEF Lent, Busy
      <4>2. Load(l)' = Load(l)
        BY <4>1, <2>1, <1>l
      <4>3. QED
        BY <4>1, <4>2, <3>2, <2>1, <1>1, <1>2, <1>4, <1>5 DEF LentBounded, Busy
    <3>3. QED
      BY <3>1, <3>2
  <2>2. \A t \in Syncers : syncer'[t].kn.KeyNum \in Keys
    <3>1. \A t \in Syncers : syncer[t].kn.KeyNum \in Keys
      BY Numbers
    <3>2. QED
      BY <3>1, <1>4, <1>5
  <2>3. QED
    BY <2>1, <2>2, <1>2 DEF LentBounded, Busy
<1>13. QED
  BY <1>9, <1>10, <1>11, <1>12 DEF SyncParts

(***************************************************************************)
(* A send into channel c of a key that is in no other place, by a syncer   *)
(* that goes away or by UpdateNonces.                                      *)
(***************************************************************************)
LEMMA SyncSend ==
  ASSUME TypeOK, SyncParts,
         NEW c \in Gens, NEW kn \in KeyNonce, NEW key \in Keys, key = kn.KeyNum,
         chans' = [chans EXCEPT ![c] = Append(@, kn)],
         UNCHANGED <<mined, inflight, backlog, Nonces, updates, user>>,
         \A t \in Syncers : syncer'[t].pc # "free" =>
             syncer'[t] = syncer[t] /\ syncer[t].kn.KeyNum # key,
         \A l \in Keys : Unfilled(l)' =>
             Unfilled(l) /\ l # key /\ (l \notin updater'.todo => l \notin updater.todo),
         kn.Nonce =< mined[key], Load(key) =< kn.Nonce + backlog[key], ~InPool(key)
  PROVE  SyncParts'
<1>p. UnfilledBounded /\ PoolBounded /\ HeldAlone /\ LentBounded
  BY DEF SyncParts
<1>1. /\ \A g \in Gens \ {c} : chans'[g] = chans[g]
      /\ DOMAIN chans'[c] = 1 .. Len(chans[c]) + 1
      /\ DOMAIN chans[c] = 1 .. Len(chans[c])
      /\ Len(chans[c]) \in Nat
      /\ \A i \in DOMAIN chans[c] : chans'[c][i] = chans[c][i]
      /\ chans'[c][Len(chans[c]) + 1] = kn
  BY SendEntries
\* An entry is an old one, with another key, or the new one.
<1>2. ASSUME NEW g \in Gens, NEW i \in DOMAIN chans'[g]
      PROVE  \/ /\ i \in DOMAIN chans[g] /\ chans'[g][i] = chans[g][i]
                /\ chans[g][i].KeyNum # key
             \/ g = c /\ i = Len(chans[c]) + 1 /\ chans'[g][i] = kn
  <2>1. CASE i \in DOMAIN chans[g]
    <3>1. chans'[g][i] = chans[g][i]
      BY <2>1, <1>1
    <3>2. QED
      BY <2>1, <3>1 DEF InPool
  <2>2. CASE i \notin DOMAIN chans[g]
    BY <2>2, <1>1
  <2>3. QED
    BY <2>1, <2>2
<1>3. \A l : /\ InPool(l)' => InPool(l) \/ l = key
             /\ Lent(l)' => Lent(l) /\ l # key
             /\ Load(l)' = Load(l)
  <2>1. \A l : InPool(l)' => InPool(l) \/ l = key
    BY <1>2 DEF InPool
  <2>2. \A l : Lent(l)' => Lent(l) /\ l # key
    BY DEF Lent, Busy
  <2>3. \A l : Load(l)' = Load(l)
    BY DEF Load, Holders
  <2>4. QED
    BY <2>1, <2>2, <2>3
<1>4. UnfilledBounded'
  BY <1>p, <1>3 DEF UnfilledBounded
<1>5. PoolBounded'
  <2>1. ASSUME NEW g \in Gens, NEW i \in DOMAIN chans'[g], NEW l \in Keys, l = chans'[g][i].KeyNum
        PROVE  /\ chans'[g][i].Nonce =< mined[l]
               /\ Load(l)' =< chans'[g][i].Nonce + backlog[l]
               /\ ~Lent(l)'
               /\ \A h \in Gens : \A j \in DOMAIN chans'[h] :
                     chans'[h][j].KeyNum = chans'[g][i].KeyNum => h = g /\ j = i
    <3>0. Load(l)' = Load(l) /\ (Lent(l)' => Lent(l) /\ l # key)
      BY <1>3
    <3>1. CASE i \in DOMAIN chans[g] /\ chans'[g][i] = chans[g][i] /\ chans[g][i].KeyNum # key
      BY <3>0, <3>1, <2>1, <1>2, <1>p DEF PoolBounded
    <3>2. CASE g = c /\ i = Len(chans[c]) + 1 /\ chans'[g][i] = kn
      BY <3>0, <3>2, <2>1, <1>2
    <3>3. QED
      BY <3>1, <3>2, <1>2
  <2>2. ASSUME NEW g \in Gens, NEW i \in DOMAIN chans'[g] PROVE chans'[g][i].KeyNum \in Keys
    <3>1. \A h \in Gens : \A j \in DOMAIN chans[h] : chans[h][j].KeyNum \in Keys
      BY Numbers
    <3>2. QED
      BY <3>1, <1>2
  <2>3. QED
    BY <2>1, <2>2 DEF PoolBounded
<1>6. HeldAlone'
  BY <1>p DEF HeldAlone, FullySynced
<1>7. LentBounded'
  <2>1. \A t \in Syncers : syncer'[t].pc # "free" =>
           syncer'[t] = syncer[t] /\ Load(syncer[t].kn.KeyNum)' = Load(syncer[t].kn.KeyNum)
    BY DEF Load, Holders
  <2>2. QED
    BY <2>1, <1>p DEF LentBounded, Busy
<1>8. QED
  BY <1>4, <1>5, <1>6, <1>7 DEF SyncParts

LEMMA SyncReturnKey ==
  ASSUME TypeOK, SyncInv, updates =< 1, NEW s \in Syncers, ReturnKey(s)
  PROVE  SyncParts'
<1> DEFINE kn == SyncedKey(s)
<1> USE DEF node, pool, update
<1>1. /\ UnfilledBounded /\ PoolBounded /\ HeldAlone /\ LentBounded /\ SyncParts
      /\ syncer \in [Syncers -> SyncerState]
      /\ syncer[s].ch \in Gens /\ syncer[s].kn \in KeyNonce
  BY DEF SyncInv, SyncParts, TypeOK, SyncerState
<1>2. /\ kn \in KeyNonce /\ kn.KeyNum = syncer[s].kn.KeyNum /\ kn.KeyNum \in Keys
      /\ kn.Nonce = syncer[s].kn.Nonce + 1
  BY <1>1 DEF SyncedKey, KeyNonce
<1>3. /\ syncer[s].pc = "sending"
      /\ chans' = [chans EXCEPT ![syncer[s].ch] = Append(@, kn)]
      /\ syncer' = [syncer EXCEPT ![s] = FreeSyncer]
      /\ UNCHANGED <<mined, inflight, backlog, Nonces, updates, updater, user>>
  BY DEF ReturnKey
<1> HIDE DEF kn
<1>k. PICK key \in Keys : key = kn.KeyNum
  BY <1>2
<1>4. kn.Nonce =< mined[key] /\ Load(key) =< kn.Nonce + backlog[key] /\ Lent(key)
  BY <1>1, <1>2, <1>3, <1>k DEF LentBounded, Lent, Busy
<1>5. ~InPool(key) /\ ~Unfilled(key)
  <2>1. ~InPool(key)
    BY <1>1, <1>4 DEF PoolBounded, InPool
  <2>2. ~Unfilled(key)
    BY <1>1, <1>4 DEF UnfilledBounded
  <2>3. QED
    BY <2>1, <2>2
<1>6. \A t \in Syncers : syncer'[t].pc # "free" =>
         syncer'[t] = syncer[t] /\ syncer[t].kn.KeyNum # key
  <2>1. syncer'[s].pc = "free" /\ \A t \in Syncers \ {s} : syncer'[t] = syncer[t]
    BY <1>1, <1>3 DEF FreeSyncer, SyncerAt
  <2>2. \A t \in Syncers \ {s} : syncer[t].pc # "free" => syncer[t].kn.KeyNum # key
    BY <1>1, <1>2, <1>3, <1>k DEF LentBounded, Busy
  <2>3. QED
    BY <2>1, <2>2
<1>7. \A l \in Keys : Unfilled(l)' =>
         Unfilled(l) /\ l # key /\ (l \notin updater'.todo => l \notin updater.todo)
  BY <1>3, <1>5 DEF Unfilled
<1>8. QED
  BY <1>1, <1>2, <1>3, <1>k, <1>4, <1>5, <1>6, <1>7, SyncSend

LEMMA SyncEnqueue ==
  ASSUME TypeOK, SyncInv, updates =< 1, Enqueue
  PROVE  SyncParts'
<1> DEFINE kn == [KeyNum |-> updater.next, Nonce |-> Nonces[updater.next]]
<1> USE NonceManagerAssumption DEF node, pool, update
<1>1. /\ UnfilledBounded /\ SyncParts
      /\ gen \in Gens /\ updater.next \in 1 .. NumKeys /\ updates \in Nat
      /\ Nonces \in [Keys -> Nat]
  BY DEF SyncInv, SyncParts, TypeOK, UpdaterState, Gens
<1>2. /\ updater.pc = "filling" /\ updater.next < NumKeys
      /\ updater' = UpdaterAt("filling", {}, updater.next + 1)
      /\ chans' = [chans EXCEPT ![gen] = Append(@, kn)]
      /\ UNCHANGED <<mined, inflight, backlog, Nonces, updates, user, syncer>>
  BY DEF Enqueue
<1>3. kn \in KeyNonce /\ kn.KeyNum = updater.next /\ kn.Nonce = Nonces[kn.KeyNum] /\ kn.KeyNum \in Keys
  BY <1>1, <1>2 DEF KeyNonce, Keys
<1> HIDE DEF kn
<1>k. PICK key \in Keys : key = kn.KeyNum
  BY <1>3
<1>4. updates # 0 /\ updater.todo = {} /\ Unfilled(key)
  BY <1>1, <1>2, <1>3, <1>k DEF SyncInv, Unfilled
<1>5. /\ kn.Nonce =< mined[key] /\ Load(key) =< kn.Nonce + backlog[key]
      /\ ~InPool(key) /\ ~Lent(key)
  <2>1. Nonces[key] =< mined[key] /\ Load(key) =< backlog[key] /\ ~InPool(key) /\ ~Lent(key)
    BY <1>1, <1>4 DEF UnfilledBounded
  <2>2. Nonces[key] \in Nat /\ Load(key) \in Nat /\ backlog[key] \in Nat
    BY Numbers
  <2>3. QED
    BY <2>1, <2>2, <1>3, <1>k
<1>6. \A t \in Syncers : syncer'[t].pc # "free" =>
         syncer'[t] = syncer[t] /\ syncer[t].kn.KeyNum # key
  BY <1>2, <1>5 DEF Lent, Busy
<1>7. \A l \in Keys : Unfilled(l)' =>
         Unfilled(l) /\ l # key /\ (l \notin updater'.todo => l \notin updater.todo)
  <2>1. updater'.pc = "filling" /\ updater'.next = updater.next + 1
    BY <1>2 DEF UpdaterAt
  <2>2. QED
    BY <2>1, <1>1, <1>2, <1>3, <1>k, <1>4 DEF Unfilled, Keys
<1>8. QED
  BY <1>1, <1>2, <1>3, <1>k, <1>5, <1>6, <1>7, SyncSend

\* UpdateNonces at start-up, up to the channel.
LEMMA SyncRead ==
  ASSUME TypeOK, SyncInv, updates' =< 1,
         UNCHANGED <<mined, inflight, backlog, chans, user, syncer>>,
         \/ UpdateNonces
         \/ ReadNonceFails \/ MakeChannel \/ UpdateNoncesReturns
         \/ \E k \in Keys : ReadNonce(k)
  PROVE  SyncParts'
<1> USE NonceManagerAssumption DEF node, pool, update
<1>1. /\ UnfilledBounded /\ PoolBounded /\ HeldAlone /\ LentBounded
      /\ updates \in Nat /\ updater.next \in 1 .. NumKeys
      /\ Nonces \in [Keys -> Nat] /\ mined \in [Keys -> Nat]
  <2>1. /\ updates \in Nat /\ updater.next \in 1 .. NumKeys
        /\ Nonces \in [Keys -> Nat] /\ mined \in [Keys -> Nat]
    BY DEF TypeOK, UpdaterState, Gens
  <2>2. updates' = updates \/ updates' = updates + 1
    BY DEF UpdateNonces, ReadNonceFails, MakeChannel, UpdateNoncesReturns, ReadNonce
  <2>3. updates =< 1
    BY <2>1, <2>2
  <2>4. QED
    BY <2>1, <2>3 DEF SyncInv, SyncParts
<1>2. \A l : InPool(l)' = InPool(l) /\ Lent(l)' = Lent(l) /\ Load(l)' = Load(l)
  <2>1. \A l : InPool(l)' = InPool(l) /\ Lent(l)' = Lent(l)
    BY DEF InPool, Lent, Busy
  <2>2. \A l : Load(l)' = Load(l)
    BY DEF Load, Holders
  <2>3. QED
    BY <2>1, <2>2
<1>3. UnfilledBounded'
  <2>1. CASE UpdateNonces
    BY <2>1, <1>1, <1>2 DEF UnfilledBounded, Unfilled, UpdateNonces, UpdaterAt
  <2>2. ASSUME NEW k \in Keys, ReadNonce(k) PROVE UnfilledBounded'
    <3>1. /\ Nonces'[k] = mined[k] /\ \A l \in Keys \ {k} : Nonces'[l] = Nonces[l]
          /\ updater'.todo = updater.todo \ {k} /\ updater.pc = "reading" /\ updates' = updates
      BY <2>2, <1>1 DEF ReadNonce, UpdaterAt
    <3>2. \A l \in Keys : updates # 0 /\ l \notin updater'.todo => Nonces'[l] =< mined[l]
      BY <3>1, <1>1 DEF UnfilledBounded, Unfilled
    <3>3. QED
      BY <3>1, <3>2, <1>1, <1>2 DEF UnfilledBounded, Unfilled
  <2>3. CASE ReadNonceFails
    BY <2>3, <1>1, <1>2 DEF UnfilledBounded, Unfilled, ReadNonceFails, IdleUpdater, UpdaterAt
  <2>4. CASE MakeChannel
    BY <2>4, <1>1, <1>2 DEF UnfilledBounded, Unfilled, MakeChannel, UpdaterAt
  <2>5. CASE UpdateNoncesReturns
    BY <2>5, <1>1, <1>2 DEF UnfilledBounded, Unfilled, UpdateNoncesReturns, IdleUpdater, UpdaterAt, SyncInv
  <2>6. QED
    BY <2>1, <2>2, <2>3, <2>4, <2>5
<1>4. PoolBounded'
  BY <1>1, <1>2 DEF PoolBounded
<1>5. HeldAlone' /\ LentBounded'
  BY <1>1, <1>2 DEF HeldAlone, LentBounded, FullySynced, Busy
<1>6. QED
  BY <1>3, <1>4, <1>5 DEF SyncParts

LEMMA SyncStep == TypeOK /\ TypeOK' /\ SyncInv /\ [Next]_vars => SyncInv'
<1> SUFFICES ASSUME TypeOK, TypeOK', SyncInv, [Next]_vars PROVE SyncInv'
  OBVIOUS
<1> USE NonceManagerAssumption DEF node, pool, update
<1>a. /\ user \in [Users -> UserState] /\ syncer \in [Syncers -> SyncerState] /\ updates \in Nat
      /\ \A k \in Keys : mined[k] \in Nat
  BY DEF TypeOK, Gens
<1>1. CASE UpdateNonces
  BY <1>1, <1>a, SyncRead DEF UpdateNonces, SyncInv, UpdaterAt
<1>2. ASSUME NEW k \in Keys, ReadNonce(k) PROVE SyncInv'
  BY <1>2, SyncRead DEF ReadNonce, SyncInv, UpdaterAt
<1>3. CASE ReadNonceFails
  BY <1>3, SyncRead DEF ReadNonceFails, SyncInv, IdleUpdater, UpdaterAt
<1>4. CASE MakeChannel
  BY <1>4, SyncRead DEF MakeChannel, SyncInv, UpdaterAt
<1>5. CASE Enqueue
  BY <1>5, SyncEnqueue DEF Enqueue, SyncInv, UpdaterAt
<1>6. CASE UpdateNoncesReturns
  BY <1>6, SyncRead DEF UpdateNoncesReturns, SyncInv, IdleUpdater, UpdaterAt
\* Users and syncers that leave the chain and the channels alone.
<1>u. ASSUME UNCHANGED <<mined, inflight, backlog, Nonces, chans, updater, updates>>,
             \A v \in Users : user'[v].pc = "holding" => user'[v] = user[v],
             \A s \in Syncers : syncer'[s].pc # "free" =>
                 /\ syncer[s].pc # "free"
                 /\ syncer'[s].kn = syncer[s].kn
                 /\ \/ syncer'[s].pc \in {"exhausted", "append", "sync"}
                    \/ syncer'[s].pc = syncer[s].pc
                    \/ syncer'[s].pc = "sending" /\ syncer[s].pc = "matched"
                    \/ syncer[s].kn.Nonce + 1 =< mined[syncer[s].kn.KeyNum]
      PROVE  SyncInv'
  <2>1. \A k \in Keys : Load(k)' =< Load(k)
    BY <1>u, LoadOfFewer
  <2>2. \A k \in Keys : mined[k] =< mined'[k]
    BY <1>u, <1>a
  <2>3. QED
    BY <1>u, <2>1, <2>2, SyncUnmoved
<1>7. ASSUME NEW u \in Users, \/ AnySyncedKey(u) \/ Timeout(u) \/ TimeoutLock(u)
                             \/ TimeoutReturns(u) \/ SendTxFails(u)
      PROVE  SyncInv'
  <2>1. /\ \A v \in Users : user'[v].pc = "holding" => user'[v] = user[v]
        /\ UNCHANGED <<mined, inflight, backlog, Nonces, chans, updater, updates, syncer>>
    BY <1>7, <1>a DEF AnySyncedKey, Timeout, TimeoutLock, TimeoutReturns, SendTxFails,
       WaitingOn, ExpiredUser, TimedOut, FailedUser, IdleUser, UserAt
  <2>2. QED
    BY <2>1, <1>u
<1>8. ASSUME NEW u \in Users, NEW s \in Syncers, ReceiveKey(u, s) PROVE SyncInv'
  BY <1>8, SyncReceiveKey DEF ReceiveKey, SyncInv
<1>9. ASSUME NEW u \in Users, SendTx(u) PROVE SyncInv'
  BY <1>9, SyncSendTx
<1>11. ASSUME NEW s \in Syncers, \/ NonceMatches(s) \/ AttemptFails(s) \/ EvaluateChannel(s)
                                \/ ReadErrors(s) \/ AppendError(s)
       PROVE  SyncInv'
  <2>1. /\ UNCHANGED <<mined, inflight, backlog, Nonces, chans, updater, updates, user>>
        /\ \A t \in Syncers \ {s} : syncer'[t] = syncer[t]
    BY <1>11, <1>a DEF NonceMatches, AttemptFails, EvaluateChannel, ReadErrors, AppendError
  <2>2. syncer'[s].pc # "free" =>
             /\ syncer[s].pc # "free"
             /\ syncer'[s].kn = syncer[s].kn
             /\ \/ syncer'[s].pc \in {"exhausted", "append", "sync"}
                \/ syncer'[s].pc = syncer[s].pc
                \/ syncer'[s].pc = "sending" /\ syncer[s].pc = "matched"
                \/ syncer[s].kn.Nonce + 1 =< mined[syncer[s].kn.KeyNum]
    <3>1. CASE AttemptFails(s)
      BY <3>1, <1>a DEF AttemptFails, Exhausted, Polling, SyncerAt
    <3>2. CASE EvaluateChannel(s)
      BY <3>2, <1>a DEF EvaluateChannel, Sending, SyncerAt
    <3>3. CASE ReadErrors(s)
      BY <3>3, <1>a DEF ReadErrors, Appending, SyncerAt
    <3>4. CASE AppendError(s)
      BY <3>4, <1>a DEF AppendError, FreeSyncer, SyncerAt
    <3>5. CASE NonceMatches(s)
      <4>1. mined[syncer[s].kn.KeyNum] = syncer[s].kn.Nonce + 1 /\ syncer[s].kn.Nonce \in Nat
        BY <3>5, Numbers DEF NonceMatches, Synced
      <4>2. syncer'[s].kn = syncer[s].kn /\ syncer[s].pc # "free"
        BY <3>5, <1>a DEF NonceMatches, Matched, SyncerAt
      <4>3. QED
        BY <4>1, <4>2
    <3>6. QED
      BY <1>11, <3>1, <3>2, <3>3, <3>4, <3>5
  <2>3. QED
    BY <2>1, <2>2, <1>u
<1>12. ASSUME NEW s \in Syncers, ReturnKey(s) PROVE SyncInv'
  BY <1>12, SyncReturnKey DEF ReturnKey, SyncInv
<1>13. ASSUME NEW k \in Keys, Mine(k) PROVE SyncInv'
  BY <1>13, SyncMine
<1>14. CASE UNCHANGED vars
  BY <1>14, <1>u DEF vars
<1>15. QED
  BY <1>1, <1>2, <1>3, <1>4, <1>5, <1>6, <1>7, <1>8, <1>9, <1>11, <1>12, <1>13, <1>14
     DEF Next, Updater, User, Syncer

(***************************************************************************)
(* Until UpdateNonces is called a second time, a key that AnySyncedKey has *)
(* returned (client.go 871, nonce.go 104-141) is fully synced if nothing   *)
(* of it was pending when the client was created; otherwise a key in the   *)
(* pool is behind by no more than what was pending then.  For any number   *)
(* of keys, users, syncers and pending transactions, and whatever the      *)
(* syncers' polls and retries do.                                          *)
(***************************************************************************)
THEOREM HeldKeysAreSynced == Spec => []HeldKeySynced
<1>1. TypeOK /\ SyncInv => HeldKeySynced
  <2> SUFFICES ASSUME TypeOK, SyncInv, updates =< 1
               PROVE  /\ \A u \in Users : user[u].pc = "holding" /\ backlog[user[u].kn.KeyNum] = 0
                            => FullySynced(user[u].kn)
                      /\ \A g \in Gens : \A i \in DOMAIN chans[g] :
                            LET kn == chans[g][i]  k == chans[g][i].KeyNum IN
                            /\ kn.Nonce =< mined[k]
                            /\ mined[k] + inflight[k] + Cardinality(Holders(k)) =< kn.Nonce + backlog[k]
    BY DEF HeldKeySynced
  <2>1. \A u \in Users : user[u].pc = "holding" /\ backlog[user[u].kn.KeyNum] = 0
           => FullySynced(user[u].kn)
    BY DEF SyncInv, SyncParts, HeldAlone
  <2>2. \A g \in Gens : \A i \in DOMAIN chans[g] :
           LET kn == chans[g][i]  k == chans[g][i].KeyNum IN
           /\ kn.Nonce =< mined[k]
           /\ mined[k] + inflight[k] + Cardinality(Holders(k)) =< kn.Nonce + backlog[k]
    BY DEF SyncInv, SyncParts, PoolBounded, Load
  <2>3. QED
    BY <2>1, <2>2
<1>2. QED
  BY TypeInit, TypeStep, SyncInit, SyncStep, <1>1, PTL DEF Spec

-----------------------------------------------------------------------------
(* nonce.go implements KeyPool.  First, how the steps change the counts. *)

LEMMA CountsFinite ==
  ASSUME TypeOK, NEW k
  PROVE  /\ IsFiniteSet(InChannels(k)) /\ Cardinality(InChannels(k)) \in Nat
         /\ IsFiniteSet(WithSyncers(k)) /\ Cardinality(WithSyncers(k)) \in Nat
<1>1. IsFiniteSet(Gens) /\ IsFiniteSet(1 .. Capacity)
  BY FS_Interval, NonceManagerAssumption DEF Gens, Capacity
<1>2. IsFiniteSet(Gens \X (1 .. Capacity))
  BY <1>1, FS_Product
<1>3. InChannels(k) \in SUBSET (Gens \X (1 .. Capacity))
  BY DEF InChannels
<1>4. IsFiniteSet(InChannels(k))
  BY <1>2, <1>3, FS_Subset
<1>5. WithSyncers(k) \in SUBSET Syncers
  BY DEF WithSyncers
<1>6. IsFiniteSet(WithSyncers(k))
  BY <1>5, FS_Subset, NonceManagerAssumption
<1>7. QED
  BY <1>4, <1>6, FS_CardinalityType

LEMMA CountsPositive ==
  ASSUME TypeOK, NEW k
  PROVE  /\ InChannels(k) # {} => Cardinality(InChannels(k)) > 0
         /\ WithSyncers(k) # {} => Cardinality(WithSyncers(k)) > 0
<1>1. /\ InChannels(k) # {} => Cardinality(InChannels(k)) # 0
      /\ WithSyncers(k) # {} => Cardinality(WithSyncers(k)) # 0
  BY CountsFinite, FS_EmptySet
<1>2. QED
  BY <1>1, CountsFinite

\* A send adds one entry.
LEMMA SendCount ==
  ASSUME TypeOK, NEW c \in Gens, NEW kn \in KeyNonce, Len(chans[c]) < Capacity,
         chans' = [chans EXCEPT ![c] = Append(@, kn)], NEW k
  PROVE  Cardinality(InChannels(k)') =
             IF kn.KeyNum = k THEN Cardinality(InChannels(k)) + 1 ELSE Cardinality(InChannels(k))
<1> DEFINE new == <<c, Len(chans[c]) + 1>>
<1>1. /\ \A g \in Gens \ {c} : chans'[g] = chans[g]
      /\ DOMAIN chans'[c] = 1 .. Len(chans[c]) + 1
      /\ DOMAIN chans[c] = 1 .. Len(chans[c])
      /\ Len(chans[c]) \in Nat
      /\ \A i \in DOMAIN chans[c] : chans'[c][i] = chans[c][i]
      /\ chans'[c][Len(chans[c]) + 1] = kn
  BY SendEntries
<1>2. Len(chans[c]) + 1 \in 1 .. Capacity
  BY <1>1, NonceManagerAssumption DEF Capacity
<1>3. new \in Gens \X (1 .. Capacity) /\ new \notin InChannels(k)
  BY <1>1, <1>2 DEF InChannels
<1>4. CASE kn.KeyNum = k
  <2>1. InChannels(k)' = InChannels(k) \cup {new}
    <3>1. ASSUME NEW p \in Gens \X (1 .. Capacity)
          PROVE  p \in InChannels(k)' <=> p \in InChannels(k) \/ p = new
      <4>1. CASE p[1] = c
        BY <4>1, <1>1, <1>4 DEF InChannels
      <4>2. CASE p[1] # c
        BY <4>2, <1>1 DEF InChannels
      <4>3. QED
        BY <4>1, <4>2
    <3>2. /\ InChannels(k)' \subseteq Gens \X (1 .. Capacity)
          /\ InChannels(k) \subseteq Gens \X (1 .. Capacity)
      BY DEF InChannels
    <3>3. QED
      BY <3>1, <3>2, <1>3
  <2>2. QED
    BY <2>1, <1>3, <1>4, CountsFinite, FS_AddElement
<1>5. CASE kn.KeyNum # k
  <2>1. InChannels(k)' = InChannels(k)
    <3>1. ASSUME NEW p \in Gens \X (1 .. Capacity)
          PROVE  p \in InChannels(k)' <=> p \in InChannels(k)
      <4>1. CASE p[1] = c
        BY <4>1, <1>1, <1>5 DEF InChannels
      <4>2. CASE p[1] # c
        BY <4>2, <1>1 DEF InChannels
      <4>3. QED
        BY <4>1, <4>2
    <3>2. /\ InChannels(k)' \subseteq Gens \X (1 .. Capacity)
          /\ InChannels(k) \subseteq Gens \X (1 .. Capacity)
      BY DEF InChannels
    <3>3. QED
      BY <3>1, <3>2
  <2>2. QED
    BY <2>1, <1>5
<1>6. QED
  BY <1>4, <1>5

\* A receive removes the first entry and moves the others up.
LEMMA ReceiveCount ==
  ASSUME TypeOK, NEW c \in Gens, chans[c] # <<>>,
         chans' = [chans EXCEPT ![c] = Tail(@)], NEW k
  PROVE  Cardinality(InChannels(k)') =
             IF Head(chans[c]).KeyNum = k THEN Cardinality(InChannels(k)) - 1
                                          ELSE Cardinality(InChannels(k))
<1> DEFINE S == InChannels(k) \ {<<c, 1>>}
<1> DEFINE T == InChannels(k)'
<1> DEFINE f == [p \in S |-> IF p[1] = c THEN <<c, p[2] - 1>> ELSE p]
<1>1. /\ \A g \in Gens \ {c} : chans'[g] = chans[g]
      /\ DOMAIN chans'[c] = 1 .. Len(chans[c]) - 1
      /\ DOMAIN chans[c] = 1 .. Len(chans[c])
      /\ Len(chans[c]) \in Nat \ {0} /\ Len(chans[c]) =< Capacity /\ Capacity \in Nat
      /\ \A i \in DOMAIN chans'[c] : chans'[c][i] = chans[c][i + 1]
      /\ chans[c][1] = Head(chans[c])
  BY ReceiveEntries, NonceManagerAssumption DEF TypeOK, Capacity
<1>2. \A p \in S : /\ p \in Gens \X (1 .. Capacity) /\ p[2] \in DOMAIN chans[p[1]]
                   /\ chans[p[1]][p[2]].KeyNum = k /\ (p[1] = c => p[2] # 1)
  BY DEF InChannels
<1>3. f \in [S -> T]
  <2>1. ASSUME NEW p \in S PROVE f[p] \in T
    <3>1. CASE p[1] = c
      <4>1. p[2] - 1 \in 1 .. Len(chans[c]) - 1 /\ p[2] - 1 \in 1 .. Capacity
        BY <3>1, <1>1, <1>2
      <4>2. chans'[c][p[2] - 1].KeyNum = k
        BY <3>1, <4>1, <1>1, <1>2
      <4>3. QED
        BY <3>1, <4>1, <4>2, <1>1 DEF InChannels
    <3>2. CASE p[1] # c
      BY <3>2, <1>1, <1>2 DEF InChannels
    <3>3. QED
      BY <3>1, <3>2
  <2>2. QED
    BY <2>1
<1>4. ASSUME NEW a \in S, NEW b \in S, f[a] = f[b] PROVE a = b
  <2>1. a \in Gens \X (1 .. Capacity) /\ b \in Gens \X (1 .. Capacity)
    BY <1>2
  <2>2. f[a] = (IF a[1] = c THEN <<c, a[2] - 1>> ELSE a) /\ f[b] = (IF b[1] = c THEN <<c, b[2] - 1>> ELSE b)
    OBVIOUS
  <2> HIDE DEF f, S
  <2>3. CASE a[1] = c /\ b[1] = c
    <3>1. <<c, a[2] - 1>> = <<c, b[2] - 1>>
      BY <1>4, <2>2, <2>3
    <3>2. a[2] - 1 = b[2] - 1 /\ a[2] \in Nat /\ b[2] \in Nat
      BY <2>1, <3>1
    <3>3. a[2] = b[2]
      BY <3>2
    <3>4. QED
      BY <2>1, <2>3, <3>3
  <2>4. CASE a[1] = c /\ b[1] # c
    <3>1. b = <<c, a[2] - 1>>
      BY <1>4, <2>2, <2>4
    <3>2. QED
      BY <3>1, <2>4
  <2>5. CASE a[1] # c /\ b[1] = c
    <3>1. a = <<c, b[2] - 1>>
      BY <1>4, <2>2, <2>5
    <3>2. QED
      BY <3>1, <2>5
  <2>6. CASE a[1] # c /\ b[1] # c
    BY <1>4, <2>2, <2>6
  <2>7. QED
    BY <2>3, <2>4, <2>5, <2>6
<1>5. ASSUME NEW q \in T PROVE \E p \in S : f[p] = q
  <2>1. /\ q \in Gens \X (1 .. Capacity) /\ q[2] \in DOMAIN chans'[q[1]]
        /\ chans'[q[1]][q[2]].KeyNum = k
    BY DEF InChannels
  <2>2. CASE q[1] = c
    <3> DEFINE p == <<c, q[2] + 1>>
    <3>1. /\ q[2] \in 1 .. Len(chans[c]) - 1 /\ q[2] + 1 \in DOMAIN chans[c]
          /\ q[2] + 1 \in 1 .. Capacity /\ chans[c][q[2] + 1].KeyNum = k
      BY <2>1, <2>2, <1>1
    <3>2. p \in InChannels(k) /\ p # <<c, 1>>
      BY <3>1 DEF InChannels
    <3>3. p \in S
      BY <3>2
    <3>4. f[p] = <<c, q[2]>>
      BY <3>1, <3>3
    <3>5. QED
      BY <2>1, <2>2, <3>3, <3>4
  <2>3. CASE q[1] # c
    <3>1. q \in S
      BY <2>1, <2>3, <1>1 DEF InChannels
    <3>2. f[q] = q
      BY <3>1, <2>3
    <3>3. QED
      BY <3>1, <3>2
  <2>4. QED
    BY <2>2, <2>3
<1>6. IsFiniteSet(S) /\ Cardinality(S) =
         IF <<c, 1>> \in InChannels(k) THEN Cardinality(InChannels(k)) - 1 ELSE Cardinality(InChannels(k))
  BY CountsFinite, FS_RemoveElement
<1>7. <<c, 1>> \in InChannels(k) <=> Head(chans[c]).KeyNum = k
  <2>1. 1 \in DOMAIN chans[c] /\ 1 \in 1 .. Capacity
    BY <1>1
  <2>2. QED
    BY <2>1, <1>1 DEF InChannels
<1> HIDE DEF f, S, T
<1>8. ExistsBijection(S, T)
  <2>1. f \in Bijection(S, T)
    BY <1>3, <1>4, <1>5, Fun_IsBij
  <2>2. QED
    BY <2>1, Fun_ExistsBij
<1>9. Cardinality(T) = Cardinality(S)
  BY <1>6, <1>8, FS_Bijection
<1>10. QED
  BY <1>6, <1>7, <1>9 DEF T

\* A syncer takes charge of a key, or gives it up.
LEMMA SyncerCount ==
  ASSUME TypeOK, NEW s \in Syncers,
         \A t \in Syncers \ {s} : syncer'[t] = syncer[t], NEW k
  PROVE  /\ syncer'[s].pc # "free" /\ syncer[s].pc # "free" /\ syncer'[s].kn.KeyNum = syncer[s].kn.KeyNum =>
                WithSyncers(k)' = WithSyncers(k)
         /\ syncer'[s].pc # "free" /\ syncer[s].pc = "free" =>
                Cardinality(WithSyncers(k)') = IF syncer'[s].kn.KeyNum = k THEN Cardinality(WithSyncers(k)) + 1
                                               ELSE Cardinality(WithSyncers(k))
         /\ syncer'[s].pc = "free" /\ syncer[s].pc # "free" =>
                Cardinality(WithSyncers(k)') = IF syncer[s].kn.KeyNum = k THEN Cardinality(WithSyncers(k)) - 1
                                               ELSE Cardinality(WithSyncers(k))
<1>2. IsFiniteSet(WithSyncers(k)) /\ Cardinality(WithSyncers(k)) \in Nat
  BY CountsFinite
<1>3. ASSUME syncer'[s].pc # "free", syncer[s].pc # "free", syncer'[s].kn.KeyNum = syncer[s].kn.KeyNum
      PROVE  WithSyncers(k)' = WithSyncers(k)
  BY <1>3 DEF WithSyncers, Busy
<1>4. ASSUME syncer'[s].pc # "free", syncer[s].pc = "free"
      PROVE  Cardinality(WithSyncers(k)') = IF syncer'[s].kn.KeyNum = k THEN Cardinality(WithSyncers(k)) + 1
                                            ELSE Cardinality(WithSyncers(k))
  <2>1. s \notin WithSyncers(k)
    BY <1>4 DEF WithSyncers, Busy
  <2>2. CASE syncer'[s].kn.KeyNum = k
    <3>1. WithSyncers(k)' = WithSyncers(k) \cup {s}
      BY <1>4, <2>2 DEF WithSyncers, Busy
    <3>2. QED
      BY <3>1, <2>1, <2>2, <1>2, FS_AddElement
  <2>3. CASE syncer'[s].kn.KeyNum # k
    <3>1. WithSyncers(k)' = WithSyncers(k)
      BY <1>4, <2>3 DEF WithSyncers, Busy
    <3>2. QED
      BY <3>1, <2>3
  <2>4. QED
    BY <2>2, <2>3
<1>5. ASSUME syncer'[s].pc = "free", syncer[s].pc # "free"
      PROVE  Cardinality(WithSyncers(k)') = IF syncer[s].kn.KeyNum = k THEN Cardinality(WithSyncers(k)) - 1
                                            ELSE Cardinality(WithSyncers(k))
  <2>1. WithSyncers(k)' = WithSyncers(k) \ {s}
    BY <1>5 DEF WithSyncers, Busy
  <2>2. s \in WithSyncers(k) <=> syncer[s].kn.KeyNum = k
    BY <1>5 DEF WithSyncers, Busy
  <2>3. QED
    BY <2>1, <2>2, <1>2, FS_RemoveElement
<1>6. QED
  BY <1>3, <1>4, <1>5

(***************************************************************************)
(* The inductive invariant: the copies of a key, and the one that a call   *)
(* of UpdateNonces under way may still add, are at most the calls so far.  *)
(***************************************************************************)
ToCome(k) ==
    IF updater.pc = "reading" \/ (updater.pc = "filling" /\ updater.next =< k) THEN 1 ELSE 0

CopiesInv ==
    \A k \in PooledKeys :
        Cardinality(InChannels(k)) + Cardinality(WithSyncers(k)) + ToCome(k) =< updates

LEMMA CopiesInit == Init => CopiesInv /\ Pool!Init
<1> SUFFICES ASSUME Init PROVE CopiesInv /\ Pool!Init
  OBVIOUS
<1>1. \A k : InChannels(k) = {} /\ WithSyncers(k) = {}
  BY DEF Init, InChannels, WithSyncers, Busy, FreeSyncer, SyncerAt
<1>2. \A k : Cardinality(InChannels(k)) = 0 /\ Cardinality(WithSyncers(k)) = 0
  BY <1>1, FS_EmptySet
<1>3. updates = 0 /\ \A k : ToCome(k) = 0
  BY DEF Init, ToCome, IdleUpdater, UpdaterAt
<1>4. QED
  BY <1>2, <1>3 DEF CopiesInv, Pool!Init

\* A step that moves no key maps to a stutter of KeyPool.
LEMMA CopiesUnmoved ==
  ASSUME CopiesInv, UNCHANGED updates,
         \A k \in PooledKeys : /\ InChannels(k)' = InChannels(k) /\ WithSyncers(k)' = WithSyncers(k)
                               /\ ToCome(k)' = ToCome(k) \/ ToCome(k)' = 0,
         TypeOK
  PROVE  CopiesInv' /\ UNCHANGED Pool!vars
<1>1. \A k \in PooledKeys : /\ Cardinality(InChannels(k)') = Cardinality(InChannels(k))
                            /\ Cardinality(WithSyncers(k)') = Cardinality(WithSyncers(k))
  OBVIOUS
<1>2. UNCHANGED Pool!vars
  BY <1>1 DEF Pool!vars
<1>3. CopiesInv'
  <2>1. \A k \in PooledKeys : /\ Cardinality(InChannels(k)) \in Nat
                              /\ Cardinality(WithSyncers(k)) \in Nat
                              /\ ToCome(k) \in {0, 1} /\ updates \in Nat
    BY CountsFinite, NonceManagerAssumption DEF ToCome, TypeOK, Gens
  <2>2. QED
    BY <1>1, <2>1 DEF CopiesInv
<1>4. QED
  BY <1>2, <1>3

LEMMA CopiesUpdater ==
  ASSUME TypeOK, CopiesInv, Updater
  PROVE  CopiesInv' /\ [Pool!Next]_(Pool!vars)
<1> USE NonceManagerAssumption DEF node, pool, update
<1>a. /\ updates \in Nat /\ updater.next \in 1 .. NumKeys /\ gen \in Gens
      /\ \A k : /\ Cardinality(InChannels(k)) \in Nat
                /\ Cardinality(WithSyncers(k)) \in Nat /\ ToCome(k) \in {0, 1}
  BY CountsFinite DEF TypeOK, UpdaterState, Gens, ToCome
<1>b. ASSUME UNCHANGED <<chans, syncer>>
      PROVE  \A k : InChannels(k)' = InChannels(k) /\ WithSyncers(k)' = WithSyncers(k)
  BY <1>b DEF InChannels, WithSyncers, Busy
<1>1. CASE UpdateNonces
  <2>1. /\ UNCHANGED <<chans, syncer>> /\ updates' = updates + 1
        /\ \A k : ToCome(k)' = 1 /\ ToCome(k) = 0
    BY <1>1 DEF UpdateNonces, UpdaterAt, ToCome
  <2>2. \A k : /\ Cardinality(InChannels(k)') = Cardinality(InChannels(k))
               /\ Cardinality(WithSyncers(k)') = Cardinality(WithSyncers(k))
    BY <2>1, <1>b
  <2>3. CopiesInv'
    BY <2>1, <2>2, <1>a DEF CopiesInv
  <2>4. Pool!Refresh
    BY <2>1, <2>2 DEF Pool!Refresh
  <2>5. QED
    BY <2>3, <2>4 DEF Pool!Next
<1>2. ASSUME \/ \E k \in Keys : ReadNonce(k)
             \/ ReadNonceFails \/ MakeChannel \/ UpdateNoncesReturns
      PROVE  CopiesInv' /\ UNCHANGED Pool!vars
  <2>1. UNCHANGED <<chans, syncer, updates>>
    BY <1>2 DEF ReadNonce, ReadNonceFails, MakeChannel, UpdateNoncesReturns
  <2>2. \A k \in PooledKeys : ToCome(k)' = ToCome(k) \/ ToCome(k)' = 0
    <3>1. CASE \E k \in Keys : ReadNonce(k)
      BY <3>1 DEF ReadNonce, UpdaterAt, ToCome
    <3>2. CASE ReadNonceFails \/ UpdateNoncesReturns
      BY <3>2 DEF ReadNonceFails, UpdateNoncesReturns, IdleUpdater, UpdaterAt, ToCome
    <3>3. CASE MakeChannel
      BY <3>3 DEF MakeChannel, UpdaterAt, ToCome, PooledKeys
    <3>4. QED
      BY <1>2, <3>1, <3>2, <3>3
  <2>3. QED
    BY <2>1, <2>2, <1>b, CopiesUnmoved
<1>3. CASE Enqueue
  <2> DEFINE kn == [KeyNum |-> updater.next, Nonce |-> Nonces[updater.next]]
  <2>1. /\ updater.pc = "filling" /\ updater.next < NumKeys
        /\ updater' = UpdaterAt("filling", {}, updater.next + 1)
        /\ Len(chans[gen]) < Capacity
        /\ chans' = [chans EXCEPT ![gen] = Append(@, kn)]
        /\ UNCHANGED <<updates, syncer>>
    BY <1>3 DEF Enqueue
  <2>2. PICK n \in PooledKeys : n = updater.next
    BY <2>1, <1>a DEF PooledKeys
  <2>3. kn \in KeyNonce /\ kn.KeyNum = n
    <3>1. n \in Keys
      BY <2>2 DEF PooledKeys, Keys
    <3>2. Nonces[n] \in Nat
      BY <3>1 DEF TypeOK
    <3>3. QED
      BY <3>1, <3>2, <2>2 DEF KeyNonce
  <2> HIDE DEF kn
  <2>4. \A k : Cardinality(InChannels(k)') = IF n = k THEN Cardinality(InChannels(k)) + 1
                                             ELSE Cardinality(InChannels(k))
    BY <2>1, <2>3, <1>a, SendCount
  <2>5. \A k : Cardinality(WithSyncers(k)') = Cardinality(WithSyncers(k))
    BY <2>1 DEF WithSyncers, Busy
  <2>6. ToCome(n) = 1 /\ ToCome(n)' = 0 /\ \A k \in PooledKeys \ {n} : ToCome(k)' = ToCome(k)
    <3>1. updater'.pc = "filling" /\ updater'.next = n + 1
      BY <2>1, <2>2 DEF UpdaterAt
    <3>2. \A k \in PooledKeys : k \in Nat
      BY DEF PooledKeys
    <3>3. QED
      BY <3>1, <3>2, <2>1, <2>2 DEF ToCome
  <2>7. CopiesInv'
    <3>1. \A k \in PooledKeys : Cardinality(InChannels(k)') + Cardinality(WithSyncers(k)') + ToCome(k)'
                                 = Cardinality(InChannels(k)) + Cardinality(WithSyncers(k)) + ToCome(k)
      BY <2>4, <2>5, <2>6, <1>a
    <3>2. QED
      BY <3>1, <2>1 DEF CopiesInv
  <2>8. Pool!Add(n)
    <3>1. Cardinality(InChannels(n)) + Cardinality(WithSyncers(n)) < updates
      BY <2>2, <2>6, <1>a DEF CopiesInv
    <3>2. QED
      BY <3>1, <2>1, <2>2, <2>4, <2>5 DEF Pool!Add
  <2>9. QED
    BY <2>2, <2>7, <2>8 DEF Pool!Next
<1>4. QED
  BY <1>1, <1>2, <1>3 DEF Updater

LEMMA CopiesStep == TypeOK /\ CopiesInv /\ [Next]_vars => CopiesInv' /\ [Pool!Next]_(Pool!vars)
<1> SUFFICES ASSUME TypeOK, CopiesInv, [Next]_vars PROVE CopiesInv' /\ [Pool!Next]_(Pool!vars)
  OBVIOUS
<1> USE NonceManagerAssumption DEF node, pool, update
<1>a. /\ updates \in Nat /\ syncer \in [Syncers -> SyncerState]
      /\ \A u \in Users : user[u].ch \in Gens
      /\ \A s \in Syncers : syncer[s].ch \in Gens /\ syncer[s].kn \in KeyNonce
      /\ \A k : /\ Cardinality(InChannels(k)) \in Nat
                /\ Cardinality(WithSyncers(k)) \in Nat /\ ToCome(k) \in {0, 1}
  BY CountsFinite DEF TypeOK, UserState, SyncerState, Gens, ToCome
<1>1. CASE Updater
  BY <1>1, CopiesUpdater
<1>2. ASSUME UNCHANGED <<chans, syncer, updater, updates>>
      PROVE  CopiesInv' /\ UNCHANGED Pool!vars
  BY <1>2, CopiesUnmoved DEF InChannels, WithSyncers, Busy, ToCome
<1>3. ASSUME NEW u \in Users, \/ AnySyncedKey(u) \/ Timeout(u) \/ TimeoutLock(u)
                             \/ TimeoutReturns(u) \/ SendTx(u) \/ SendTxFails(u)
      PROVE  CopiesInv' /\ UNCHANGED Pool!vars
  BY <1>3, <1>2 DEF AnySyncedKey, Timeout, TimeoutLock, TimeoutReturns, SendTx, SendTxFails
<1>4. ASSUME NEW u \in Users, NEW s \in Syncers, ReceiveKey(u, s)
      PROVE  CopiesInv' /\ [Pool!Next]_(Pool!vars)
  <2> DEFINE c == user[u].ch
  <2> DEFINE key == Head(chans[c]).KeyNum
  <2>1. /\ chans[c] # <<>> /\ c \in Gens
        /\ chans' = [chans EXCEPT ![c] = Tail(@)]
        /\ syncer[s].pc = "free" /\ syncer' = [syncer EXCEPT ![s] = Polling(Head(chans[c]), 0)]
        /\ UNCHANGED <<updates, updater>>
    BY <1>4, <1>a DEF ReceiveKey
  <2>2. \A k : Cardinality(InChannels(k)') = IF key = k THEN Cardinality(InChannels(k)) - 1
                                             ELSE Cardinality(InChannels(k))
    BY <2>1, ReceiveCount
  <2>3. \A k : Cardinality(WithSyncers(k)') = IF key = k THEN Cardinality(WithSyncers(k)) + 1
                                              ELSE Cardinality(WithSyncers(k))
    <3>1. /\ syncer'[s].pc = "sync" /\ syncer'[s].kn.KeyNum = key
          /\ \A t \in Syncers \ {s} : syncer'[t] = syncer[t]
      BY <2>1, <1>a DEF Polling, SyncerAt
    <3> HIDE DEF key
    <3>2. syncer'[s].pc # "free" /\ syncer[s].pc = "free"
      BY <3>1, <2>1
    <3>3. QED
      BY <3>1, <3>2, SyncerCount
  <2> HIDE DEF key
  <2>4. CopiesInv'
    <3>1. \A k : ToCome(k)' = ToCome(k)
      BY <2>1 DEF ToCome
    <3>2. \A k \in PooledKeys : Cardinality(InChannels(k)') + Cardinality(WithSyncers(k)') + ToCome(k)'
                                 = Cardinality(InChannels(k)) + Cardinality(WithSyncers(k)) + ToCome(k)
      BY <3>1, <2>2, <2>3, <1>a
    <3>3. QED
      BY <3>2, <2>1 DEF CopiesInv
  <2>5. CASE key \in PooledKeys
    <3>1. Cardinality(InChannels(key)) > 0
      <4>1. <<c, 1>> \in InChannels(key)
        <5>1. DOMAIN chans[c] = 1 .. Len(chans[c]) /\ Len(chans[c]) \in Nat \ {0} /\ chans[c][1] = Head(chans[c])
          BY <2>1, ReceiveEntries
        <5>2. Len(chans[c]) =< Capacity /\ Capacity \in Nat
          BY <2>1 DEF TypeOK, Capacity
        <5>3. 1 \in DOMAIN chans[c] /\ 1 \in 1 .. Capacity
          BY <5>1, <5>2
        <5>4. QED
          BY <5>1, <5>3, <2>1 DEF InChannels, key
      <4>2. QED
        BY <4>1, CountsPositive
    <3>2. Pool!Take(key)
      BY <3>1, <2>1, <2>2, <2>3, <2>5 DEF Pool!Take
    <3>3. QED
      BY <3>2, <2>4, <2>5 DEF Pool!Next
  <2>6. CASE key \notin PooledKeys
    BY <2>1, <2>2, <2>3, <2>4, <2>6 DEF Pool!vars
  <2>7. QED
    BY <2>5, <2>6
<1>5. ASSUME NEW s \in Syncers, \/ NonceMatches(s) \/ AttemptFails(s)
                               \/ EvaluateChannel(s) \/ ReadErrors(s)
      PROVE  CopiesInv' /\ UNCHANGED Pool!vars
  <2>1. /\ syncer'[s].pc # "free" /\ syncer[s].pc # "free"
        /\ syncer'[s].kn.KeyNum = syncer[s].kn.KeyNum
        /\ \A t \in Syncers \ {s} : syncer'[t] = syncer[t]
    <3>1. CASE NonceMatches(s)
      BY <3>1, <1>a DEF NonceMatches, Matched, SyncerAt
    <3>2. CASE AttemptFails(s)
      BY <3>2, <1>a DEF AttemptFails, Exhausted, Polling, SyncerAt
    <3>3. CASE EvaluateChannel(s)
      BY <3>3, <1>a DEF EvaluateChannel, Sending, SyncerAt
    <3>4. CASE ReadErrors(s)
      BY <3>4, <1>a DEF ReadErrors, Appending, SyncerAt
    <3>5. QED
      BY <1>5, <3>1, <3>2, <3>3, <3>4
  <2>2. \A k : WithSyncers(k)' = WithSyncers(k)
    BY <2>1, SyncerCount
  <2>3. UNCHANGED <<chans, updater, updates>>
    BY <1>5 DEF NonceMatches, AttemptFails, EvaluateChannel, ReadErrors
  <2>4. QED
    BY <2>2, <2>3, CopiesUnmoved DEF InChannels, ToCome
<1>6. ASSUME NEW s \in Syncers, ReturnKey(s) \/ AppendError(s)
      PROVE  CopiesInv' /\ [Pool!Next]_(Pool!vars)
  <2> DEFINE key == syncer[s].kn.KeyNum
  <2>1. /\ syncer[s].pc # "free" /\ syncer' = [syncer EXCEPT ![s] = FreeSyncer]
        /\ UNCHANGED <<updates, updater>>
    BY <1>6 DEF ReturnKey, AppendError
  <2>2. \A k : Cardinality(WithSyncers(k)') = IF key = k THEN Cardinality(WithSyncers(k)) - 1
                                              ELSE Cardinality(WithSyncers(k))
    <3>1. syncer'[s].pc = "free" /\ \A t \in Syncers \ {s} : syncer'[t] = syncer[t]
      BY <2>1, <1>a DEF FreeSyncer, SyncerAt
    <3> HIDE DEF key
    <3>2. syncer'[s].pc = "free" /\ syncer[s].pc # "free" /\ syncer[s].kn.KeyNum = key
      BY <3>1, <2>1 DEF key
    <3>3. QED
      BY <3>1, <3>2, SyncerCount
  <2>3. \A k : ToCome(k)' = ToCome(k)
    BY <2>1 DEF ToCome
  <2>4. Cardinality(WithSyncers(key)) > 0
    <3>1. s \in WithSyncers(key)
      BY <2>1 DEF WithSyncers, Busy
    <3>2. QED
      BY <3>1, CountsPositive
  <2>5. CASE ReturnKey(s)
    <3>1. SyncedKey(s) \in KeyNonce /\ SyncedKey(s).KeyNum = key
      BY <1>a DEF SyncedKey, KeyNonce
    <3>2. /\ Len(chans[syncer[s].ch]) < Capacity /\ syncer[s].ch \in Gens
          /\ chans' = [chans EXCEPT ![syncer[s].ch] = Append(@, SyncedKey(s))]
      BY <2>5, <1>a DEF ReturnKey
    <3>3. \A k : Cardinality(InChannels(k)') = IF key = k THEN Cardinality(InChannels(k)) + 1
                                               ELSE Cardinality(InChannels(k))
      BY <3>1, <3>2, SendCount
    <3> HIDE DEF key
    <3>4. CopiesInv'
      <4>1. \A k \in PooledKeys : Cardinality(InChannels(k)') + Cardinality(WithSyncers(k)') + ToCome(k)'
                                   = Cardinality(InChannels(k)) + Cardinality(WithSyncers(k)) + ToCome(k)
        BY <3>3, <2>2, <2>3, <1>a
      <4>2. QED
        BY <4>1, <2>1 DEF CopiesInv
    <3>5. CASE key \in PooledKeys
      <4>1. Pool!GiveBack(key)
        BY <3>3, <3>5, <2>1, <2>2, <2>4 DEF Pool!GiveBack
      <4>2. QED
        BY <4>1, <3>4, <3>5 DEF Pool!Next
    <3>6. CASE key \notin PooledKeys
      BY <3>3, <3>4, <3>6, <2>1, <2>2 DEF Pool!vars
    <3>7. QED
      BY <3>5, <3>6
  <2>6. CASE AppendError(s)
    <3>1. \A k : Cardinality(InChannels(k)') = Cardinality(InChannels(k))
      BY <2>6 DEF AppendError, InChannels
    <3> HIDE DEF key
    <3>2. CopiesInv'
      BY <3>1, <2>1, <2>2, <2>3, <1>a DEF CopiesInv
    <3>3. CASE key \in PooledKeys
      <4>1. Pool!Lose(key)
        BY <3>1, <3>3, <2>1, <2>2, <2>4 DEF Pool!Lose
      <4>2. QED
        BY <4>1, <3>2, <3>3 DEF Pool!Next
    <3>4. CASE key \notin PooledKeys
      BY <3>1, <3>2, <3>4, <2>1, <2>2 DEF Pool!vars
    <3>5. QED
      BY <3>3, <3>4
  <2>7. QED
    BY <1>6, <2>5, <2>6
<1>7. ASSUME NEW k \in Keys, Mine(k) PROVE CopiesInv' /\ UNCHANGED Pool!vars
  BY <1>7, <1>2 DEF Mine
<1>8. CASE UNCHANGED vars
  BY <1>8, <1>2 DEF vars
<1>9. QED
  BY <1>1, <1>3, <1>4, <1>5, <1>6, <1>7, <1>8 DEF Next, User, Syncer

(***************************************************************************)
(* nonce.go implements KeyPool for any number of keys, users and syncers:  *)
(* a syncer moves a key and never copies it (nonce.go 104-141), and a call *)
(* of UpdateNonces (nonce.go 76-98) adds at most one copy of each key.     *)
(***************************************************************************)
THEOREM PoolImplemented == Spec => ImplementsKeyPool
  BY TypeInit, TypeStep, CopiesInit, CopiesStep, PTL DEF Spec, ImplementsKeyPool, Pool!Spec
=============================================================================
