---------------------------- MODULE NonceManager ----------------------------
(***************************************************************************)
(* The pool of synced keys of nonce.go.                                    *)
(*                                                                         *)
(* Key 0 is the root key; keys 1 .. NumKeys-1 are handed out by            *)
(* AnySyncedKey.  Every key handed out has a background goroutine (a       *)
(* syncer) that polls the node until the key's nonce has advanced by one   *)
(* and then returns the key to the channel m.SyncedKeys.  UpdateNonces     *)
(* replaces the channel and enqueues every key again.                      *)
(*                                                                         *)
(* A Go channel is a bounded FIFO queue.  The field m.SyncedKeys is read   *)
(* without the mutex, so the channels of all generations are kept:         *)
(* chans[gen] is the one the field points to, a goroutine blocked on an    *)
(* older one remembers which.                                              *)
(***************************************************************************)
EXTENDS Naturals, Sequences, FiniteSets

CONSTANTS
    Users,           \* goroutines that call AnySyncedKey
    Syncers,         \* slots for the goroutines spawned by anySyncedKey
    NumKeys,         \* len(m.Addresses)
    KeySyncRetries,  \* cfg.KeySyncRetries
    UsedKeys,        \* keys that an earlier process has used
    MaxBacklog,      \* bound: its transactions that are still pending, per key
    MaxNonce,        \* bound: transactions ever accepted per key
    MaxUpdates       \* bound: calls of UpdateNonces, the one at start-up included

ASSUME NonceManagerAssumption ==
    /\ NumKeys \in Nat \ {0}
    /\ KeySyncRetries \in Nat \ {0}
    /\ UsedKeys \subseteq 0 .. NumKeys - 1
    /\ MaxBacklog \in Nat
    /\ MaxNonce \in Nat
    /\ MaxUpdates \in Nat
    /\ IsFiniteSet(Syncers)
    /\ IsFiniteSet(Users)

VARIABLES
    mined,     \* node: NonceAt per key, the number of mined transactions
    inflight,  \* node: accepted transactions per key that are not mined yet
    backlog,   \* those of them that an earlier process had sent
    Nonces,    \* m.Nonces
    chans,     \* every channel ever made, by generation
    gen,       \* the generation m.SyncedKeys points to
    locked,    \* the mutex is held across steps
    updater,   \* the call of UpdateNonces under way
    updates,   \* calls of UpdateNonces so far
    ready,     \* NewClientRaw has returned the client
    user,      \* goroutines using the client
    syncer,    \* goroutines spawned by anySyncedKey
    Errors     \* len(m.Client.Errors)

node   == <<mined, inflight, backlog>>
pool   == <<chans, gen>>
update == <<Nonces, updater, updates, ready>>
vars   == <<node, pool, update, locked, user, syncer, Errors>>

Keys       == 0 .. NumKeys - 1
PooledKeys == 1 .. NumKeys - 1
Capacity   == NumKeys
KeyNonce   == [KeyNum : Keys, Nonce : Nat]
NoKey      == [KeyNum |-> 0, Nonce |-> 0]

\* What a goroutine remembers at each point of its code.
UserAt(pc, ch, kn, seen) == [pc |-> pc, ch |-> ch, kn |-> kn, seen |-> seen]
IdleUser      == UserAt("idle", 0, NoKey, 0)
FailedUser    == UserAt("failed", 0, NoKey, 0)
WaitingOn(ch) == UserAt("waiting", ch, NoKey, 0)
ExpiredUser   == UserAt("expired", 0, NoKey, 0)
TimedOut(len) == UserAt("timeout", 0, NoKey, len)
Holding(kn)   == UserAt("holding", 0, kn, 0)

SyncerAt(pc, kn, tries, ch, seen) ==
    [pc |-> pc, kn |-> kn, tries |-> tries, ch |-> ch, seen |-> seen]
FreeSyncer         == SyncerAt("free", NoKey, 0, 0, 0)
Polling(kn, tries) == SyncerAt("sync", kn, tries, 0, 0)
Matched(kn)        == SyncerAt("matched", kn, 0, 0, 0)
Sending(kn, ch)    == SyncerAt("sending", kn, 0, ch, 0)
Exhausted(kn)      == SyncerAt("exhausted", kn, 0, 0, 0)
Appending(kn, len) == SyncerAt("append", kn, 0, 0, len)

UpdaterAt(pc, todo, next) == [pc |-> pc, todo |-> todo, next |-> next]
IdleUpdater == UpdaterAt("idle", {}, 1)

Gens == 0 .. MaxUpdates

UpdaterState ==
    [pc : {"idle", "reading", "filling"}, todo : SUBSET Keys, next : 1 .. NumKeys]
UserState ==
    [pc : {"idle", "waiting", "expired", "timeout", "failed", "holding"},
     ch : Gens, kn : KeyNonce, seen : Nat]
SyncerState ==
    [pc : {"free", "sync", "matched", "sending", "exhausted", "append"},
     kn : KeyNonce, tries : 0 .. KeySyncRetries - 1, ch : Gens, seen : Nat]

TypeOK ==
    /\ mined \in [Keys -> Nat]
    /\ inflight \in [Keys -> Nat]
    /\ backlog \in [Keys -> Nat]
    /\ Nonces \in [Keys -> Nat]
    /\ chans \in [Gens -> Seq(KeyNonce)]
    /\ \A g \in Gens : Len(chans[g]) =< Capacity
    /\ gen \in Gens
    /\ updates \in gen .. MaxUpdates
    /\ locked \in BOOLEAN
    /\ ready \in BOOLEAN
    /\ updater \in UpdaterState
    /\ user \in [Users -> UserState]
    /\ syncer \in [Syncers -> SyncerState]
    /\ Errors \in Nat

(***************************************************************************)
(* NewNonceManager: nonces start at 0 and the first channel is empty.  The *)
(* keys may come from a file and have been used by an earlier process,     *)
(* whose last transactions may still be pending.                           *)
(***************************************************************************)
Init ==
    /\ mined = [k \in Keys |-> 0]
    /\ backlog \in [Keys -> 0 .. MaxBacklog]
    /\ \A k \in Keys \ UsedKeys : backlog[k] = 0
    /\ inflight = backlog
    /\ Nonces = [k \in Keys |-> 0]
    /\ chans = [g \in Gens |-> <<>>]
    /\ gen = 0
    /\ locked = FALSE
    /\ updater = IdleUpdater
    /\ updates = 0
    /\ ready = FALSE
    /\ user = [u \in Users |-> IdleUser]
    /\ syncer = [s \in Syncers |-> FreeSyncer]
    /\ Errors = 0

-----------------------------------------------------------------------------
(***************************************************************************)
(* UpdateNonces.  It takes the mutex, reads NonceAt for every address in   *)
(* the order of a Go map, then replaces the channel and enqueues the       *)
(* pooled keys in order.  An RPC error returns at once with the nonces     *)
(* read so far and the old channel.  The first call is made by             *)
(* NewClientRaw: nobody uses the client before it has succeeded, and there *)
(* is no client if it fails.                                               *)
(***************************************************************************)
UpdateNonces ==
    /\ updates < MaxUpdates
    /\ updates = 0 \/ ready
    /\ updater.pc = "idle"
    /\ ~locked
    /\ locked' = TRUE
    /\ updates' = updates + 1
    /\ updater' = UpdaterAt("reading", Keys, 1)
    /\ UNCHANGED <<node, pool, Nonces, ready, user, syncer, Errors>>

ReadNonce(k) ==
    /\ updater.pc = "reading"
    /\ k \in updater.todo
    /\ Nonces' = [Nonces EXCEPT ![k] = mined[k]]
    /\ updater' = UpdaterAt("reading", updater.todo \ {k}, 1)
    /\ UNCHANGED <<node, pool, updates, ready, locked, user, syncer, Errors>>

ReadNonceFails ==
    /\ updater.pc = "reading"
    /\ updater.todo # {}
    /\ updater' = IdleUpdater
    /\ locked' = FALSE
    /\ UNCHANGED <<node, pool, Nonces, updates, ready, user, syncer, Errors>>

MakeChannel ==
    /\ updater.pc = "reading"
    /\ updater.todo = {}
    /\ gen' = updates
    /\ updater' = UpdaterAt("filling", {}, 1)
    /\ UNCHANGED <<node, chans, Nonces, updates, ready, locked, user, syncer, Errors>>

\* m.SyncedKeys <- &KeyNonce{...} blocks while the channel is full.
Enqueue ==
    LET kn == [KeyNum |-> updater.next, Nonce |-> Nonces[updater.next]] IN
    /\ updater.pc = "filling"
    /\ updater.next < NumKeys
    /\ Len(chans[gen]) < Capacity
    /\ chans' = [chans EXCEPT ![gen] = Append(@, kn)]
    /\ updater' = UpdaterAt("filling", {}, updater.next + 1)
    /\ UNCHANGED <<node, gen, Nonces, updates, ready, locked, user, syncer, Errors>>

UpdateNoncesReturns ==
    /\ updater.pc = "filling"
    /\ updater.next = NumKeys
    /\ updater' = IdleUpdater
    /\ locked' = FALSE
    /\ ready' = TRUE
    /\ UNCHANGED <<node, pool, Nonces, updates, user, syncer, Errors>>

-----------------------------------------------------------------------------
(***************************************************************************)
(* anySyncedKey, on the caller's side.  The select evaluates m.SyncedKeys  *)
(* once and then waits for that channel or for the timeout.                *)
(***************************************************************************)
AnySyncedKey(u) ==
    /\ ready
    /\ user[u].pc = "idle"
    /\ user' = [user EXCEPT ![u] = WaitingOn(gen)]
    /\ UNCHANGED <<node, pool, update, locked, syncer, Errors>>

\* The key is received and its syncer spawned in the same step.
ReceiveKey(u, s) ==
    /\ user[u].pc = "waiting"
    /\ chans[user[u].ch] # <<>>
    /\ syncer[s].pc = "free"
    /\ LET kn == Head(chans[user[u].ch]) IN
         /\ user' = [user EXCEPT ![u] = Holding(kn)]
         /\ syncer' = [syncer EXCEPT ![s] = Polling(kn, 0)]
    /\ chans' = [chans EXCEPT ![user[u].ch] = Tail(@)]
    /\ UNCHANGED <<node, gen, update, locked, Errors>>

\* ctx.Done: the caller is committed to the error before it has the mutex.
Timeout(u) ==
    /\ user[u].pc = "waiting"
    /\ user' = [user EXCEPT ![u] = ExpiredUser]
    /\ UNCHANGED <<node, pool, update, locked, syncer, Errors>>

\* The error is appended under the mutex, which the syncers do not take, so
\* the append is a read of the slice followed by a write.
TimeoutLock(u) ==
    /\ user[u].pc = "expired"
    /\ ~locked
    /\ locked' = TRUE
    /\ user' = [user EXCEPT ![u] = TimedOut(Errors)]
    /\ UNCHANGED <<node, pool, update, syncer, Errors>>

\* Mutant of TimeoutReturns: the deferred Unlock is missing.
TimeoutKeepsLock(u) ==
    /\ user[u].pc = "timeout"
    /\ Errors' = user[u].seen + 1
    /\ user' = [user EXCEPT ![u] = FailedUser]
    /\ UNCHANGED <<node, pool, update, locked, syncer>>

\* The caller gets TimeoutKeyNum and gives up.
TimeoutReturns(u) ==
    /\ user[u].pc = "timeout"
    /\ Errors' = user[u].seen + 1
    /\ user' = [user EXCEPT ![u] = FailedUser]
    /\ locked' = FALSE
    /\ UNCHANGED <<node, pool, update, syncer>>

\* The caller sends one transaction with the key and comes back for another.
SendTx(u) ==
    LET k == user[u].kn.KeyNum IN
    /\ user[u].pc = "holding"
    /\ mined[k] + inflight[k] < MaxNonce
    /\ inflight' = [inflight EXCEPT ![k] = @ + 1]
    /\ user' = [user EXCEPT ![u] = IdleUser]
    /\ UNCHANGED <<mined, backlog, pool, update, locked, syncer, Errors>>

\* Its transaction never reaches the node: NewTXKeyOpts or the node refused it.
SendTxFails(u) ==
    /\ user[u].pc = "holding"
    /\ user' = [user EXCEPT ![u] = IdleUser]
    /\ UNCHANGED <<node, pool, update, locked, syncer, Errors>>

-----------------------------------------------------------------------------
(***************************************************************************)
(* The goroutine that anySyncedKey spawns: at most KeySyncRetries attempts *)
(* of NonceAt, each failing on an RPC error or on a nonce other than       *)
(* keyData.Nonce + 1.                                                      *)
(***************************************************************************)
\* Mutant of Synced: the key is taken for synced before its nonce advanced.
SyncedTooEarly(s) == mined[syncer[s].kn.KeyNum] >= syncer[s].kn.Nonce

Synced(s) == mined[syncer[s].kn.KeyNum] = syncer[s].kn.Nonce + 1

NonceMatches(s) ==
    /\ syncer[s].pc = "sync"
    /\ Synced(s)
    /\ syncer' = [syncer EXCEPT ![s] = Matched(syncer[s].kn)]
    /\ UNCHANGED <<node, pool, update, locked, user, Errors>>

LastAttempt(s) == syncer[s].tries + 1 = KeySyncRetries

\* A failed attempt: the node answered with another nonce, or with an error.
AttemptFails(s) ==
    /\ syncer[s].pc = "sync"
    /\ syncer' = [syncer EXCEPT ![s] = 
         IF LastAttempt(s) THEN Exhausted(syncer[s].kn)
                           ELSE Polling(syncer[s].kn, syncer[s].tries + 1)]
    /\ UNCHANGED <<node, pool, update, locked, user, Errors>>

\* The send evaluates the field m.SyncedKeys, then waits for room.
EvaluateChannel(s) ==
    /\ syncer[s].pc = "matched"
    /\ syncer' = [syncer EXCEPT ![s] = Sending(syncer[s].kn, gen)]
    /\ UNCHANGED <<node, pool, update, locked, user, Errors>>

SyncedKey(s) ==
    [KeyNum |-> syncer[s].kn.KeyNum, Nonce |-> syncer[s].kn.Nonce + 1]

\* Mutant of ReturnKey: no return after the send, so the loop goes on.
ReturnKeyAndGoOn(s) ==
    /\ syncer[s].pc = "sending"
    /\ Len(chans[syncer[s].ch]) < Capacity
    /\ chans' = [chans EXCEPT ![syncer[s].ch] = Append(@, SyncedKey(s))]
    /\ syncer' = [syncer EXCEPT ![s] = Polling(syncer[s].kn, 0)]
    /\ UNCHANGED <<node, gen, update, locked, user, Errors>>

ReturnKey(s) ==
    /\ syncer[s].pc = "sending"
    /\ Len(chans[syncer[s].ch]) < Capacity
    /\ chans' = [chans EXCEPT ![syncer[s].ch] = Append(@, SyncedKey(s))]
    /\ syncer' = [syncer EXCEPT ![s] = FreeSyncer]
    /\ UNCHANGED <<node, gen, update, locked, user, Errors>>

\* The append to m.Client.Errors takes no lock: read, then write.
ReadErrors(s) ==
    /\ syncer[s].pc = "exhausted"
    /\ syncer' = [syncer EXCEPT ![s] = Appending(syncer[s].kn, Errors)]
    /\ UNCHANGED <<node, pool, update, locked, user, Errors>>

\* Mutant of AppendError: the result of retry.Do is ignored.
AppendErrorForgotten(s) ==
    /\ syncer[s].pc = "append"
    /\ syncer' = [syncer EXCEPT ![s] = FreeSyncer]
    /\ UNCHANGED <<node, pool, update, locked, user, Errors>>

AppendError(s) ==
    /\ syncer[s].pc = "append"
    /\ Errors' = syncer[s].seen + 1
    /\ syncer' = [syncer EXCEPT ![s] = FreeSyncer]
    /\ UNCHANGED <<node, pool, update, locked, user>>

-----------------------------------------------------------------------------
\* The node mines the oldest pending transaction of key k.
Mine(k) ==
    /\ inflight[k] > 0
    /\ inflight' = [inflight EXCEPT ![k] = @ - 1]
    /\ mined' = [mined EXCEPT ![k] = @ + 1]
    /\ UNCHANGED <<backlog, pool, update, locked, user, syncer, Errors>>

Updater ==
    \/ UpdateNonces
    \/ \E k \in Keys : ReadNonce(k)
    \/ ReadNonceFails
    \/ MakeChannel
    \/ Enqueue
    \/ UpdateNoncesReturns

User(u) ==
    \/ AnySyncedKey(u)
    \/ \E s \in Syncers : ReceiveKey(u, s)
    \/ Timeout(u)
    \/ TimeoutLock(u)
    \/ TimeoutReturns(u)
    \/ SendTx(u)
    \/ SendTxFails(u)

Syncer(s) ==
    \/ NonceMatches(s)
    \/ AttemptFails(s)
    \/ EvaluateChannel(s)
    \/ ReturnKey(s)
    \/ ReadErrors(s)
    \/ AppendError(s)

Next ==
    \/ Updater
    \/ \E u \in Users : User(u)
    \/ \E s \in Syncers : Syncer(s)
    \/ \E k \in Keys : Mine(k)

Spec == Init /\ [][Next]_vars

(***************************************************************************)
(* The node answers a call with a nonce or an error, timers fire, and a    *)
(* call of UpdateNonces under way goes on.  Nothing obliges a user to ask  *)
(* for another key, the node to mine, anybody to call UpdateNonces, or,    *)
(* as it is not needed, a syncer to go on.  A Go mutex does not starve a   *)
(* goroutine that waits for it, hence SF.                                  *)
(***************************************************************************)
UpdaterProgress == updater.pc # "idle" /\ Updater
TimeoutBranch(u) == Timeout(u) \/ TimeoutLock(u) \/ TimeoutReturns(u)

Fairness ==
    /\ WF_vars(UpdaterProgress)
    /\ \A u \in Users : SF_vars(TimeoutBranch(u))

FairSpec == Spec /\ Fairness

-----------------------------------------------------------------------------
Busy(s) == syncer[s].pc # "free"

InChannels(k) ==
    {p \in Gens \X (1 .. Capacity) :
        p[2] \in DOMAIN chans[p[1]] /\ chans[p[1]][p[2]].KeyNum = k}

WithSyncers(k) == {s \in Syncers : Busy(s) /\ syncer[s].kn.KeyNum = k}

Pool == INSTANCE KeyPool WITH
    Keys <- PooledKeys,
    idle <- [k \in PooledKeys |-> Cardinality(InChannels(k))],
    lent <- [k \in PooledKeys |-> Cardinality(WithSyncers(k))],
    refreshes <- updates

(***************************************************************************)
(* nonce.go implements KeyPool: channels of all generations hold the idle  *)
(* keys, syncers the lent ones (nonce.go 104, 127).  Syncers that race     *)
(* with UpdateNonces move a key and never copy it, so with the one         *)
(* UpdateNonces at start-up AnySyncedKey does not hand one key to two      *)
(* goroutines, and every later one adds at most one copy.                  *)
(***************************************************************************)
ImplementsKeyPool == Pool!Spec

Holders(k) == {u \in Users : user[u].pc = "holding" /\ user[u].kn.KeyNum = k}

\* Nothing of the key is pending, and its next nonce is the one handed out.
FullySynced(kn) == mined[kn.KeyNum] = kn.Nonce /\ inflight[kn.KeyNum] = 0

(***************************************************************************)
(* What "synced" means (client.go 871: "AnySyncedKey returns the first     *)
(* synced key") until UpdateNonces is called a second time, which adds     *)
(* keys that are in use.  A key of which nothing was pending when the      *)
(* client was created is fully synced from the moment it is handed out     *)
(* until its user sends, so the pending-nonce protection cannot fire.      *)
(* NonceAt does not see what an earlier process left pending (nonce.go     *)
(* 65), and a block with such a transaction looks to the syncer like the   *)
(* user's own.  All that is left then is a bound: a key in the pool, with  *)
(* what its earlier users have not sent yet, is never further behind than  *)
(* at the start, however often it is handed out and returned.              *)
(***************************************************************************)
HeldKeySynced ==
    updates =< 1 =>
        /\ \A u \in Users : user[u].pc = "holding" /\ backlog[user[u].kn.KeyNum] = 0
              => FullySynced(user[u].kn)
        /\ \A g \in Gens : \A i \in DOMAIN chans[g] :
              LET kn == chans[g][i]  k == chans[g][i].KeyNum IN
              /\ kn.Nonce =< mined[k]
              /\ mined[k] + inflight[k] + Cardinality(Holders(k)) =< kn.Nonce + backlog[k]

(***************************************************************************)
(* However often UpdateNonces runs, and wherever it interleaves with the   *)
(* syncers, a pooled key does not disappear unnoticed: it is in the        *)
(* current channel, or a goroutine is about to put it there, or an error   *)
(* has been recorded in Client.Errors, for all its unsynchronised appends. *)
(***************************************************************************)
KeyAccounted(k) ==
    \/ \E i \in DOMAIN chans[gen] : chans[gen][i].KeyNum = k
    \/ updater.pc = "filling" /\ updater.next =< k
    \/ \E s \in Syncers :
          /\ syncer[s].kn.KeyNum = k
          /\ \/ syncer[s].pc \in {"sync", "matched", "exhausted", "append"}
             \/ syncer[s].pc = "sending" /\ syncer[s].ch = gen

NoSilentKeyLoss ==
    ready /\ Errors = 0 => \A k \in PooledKeys : KeyAccounted(k)

\* UpdateNonces waits for room in the channel, with the mutex in its hands.
UpdaterBlocked ==
    /\ updater.pc = "filling"
    /\ updater.next < NumKeys
    /\ Len(chans[gen]) = Capacity

\* Inside anySyncedKey, which is left with a key or with TimeoutKeyNum.
Asking(u) == user[u].pc \in {"waiting", "expired", "timeout"}

(***************************************************************************)
(* No caller stays in AnySyncedKey for ever.  The timeout branch needs the *)
(* mutex that UpdateNonces holds while it sends into a bounded channel     *)
(* (nonce.go 70, 98), and late syncers can fill the channel before         *)
(* UpdateNonces has: a call of UpdateNonces that nobody frees by taking a  *)
(* key is the only thing that can keep a caller.  A lost key, an outdated  *)
(* channel, the mutex in the hands of another caller, a failed             *)
(* UpdateNonces or a syncer blocked on a full channel is not.              *)
(***************************************************************************)
WaiterAnswered ==
    \A u \in Users : <>[]UpdaterBlocked \/ []<>~Asking(u)
=============================================================================
