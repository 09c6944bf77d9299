------------------------------- MODULE Startup -------------------------------
(***************************************************************************)
(* How a client comes to be: the configuration read from the file and the  *)
(* environment (config.go ReadConfig), its validation, the keys, the nonce *)
(* manager and the tracer (client.go NewClientWithConfig), the connection, *)
(* the nonces, the health check, the funding of ephemeral keys, the check  *)
(* of the fees and the bumping strategy (client.go NewClientRaw).          *)
(*                                                                         *)
(* A configuration has the fields that decide what creation does; their    *)
(* values are names.  A run ends in pc = "failed" where the code returns   *)
(* an error, in "panic" where it panics and in "stuck" where it waits for  *)
(* ever for a node that does not answer.                                   *)
(***************************************************************************)
EXTENDS Integers, Sequences, FiniteSets

CONSTANTS
    EphemeralAddrs,   \* ephemeral_addresses_number, where the file sets it
    MaxOddities       \* bound: settings in which a file differs from Sane

ASSUME StartupAssumption == EphemeralAddrs \in Nat \ {0} /\ MaxOddities \in Nat

VARIABLES
    pc,       \* where the creation of the client is
    caller,   \* who creates it: "env", "raw", "builder" or "cli"
    file,     \* the TOML file
    env,      \* which of network, URL and root key the environment has
    cfg,      \* Config
    given,    \* the options passed to NewClientRaw
    client,   \* the keys, nonce manager and tracer of the Client
    made,     \* ephemeral keys made so far
    funded    \* keys that received funds while this client was created

startupVars == <<pc, caller, file, env, cfg, given, client, made, funded>>

-----------------------------------------------------------------------------
\* The empty string.
Empty == "empty"

\* A file with nothing wrong in it, and what else may be found in its place.
Sane ==
    [text |-> "ok", network |-> "listed", default |-> "listed", keys |-> "none", urls |-> "set",
     ephemeral |-> "off", estimation |-> "on", dynamicFees |-> "on",
     blocks |-> "some", priority |-> "fast", level |-> "all", health |-> "off", txnTimeout |-> "set", nonceManager |-> "ok",
     blockStats |-> "ok", gasBump |-> "on"]

Odd ==
    [text |-> {"bad", Empty}, network |-> {"absent"}, default |-> {"absent"},
     keys |-> {"own", "same", "bad"}, urls |-> {"none"}, ephemeral |-> {"on"},
     estimation |-> {"off"}, dynamicFees |-> {"off"}, blocks |-> {"zero"},
     priority |-> {Empty, "bad"}, level |-> {Empty, "bad", "none"}, health |-> {"on"},
     txnTimeout |-> {"nil"}, nonceManager |-> {"nil", "zero"}, blockStats |-> {"nil", "zero"},
     gasBump |-> {"off", "absent"}]

Files ==
    UNION {{[f \in DOMAIN Sane |-> IF f \in F THEN o[f] ELSE Sane[f]] :
                o \in {p \in [F -> UNION {Odd[f] : f \in F}] : \A f \in F : p[f] \in Odd[f]}} :
              F \in {G \in SUBSET DOMAIN Sane : Cardinality(G) =< MaxOddities}}

Envs == [network : BOOLEAN, url : BOOLEAN, root : BOOLEAN]

\* A key is told apart by where it comes from and a number.  The same key may
\* be in the file, the environment and what is appended: nothing compares them.
Root == <<"root", 0>>
OwnKeys == CASE file.keys = "none" -> <<>> [] file.keys = "own" -> <<<<"own", 1>>>>
             [] file.keys = "same" -> <<Root>> [] file.keys = "bad" -> <<<<"bad", 1>>>>

NoConfig ==
    [keys |-> <<>>, urls |-> "none", ephemeral |-> 0, estimation |-> "off", dynamicFees |-> "off",
     blocks |-> "zero", priority |-> Empty, level |-> Empty, health |-> "off", txnTimeout |-> "nil",
     nonceManager |-> "nil", blockStats |-> "nil", gasBump |-> "absent", strategy |-> "nil"]

NoClient == [keys |-> <<>>, nonceManager |-> FALSE, tracer |-> FALSE, created |-> FALSE]

\* The file as a Config for a network with these keys and URLs.
FromFile(keys, urls) ==
    [keys |-> keys, urls |-> urls,
     ephemeral |-> IF file.ephemeral = "on" THEN EphemeralAddrs ELSE 0,
     estimation |-> file.estimation, dynamicFees |-> file.dynamicFees, blocks |-> file.blocks,
     priority |-> file.priority,
     level |-> file.level, health |-> file.health, txnTimeout |-> file.txnTimeout,
     nonceManager |-> file.nonceManager, blockStats |-> file.blockStats,
     gasBump |-> file.gasBump, strategy |-> "nil"]

Fails == pc' = "failed"
Panics == pc' = "panic"

-----------------------------------------------------------------------------
(***************************************************************************)
(* ReadConfig.                                                             *)
(***************************************************************************)
Listed == env.network /\ file.network = "listed"

\* A network that is not in the file is replaced by the default one if there
\* is a URL.
CanRead ==
    /\ file.text = "ok"
    /\ Listed \/ (env.url /\ file.default = "listed")
    /\ env.root

\* The pointer to a Config stays nil when a file has nothing in it.
ReadConfigPanics ==
    /\ pc = "read" /\ file.text = Empty
    /\ Panics
    /\ UNCHANGED <<caller, file, env, cfg, given, client, made, funded>>

ReadConfigFails ==
    /\ pc = "read" /\ file.text # Empty /\ ~CanRead
    /\ Fails
    /\ UNCHANGED <<caller, file, env, cfg, given, client, made, funded>>

ReadConfig ==
    /\ pc = "read" /\ CanRead
    /\ cfg' = FromFile(Append(OwnKeys, Root), IF Listed THEN file.urls ELSE "set")
    /\ pc' = IF caller = "raw" THEN "options" ELSE "validate"
    /\ UNCHANGED <<caller, file, env, given, client, made, funded>>

Ephemeral == cfg.ephemeral # 0

\* For the selected network, before the client is created; keys for another
\* network of the file change nothing here.  Bound: once.
AppendPksToNetwork ==
    /\ caller = "env" /\ pc = "validate" /\ Len(cfg.keys) =< Len(OwnKeys) + 1
    /\ \E k \in {<<"appended", 1>>, Root} : cfg' = [cfg EXCEPT !.keys = Append(@, k)]
    /\ UNCHANGED <<pc, caller, file, env, given, client, made, funded>>

GetMaxConcurrency == IF Ephemeral THEN cfg.ephemeral ELSE Len(cfg.keys) - 1

-----------------------------------------------------------------------------
(***************************************************************************)
(* NewClientWithConfig.                                                    *)
(***************************************************************************)
EstimationInvalid ==
    cfg.estimation = "on" /\ (cfg.blocks = "zero" \/ cfg.priority = "bad")

\* Mutant of Validated: no default priority.
ValidatedLevelOnly ==
    [cfg EXCEPT !.level = IF @ = Empty THEN "reverted" ELSE @]

\* The defaults that ValidateConfig fills in.
Validated ==
    [cfg EXCEPT !.priority = IF cfg.estimation = "on" /\ @ = Empty THEN "standard" ELSE @,
                !.level = IF @ = Empty THEN "reverted" ELSE @]

ValidateConfig ==
    /\ pc = "validate"
    /\ IF EstimationInvalid
       THEN Fails /\ UNCHANGED cfg
       ELSE /\ cfg' = Validated
            /\ pc' = IF cfg.level = "bad" THEN "failed" ELSE "keys"
    /\ UNCHANGED <<caller, file, env, given, client, made, funded>>

\* The directory with the ABIs or one of its files cannot be read.
ContractStoreFails ==
    /\ pc = "keys"
    /\ Fails
    /\ UNCHANGED <<caller, file, env, cfg, given, client, made, funded>>

NewEphemeralKeys == [i \in 1 .. cfg.ephemeral |-> <<"ephemeral", made + i>>]

\* Mutant of KeysToUse: the keys that were there stay.
KeysToUseAll == IF Ephemeral THEN cfg.keys \o NewEphemeralKeys ELSE cfg.keys

\* In ephemeral mode all keys but the first make way for new ones.
KeysToUse ==
    IF Ephemeral THEN SubSeq(cfg.keys, 1, 1) \o NewEphemeralKeys ELSE cfg.keys

ParseKeysFails(keys) == \E i \in DOMAIN keys : keys[i][1] = "bad"

\* PrivateKeys[:1] of no keys; ParseKeys; NewNonceManager reads the rate limit,
\* which divides a second.
MakeKeys ==
    /\ pc = "keys"
    /\ IF Ephemeral /\ cfg.keys = <<>>
       THEN Panics /\ UNCHANGED <<cfg, made>>
       ELSE /\ cfg' = [cfg EXCEPT !.keys = KeysToUse]
            /\ made' = made + cfg.ephemeral
            /\ pc' = IF ParseKeysFails(cfg'.keys) THEN "failed"
                     ELSE IF cfg.nonceManager = "ok" THEN "wire" ELSE "panic"
    /\ UNCHANGED <<caller, file, env, given, client, funded>>

\* The contract map of a network that is not simulated cannot be read, there
\* is no URL, or the tracer cannot connect.
WireFails ==
    /\ pc = "wire"
    /\ Fails
    /\ UNCHANGED <<caller, file, env, cfg, given, client, made, funded>>

\* Mutant of Wired: the tracer is not handed on.
WiredWithoutTracer == {"nonceManager", "map"}

Wired == {"nonceManager", "tracer", "map"}

Wire ==
    /\ pc = "wire" /\ cfg.urls = "set"
    /\ given' = Wired
    /\ pc' = "dial"
    /\ UNCHANGED <<caller, file, env, cfg, client, made, funded>>

\* A caller of NewClientRaw parses the keys and brings what it wants to.
ChooseOptions ==
    /\ pc = "options"
    /\ given' \in SUBSET {"nonceManager", "tracer"}
    /\ pc' = CASE ParseKeysFails(cfg.keys) -> "failed"
               [] ~ParseKeysFails(cfg.keys) /\ "nonceManager" \in given'
                     /\ cfg.nonceManager # "ok" -> "panic"
               [] OTHER -> "dial"
    /\ UNCHANGED <<caller, file, env, cfg, client, made, funded>>

-----------------------------------------------------------------------------
(***************************************************************************)
(* NewClientRaw.                                                           *)
(***************************************************************************)
\* No URL, no connection, no chain ID; and, if no map was given and the
\* network is not simulated, a contract map that cannot be read.
DialFails ==
    /\ pc = "dial"
    /\ Fails
    /\ UNCHANGED <<caller, file, env, cfg, given, client, made, funded>>

Dial ==
    /\ pc = "dial" /\ cfg.urls = "set"
    /\ client' = [keys |-> cfg.keys, nonceManager |-> "nonceManager" \in given,
                  tracer |-> "tracer" \in given, created |-> FALSE]
    /\ pc' = "sync"
    /\ UNCHANGED <<caller, file, env, cfg, given, made, funded>>

UpdateNoncesFails ==
    /\ pc = "sync" /\ client.nonceManager /\ cfg.keys # <<>>
    /\ Fails
    /\ UNCHANGED <<caller, file, env, cfg, given, client, made, funded>>

UpdateNonces ==
    /\ pc = "sync"
    /\ pc' = IF cfg.health = "on" /\ client.nonceManager THEN "health" ELSE "fund"
    /\ UNCHANGED <<caller, file, env, cfg, given, client, made, funded>>

\* checkRPCHealth sends from and to Addresses[0].
CheckRPCHealth ==
    /\ pc = "health"
    /\ IF cfg.txnTimeout = "nil" \/ client.keys = <<>>
       THEN Panics
       ELSE pc' \in {"failed", "fund"}
    /\ UNCHANGED <<caller, file, env, cfg, given, client, made, funded>>

NotEphemeral ==
    /\ pc = "fund" /\ ~Ephemeral
    /\ pc' = "finish"
    /\ UNCHANGED <<caller, file, env, cfg, given, client, made, funded>>

SubKeys == {client.keys[i] : i \in 2 .. Len(client.keys)}

\* CalculateSubKeyFunding fails.
CalculateFundingFails ==
    /\ pc = "fund" /\ Ephemeral
    /\ Fails
    /\ UNCHANGED <<caller, file, env, cfg, given, client, made, funded>>

\* CalculateSubKeyFunding needs the timeout, a transfer the nonce manager.
CannotFund == cfg.txnTimeout = "nil" \/ (SubKeys # {} /\ ~client.nonceManager)

\* One transfer per key; module Funding has their steps.
FundEphemeral ==
    /\ pc = "fund" /\ Ephemeral
    /\ IF CannotFund
       THEN Panics /\ UNCHANGED funded
       ELSE \E got \in SUBSET SubKeys :
              /\ funded' = got
              /\ pc' = IF got = SubKeys THEN "finish" ELSE "failed"
    /\ UNCHANGED <<caller, file, env, cfg, given, client, made>>

NeedsTracer == cfg.level # "none" /\ ~client.tracer

\* The contract store cannot be read or the tracer cannot connect.
TracerFails ==
    /\ pc = "finish" /\ NeedsTracer
    /\ Fails
    /\ UNCHANGED <<caller, file, env, cfg, given, client, made, funded>>

PriorityBased(priority) ==
    IF priority \in {"degen", "fast", "standard", "slow"} THEN priority ELSE "noop"

Strategy ==
    IF cfg.gasBump = "absent" \/ cfg.strategy # "nil" THEN cfg.strategy
    ELSE IF cfg.gasBump = "on" THEN PriorityBased(cfg.priority) ELSE "noop"

\* With estimation, the fees are calculated once, to see whether the network
\* knows EIP-1559 at all.
ChecksFees == cfg.estimation = "on" /\ cfg.dynamicFees = "on"

CheckFeesPanics ==
    /\ pc = "finish" /\ ChecksFees /\ cfg.txnTimeout = "nil"
    /\ Panics
    /\ UNCHANGED <<caller, file, env, cfg, given, client, made, funded>>

\* CalculateGasEstimations may switch off EIP-1559 fees, estimation or both.  A
\* simulated network is not asked, and needs no timeout.
FeesChecked ==
    IF ChecksFees /\ cfg.txnTimeout = "set" THEN {"on", "off"} \X {"on", "off"}
    ELSE {<<cfg.estimation, cfg.dynamicFees>>}

Finish ==
    /\ pc = "finish"
    /\ client' = [client EXCEPT !.tracer = @ \/ NeedsTracer, !.created = TRUE]
    /\ \E f \in FeesChecked :
          cfg' = [cfg EXCEPT !.strategy = Strategy, !.estimation = f[1], !.dynamicFees = f[2]]
    /\ pc' = "ready"
    /\ UNCHANGED <<caller, file, env, given, made, funded>>

\* Requests without a deadline: the chain ID, the nonces, prices and balances.
\* Fees are checked with a deadline, but wait for headers that failed to arrive.
NoAnswer ==
    /\ \/ pc = "dial" /\ cfg.urls = "set"
       \/ pc = "sync" /\ client.nonceManager /\ cfg.keys # <<>>
       \/ pc = "health" /\ cfg.txnTimeout = "set"
       \/ pc = "fund" /\ Ephemeral
       \/ pc = "finish" /\ ChecksFees /\ cfg.txnTimeout = "set"
    /\ IF pc = "fund" /\ ~CannotFund
       THEN funded' \in {{}} \cup ((SUBSET SubKeys) \ {SubKeys})
       ELSE UNCHANGED funded
    /\ pc' = "stuck"
    /\ UNCHANGED <<caller, file, env, cfg, given, client, made>>

StartupStep ==
    \/ ReadConfigPanics \/ ReadConfigFails \/ ReadConfig \/ AppendPksToNetwork
    \/ ValidateConfig \/ ContractStoreFails \/ MakeKeys
    \/ WireFails \/ Wire \/ ChooseOptions
    \/ DialFails \/ Dial
    \/ UpdateNoncesFails \/ UpdateNonces \/ CheckRPCHealth
    \/ NotEphemeral \/ CalculateFundingFails \/ FundEphemeral
    \/ TracerFails \/ CheckFeesPanics \/ Finish \/ NoAnswer
=============================================================================
