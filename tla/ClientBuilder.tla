---------------------------- MODULE ClientBuilder ----------------------------
(***************************************************************************)
(* ClientBuilder (client_builder.go): a Config with defaults, setters that *)
(* change it, and Build, which may be called again on the same Config.     *)
(* Setters of fields that creation does not look at change no part of cfg. *)
(***************************************************************************)
EXTENDS Startup

CONSTANTS
    MaxSetters,   \* bound: calls of setters
    MaxBuilds     \* bound: calls of Build

ASSUME BuilderAssumption == MaxSetters \in Nat /\ MaxBuilds \in Nat

VARIABLES setters, builds

builderVars == <<setters, builds>>

NewClientBuilder ==
    [keys |-> <<>>, urls |-> "none", ephemeral |-> 0, estimation |-> "on", dynamicFees |-> "on",
     blocks |-> "some", priority |-> "standard", level |-> "reverted", health |-> "on",
     txnTimeout |-> "set", nonceManager |-> "ok", blockStats |-> "ok", gasBump |-> "on",
     strategy |-> "nil"]

Settable == caller = "builder" /\ pc \in {"build", "ready", "failed"} /\ setters < MaxSetters

\* A setter changes the configuration, also after Build.
Set(config) ==
    /\ Settable
    /\ cfg' = config
    /\ setters' = setters + 1
    /\ pc' = "build"
    /\ UNCHANGED <<caller, file, env, given, client, made, funded, builds>>

WithRpcUrl == Set([cfg EXCEPT !.urls = "set"])

\* One key, two, or the same one twice.
WithPrivateKeys ==
    \E keys \in {<<1>>, <<1, 2>>, <<1, 1>>} :
        Set([cfg EXCEPT !.keys = [i \in DOMAIN keys |-> <<"given", keys[i]>>]])

WithGasPriceEstimations ==
    \E enabled \in {"on", "off"}, blocks \in {"zero", "some"}, priority \in {Empty, "fast", "bad"} :
        Set([cfg EXCEPT !.estimation = enabled, !.blocks = blocks, !.priority = priority])

\* A new section, so that a strategy which Build has put there is forgotten.
WithGasBumping ==
    \E retries \in {"off", "on"}, strategy \in {"nil", "custom"} :
        Set([cfg EXCEPT !.gasBump = retries, !.strategy = strategy])

WithEphemeralAddresses ==
    \E n \in {0, EphemeralAddrs} : Set([cfg EXCEPT !.ephemeral = n])

WithTracing == \E level \in {"none", "bad"} : Set([cfg EXCEPT !.level = level])

\* Decides which files are written, and how they are called.
WithNetworkName == Set(cfg)

\* WithEIP1559DynamicFees, WithLegacyGasPrice, WithDynamicGasPrices and
\* WithTransferGasFee: TxOptions and Funding start from what they set.
WithFees == \E dynamic \in {"on", "off"} : Set([cfg EXCEPT !.dynamicFees = dynamic])

\* WithTransactionTimeout and WithRpcDialTimeout.
WithTimeouts == Set([cfg EXCEPT !.txnTimeout = "set"])

WithArtifactsFolder == Set(cfg)

WithProtections == Set([cfg EXCEPT !.health = "off"])

\* A rate limit of zero is not refused.
WithNonceManager == Set([cfg EXCEPT !.nonceManager = "zero"])

\* Build, and DefaultClient after WithRpcUrl and WithPrivateKeys.
Build ==
    /\ caller = "builder" /\ pc = "build" /\ builds < MaxBuilds
    /\ builds' = builds + 1
    /\ client' = NoClient /\ given' = {} /\ funded' = {}
    /\ pc' = "validate"
    /\ UNCHANGED <<caller, file, env, cfg, made, setters>>

BuilderStep ==
    \/ WithRpcUrl \/ WithPrivateKeys \/ WithNetworkName
    \/ WithFees \/ WithTimeouts \/ WithArtifactsFolder
    \/ WithGasPriceEstimations \/ WithGasBumping
    \/ WithEphemeralAddresses \/ WithTracing \/ WithProtections \/ WithNonceManager
    \/ Build
==============================================================================
