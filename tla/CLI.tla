--------------------------------- MODULE CLI ---------------------------------
(***************************************************************************)
(* The command line (cmd/seth.go) and, in the same run, a program that     *)
(* creates a client with the builder, NewClient or NewClientRaw.           *)
(***************************************************************************)
EXTENDS ClientBuilder, BlockStats, GasStats

CONSTANTS
    StatsFlags,   \* values of start_block and end_block
    MaxTxs        \* bound: transactions of a trace command

ASSUME CLIAssumption == MaxTxs \in Nat /\ StatsFlags \subseteq [start : Int, end : Int]

VARIABLES
    word,   \* the command as it was typed
    txs     \* transactions still to be traced

cliVars == <<word, txs>>
vars == <<startupVars, builderVars, statsVars, gasVars, cliVars>>

Words == {"stats", "s", "gas", "g", "trace"}

\* A library has no command, a builder neither file nor environment.
Init ==
    /\ caller \in {"env", "raw", "builder", "cli"}
    /\ word \in IF caller = "cli" THEN Words ELSE {Empty}
    /\ file \in IF caller = "builder" THEN {Sane} ELSE Files
    /\ env \in IF caller = "builder" THEN {[network |-> FALSE, url |-> FALSE, root |-> FALSE]} ELSE Envs
    /\ cfg = IF caller = "builder" THEN NewClientBuilder ELSE NoConfig
    /\ pc = CASE caller = "cli" -> "before" [] caller = "builder" -> "build" [] OTHER -> "read"
    /\ given = {} /\ client = NoClient /\ made = 0 /\ funded = {}
    /\ setters = 0 /\ builds = 0
    /\ StatsInit /\ GasInit /\ txs = 0

-----------------------------------------------------------------------------
(***************************************************************************)
(* RunCLI: Before.                                                         *)
(***************************************************************************)
NoNetwork ==
    /\ pc = "before"
    /\ Fails
    /\ UNCHANGED <<caller, file, env, cfg, given, client, made, funded,
                   builderVars, statsVars, gasVars, cliVars>>

\* The flags -n and -u go to the environment.  A client, with a new root key,
\* is made for the words "gas" and "stats", not for their aliases.
Before ==
    /\ pc = "before"
    /\ \E n, u \in BOOLEAN :
          /\ n \/ u
          /\ env' = [network |-> env.network \/ n, url |-> env.url \/ u,
                     root |-> env.root \/ word \in {"gas", "stats"}]
    /\ pc' = IF word \in {"gas", "stats"} THEN "read" ELSE "command"
    /\ UNCHANGED <<caller, file, cfg, given, client, made, funded,
                   builderVars, statsVars, gasVars, cliVars>>

Commanded(words) == caller = "cli" /\ pc \in {"ready", "command"} /\ word \in words

FlagsRefused(start, end) == start = 0 \/ (start > 0 /\ end = 0)

\* NewBlockStats reads the rate limit of the client's configuration.
StatsCommand ==
    /\ Commanded({"stats", "s"})
    /\ \E f \in StatsFlags :
          IF FlagsRefused(f.start, f.end) THEN Fails /\ UNCHANGED interval
          ELSE IF ~client.created \/ cfg.blockStats # "ok" THEN Panics /\ UNCHANGED interval
          ELSE pc' = "stats" /\ interval' = f
    /\ UNCHANGED <<caller, file, env, cfg, given, client, made, funded, builderVars,
                   waiting, skipped, failed, blocks, stats, gasVars, cliVars>>

GasCommand ==
    /\ Commanded({"gas", "g"})
    /\ pc' = IF client.created THEN "gas" ELSE "panic"
    /\ UNCHANGED <<caller, file, env, cfg, given, client, made, funded,
                   builderVars, statsVars, gasVars, cliVars>>

-----------------------------------------------------------------------------
(***************************************************************************)
(* The trace command reads the file by itself: without the root key, and   *)
(* without the default network in place of one that is not listed.         *)
(***************************************************************************)
CanTrace ==
    /\ file.text = "ok"
    /\ IF env.network THEN file.network = "listed" ELSE env.url /\ file.default = "listed"

\* Both a file and a hash, or none; the list of transactions or the
\* configuration cannot be read; the default network cannot be reached.
TraceCommandFails ==
    /\ pc = "command" /\ word = "trace"
    /\ Fails
    /\ UNCHANGED <<caller, file, env, cfg, given, client, made, funded,
                   builderVars, statsVars, gasVars, cliVars>>

TraceCommandPanics ==
    /\ pc = "command" /\ word = "trace" /\ file.text = Empty
    /\ Panics
    /\ UNCHANGED <<caller, file, env, cfg, given, client, made, funded,
                   builderVars, statsVars, gasVars, cliVars>>

TraceCommand ==
    /\ pc = "command" /\ word = "trace" /\ CanTrace
    /\ cfg' = [FromFile(OwnKeys, IF env.network THEN file.urls ELSE "set")
                  EXCEPT !.ephemeral = 0, !.level = "all"]
    /\ txs' \in 0 .. MaxTxs
    /\ pc' = "validate"
    /\ UNCHANGED <<caller, file, env, given, client, made, funded,
                   builderVars, statsVars, gasVars, word>>

\* What Decode returns is logged; a transaction that is not found ends the
\* command.  Decode may panic (module TxDecoding) or wait for ever (Decode).
TraceTx ==
    /\ Commanded({"trace"}) /\ client.created /\ txs > 0
    /\ IF cfg.txnTimeout = "nil"
       THEN Panics /\ UNCHANGED txs
       ELSE txs' = txs - 1 /\ pc' \in {"ready", "failed", "panic", "stuck"}
    /\ UNCHANGED <<caller, file, env, cfg, given, client, made, funded,
                   builderVars, statsVars, gasVars, word>>

TraceDone ==
    /\ Commanded({"trace"}) /\ client.created /\ txs = 0
    /\ pc' = "done"
    /\ UNCHANGED <<caller, file, env, cfg, given, client, made, funded,
                   builderVars, statsVars, gasVars, cliVars>>

CommandStep ==
    \/ NoNetwork \/ Before
    \/ StatsCommand \/ GasCommand
    \/ TraceCommandFails \/ TraceCommandPanics \/ TraceCommand \/ TraceTx \/ TraceDone

Next ==
    \/ StartupStep /\ UNCHANGED <<builderVars, statsVars, gasVars, cliVars>>
    \/ BuilderStep /\ UNCHANGED <<statsVars, gasVars, cliVars>>
    \/ StatsStep /\ UNCHANGED <<builderVars, gasVars, cliVars>>
    \/ GasStep /\ UNCHANGED <<builderVars, statsVars, cliVars>>
    \/ CommandStep

Spec == Init /\ [][Next]_vars

-----------------------------------------------------------------------------
(***************************************************************************)
(* NewClientWithConfig: the client has as many keys besides the root key   *)
(* as GetMaxConcurrency says, and the root key is never an ephemeral one.  *)
(* With ephemeral keys these are exactly the ones made for this client,    *)
(* funded, and no key of the configuration or of an earlier client is      *)
(* among them; without, nothing has been spent, and a client that is not   *)
(* built again has no ephemeral key.                                       *)
(***************************************************************************)
ClientKeysRight ==
    pc = "ready" /\ caller # "raw" =>
        /\ client.keys = cfg.keys
        /\ Len(client.keys) - 1 = GetMaxConcurrency
        /\ \A i \in DOMAIN client.keys :
              client.keys[i][1] = "ephemeral" => i # 1 /\ (Ephemeral \/ builds > 1)
        /\ IF Ephemeral
           THEN /\ SubKeys = {<<"ephemeral", made - i>> : i \in 0 .. cfg.ephemeral - 1}
                /\ funded = SubKeys
           ELSE funded = {}

(***************************************************************************)
(* NewClientWithConfig makes everything that can fail before it spends the *)
(* root key's funds: once every ephemeral key is funded, whose private     *)
(* keys nobody else has, creation neither returns an error nor panics.     *)
(* Only the check of the fees comes after, and may wait for ever.          *)
(***************************************************************************)
FundedMeansClient ==
    pc \in {"failed", "panic", "stuck"} /\ caller \in {"env", "builder"}
    /\ funded # {} /\ funded = SubKeys =>
        pc = "stuck" /\ ChecksFees

(***************************************************************************)
(* NewClientRaw: with gas bumping a client has a strategy (the comment     *)
(* "to avoid NPE"), and if the configuration has been validated for gas    *)
(* estimation it is the one of its priority, unless the user has another   *)
(* or the client is built again.                                           *)
(***************************************************************************)
StrategyReady ==
    pc = "ready" /\ cfg.gasBump # "absent" =>
        /\ cfg.strategy # "nil"
        /\ cfg.gasBump = "on" /\ cfg.estimation = "on" /\ caller # "raw" /\ builds =< 1 =>
              cfg.strategy \in {cfg.priority, "custom"}
==============================================================================
