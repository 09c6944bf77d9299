------------------------------ MODULE CLIProofs ------------------------------
(***************************************************************************)
(* Proofs about CLI: the creation of a client, and the statistics.         *)
(***************************************************************************)
EXTENDS CLI, FiniteSetTheorems, WellFoundedInduction, TLAPS

-----------------------------------------------------------------------------
(***************************************************************************)
(* The inductive invariant of creation.                                    *)
(***************************************************************************)
Keys == {"root", "own", "bad", "appended", "given", "ephemeral"} \X Nat

FileRecords ==
    [text : {"ok", "bad", Empty}, network : {"listed", "absent"}, default : {"listed", "absent"},
     keys : {"none", "own", "same", "bad"}, urls : {"set", "none"}, ephemeral : {"off", "on"},
     estimation : {"on", "off"}, dynamicFees : {"on", "off"}, blocks : {"some", "zero"},
     priority : {"fast", Empty, "bad"},
     level : {"all", Empty, "bad", "none"}, health : {"off", "on"}, txnTimeout : {"set", "nil"},
     nonceManager : {"ok", "nil", "zero"}, blockStats : {"ok", "nil", "zero"},
     gasBump : {"on", "off", "absent"}]

Configs ==
    [keys : Seq(Keys), urls : {"set", "none"}, ephemeral : Nat,
     estimation : {"on", "off"}, dynamicFees : {"on", "off"}, blocks : {"some", "zero"},
     priority : {"fast", "standard", Empty, "bad"},
     level : {"all", "reverted", Empty, "bad", "none"}, health : {"off", "on"},
     txnTimeout : {"set", "nil"}, nonceManager : {"ok", "nil", "zero"},
     blockStats : {"ok", "nil", "zero"}, gasBump : {"on", "off", "absent"},
     strategy : {"nil", "custom", "noop", "fast", "standard", "slow", "degen"}]

Clients == [keys : Seq(Keys), nonceManager : BOOLEAN, tracer : BOOLEAN, created : BOOLEAN]

TypeInv ==
    /\ file \in FileRecords /\ cfg \in Configs /\ client \in Clients
    /\ made \in Nat /\ builds \in Nat /\ given \in SUBSET Wired

\* An ephemeral key is never the first; a builder that has one has built before,
\* and uses it only in ephemeral mode or when it builds again.
KeysInv ==
    \A i \in DOMAIN cfg.keys :
        cfg.keys[i][1] = "ephemeral" =>
            /\ i # 1 /\ (caller = "builder" => builds >= 1)
            /\ Ephemeral \/ builds > 1 \/ pc = "build"

\* The root key and the last keys made.
KeysMade ==
    /\ Len(cfg.keys) = cfg.ephemeral + 1
    /\ \A i \in 1 .. cfg.ephemeral :
          cfg.keys[i + 1] = <<"ephemeral", (made - cfg.ephemeral) + i>>

Reading == {"before", "command", "read", "options"}
Making == {"keys", "wire", "dial", "sync", "health", "fund", "finish"}
Connected == {"sync", "health", "fund", "finish", "ready"}
Commands == {"stats", "blocks", "gas", "quantiles", "suggest", "done"}

\* Which callers are at which stage.
CallerInv ==
    /\ pc \in {"before", "command"} \cup Commands => caller = "cli"
    /\ pc \in {"before", "command"} => client = NoClient
    /\ pc \in {"validate", "keys", "wire"} => caller # "raw"
    /\ pc = "options" => caller = "raw"
    /\ pc = "command" => word \notin {"gas", "stats"}
    /\ pc \in {"stats", "blocks"} => word \in {"stats", "s"}
    /\ pc = "stats" => interval \in StatsFlags /\ ~FlagsRefused(interval.start, interval.end)
    /\ blocks \in Seq(0 .. Latest + 1)

\* What the client has when it is connected.
ClientInv ==
    /\ pc \in {"dial"} \cup Connected /\ caller # "raw" => given = Wired
    /\ pc \in {"wire", "dial"} \cup Connected /\ caller # "raw" /\ Ephemeral => KeysMade
    /\ pc \in Connected =>
          /\ client.keys = cfg.keys
          /\ client.nonceManager <=> "nonceManager" \in given
          /\ "tracer" \in given => client.tracer
    /\ pc = "health" => cfg.health = "on"
    /\ pc = "ready" => client.created

\* Funds are spent at one stage only.
FundInv ==
    /\ pc \in Reading \cup {"validate", "keys", "wire", "dial", "sync", "health", "fund"} => funded = {}
    /\ pc \in {"finish", "ready"} => funded = IF Ephemeral THEN SubKeys ELSE {}
    /\ pc = "finish" /\ Ephemeral => cfg.txnTimeout = "set"
    /\ FundedMeansClient

\* A strategy is chosen at the end, for a priority that has been validated.
StrategyInv ==
    /\ caller = "builder" /\ builds = 0 => pc = "build" /\ cfg.strategy \in {"nil", "custom"}
    /\ pc \in {"options", "validate"} \cup Making /\ builds =< 1 => cfg.strategy \in {"nil", "custom"}
    /\ pc \in Making /\ caller # "raw" /\ cfg.estimation = "on" =>
          cfg.priority \in {"fast", "standard"}
    /\ StrategyReady

\* What is known of the fetched blocks and of the report.
Ended == {"done", "failed", "panic", "stuck"}

FetchedInv ==
    /\ interval.start \in Int /\ interval.end \in Int
    /\ interval.start >= 0 /\ ~failed =>
          /\ waiting \cup skipped \cup ToSet(blocks) = interval.start .. interval.end - 1
          /\ waiting \cap skipped = {} /\ waiting \cap ToSet(blocks) = {}
          /\ skipped \cap ToSet(blocks) = {}
          /\ \A i, j \in DOMAIN blocks : blocks[i] = blocks[j] => i = j

StatsInv ==
    /\ pc \notin {"blocks"} \cup Ended \/ caller # "cli" =>
          waiting = {} /\ skipped = {} /\ failed = FALSE /\ blocks = <<>>
    /\ stats # NoStats => pc = "done" /\ caller = "cli"
    /\ pc = "blocks" => FetchedInv
    /\ StatsBlocksRight

GasInv ==
    /\ pc \notin {"suggest"} \cup Ended \/ caller # "cli" => suggestions = NoSuggestions
    /\ pc = "quantiles" => hist \in Histories
    /\ GasQuantilesRight

CLIInv ==
    /\ TypeInv /\ KeysInv /\ CallerInv /\ ClientInv /\ FundInv /\ StrategyInv

-----------------------------------------------------------------------------
LEMMA FilesTyped ==
  ASSUME NEW f \in Files
  PROVE  f \in FileRecords
<1>1. PICK F \in SUBSET DOMAIN Sane :
        \E o \in [F -> UNION {Odd[x] : x \in F}] :
            /\ \A x \in F : o[x] \in Odd[x]
            /\ f = [x \in DOMAIN Sane |-> IF x \in F THEN o[x] ELSE Sane[x]]
  BY DEF Files
<1>2. PICK o \in [F -> UNION {Odd[x] : x \in F}] :
            /\ \A x \in F : o[x] \in Odd[x]
            /\ f = [x \in DOMAIN Sane |-> IF x \in F THEN o[x] ELSE Sane[x]]
  BY <1>1
<1>3. /\ DOMAIN f = DOMAIN Sane /\ f = [x \in DOMAIN Sane |-> f[x]]
      /\ \A x \in DOMAIN Sane : f[x] = Sane[x] \/ f[x] \in Odd[x]
  BY <1>2
<1>4. DOMAIN Sane =
        {"text", "network", "default", "keys", "urls", "ephemeral", "estimation", "dynamicFees",
         "blocks", "priority", "level", "health", "txnTimeout", "nonceManager", "blockStats", "gasBump"}
  BY DEF Sane
<1>5. /\ f.text \in {"ok", "bad", Empty} /\ f.network \in {"listed", "absent"}
      /\ f.default \in {"listed", "absent"} /\ f.keys \in {"none", "own", "same", "bad"}
      /\ f.urls \in {"set", "none"} /\ f.ephemeral \in {"off", "on"}
      /\ f.estimation \in {"on", "off"} /\ f.blocks \in {"some", "zero"}
      /\ f.dynamicFees \in {"on", "off"}
  BY <1>3, <1>4 DEF Sane, Odd
<1>6. /\ f.priority \in {"fast", Empty, "bad"} /\ f.level \in {"all", Empty, "bad", "none"}
      /\ f.health \in {"off", "on"} /\ f.txnTimeout \in {"set", "nil"}
      /\ f.nonceManager \in {"ok", "nil", "zero"} /\ f.blockStats \in {"ok", "nil", "zero"}
      /\ f.gasBump \in {"on", "off", "absent"}
  BY <1>3, <1>4 DEF Sane, Odd
<1>7. f = [text |-> f.text, network |-> f.network, default |-> f.default, keys |-> f.keys,
           urls |-> f.urls, ephemeral |-> f.ephemeral, estimation |-> f.estimation,
           dynamicFees |-> f.dynamicFees, blocks |-> f.blocks, priority |-> f.priority, level |-> f.level, health |-> f.health,
           txnTimeout |-> f.txnTimeout, nonceManager |-> f.nonceManager,
           blockStats |-> f.blockStats, gasBump |-> f.gasBump]
  BY <1>3, <1>4
<1> QED BY <1>5, <1>6, <1>7 DEF FileRecords

LEMMA InvInit == Init => CLIInv
<1> SUFFICES ASSUME Init PROVE CLIInv
  OBVIOUS
<1>1. file \in FileRecords
  <2>1. Sane \in FileRecords
    BY DEF Sane, FileRecords
  <2> QED BY <2>1, FilesTyped DEF Init
<1>2. /\ cfg \in {NoConfig, NewClientBuilder} /\ (caller = "builder" => cfg = NewClientBuilder)
      /\ cfg.keys = <<>> /\ cfg.strategy = "nil"
  BY DEF Init, NoConfig, NewClientBuilder
<1>3. TypeInv
  <2>1. NoConfig \in Configs
    BY DEF NoConfig, Configs
  <2>2. NewClientBuilder \in Configs
    BY DEF NewClientBuilder, Configs
  <2>3. NoClient \in Clients
    BY DEF NoClient, Clients
  <2> QED BY <1>1, <1>2, <2>1, <2>2, <2>3 DEF Init, TypeInv
<1>4. KeysInv
  BY <1>2 DEF KeysInv
<1>5. pc \in {"before", "read", "build"} /\ (pc = "before" => caller = "cli")
      /\ (caller = "builder" => pc = "build")
  BY DEF Init
<1>6. funded = {} /\ builds = 0 /\ blocks = <<>> /\ client = NoClient
  BY DEF Init, StatsInit
<1>7. CallerInv /\ ClientInv
  BY <1>5, <1>6 DEF CallerInv, ClientInv, Commands, Connected
<1>8. FundInv
  BY <1>5, <1>6 DEF FundInv, FundedMeansClient
<1>9. StrategyInv
  BY <1>2, <1>5, <1>6 DEF StrategyInv, StrategyReady, Making
<1> QED BY <1>3, <1>4, <1>7, <1>8, <1>9 DEF CLIInv

Same == UNCHANGED <<caller, file, cfg, given, client, made, funded, builds, word>>

LEMMA SameKeeps ==
  ASSUME CLIInv, Same, pc # "build"
  PROVE  /\ TypeInv' /\ KeysInv' /\ (KeysMade => KeysMade') /\ SubKeys' = SubKeys
         /\ Ephemeral' = Ephemeral
  BY DEF CLIInv, Same, TypeInv, KeysInv, KeysMade, SubKeys, Ephemeral

\* A step to an error, to a panic, or within a command.
LEMMA EndKeeps ==
  ASSUME CLIInv, Same, CallerInv',
         pc # "build", pc' \in {"failed", "panic", "stuck"} \cup Commands,
         pc' \in {"failed", "panic", "stuck"} => funded = {} \/ caller \in {"raw", "cli"}
  PROVE  CLIInv'
<1>1. TypeInv' /\ KeysInv'
  BY SameKeeps
<1>2. ClientInv'
  BY DEF ClientInv, Commands, Connected
<1>3. FundInv'
  BY DEF FundInv, FundedMeansClient, Same, Commands, Reading
<1>4. StrategyInv'
  BY DEF CLIInv, StrategyInv, StrategyReady, Same, Commands, Making
<1> QED BY <1>1, <1>2, <1>3, <1>4 DEF CLIInv

\* Steps of creation that only move on.
LEMMA MoveKeeps ==
  ASSUME CLIInv, Same, UNCHANGED <<blocks, interval>>,
         \/ pc = "sync" /\ pc' \in {"health", "fund"} /\ (pc' = "health" => cfg.health = "on")
         \/ pc = "health" /\ pc' = "fund"
         \/ pc = "fund" /\ pc' = "finish" /\ ~Ephemeral
         \/ pc = "ready" /\ pc' = "ready"
  PROVE  CLIInv'
<1>1. /\ TypeInv' /\ KeysInv' /\ (KeysMade => KeysMade') /\ SubKeys' = SubKeys
      /\ Ephemeral' = Ephemeral
  BY SameKeeps
<1>2. CallerInv'
  BY DEF CLIInv, CallerInv, Commands, Same
<1>3. ClientInv'
  BY <1>1 DEF CLIInv, ClientInv, Connected, Same
<1>4. FundInv'
  BY <1>1 DEF CLIInv, FundInv, FundedMeansClient, Same, Reading
<1>5. StrategyInv'
  BY DEF CLIInv, StrategyInv, StrategyReady, Same, Making
<1> QED BY <1>1, <1>2, <1>3, <1>4, <1>5 DEF CLIInv

\* What every step of creation leaves alone.
Outside == UNCHANGED <<caller, file, builds, word, blocks, interval>>

LEMMA FromFileTyped ==
  ASSUME TypeInv, NEW keys \in Seq(Keys), NEW urls \in {"set", "none"}
  PROVE  /\ FromFile(keys, urls) \in Configs
         /\ FromFile(keys, urls).keys = keys /\ FromFile(keys, urls).strategy = "nil"
  BY StartupAssumption DEF TypeInv, FileRecords, FromFile, Configs

LEMMA OwnKeysTyped ==
  ASSUME TypeInv
  PROVE  /\ OwnKeys \in Seq(Keys) /\ Len(OwnKeys) =< 1
         /\ \A i \in DOMAIN OwnKeys : OwnKeys[i][1] # "ephemeral"
<1>1. CASE file.keys = "none"
  BY <1>1 DEF OwnKeys
<1>2. CASE file.keys = "own"
  BY <1>2 DEF OwnKeys, Keys
<1>3. CASE file.keys = "same"
  BY <1>3 DEF OwnKeys, Keys, Root
<1>4. CASE file.keys = "bad"
  BY <1>4 DEF OwnKeys, Keys
<1> QED BY <1>1, <1>2, <1>3, <1>4 DEF TypeInv, FileRecords

LEMMA ReadConfigKeeps ==
  ASSUME CLIInv, ReadConfig, Outside
  PROVE  CLIInv'
<1> DEFINE keys == Append(OwnKeys, Root)
           urls == IF Listed THEN file.urls ELSE "set"
<1>1. /\ pc = "read" /\ pc' = IF caller = "raw" THEN "options" ELSE "validate"
      /\ cfg' = FromFile(keys, urls)
      /\ UNCHANGED <<given, client, made, funded>>
  BY DEF ReadConfig
<1>2. keys \in Seq(Keys) /\ \A i \in DOMAIN keys : keys[i][1] # "ephemeral"
  <2>1. /\ OwnKeys \in Seq(Keys) /\ Len(OwnKeys) =< 1
        /\ \A i \in DOMAIN OwnKeys : OwnKeys[i][1] # "ephemeral"
    BY OwnKeysTyped DEF CLIInv
  <2>2. Root \in Keys /\ Root[1] = "root"
    BY DEF Root, Keys
  <2> HIDE DEF Root
  <2>3. keys \in Seq(Keys) /\ Len(keys) = Len(OwnKeys) + 1 /\ keys[Len(OwnKeys) + 1] = Root
        /\ \A i \in 1 .. Len(OwnKeys) : keys[i] = OwnKeys[i]
    BY <2>1, <2>2
  <2>4. Len(OwnKeys) \in Nat
    BY <2>1
  <2> HIDE DEF keys
  <2>5. DOMAIN keys = 1 .. Len(keys)
    BY <2>3
  <2>6. \A i \in DOMAIN keys : keys[i][1] # "ephemeral"
    BY <2>1, <2>2, <2>3, <2>4, <2>5
  <2> QED BY <2>3, <2>6
<1>3. urls \in {"set", "none"}
  BY DEF CLIInv, TypeInv, FileRecords
<1> HIDE DEF keys, urls
<1>4. cfg' \in Configs /\ cfg'.keys = keys /\ cfg'.strategy = "nil"
  BY <1>1, <1>2, <1>3, FromFileTyped DEF CLIInv
<1>5. TypeInv'
  BY <1>1, <1>4 DEF CLIInv, TypeInv, Outside
<1>6. KeysInv'
  BY <1>2, <1>4 DEF KeysInv
<1>7. CallerInv' /\ ClientInv'
  BY <1>1 DEF CLIInv, CallerInv, ClientInv, Outside, Commands, Connected
<1>8. FundInv'
  BY <1>1 DEF CLIInv, FundInv, FundedMeansClient, Reading, Outside
<1>9. StrategyInv'
  BY <1>1, <1>4 DEF CLIInv, StrategyInv, StrategyReady, Making, Outside
<1> QED BY <1>5, <1>6, <1>7, <1>8, <1>9 DEF CLIInv

LEMMA AppendPksKeeps ==
  ASSUME CLIInv, AppendPksToNetwork, Outside
  PROVE  CLIInv'
<1>1. /\ pc = "validate" /\ caller = "env" /\ cfg \in Configs
      /\ UNCHANGED <<pc, given, client, made, funded>>
  BY DEF AppendPksToNetwork, CLIInv, TypeInv
<1>2. cfg.keys \in Seq(Keys)
  BY <1>1 DEF Configs
<1>4. PICK k \in {<<"appended", 1>>, Root} : cfg' = [cfg EXCEPT !.keys = Append(cfg.keys, k)]
  BY DEF AppendPksToNetwork
<1>3. k \in Keys /\ k[1] # "ephemeral"
  BY DEF Keys, Root
<1>5. Append(cfg.keys, k) \in Seq(Keys)
  BY <1>2, <1>3
<1>6. /\ cfg' \in Configs /\ cfg'.keys = Append(cfg.keys, k) /\ cfg'.strategy = cfg.strategy
      /\ cfg'.ephemeral = cfg.ephemeral
  <2> DEFINE a == Append(cfg.keys, k)
  <2> HIDE DEF a
  <2> QED BY <1>1, <1>4, <1>5 DEF Configs, a
<1>7. TypeInv'
  BY <1>1, <1>6 DEF CLIInv, TypeInv, Outside
<1>8. KeysInv'
  <2>1. /\ Len(cfg'.keys) = Len(cfg.keys) + 1 /\ cfg'.keys[Len(cfg.keys) + 1] = k
        /\ Len(cfg.keys) \in Nat /\ DOMAIN cfg.keys = 1 .. Len(cfg.keys)
        /\ DOMAIN cfg'.keys = 1 .. Len(cfg.keys) + 1
        /\ \A i \in 1 .. Len(cfg.keys) : cfg'.keys[i] = cfg.keys[i]
    BY <1>2, <1>3, <1>6
  <2>2. \A i \in DOMAIN cfg.keys : cfg.keys[i][1] = "ephemeral" => i # 1 /\ (Ephemeral \/ builds > 1)
    BY <1>1 DEF CLIInv, KeysInv
  <2>3. ASSUME NEW i \in DOMAIN cfg'.keys, cfg'.keys[i][1] = "ephemeral"
        PROVE  i # 1 /\ (Ephemeral \/ builds > 1)
    <3>1. i # Len(cfg.keys) + 1
      BY <1>3, <2>1, <2>3
    <3>2. i \in 1 .. Len(cfg.keys)
      BY <2>1, <3>1
    <3> QED BY <2>1, <2>2, <2>3, <3>2
  <2>4. caller' # "builder" /\ builds' = builds /\ Ephemeral' = Ephemeral
    BY <1>1, <1>6 DEF Outside, Ephemeral
  <2> QED BY <2>3, <2>4 DEF KeysInv
<1>9. CallerInv' /\ ClientInv'
  BY <1>1 DEF CLIInv, CallerInv, ClientInv, Outside, Commands, Connected
<1>10. FundInv'
  BY <1>1 DEF CLIInv, FundInv, FundedMeansClient, Reading, Outside
<1>11. StrategyInv'
  BY <1>1, <1>6 DEF CLIInv, StrategyInv, StrategyReady, Making, Outside
<1> QED BY <1>7, <1>8, <1>9, <1>10, <1>11 DEF CLIInv

LEMMA ValidateConfigKeeps ==
  ASSUME CLIInv, ValidateConfig, Outside
  PROVE  CLIInv'
<1>1. pc = "validate" /\ cfg \in Configs /\ UNCHANGED <<given, client, made, funded>> /\ caller # "raw"
      /\ funded = {}
  BY DEF ValidateConfig, CLIInv, TypeInv, CallerInv, FundInv
<1>2. CASE EstimationInvalid
  <2>1. pc' = "failed" /\ cfg' = cfg
    BY <1>2 DEF ValidateConfig, Fails
  <2>2. CallerInv'
    BY <2>1 DEF CLIInv, CallerInv, Commands, Outside
  <2> QED BY <1>1, <2>1, <2>2, EndKeeps DEF Same, Outside
<1>3. CASE ~EstimationInvalid
  <2>1. cfg' = Validated /\ pc' \in {"failed", "keys"}
    BY <1>3 DEF ValidateConfig
  <2>2. /\ cfg' \in Configs /\ cfg'.keys = cfg.keys /\ cfg'.strategy = cfg.strategy
        /\ cfg'.estimation = cfg.estimation /\ cfg'.ephemeral = cfg.ephemeral
        /\ cfg'.priority = IF cfg.estimation = "on" /\ cfg.priority = Empty
                           THEN "standard" ELSE cfg.priority
    BY <1>1, <2>1 DEF Validated, Configs
  <2>3. cfg.estimation = "on" => cfg'.priority \in {"fast", "standard"}
    BY <1>1, <1>3, <2>2 DEF EstimationInvalid, Configs
  <2>4. TypeInv'
    BY <1>1, <2>2 DEF CLIInv, TypeInv, Outside
  <2>5. KeysInv'
    BY <1>1, <2>2 DEF CLIInv, KeysInv, Ephemeral, Outside
  <2>6. CallerInv' /\ ClientInv'
    BY <1>1, <2>1 DEF CLIInv, CallerInv, ClientInv, Outside, Commands, Connected
  <2>7. FundInv'
    BY <1>1, <2>1 DEF FundInv, FundedMeansClient, Reading
  <2>8. StrategyInv'
    BY <1>1, <2>1, <2>2, <2>3 DEF CLIInv, StrategyInv, StrategyReady, Making, Outside
  <2> QED BY <2>4, <2>5, <2>6, <2>7, <2>8 DEF CLIInv
<1> QED BY <1>2, <1>3

LEMMA Joined ==
  ASSUME NEW S, NEW a \in Seq(S), NEW b \in Seq(S)
  PROVE  /\ a \o b \in Seq(S) /\ Len(a \o b) = Len(a) + Len(b)
         /\ \A i \in 1 .. Len(a) : (a \o b)[i] = a[i]
         /\ \A k \in 1 .. Len(b) : (a \o b)[Len(a) + k] = b[k]
<1>1. a \o b \in Seq(S) /\ Len(a \o b) = Len(a) + Len(b)
  OBVIOUS
<1>2. \A i \in 1 .. Len(a) : (a \o b)[i] = a[i]
  OBVIOUS
<1>3. ASSUME NEW k \in 1 .. Len(b) PROVE (a \o b)[Len(a) + k] = b[k]
  OBVIOUS
<1> QED BY <1>1, <1>2, <1>3

\* The keys after MakeKeys in ephemeral mode: the first stays, the others are new.
LEMMA EphemeralKeys ==
  ASSUME TypeInv, Ephemeral, cfg.keys # <<>>
  PROVE  /\ KeysToUse \in Seq(Keys) /\ Len(KeysToUse) = cfg.ephemeral + 1
         /\ \A i \in 1 .. cfg.ephemeral : KeysToUse[i + 1] = <<"ephemeral", made + i>>
         /\ KeysToUse[1] = cfg.keys[1]
<1> DEFINE n == cfg.ephemeral
           k == KeysToUse
           first == SubSeq(cfg.keys, 1, 1)
<1>1. n \in Nat /\ cfg.keys \in Seq(Keys) /\ made \in Nat
  BY DEF TypeInv, Configs
<1>2. Len(cfg.keys) \in Nat /\ Len(cfg.keys) >= 1 /\ DOMAIN cfg.keys = 1 .. Len(cfg.keys)
  BY <1>1
<1>3. first \in Seq(Keys) /\ Len(first) = 1 /\ first[1] = cfg.keys[1]
  BY <1>1, <1>2
<1>4. /\ NewEphemeralKeys \in Seq(Keys) /\ Len(NewEphemeralKeys) = n
      /\ \A i \in 1 .. n : NewEphemeralKeys[i] = <<"ephemeral", made + i>>
  <2>1. \A i \in 1 .. n : <<"ephemeral", made + i>> \in Keys
    BY <1>1 DEF Keys
  <2> QED BY <1>1, <2>1 DEF NewEphemeralKeys
<1>5. k = first \o NewEphemeralKeys
  BY DEF KeysToUse
<1> HIDE DEF k, first, n
<1> DEFINE new == NewEphemeralKeys
<1> HIDE DEF new
<1>6. /\ k \in Seq(Keys) /\ Len(k) = 1 + n /\ k[1] = cfg.keys[1]
      /\ \A i \in 1 .. n : k[1 + i] = new[i]
  <2>1. new \in Seq(Keys) /\ Len(new) = n /\ k = first \o new
    BY <1>4, <1>5 DEF new
  <2>2. /\ first \o new \in Seq(Keys) /\ Len(first \o new) = Len(first) + Len(new)
        /\ \A i \in 1 .. Len(first) : (first \o new)[i] = first[i]
        /\ \A i \in 1 .. Len(new) : (first \o new)[Len(first) + i] = new[i]
    <3>1. first \in Seq(Keys)
      BY <1>3
    <3>2. new \in Seq(Keys)
      BY <2>1
    <3>3. first \o new \in Seq(Keys) /\ Len(first \o new) = Len(first) + Len(new)
      BY <3>1, <3>2, Joined
    <3>4. \A i \in 1 .. Len(first) : (first \o new)[i] = first[i]
      BY <3>1, <3>2, Joined
    <3>5. \A i \in 1 .. Len(new) : (first \o new)[Len(first) + i] = new[i]
      BY <3>1, <3>2, Joined
    <3> QED BY <3>3, <3>4, <3>5
  <2> QED BY <1>1, <1>3, <2>1, <2>2
<1>7. k[1] = cfg.keys[1]
  BY <1>6
<1>8. ASSUME NEW i \in 1 .. n PROVE k[i + 1] = <<"ephemeral", made + i>>
  <2>1. k[1 + i] = NewEphemeralKeys[i]
    BY <1>6 DEF new
  <2>2. 1 + i = i + 1
    BY <1>1
  <2> QED BY <1>4, <2>1, <2>2
<1> QED BY <1>1, <1>6, <1>7, <1>8 DEF k, n

LEMMA MakeKeysKeeps ==
  ASSUME CLIInv, MakeKeys, Outside
  PROVE  CLIInv'
<1>1. /\ pc = "keys" /\ cfg \in Configs /\ UNCHANGED <<given, client, funded>> /\ caller # "raw"
      /\ funded = {} /\ made \in Nat /\ cfg.ephemeral \in Nat
  BY DEF MakeKeys, CLIInv, TypeInv, CallerInv, FundInv, Configs
<1>2. CASE Ephemeral /\ cfg.keys = <<>>
  <2>1. pc' = "panic" /\ cfg' = cfg /\ made' = made
    BY <1>2 DEF MakeKeys, Panics
  <2>2. CallerInv'
    BY <1>1, <2>1 DEF CLIInv, CallerInv, Commands, Outside
  <2> QED BY <1>1, <2>1, <2>2, EndKeeps DEF Same, Outside
<1>3. CASE ~(Ephemeral /\ cfg.keys = <<>>)
  <2>1. /\ cfg' = [cfg EXCEPT !.keys = KeysToUse] /\ made' = made + cfg.ephemeral
        /\ pc' \in {"failed", "wire", "panic"}
    BY <1>3 DEF MakeKeys
  <2>2. /\ KeysToUse \in Seq(Keys)
        /\ \A i \in DOMAIN KeysToUse :
             KeysToUse[i][1] = "ephemeral" => i # 1 /\ (Ephemeral \/ builds > 1)
        /\ Ephemeral => /\ Len(KeysToUse) = cfg.ephemeral + 1
                        /\ \A i \in 1 .. cfg.ephemeral : KeysToUse[i + 1] = <<"ephemeral", made + i>>
    <3>1. /\ cfg.keys \in Seq(Keys)
          /\ \A i \in DOMAIN cfg.keys :
               cfg.keys[i][1] = "ephemeral" => i # 1 /\ (Ephemeral \/ builds > 1)
      BY <1>1 DEF CLIInv, KeysInv, Configs
    <3>2. CASE Ephemeral
      <4>1. /\ KeysToUse \in Seq(Keys) /\ Len(KeysToUse) = cfg.ephemeral + 1
            /\ \A i \in 1 .. cfg.ephemeral : KeysToUse[i + 1] = <<"ephemeral", made + i>>
            /\ KeysToUse[1] = cfg.keys[1]
        BY <1>3, <3>2, EphemeralKeys DEF CLIInv
      <4>2. cfg.keys[1][1] # "ephemeral"
        BY <1>3, <3>1, <3>2
      <4> QED BY <3>2, <4>1, <4>2
    <3>3. CASE ~Ephemeral
      BY <3>1, <3>3 DEF KeysToUse
    <3> QED BY <3>2, <3>3
  <2> DEFINE k == KeysToUse
  <2> HIDE DEF k
  <2>3. /\ cfg' \in Configs /\ cfg'.keys = k /\ cfg'.strategy = cfg.strategy
        /\ cfg'.estimation = cfg.estimation /\ cfg'.ephemeral = cfg.ephemeral
        /\ cfg'.priority = cfg.priority /\ cfg'.nonceManager = cfg.nonceManager
    <3>1. k \in Seq(Keys) /\ cfg' = [cfg EXCEPT !.keys = k]
      BY <2>1, <2>2 DEF k
    <3> QED BY <1>1, <3>1 DEF Configs
  <2>4. TypeInv'
    BY <1>1, <2>1, <2>3 DEF CLIInv, TypeInv, Outside
  <2>5. KeysInv'
    <3>1. caller = "builder" => builds >= 1
      BY <1>1 DEF CLIInv, StrategyInv, TypeInv
    <3>2. Ephemeral' = Ephemeral
      BY <2>3 DEF Ephemeral
    <3> QED BY <2>2, <2>3, <3>1, <3>2 DEF KeysInv, Outside, k
  <2>6. CallerInv'
    BY <1>1, <2>1 DEF CLIInv, CallerInv, Outside, Commands
  <2>7. Ephemeral' => KeysMade'
    <3>1. SUFFICES ASSUME Ephemeral' PROVE KeysMade'
      OBVIOUS
    <3>2. Ephemeral
      BY <2>3, <3>1 DEF Ephemeral
    <3>3. Len(cfg'.keys) = cfg'.ephemeral + 1
      BY <2>2, <2>3, <3>2 DEF k
    <3>4. \A i \in 1 .. cfg.ephemeral : (made' - cfg.ephemeral) + i = made + i
      BY <1>1, <2>1
    <3>5. \A i \in 1 .. cfg.ephemeral : cfg'.keys[i + 1] = <<"ephemeral", (made' - cfg.ephemeral) + i>>
      BY <2>2, <2>3, <3>2, <3>4 DEF k
    <3> QED BY <2>3, <3>3, <3>5 DEF KeysMade
  <2>8. ClientInv'
    BY <1>1, <2>1, <2>7 DEF ClientInv, Connected, Outside
  <2>9. FundInv'
    BY <1>1, <2>1 DEF FundInv, FundedMeansClient, Reading
  <2>10. StrategyInv'
    BY <1>1, <2>1, <2>3 DEF CLIInv, StrategyInv, StrategyReady, Making, Outside
  <2> QED BY <2>4, <2>5, <2>6, <2>8, <2>9, <2>10 DEF CLIInv
<1> QED BY <1>2, <1>3

LEMMA WireKeeps ==
  ASSUME CLIInv, Wire, Outside
  PROVE  CLIInv'
<1>1. /\ pc = "wire" /\ pc' = "dial" /\ given' = Wired
      /\ UNCHANGED <<cfg, client, made, funded>>
  BY DEF Wire
<1>2. TypeInv' /\ KeysInv'
  BY <1>1 DEF CLIInv, TypeInv, KeysInv, Ephemeral, Outside
<1>3. CallerInv'
  BY <1>1 DEF CLIInv, CallerInv, Outside, Commands
<1>4. ClientInv'
  BY <1>1 DEF CLIInv, ClientInv, KeysMade, Ephemeral, Connected, Outside
<1>5. FundInv'
  BY <1>1 DEF CLIInv, FundInv, FundedMeansClient
<1>6. StrategyInv'
  BY <1>1 DEF CLIInv, StrategyInv, StrategyReady, Making, Outside
<1> QED BY <1>2, <1>3, <1>4, <1>5, <1>6 DEF CLIInv

LEMMA ChooseOptionsKeeps ==
  ASSUME CLIInv, ChooseOptions, Outside
  PROVE  CLIInv'
<1>1. /\ pc = "options" /\ caller = "raw" /\ pc' \in {"failed", "panic", "dial"}
      /\ given' \in SUBSET Wired /\ UNCHANGED <<cfg, client, made, funded>>
  BY DEF ChooseOptions, CLIInv, CallerInv, Wired
<1>2. TypeInv' /\ KeysInv'
  BY <1>1 DEF CLIInv, TypeInv, KeysInv, Ephemeral, Outside
<1>3. CallerInv'
  BY <1>1 DEF CLIInv, CallerInv, Outside, Commands
<1>4. ClientInv'
  BY <1>1 DEF ClientInv, Connected, Outside
<1>5. FundInv'
  BY <1>1 DEF CLIInv, FundInv, FundedMeansClient, Reading, Outside
<1>6. StrategyInv'
  BY <1>1 DEF CLIInv, StrategyInv, StrategyReady, Making, Outside
<1> QED BY <1>2, <1>3, <1>4, <1>5, <1>6 DEF CLIInv

LEMMA DialKeeps ==
  ASSUME CLIInv, Dial, Outside
  PROVE  CLIInv'
<1>1. /\ pc = "dial" /\ pc' = "sync"
      /\ client' = [keys |-> cfg.keys, nonceManager |-> "nonceManager" \in given,
                    tracer |-> "tracer" \in given, created |-> FALSE]
      /\ UNCHANGED <<cfg, given, made, funded>>
  BY DEF Dial
<1>2. TypeInv'
  BY <1>1 DEF CLIInv, TypeInv, Configs, Clients, Outside
<1>3. KeysInv'
  BY <1>1 DEF CLIInv, KeysInv, Ephemeral, Outside
<1>4. CallerInv'
  BY <1>1 DEF CLIInv, CallerInv, Outside, Commands
<1>5. ClientInv'
  BY <1>1 DEF CLIInv, ClientInv, KeysMade, Ephemeral, Connected, Outside
<1>6. FundInv'
  BY <1>1 DEF CLIInv, FundInv, FundedMeansClient
<1>7. StrategyInv'
  BY <1>1 DEF CLIInv, StrategyInv, StrategyReady, Making, Outside
<1> QED BY <1>2, <1>3, <1>4, <1>5, <1>6, <1>7 DEF CLIInv

LEMMA FundEphemeralKeeps ==
  ASSUME CLIInv, FundEphemeral, Outside
  PROVE  CLIInv'
<1>1. /\ pc = "fund" /\ Ephemeral /\ UNCHANGED <<cfg, given, client, made>> /\ funded = {}
      /\ pc' \in {"panic", "finish", "failed"}
  BY DEF FundEphemeral, Panics, CLIInv, FundInv
<1>2. TypeInv' /\ KeysInv' /\ SubKeys' = SubKeys /\ Ephemeral' = Ephemeral /\ (KeysMade => KeysMade')
  BY <1>1 DEF CLIInv, TypeInv, KeysInv, SubKeys, Ephemeral, KeysMade, Outside
<1>3. CallerInv'
  BY <1>1 DEF CLIInv, CallerInv, Outside, Commands
<1>4. ClientInv'
  BY <1>1, <1>2 DEF CLIInv, ClientInv, Connected, Outside
<1>5. StrategyInv'
  BY <1>1 DEF CLIInv, StrategyInv, StrategyReady, Making, Outside
<1>6. FundInv'
  <2>1. CASE CannotFund
    BY <1>1, <2>1 DEF FundEphemeral, Panics, FundInv, FundedMeansClient, Reading
  <2>2. CASE ~CannotFund
    <3>1. pc' = (IF funded' = SubKeys THEN "finish" ELSE "failed")
      BY <2>2 DEF FundEphemeral
    <3>2. cfg'.txnTimeout = "set"
      BY <1>1, <2>2 DEF CannotFund, CLIInv, TypeInv, Configs
    <3> QED BY <1>1, <1>2, <3>1, <3>2 DEF FundInv, FundedMeansClient, Reading
  <2> QED BY <2>1, <2>2
<1> QED BY <1>2, <1>3, <1>4, <1>5, <1>6 DEF CLIInv

LEMMA FinishKeeps ==
  ASSUME CLIInv, Finish, Outside
  PROVE  CLIInv'
<1>1. /\ pc = "finish" /\ pc' = "ready" /\ UNCHANGED <<given, made, funded>>
      /\ client' = [client EXCEPT !.tracer = @ \/ NeedsTracer, !.created = TRUE]
      /\ cfg \in Configs /\ client \in Clients
  BY DEF Finish, CLIInv, TypeInv
<1>2. /\ client' \in Clients /\ client'.keys = client.keys /\ client'.created
      /\ client'.nonceManager = client.nonceManager /\ (client.tracer => client'.tracer)
  BY <1>1 DEF Clients, NeedsTracer
<1>3. Strategy \in {"nil", "custom", "noop", "fast", "standard", "slow", "degen"}
  BY <1>1 DEF Strategy, PriorityBased, Configs
<1>4. /\ cfg' \in Configs /\ cfg'.keys = cfg.keys /\ cfg'.ephemeral = cfg.ephemeral
      /\ cfg'.strategy = Strategy /\ cfg'.gasBump = cfg.gasBump
      /\ (cfg'.estimation = "on" => cfg.estimation = "on") /\ cfg'.priority = cfg.priority
  <2> DEFINE t == Strategy
  <2>1. PICK f \in FeesChecked :
          cfg' = [cfg EXCEPT !.strategy = t, !.estimation = f[1], !.dynamicFees = f[2]]
    BY DEF Finish
  <2>2. f[1] \in {"on", "off"} /\ f[2] \in {"on", "off"} /\ (f[1] = "on" => cfg.estimation = "on")
    BY <1>1 DEF FeesChecked, ChecksFees, Configs
  <2> HIDE DEF t
  <2> DEFINE e == f[1]
             d == f[2]
  <2>3. cfg' = [cfg EXCEPT !.strategy = t, !.estimation = e, !.dynamicFees = d]
    BY <2>1
  <2>4. e \in {"on", "off"} /\ d \in {"on", "off"} /\ (e = "on" => cfg.estimation = "on")
    BY <2>2
  <2>5. t \in {"nil", "custom", "noop", "fast", "standard", "slow", "degen"}
    BY <1>3 DEF t
  <2> HIDE DEF e, d
  <2> DEFINE c == [cfg EXCEPT !.strategy = t]
  <2>6. c \in Configs
    BY <1>1, <2>5 DEF Configs
  <2>7. cfg' = [c EXCEPT !.estimation = e, !.dynamicFees = d]
    BY <1>1, <2>3 DEF Configs
  <2>8. /\ c.keys = cfg.keys /\ c.ephemeral = cfg.ephemeral /\ c.strategy = t
        /\ c.gasBump = cfg.gasBump /\ c.priority = cfg.priority
    BY <1>1 DEF Configs
  <2> HIDE DEF c
  <2>9. cfg' \in Configs /\ cfg'.estimation = e
    BY <2>4, <2>6, <2>7 DEF Configs
  <2>10. /\ cfg'.keys = c.keys /\ cfg'.ephemeral = c.ephemeral /\ cfg'.strategy = c.strategy
         /\ cfg'.gasBump = c.gasBump /\ cfg'.priority = c.priority
    BY <2>6, <2>7 DEF Configs
  <2> QED BY <2>4, <2>8, <2>9, <2>10 DEF t
<1>5. SubKeys' = SubKeys /\ Ephemeral' = Ephemeral /\ (KeysMade => KeysMade')
  BY <1>1, <1>2, <1>4 DEF SubKeys, Ephemeral, KeysMade
<1>6. TypeInv'
  BY <1>1, <1>2, <1>4 DEF CLIInv, TypeInv, Outside
<1>7. KeysInv'
  BY <1>1, <1>4, <1>5 DEF CLIInv, KeysInv, Outside
<1>8. CallerInv'
  BY <1>1 DEF CLIInv, CallerInv, Outside, Commands
<1>9. ClientInv'
  BY <1>1, <1>2, <1>4, <1>5 DEF CLIInv, ClientInv, Connected, Outside
<1>10. FundInv'
  BY <1>1, <1>5 DEF CLIInv, FundInv, FundedMeansClient, Reading, Outside
<1>11. StrategyInv'
  <2>1. caller = "builder" => builds # 0
    BY <1>1 DEF CLIInv, StrategyInv
  <2>2. cfg.gasBump # "absent" => Strategy # "nil"
    BY DEF Strategy, PriorityBased
  <2>3. ASSUME cfg.gasBump = "on", cfg.estimation = "on", caller # "raw", builds =< 1
        PROVE  Strategy \in {cfg.priority, "custom"}
    <3>1. cfg.strategy \in {"nil", "custom"} /\ cfg.priority \in {"fast", "standard"}
      BY <1>1, <2>3 DEF CLIInv, StrategyInv, Making
    <3> QED BY <2>3, <3>1 DEF Strategy, PriorityBased
  <2>4. StrategyReady'
    BY <1>4, <2>2, <2>3 DEF StrategyReady, Outside
  <2> QED BY <1>1, <2>1, <2>4 DEF StrategyInv, Making, Outside
<1> QED BY <1>6, <1>7, <1>8, <1>9, <1>10, <1>11 DEF CLIInv

-----------------------------------------------------------------------------
(***************************************************************************)
(* The steps of creation that change the stage only.                       *)
(***************************************************************************)
\* With the word and the blocks, a caller keeps what is known of it.
LEMMA EndKnown ==
  ASSUME CLIInv, Outside, pc' \in {"failed", "panic", "stuck"}
  PROVE  CallerInv'
  BY DEF CLIInv, CallerInv, Outside, Commands

LEMMA StopKeeps ==
  ASSUME CLIInv, Same, Outside, pc # "build", pc' \in {"failed", "panic", "stuck"},
         funded = {} \/ caller \in {"raw", "cli"}
  PROVE  CLIInv'
  BY EndKnown, EndKeeps

LEMMA FailKeeps ==
  ASSUME CLIInv, Same, Outside, pc # "build", Fails, funded = {} \/ caller \in {"raw", "cli"}
  PROVE  CLIInv'
  BY StopKeeps DEF Fails

LEMMA CheckRPCHealthKeeps ==
  ASSUME CLIInv, CheckRPCHealth, Outside
  PROVE  CLIInv'
<1>1. pc = "health" /\ Same /\ pc' \in {"panic", "failed", "fund"} /\ cfg.health = "on"
      /\ funded = {} /\ client.keys = cfg.keys
  BY DEF CheckRPCHealth, Panics, Same, Outside, CLIInv, ClientInv, FundInv, Connected
<1>2. CASE pc' \in {"panic", "failed"}
  BY <1>1, <1>2, StopKeeps
<1>4. CASE pc' = "fund"
  BY <1>1, <1>4, MoveKeeps DEF Outside
<1> QED BY <1>1, <1>2, <1>4

\* A caller that validates its configuration brings a tracer.
LEMMA TracerFailsKeeps ==
  ASSUME CLIInv, TracerFails, Outside
  PROVE  CLIInv'
<1>1. pc = "finish" /\ ~client.tracer /\ Fails /\ Same
  BY DEF TracerFails, NeedsTracer, Same, Outside
<1>2. caller = "raw"
  BY <1>1 DEF CLIInv, ClientInv, Connected, Wired
<1> QED BY <1>1, <1>2, FailKeeps

\* The fees are checked without a timeout only if nothing has been spent.
LEMMA CheckFeesPanicsKeeps ==
  ASSUME CLIInv, CheckFeesPanics, Outside
  PROVE  CLIInv'
<1>1. pc = "finish" /\ pc' = "panic" /\ Same /\ cfg.txnTimeout = "nil"
  BY DEF CheckFeesPanics, Panics, Same, Outside
<1>2. funded = {}
  BY <1>1 DEF CLIInv, FundInv
<1> QED BY <1>1, <1>2, StopKeeps

LEMMA NoAnswerKeeps ==
  ASSUME CLIInv, NoAnswer, Outside
  PROVE  CLIInv'
<1>1. /\ pc \in {"dial", "sync", "health", "fund", "finish"} /\ pc' = "stuck"
      /\ UNCHANGED <<cfg, given, client, made>>
  BY DEF NoAnswer
<1>2. TypeInv' /\ KeysInv' /\ SubKeys' = SubKeys /\ ChecksFees' = ChecksFees
  BY <1>1 DEF CLIInv, TypeInv, KeysInv, SubKeys, ChecksFees, Ephemeral, Outside
<1>3. CallerInv'
  BY <1>1, EndKnown
<1>4. ClientInv'
  BY <1>1 DEF ClientInv, Connected
<1>5. StrategyInv'
  BY <1>1 DEF CLIInv, StrategyInv, StrategyReady, Making, Outside
<1>6. FundedMeansClient'
  <2>1. CASE pc = "finish"
    BY <1>1, <1>2, <2>1 DEF NoAnswer, FundedMeansClient
  <2>2. CASE pc # "finish"
    <3>1. funded = {}
      BY <1>1, <2>2 DEF CLIInv, FundInv
    <3>2. funded' = {} \/ funded' # SubKeys
      <4>1. CASE pc = "fund" /\ ~CannotFund
        <5>1. funded' \in {{}} \cup ((SUBSET SubKeys) \ {SubKeys})
          BY <4>1 DEF NoAnswer
        <5> QED BY <5>1, Zenon
      <4>2. CASE ~(pc = "fund" /\ ~CannotFund)
        BY <3>1, <4>2 DEF NoAnswer
      <4> QED BY <4>1, <4>2
    <3> QED BY <1>2, <3>2 DEF FundedMeansClient
  <2> QED BY <2>1, <2>2
<1>7. FundInv'
  BY <1>1, <1>6 DEF FundInv, Reading
<1> QED BY <1>2, <1>3, <1>4, <1>5, <1>7 DEF CLIInv

LEMMA StartupKeeps ==
  ASSUME CLIInv, StartupStep, UNCHANGED <<builderVars, statsVars, gasVars, cliVars>>
  PROVE  CLIInv'
<1>1. UNCHANGED <<builds, word, blocks, interval>>
  BY DEF builderVars, statsVars, cliVars
<1>2. pc \in Reading \cup {"validate", "keys", "wire", "dial", "sync", "health", "fund"} => funded = {}
  BY DEF CLIInv, FundInv
<1>3. Outside
  BY <1>1 DEF StartupStep, Outside, ReadConfigPanics, ReadConfigFails, ReadConfig, AppendPksToNetwork, ValidateConfig,
       ContractStoreFails, MakeKeys, WireFails, Wire, ChooseOptions, DialFails, Dial,
       UpdateNoncesFails, UpdateNonces, CheckRPCHealth, NotEphemeral, CalculateFundingFails,
       FundEphemeral, TracerFails, CheckFeesPanics, Finish, NoAnswer
<1>4. CASE ReadConfigPanics \/ ReadConfigFails \/ ContractStoreFails \/ WireFails \/ DialFails \/ UpdateNoncesFails
           \/ CalculateFundingFails
  <2>1. pc \in {"read", "keys", "wire", "dial", "sync", "fund"} /\ pc' \in {"failed", "panic"} /\ Same
    BY <1>1, <1>4 DEF ReadConfigPanics, ReadConfigFails, ContractStoreFails, WireFails, DialFails,
         UpdateNoncesFails, CalculateFundingFails, Fails, Panics, Same
  <2>2. funded = {} /\ pc # "build"
    BY <1>2, <2>1 DEF Reading
  <2> QED BY <1>3, <2>1, <2>2, StopKeeps
<1>5. CASE UpdateNonces
  <2>1. pc = "sync" /\ pc' \in {"health", "fund"} /\ (pc' = "health" => cfg.health = "on") /\ Same
    BY <1>1, <1>5 DEF UpdateNonces, Same
  <2> QED BY <1>1, <2>1, MoveKeeps
<1>6. CASE NotEphemeral
  <2>1. pc = "fund" /\ pc' = "finish" /\ ~Ephemeral /\ Same
    BY <1>1, <1>6 DEF NotEphemeral, Same
  <2> QED BY <1>1, <2>1, MoveKeeps
<1> QED BY <1>3, <1>4, <1>5, <1>6, ReadConfigKeeps, AppendPksKeeps, ValidateConfigKeeps, MakeKeysKeeps,
          WireKeeps, ChooseOptionsKeeps, DialKeeps, CheckRPCHealthKeeps, FundEphemeralKeeps,
          TracerFailsKeeps, CheckFeesPanicsKeeps, FinishKeeps, NoAnswerKeeps DEF StartupStep

-----------------------------------------------------------------------------
(***************************************************************************)
(* The builder.                                                            *)
(***************************************************************************)
LEMMA SetKeeps ==
  ASSUME CLIInv, NEW config \in Configs, Set(config), UNCHANGED <<statsVars, gasVars, cliVars>>,
         \A i \in DOMAIN config.keys : config.keys[i][1] = "ephemeral" => i # 1 /\ builds >= 1,
         config.strategy \in {"nil", "custom", cfg.strategy}
  PROVE  CLIInv'
<1>1. /\ caller = "builder" /\ cfg' = config /\ pc' = "build"
      /\ UNCHANGED <<caller, file, given, client, made, funded, builds>>
      /\ UNCHANGED <<word, blocks, interval>>
  BY DEF Set, Settable, statsVars, cliVars
<1>2. TypeInv' /\ KeysInv'
  BY <1>1 DEF CLIInv, TypeInv, KeysInv
<1>3. CallerInv' /\ ClientInv' /\ FundInv'
  BY <1>1 DEF CLIInv, CallerInv, ClientInv, FundInv, FundedMeansClient, Reading,
       Connected, Commands
<1>4. StrategyInv'
  BY <1>1 DEF CLIInv, StrategyInv, StrategyReady, Making
<1> QED BY <1>2, <1>3, <1>4 DEF CLIInv

\* A setter that leaves the keys alone.
LEMMA SetOtherKeeps ==
  ASSUME CLIInv, NEW config \in Configs, Set(config), UNCHANGED <<statsVars, gasVars, cliVars>>,
         config.keys = cfg.keys, config.strategy \in {"nil", "custom", cfg.strategy}
  PROVE  CLIInv'
<1>1. caller = "builder"
  BY DEF Set, Settable
<1>2. \A i \in DOMAIN config.keys : config.keys[i][1] = "ephemeral" => i # 1 /\ builds >= 1
  BY <1>1 DEF CLIInv, KeysInv
<1> QED BY <1>2, SetKeeps

LEMMA WithPrivateKeysKeeps ==
  ASSUME CLIInv, WithPrivateKeys, UNCHANGED <<statsVars, gasVars, cliVars>>
  PROVE  CLIInv'
<1>1. PICK keys \in {<<1>>, <<1, 2>>, <<1, 1>>} :
         Set([cfg EXCEPT !.keys = [i \in DOMAIN keys |-> <<"given", keys[i]>>]])
  BY DEF WithPrivateKeys
<1> DEFINE k == [i \in DOMAIN keys |-> <<"given", keys[i]>>]
<1>2. k \in Seq(Keys)
  <2>1. keys \in Seq(Nat)
    <3>1. <<1>> \in Seq(Nat)
      OBVIOUS
    <3>2. <<1, 2>> \in Seq(Nat)
      OBVIOUS
    <3>3. <<1, 1>> \in Seq(Nat)
      OBVIOUS
    <3> QED BY <3>1, <3>2, <3>3
  <2>2. \A i \in 1 .. Len(keys) : <<"given", keys[i]>> \in Keys
    BY <2>1 DEF Keys
  <2> QED BY <2>1, <2>2
<1>4. \A i \in DOMAIN k : k[i][1] = "given"
  OBVIOUS
<1> HIDE DEF k
<1> DEFINE config == [cfg EXCEPT !.keys = k]
<1>5. config \in Configs /\ config.keys = k /\ config.strategy = cfg.strategy
  BY <1>2 DEF CLIInv, TypeInv, Configs
<1>6. Set(config)
  BY <1>1 DEF k
<1> HIDE DEF config
<1>7. \A i \in DOMAIN config.keys : config.keys[i][1] # "ephemeral"
  BY <1>4, <1>5
<1> QED BY <1>5, <1>6, <1>7, SetKeeps

LEMMA BuildKeeps ==
  ASSUME CLIInv, Build, UNCHANGED <<statsVars, gasVars, cliVars>>
  PROVE  CLIInv'
<1>1. /\ caller = "builder" /\ pc = "build" /\ pc' = "validate" /\ builds' = builds + 1
      /\ client' = NoClient /\ given' = {} /\ funded' = {}
      /\ UNCHANGED <<caller, file, cfg, made>>
      /\ UNCHANGED <<word, blocks, interval>> /\ builds \in Nat
  BY DEF Build, statsVars, cliVars, CLIInv, TypeInv
<1>2. NoClient \in Clients
  BY DEF NoClient, Clients
<1>3. TypeInv' /\ KeysInv'
  BY <1>1, <1>2 DEF CLIInv, TypeInv, KeysInv, Ephemeral
<1>4. CallerInv' /\ ClientInv' /\ FundInv'
  BY <1>1 DEF CLIInv, CallerInv, ClientInv, FundInv, FundedMeansClient, Reading,
       Connected, Commands
<1>5. StrategyInv'
  BY <1>1 DEF CLIInv, StrategyInv, StrategyReady, Making
<1> QED BY <1>3, <1>4, <1>5 DEF CLIInv

LEMMA BuilderKeeps ==
  ASSUME CLIInv, BuilderStep, UNCHANGED <<statsVars, gasVars, cliVars>>
  PROVE  CLIInv'
<1>1. cfg \in Configs
  BY DEF CLIInv, TypeInv
<1>2. CASE WithRpcUrl
  <2> DEFINE config == [cfg EXCEPT !.urls = "set"]
  <2>1. config \in Configs /\ config.keys = cfg.keys /\ config.strategy = cfg.strategy
    BY <1>1 DEF Configs
  <2>2. Set(config)
    BY <1>2 DEF WithRpcUrl
  <2> HIDE DEF config
  <2> QED BY <2>1, <2>2, SetOtherKeeps
<1>3. CASE WithNetworkName \/ WithArtifactsFolder
  <2>1. Set(cfg)
    BY <1>3 DEF WithNetworkName, WithArtifactsFolder
  <2> QED BY <1>1, <2>1, SetOtherKeeps
<1>4. CASE WithTimeouts
  <2> DEFINE config == [cfg EXCEPT !.txnTimeout = "set"]
  <2>1. config \in Configs /\ config.keys = cfg.keys /\ config.strategy = cfg.strategy
    BY <1>1 DEF Configs
  <2>2. Set(config)
    BY <1>4 DEF WithTimeouts
  <2> HIDE DEF config
  <2> QED BY <2>1, <2>2, SetOtherKeeps
<1>5. CASE WithGasPriceEstimations
  <2>1. PICK e \in {"on", "off"}, b \in {"zero", "some"}, p \in {Empty, "fast", "bad"} :
          Set([cfg EXCEPT !.estimation = e, !.blocks = b, !.priority = p])
    BY <1>5 DEF WithGasPriceEstimations
  <2> DEFINE config == [cfg EXCEPT !.estimation = e, !.blocks = b, !.priority = p]
  <2>2. config \in Configs /\ config.keys = cfg.keys /\ config.strategy = cfg.strategy
    BY <1>1 DEF Configs
  <2>3. Set(config)
    BY <2>1
  <2> HIDE DEF config
  <2> QED BY <2>2, <2>3, SetOtherKeeps
<1>6. CASE WithGasBumping
  <2>1. PICK r \in {"off", "on"}, s \in {"nil", "custom"} :
          Set([cfg EXCEPT !.gasBump = r, !.strategy = s])
    BY <1>6 DEF WithGasBumping
  <2> DEFINE config == [cfg EXCEPT !.gasBump = r, !.strategy = s]
  <2>2. config \in Configs /\ config.keys = cfg.keys /\ config.strategy \in {"nil", "custom"}
    <3>1. config.keys = cfg.keys /\ config.strategy = s
      BY <1>1 DEF Configs
    <3>2. config \in Configs
      <4> DEFINE c == [cfg EXCEPT !.gasBump = r]
      <4>1. c \in Configs
        BY <1>1 DEF Configs
      <4>2. config = [c EXCEPT !.strategy = s]
        BY <1>1 DEF Configs
      <4> HIDE DEF c, config
      <4>3. s \in {"nil", "custom", "noop", "fast", "standard", "slow", "degen"}
        OBVIOUS
      <4> QED BY <4>1, <4>2, <4>3 DEF Configs
    <3> QED BY <3>1, <3>2
  <2>3. Set(config)
    BY <2>1
  <2> HIDE DEF config
  <2> QED BY <2>2, <2>3, SetOtherKeeps
<1>7. CASE WithEphemeralAddresses
  <2>1. PICK n \in {0, EphemeralAddrs} : Set([cfg EXCEPT !.ephemeral = n])
    BY <1>7 DEF WithEphemeralAddresses
  <2> DEFINE config == [cfg EXCEPT !.ephemeral = n]
  <2>2. config \in Configs /\ config.keys = cfg.keys /\ config.strategy = cfg.strategy
    BY <1>1, StartupAssumption DEF Configs
  <2>3. Set(config)
    BY <2>1
  <2> HIDE DEF config
  <2> QED BY <2>2, <2>3, SetOtherKeeps
<1>8. CASE WithTracing
  <2>1. PICK l \in {"none", "bad"} : Set([cfg EXCEPT !.level = l])
    BY <1>8 DEF WithTracing
  <2> DEFINE config == [cfg EXCEPT !.level = l]
  <2>2. config \in Configs /\ config.keys = cfg.keys /\ config.strategy = cfg.strategy
    BY <1>1 DEF Configs
  <2>3. Set(config)
    BY <2>1
  <2> HIDE DEF config
  <2> QED BY <2>2, <2>3, SetOtherKeeps
<1>9. CASE WithProtections
  <2> DEFINE config == [cfg EXCEPT !.health = "off"]
  <2>1. config \in Configs /\ config.keys = cfg.keys /\ config.strategy = cfg.strategy
    BY <1>1 DEF Configs
  <2>2. Set(config)
    BY <1>9 DEF WithProtections
  <2> HIDE DEF config
  <2> QED BY <2>1, <2>2, SetOtherKeeps
<1>10. CASE WithNonceManager
  <2> DEFINE config == [cfg EXCEPT !.nonceManager = "zero"]
  <2>1. config \in Configs /\ config.keys = cfg.keys /\ config.strategy = cfg.strategy
    BY <1>1 DEF Configs
  <2>2. Set(config)
    BY <1>10 DEF WithNonceManager
  <2> HIDE DEF config
  <2> QED BY <2>1, <2>2, SetOtherKeeps
<1>11. CASE WithFees
  <2>1. PICK d \in {"on", "off"} : Set([cfg EXCEPT !.dynamicFees = d])
    BY <1>11 DEF WithFees
  <2> DEFINE config == [cfg EXCEPT !.dynamicFees = d]
  <2>2. config \in Configs /\ config.keys = cfg.keys /\ config.strategy = cfg.strategy
    BY <1>1 DEF Configs
  <2>3. Set(config)
    BY <2>1
  <2> HIDE DEF config
  <2> QED BY <2>2, <2>3, SetOtherKeeps
<1> QED BY <1>2, <1>3, <1>4, <1>5, <1>6, <1>7, <1>8, <1>9, <1>10, <1>11, WithPrivateKeysKeeps, BuildKeeps
      DEF BuilderStep

-----------------------------------------------------------------------------
(***************************************************************************)
(* What sorting returns.  The places of the elements are different, so     *)
(* every number up to the length is the place of one.                      *)
(***************************************************************************)
LEMMA PlaceOrder ==
  ASSUME NEW s \in Seq(Int), NEW i \in DOMAIN s, NEW j \in DOMAIN s,
         s[i] < s[j] \/ (s[i] = s[j] /\ i < j)
  PROVE  Place(s, i) < Place(s, j)
<1> DEFINE Upto(k) == {l \in DOMAIN s : s[l] < s[k] \/ (s[l] = s[k] /\ l =< k)}
<1>1. IsFiniteSet(DOMAIN s)
  <2>1. DOMAIN s = 1 .. Len(s) /\ Len(s) \in Int
    OBVIOUS
  <2> QED BY <2>1, FS_Interval
<1>2. IsFiniteSet(Upto(i)) /\ IsFiniteSet(Upto(j))
  BY <1>1, FS_Subset, Upto(i) \in SUBSET DOMAIN s, Upto(j) \in SUBSET DOMAIN s
<1>3. \A l \in DOMAIN s : l \in Int /\ s[l] \in Int
  OBVIOUS
<1>4. Upto(i) \in SUBSET Upto(j)
  BY <1>3
<1>5. j \in Upto(j) /\ j \notin Upto(i)
  BY <1>3
<1>6. Place(s, i) = Cardinality(Upto(i)) /\ Place(s, j) = Cardinality(Upto(j))
  BY DEF Place
<1> HIDE DEF Upto
<1>7. Cardinality(Upto(i)) \in Nat /\ Cardinality(Upto(j)) \in Nat
  BY <1>2, FS_CardinalityType
<1>8. Cardinality(Upto(i)) =< Cardinality(Upto(j)) /\ Cardinality(Upto(i)) # Cardinality(Upto(j))
  BY <1>2, <1>4, <1>5, FS_Subset
<1> QED BY <1>6, <1>7, <1>8

LEMMA PlaceRange ==
  ASSUME NEW s \in Seq(Int), NEW i \in DOMAIN s
  PROVE  Place(s, i) \in DOMAIN s
<1> DEFINE Upto == {l \in DOMAIN s : s[l] < s[i] \/ (s[l] = s[i] /\ l =< i)}
<1>1. DOMAIN s = 1 .. Len(s) /\ Len(s) \in Nat
  OBVIOUS
<1>2. IsFiniteSet(DOMAIN s) /\ Cardinality(DOMAIN s) = Len(s)
  <2>1. IsFiniteSet(1 .. Len(s)) /\ Cardinality(1 .. Len(s)) = IF 1 > Len(s) THEN 0 ELSE Len(s) - 1 + 1
    BY <1>1, FS_Interval
  <2> QED BY <1>1, <2>1
<1>3. IsFiniteSet(Upto) /\ Cardinality(Upto) =< Cardinality(DOMAIN s)
  BY <1>2, FS_Subset, Upto \in SUBSET DOMAIN s
<1>4. i \in Upto
  <2>1. i \in Int /\ s[i] \in Int
    OBVIOUS
  <2> QED BY <2>1
<1>5. Place(s, i) = Cardinality(Upto)
  BY DEF Place
<1> HIDE DEF Upto
<1>6. Cardinality(Upto) \in Nat /\ Cardinality(Upto) # 0
  BY <1>3, <1>4, FS_CardinalityType, FS_EmptySet
<1> QED BY <1>1, <1>2, <1>3, <1>5, <1>6

LEMMA PlaceInjective ==
  ASSUME NEW s \in Seq(Int), NEW i \in DOMAIN s, NEW j \in DOMAIN s, Place(s, i) = Place(s, j)
  PROVE  i = j
<1>1. i \in Int /\ j \in Int /\ s[i] \in Int /\ s[j] \in Int
  OBVIOUS
<1>2. Place(s, i) \in Int
  BY PlaceRange
<1>3. ~(s[i] < s[j] \/ (s[i] = s[j] /\ i < j)) /\ ~(s[j] < s[i] \/ (s[j] = s[i] /\ j < i))
  BY <1>2, PlaceOrder
<1> QED BY <1>1, <1>3

\* Where the element comes from that is at place k.
From(s) == [k \in DOMAIN s |-> CHOOSE i \in DOMAIN s : Place(s, i) = k]

LEMMA FromPlace ==
  ASSUME NEW s \in Seq(Int)
  PROVE  /\ \A k \in DOMAIN s : From(s)[k] \in DOMAIN s /\ Place(s, From(s)[k]) = k
         /\ \A i \in DOMAIN s : From(s)[Place(s, i)] = i
<1> DEFINE place == [i \in DOMAIN s |-> Place(s, i)]
           D == DOMAIN s
<1>1. IsFiniteSet(D)
  <2>1. D = 1 .. Len(s) /\ Len(s) \in Int
    OBVIOUS
  <2> QED BY <2>1, FS_Interval
<1>2. place \in Injection(D, D)
  <2>1. place \in [D -> D]
    BY PlaceRange
  <2>2. ASSUME NEW i \in D, NEW j \in D, place[i] = place[j] PROVE i = j
    <3>1. Place(s, i) = Place(s, j)
      BY <2>2
    <3> QED BY <3>1, PlaceInjective
  <2> QED BY <2>1, <2>2 DEF Injection, IsInjective
<1>3. place \in Surjection(D, D)
  <2> HIDE DEF place, D
  <2> QED BY <1>1, <1>2, FS_Injection
<1>4. ASSUME NEW k \in D PROVE From(s)[k] \in DOMAIN s /\ Place(s, From(s)[k]) = k
  <2>1. \E i \in D : Place(s, i) = k
    <3>1. \E i \in D : place[i] = k
      <4> HIDE DEF place
      <4> QED BY <1>3 DEF Surjection
    <3> QED BY <3>1
  <2>2. From(s)[k] = CHOOSE i \in D : Place(s, i) = k
    BY DEF From
  <2> QED BY <2>1, <2>2, Zenon
<1>5. ASSUME NEW i \in DOMAIN s PROVE From(s)[Place(s, i)] = i
  <2>1. Place(s, i) \in DOMAIN s
    BY PlaceRange
  <2>2. From(s)[Place(s, i)] \in DOMAIN s /\ Place(s, From(s)[Place(s, i)]) = Place(s, i)
    BY <1>4, <2>1
  <2> QED BY <2>2, PlaceInjective
<1> QED BY <1>4, <1>5

LEMMA AscendingElements ==
  ASSUME NEW s \in Seq(Int)
  PROVE  /\ DOMAIN Ascending(s) = DOMAIN s /\ Len(Ascending(s)) = Len(s)
         /\ Ascending(s) \in Seq(Int)
         /\ \A k \in DOMAIN s : Ascending(s)[k] = s[From(s)[k]]
<1>1. Ascending(s) = [k \in DOMAIN s |-> s[From(s)[k]]]
  BY DEF Ascending, From
<1>2. \A k \in DOMAIN s : s[From(s)[k]] \in Int
  BY FromPlace
<1>3. DOMAIN s = 1 .. Len(s) /\ Len(s) \in Nat
  OBVIOUS
<1>4. Ascending(s) \in [1 .. Len(s) -> Int]
  BY <1>1, <1>2, <1>3
<1> QED BY <1>1, <1>3, <1>4

LEMMA AscendingTyped ==
  ASSUME NEW S \in SUBSET Int, NEW s \in Seq(S)
  PROVE  Ascending(s) \in Seq(S)
<1>1. s \in Seq(Int) /\ DOMAIN s = 1 .. Len(s) /\ Len(s) \in Nat
  <2>1. s \in [1 .. Len(s) -> S] /\ DOMAIN s = 1 .. Len(s) /\ Len(s) \in Nat
    OBVIOUS
  <2>2. s \in [1 .. Len(s) -> Int]
    BY <2>1
  <2> QED BY <2>1, <2>2
<1>2. /\ DOMAIN Ascending(s) = 1 .. Len(s) /\ Ascending(s) \in Seq(Int)
      /\ \A k \in DOMAIN s : Ascending(s)[k] = s[From(s)[k]]
  BY <1>1, AscendingElements
<1>3. \A k \in DOMAIN s : s[From(s)[k]] \in S
  BY <1>1, FromPlace, SMTT(60)
<1>4. Ascending(s) = [k \in 1 .. Len(s) |-> Ascending(s)[k]]
  BY <1>2
<1> QED BY <1>1, <1>2, <1>3, <1>4

LEMMA AscendingInOrder ==
  ASSUME NEW s \in Seq(Int), NEW k \in DOMAIN s, NEW l \in DOMAIN s, k =< l
  PROVE  Ascending(s)[k] =< Ascending(s)[l]
<1> DEFINE i == From(s)[k]
           j == From(s)[l]
<1>1. i \in DOMAIN s /\ j \in DOMAIN s /\ Place(s, i) = k /\ Place(s, j) = l
  BY FromPlace
<1>2. Ascending(s)[k] = s[i] /\ Ascending(s)[l] = s[j]
  BY AscendingElements
<1> HIDE DEF i, j
<1>3. s[i] \in Int /\ s[j] \in Int /\ k \in Int /\ l \in Int
  BY <1>1
<1>4. ~(s[j] < s[i])
  <2> SUFFICES ASSUME s[j] < s[i] PROVE FALSE
    OBVIOUS
  <2>1. Place(s, j) < Place(s, i)
    BY <1>1, PlaceOrder
  <2> QED BY <1>1, <1>3, <2>1
<1> QED BY <1>2, <1>3, <1>4

LEMMA AscendingSameSet ==
  ASSUME NEW s \in Seq(Int)
  PROVE  ToSet(Ascending(s)) = ToSet(s)
<1>1. DOMAIN Ascending(s) = DOMAIN s /\ \A k \in DOMAIN s : Ascending(s)[k] = s[From(s)[k]]
  BY AscendingElements
<1>2. ASSUME NEW i \in DOMAIN s PROVE \E k \in DOMAIN s : Ascending(s)[k] = s[i]
  <2>1. Place(s, i) \in DOMAIN s /\ From(s)[Place(s, i)] = i
    BY PlaceRange, FromPlace
  <2> QED BY <1>1, <2>1
<1>3. \A k \in DOMAIN s : From(s)[k] \in DOMAIN s
  BY FromPlace
<1>4. ASSUME NEW x \in ToSet(Ascending(s)) PROVE x \in ToSet(s)
  <2>1. PICK k \in DOMAIN s : x = Ascending(s)[k]
    BY <1>1 DEF ToSet
  <2> QED BY <1>1, <1>3, <2>1 DEF ToSet
<1>5. ASSUME NEW x \in ToSet(s) PROVE x \in ToSet(Ascending(s))
  <2>1. PICK i \in DOMAIN s : x = s[i]
    BY DEF ToSet
  <2>2. PICK k \in DOMAIN s : Ascending(s)[k] = s[i]
    BY <1>2
  <2> QED BY <1>1, <2>1, <2>2 DEF ToSet
<1> QED BY <1>4, <1>5

\* Different elements are strictly in order.
LEMMA AscendingStrict ==
  ASSUME NEW s \in Seq(Int), \A i, j \in DOMAIN s : s[i] = s[j] => i = j,
         NEW k \in DOMAIN s, NEW l \in DOMAIN s, k < l
  PROVE  Ascending(s)[k] < Ascending(s)[l]
<1>1. Ascending(s)[k] =< Ascending(s)[l]
  BY AscendingInOrder
<1>2. /\ From(s)[k] \in DOMAIN s /\ From(s)[l] \in DOMAIN s
      /\ Place(s, From(s)[k]) = k /\ Place(s, From(s)[l]) = l
  BY FromPlace
<1>3. Ascending(s)[k] = s[From(s)[k]] /\ Ascending(s)[l] = s[From(s)[l]]
  BY AscendingElements
<1>4. s[From(s)[k]] # s[From(s)[l]]
  BY <1>2
<1>5. s[From(s)[k]] \in Int /\ s[From(s)[l]] \in Int
  BY <1>2
<1> QED BY <1>1, <1>3, <1>4, <1>5

NoMore(s, q) == {i \in DOMAIN s : s[i] =< q}
NoLess(s, q) == {i \in DOMAIN s : s[i] >= q}

\* At least k elements are at most the one at place k, and ...
LEMMA AtMost ==
  ASSUME NEW s \in Seq(Int), NEW k \in DOMAIN s, NEW q \in Int, Ascending(s)[k] =< q
  PROVE  Cardinality(NoMore(s, q)) >= k
<1> DEFINE T == {i \in DOMAIN s : s[i] =< q}
           f == [l \in 1 .. k |-> From(s)[l]]
<1>1. DOMAIN s = 1 .. Len(s) /\ Len(s) \in Nat /\ k \in Nat
  OBVIOUS
<1>2. IsFiniteSet(DOMAIN s)
  BY <1>1, FS_Interval
<1>3. IsFiniteSet(T)
  BY <1>2, FS_Subset, T \in SUBSET DOMAIN s
<1>4. ASSUME NEW l \in 1 .. k PROVE From(s)[l] \in T
  <2>1. l \in DOMAIN s /\ l =< k
    BY <1>1
  <2>2. From(s)[l] \in DOMAIN s /\ Ascending(s)[l] = s[From(s)[l]]
    BY <2>1, FromPlace, AscendingElements
  <2>3. Ascending(s)[l] =< Ascending(s)[k]
    BY <2>1, AscendingInOrder
  <2>4. s[From(s)[l]] \in Int /\ Ascending(s)[k] \in Int
    <3>1. From(s)[k] \in DOMAIN s /\ Ascending(s)[k] = s[From(s)[k]]
      BY FromPlace, AscendingElements
    <3> QED BY <2>2, <3>1
  <2> QED BY <2>2, <2>3, <2>4
<1>5. f \in Injection(1 .. k, T)
  <2>1. f \in [1 .. k -> T]
    BY <1>4
  <2>2. ASSUME NEW l \in 1 .. k, NEW m \in 1 .. k, f[l] = f[m] PROVE l = m
    <3>1. From(s)[l] = From(s)[m] /\ l \in DOMAIN s /\ m \in DOMAIN s
      BY <1>1, <2>2
    <3> QED BY <3>1, FromPlace
  <2> QED BY <2>1, <2>2 DEF Injection, IsInjective
<1> HIDE DEF T, f
<1>6. Cardinality(1 .. k) =< Cardinality(T)
  BY <1>3, <1>5, FS_Injection
<1>7. Cardinality(1 .. k) = k /\ Cardinality(T) \in Nat
  BY <1>1, <1>3, FS_Interval, FS_CardinalityType
<1> QED BY <1>1, <1>6, <1>7 DEF T, NoMore

\* at least as many as are left, and that one, are no less.
LEMMA AtLeast ==
  ASSUME NEW s \in Seq(Int), NEW k \in DOMAIN s, NEW q \in Int, Ascending(s)[k] >= q
  PROVE  Cardinality(NoLess(s, q)) >= Len(s) - k + 1
<1> DEFINE T == {i \in DOMAIN s : s[i] >= q}
           n == Len(s)
           f == [l \in k .. n |-> From(s)[l]]
<1>1. DOMAIN s = 1 .. n /\ n \in Nat /\ k \in Nat /\ k =< n
  OBVIOUS
<1>2. IsFiniteSet(DOMAIN s)
  BY <1>1, FS_Interval
<1>3. IsFiniteSet(T)
  BY <1>2, FS_Subset, T \in SUBSET DOMAIN s
<1>4. ASSUME NEW l \in k .. n PROVE From(s)[l] \in T
  <2>1. l \in DOMAIN s /\ k =< l
    BY <1>1
  <2>2. From(s)[l] \in DOMAIN s /\ Ascending(s)[l] = s[From(s)[l]]
    BY <2>1, FromPlace, AscendingElements
  <2>3. Ascending(s)[k] =< Ascending(s)[l]
    BY <2>1, AscendingInOrder
  <2>4. s[From(s)[l]] \in Int /\ Ascending(s)[k] \in Int
    <3>1. From(s)[k] \in DOMAIN s /\ Ascending(s)[k] = s[From(s)[k]]
      BY FromPlace, AscendingElements
    <3> QED BY <2>2, <3>1
  <2> QED BY <2>2, <2>3, <2>4
<1>5. f \in Injection(k .. n, T)
  <2>1. f \in [k .. n -> T]
    BY <1>4
  <2>2. ASSUME NEW l \in k .. n, NEW m \in k .. n, f[l] = f[m] PROVE l = m
    <3>1. From(s)[l] = From(s)[m] /\ l \in DOMAIN s /\ m \in DOMAIN s
      BY <1>1, <2>2
    <3> QED BY <3>1, FromPlace
  <2> QED BY <2>1, <2>2 DEF Injection, IsInjective
<1> HIDE DEF T, f
<1>6. Cardinality(k .. n) =< Cardinality(T)
  BY <1>3, <1>5, FS_Injection
<1>7. Cardinality(k .. n) = n - k + 1 /\ Cardinality(T) \in Nat
  BY <1>1, <1>3, FS_Interval, FS_CardinalityType
<1> QED BY <1>1, <1>6, <1>7 DEF T, NoLess

\* Only what is left can be greater.
LEMMA FewGreater ==
  ASSUME NEW s \in Seq(Int), NEW k \in DOMAIN s
  PROVE  LET T == {i \in DOMAIN s : s[i] > Ascending(s)[k]}
         IN  Cardinality(T) \in Nat /\ Cardinality(T) =< Len(s) - k
<1> DEFINE T == {i \in DOMAIN s : s[i] > Ascending(s)[k]}
           n == Len(s)
           f == [i \in T |-> Place(s, i)]
<1>1. DOMAIN s = 1 .. n /\ n \in Nat /\ k \in Nat /\ k =< n
  OBVIOUS
<1>2. IsFiniteSet(k + 1 .. n) /\ Cardinality(k + 1 .. n) = n - k
  <2> DEFINE m == k + 1
  <2>1. m \in Int /\ n \in Int
    BY <1>1
  <2> HIDE DEF m, n
  <2>2. IsFiniteSet(m .. n)
    BY <2>1, FS_Interval
  <2>3. Cardinality(m .. n) = IF m > n THEN 0 ELSE n - m + 1
    BY <2>1, FS_Interval
  <2> QED BY <1>1, <2>2, <2>3 DEF m
<1>3. From(s)[k] \in DOMAIN s /\ Place(s, From(s)[k]) = k /\ Ascending(s)[k] = s[From(s)[k]]
  BY FromPlace, AscendingElements
<1>4. ASSUME NEW i \in T PROVE Place(s, i) \in k + 1 .. n
  <2>1. i \in DOMAIN s /\ s[From(s)[k]] < s[i]
    <3>1. i \in DOMAIN s /\ s[i] \in Int /\ s[From(s)[k]] \in Int /\ s[i] > s[From(s)[k]]
      BY <1>3
    <3> QED BY <3>1
  <2>2. Place(s, From(s)[k]) < Place(s, i)
    BY <1>3, <2>1, PlaceOrder
  <2>3. Place(s, i) \in 1 .. n
    BY <1>1, <2>1, PlaceRange
  <2> QED BY <1>1, <1>3, <2>2, <2>3
<1>5. f \in Injection(T, k + 1 .. n)
  <2>1. f \in [T -> k + 1 .. n]
    BY <1>4
  <2>2. ASSUME NEW i \in T, NEW j \in T, f[i] = f[j] PROVE i = j
    <3>1. Place(s, i) = Place(s, j) /\ i \in DOMAIN s /\ j \in DOMAIN s
      BY <2>2
    <3> QED BY <3>1, PlaceInjective
  <2> QED BY <2>1, <2>2 DEF Injection, IsInjective
<1> HIDE DEF T, f
<1>6. IsFiniteSet(T) /\ Cardinality(T) =< Cardinality(k + 1 .. n)
  BY <1>2, <1>5, FS_Injection
<1> QED BY <1>2, <1>6, FS_CardinalityType DEF T

-----------------------------------------------------------------------------
(***************************************************************************)
(* The commands.                                                           *)
(***************************************************************************)
LEMMA BeforeKeeps ==
  ASSUME CLIInv, Before
  PROVE  CLIInv'
<1>1. /\ pc = "before" /\ Same /\ UNCHANGED <<blocks, interval>>
      /\ pc' = IF word \in {"gas", "stats"} THEN "read" ELSE "command"
  BY DEF Before, Same, builderVars, statsVars, cliVars
<1>2. caller = "cli" /\ client = NoClient /\ funded = {}
  BY <1>1 DEF CLIInv, CallerInv, FundInv, Reading
<1>3. TypeInv' /\ KeysInv'
  BY <1>1, SameKeeps
<1>4. CallerInv'
  BY <1>1, <1>2 DEF CLIInv, CallerInv, Same, Commands
<1>5. ClientInv' /\ FundInv'
  BY <1>1, <1>2 DEF ClientInv, FundInv, FundedMeansClient, Same, Connected
<1>6. StrategyInv'
  BY <1>1, <1>2 DEF CLIInv, StrategyInv, StrategyReady, Same, Making
<1> QED BY <1>3, <1>4, <1>5, <1>6 DEF CLIInv

\* A client has been created unless the command was given by its alias.
LEMMA CommandedCreated ==
  ASSUME CLIInv, NEW words, Commanded(words)
  PROVE  /\ pc \in {"ready", "command"} /\ caller = "cli" /\ word \in words
         /\ ~client.created => word \notin {"gas", "stats"} /\ pc = "command"
         /\ client.created => pc = "ready"
<1>1. pc \in {"ready", "command"} /\ caller = "cli" /\ word \in words
  BY DEF Commanded
<1>2. pc = "ready" => client.created
  BY DEF CLIInv, ClientInv
<1>3. pc = "command" => word \notin {"gas", "stats"} /\ client = NoClient
  BY DEF CLIInv, CallerInv
<1>4. ~NoClient.created
  BY DEF NoClient
<1> QED BY <1>1, <1>2, <1>3, <1>4

LEMMA StatsCommandKeeps ==
  ASSUME CLIInv, StatsCommand
  PROVE  CLIInv'
<1>1. Same /\ UNCHANGED blocks /\ Commanded({"stats", "s"})
  BY DEF StatsCommand, Same, builderVars, cliVars
<1>2. PICK f \in StatsFlags :
         IF FlagsRefused(f.start, f.end) THEN Fails /\ UNCHANGED interval
         ELSE IF ~client.created \/ cfg.blockStats # "ok" THEN Panics /\ UNCHANGED interval
         ELSE pc' = "stats" /\ interval' = f
  BY DEF StatsCommand
<1>3. pc \in {"ready", "command"} /\ caller = "cli" /\ word \in {"stats", "s"}
      /\ (~client.created => word = "s")
  BY <1>1, CommandedCreated
<1>4. CASE FlagsRefused(f.start, f.end)
  BY <1>1, <1>2, <1>3, <1>4, FailKeeps DEF Outside, Same
<1>5. CASE ~FlagsRefused(f.start, f.end) /\ (~client.created \/ cfg.blockStats # "ok")
  <2>1. pc' = "panic" /\ UNCHANGED interval
    BY <1>2, <1>5 DEF Panics
  <2> QED BY <1>1, <1>3, <2>1, StopKeeps DEF Outside, Same
<1>6. CASE ~FlagsRefused(f.start, f.end) /\ ~(~client.created \/ cfg.blockStats # "ok")
  <2>1. pc' = "stats" /\ interval' = f
    BY <1>2, <1>6
  <2>2. CallerInv'
    BY <1>1, <1>3, <1>6, <2>1 DEF CLIInv, CallerInv, Same, Commands, FlagsRefused
  <2> QED BY <1>1, <1>3, <2>1, <2>2, EndKeeps DEF Commands
<1> QED BY <1>4, <1>5, <1>6

LEMMA GasCommandKeeps ==
  ASSUME CLIInv, GasCommand
  PROVE  CLIInv'
<1>1. Same /\ UNCHANGED <<blocks, interval>> /\ Commanded({"gas", "g"})
      /\ pc' = IF client.created THEN "gas" ELSE "panic"
  BY DEF GasCommand, Same, builderVars, statsVars, cliVars
<1>2. pc \in {"ready", "command"} /\ caller = "cli" /\ word \in {"gas", "g"}
      /\ (~client.created => word = "g")
  BY <1>1, CommandedCreated
<1>3. CallerInv'
  BY <1>1, <1>2 DEF CLIInv, CallerInv, Same, Commands
<1> QED BY <1>1, <1>2, <1>3, EndKeeps DEF Commands

LEMMA TraceCommandKeeps ==
  ASSUME CLIInv, TraceCommand
  PROVE  CLIInv'
<1> DEFINE keys == OwnKeys
           urls == IF env.network THEN file.urls ELSE "set"
           read == FromFile(keys, urls)
<1>1. /\ pc = "command" /\ pc' = "validate"
      /\ cfg' = [read EXCEPT !.ephemeral = 0, !.level = "all"]
      /\ UNCHANGED <<caller, file, given, client, made, funded, builds, word, blocks, interval>>
  BY DEF TraceCommand, builderVars, statsVars
<1>2. /\ keys \in Seq(Keys) /\ Len(keys) =< 1
      /\ \A i \in DOMAIN keys : keys[i][1] # "ephemeral"
  BY OwnKeysTyped DEF CLIInv
<1>3. urls \in {"set", "none"}
  BY DEF CLIInv, TypeInv, FileRecords
<1> HIDE DEF keys, urls
<1>4. read \in Configs /\ read.keys = keys /\ read.strategy = "nil"
  BY <1>2, <1>3, FromFileTyped DEF CLIInv
<1> HIDE DEF read
<1>5. cfg' \in Configs /\ cfg'.keys = keys /\ cfg'.strategy = "nil"
  BY <1>1, <1>4 DEF Configs
<1>7. caller = "cli" /\ funded = {}
  BY <1>1 DEF CLIInv, CallerInv, FundInv, Reading
<1>8. TypeInv'
  BY <1>1, <1>5 DEF CLIInv, TypeInv
<1>9. KeysInv'
  BY <1>2, <1>5 DEF KeysInv
<1>10. CallerInv' /\ ClientInv' /\ FundInv'
  BY <1>1, <1>7 DEF CLIInv, CallerInv, ClientInv, FundInv, FundedMeansClient,
       Connected, Commands
<1>11. StrategyInv'
  BY <1>1, <1>5, <1>7 DEF StrategyInv, StrategyReady, Making
<1> QED BY <1>8, <1>9, <1>10, <1>11 DEF CLIInv

LEMMA TraceTxKeeps ==
  ASSUME CLIInv, TraceTx
  PROVE  CLIInv'
<1>1. Same /\ Outside /\ Commanded({"trace"}) /\ client.created
  BY DEF TraceTx, Same, Outside, builderVars, statsVars
<1>2. pc = "ready" /\ caller = "cli"
  BY <1>1, CommandedCreated
<1>3. CASE pc' = "ready"
  BY <1>1, <1>2, <1>3, MoveKeeps DEF Outside
<1>4. CASE pc' \in {"failed", "panic", "stuck"}
  BY <1>1, <1>2, <1>4, StopKeeps
<1> QED BY <1>3, <1>4 DEF TraceTx, Panics

LEMMA TraceDoneKeeps ==
  ASSUME CLIInv, TraceDone
  PROVE  CLIInv'
<1>1. Same /\ UNCHANGED <<blocks, interval>> /\ Commanded({"trace"}) /\ client.created /\ pc' = "done"
  BY DEF TraceDone, Same, builderVars, statsVars, cliVars
<1>2. pc = "ready" /\ caller = "cli"
  BY <1>1, CommandedCreated
<1>3. CallerInv'
  BY <1>1, <1>2 DEF CLIInv, CallerInv, Same, Commands
<1> QED BY <1>1, <1>2, <1>3, EndKeeps DEF Commands

LEMMA CommandKeeps ==
  ASSUME CLIInv, CommandStep
  PROVE  CLIInv'
<1>1. CASE NoNetwork \/ TraceCommandFails \/ TraceCommandPanics
  <2>1. pc \in {"before", "command"} /\ pc' \in {"failed", "panic"} /\ Same /\ Outside
    BY <1>1 DEF NoNetwork, TraceCommandFails, TraceCommandPanics, Fails, Panics, Same, Outside, builderVars, statsVars, cliVars
  <2>2. caller = "cli" /\ pc # "build"
    BY <2>1 DEF CLIInv, CallerInv
  <2> QED BY <2>1, <2>2, StopKeeps
<1> QED BY <1>1, BeforeKeeps, StatsCommandKeeps, GasCommandKeeps, TraceCommandKeeps, TraceTxKeeps,
          TraceDoneKeeps DEF CommandStep

-----------------------------------------------------------------------------
(***************************************************************************)
(* The statistics of blocks and of gas, as far as creation is concerned.   *)
(***************************************************************************)
LEMMA SpawnKeeps ==
  ASSUME CLIInv, Spawn, UNCHANGED <<builderVars, gasVars, cliVars>>
  PROVE  CLIInv'
<1>1. Same /\ UNCHANGED blocks /\ pc = "stats"
  BY DEF Spawn, Same, builderVars, cliVars
<1>2. caller = "cli" /\ word \in {"stats", "s"} /\ interval \in StatsFlags
      /\ ~FlagsRefused(interval.start, interval.end)
  BY <1>1 DEF CLIInv, CallerInv, Commands
<1>3. interval.start \in Int /\ interval.end \in Int
  BY <1>2, CLIAssumption
<1>4. ~(interval.end = 0 /\ interval.start >= 0)
  BY <1>2, <1>3 DEF FlagsRefused
<1>5. pc' \in {"failed", "blocks"}
  BY <1>4 DEF Spawn, Fails
<1>6. CallerInv'
  BY <1>1, <1>2, <1>5 DEF CLIInv, CallerInv, Same, Commands
<1> QED BY <1>1, <1>2, <1>5, <1>6, EndKeeps DEF Commands

LEMMA BlockNumbers ==
  ASSUME NEW bn
  PROVE  BlockByNumber(bn) \in SUBSET (0 .. Latest + 1)
<1>1. Latest \in Nat
  BY BlockStatsAssumption
<1>2. CASE bn \in 0 .. Latest
  BY <1>1, <1>2 DEF BlockByNumber
<1>3. CASE bn = -1
  BY <1>1, <1>3 DEF BlockByNumber
<1>4. CASE bn = -2
  BY <1>1, <1>4 DEF BlockByNumber
<1>5. CASE bn \in {-3, -4}
  BY <1>1, <1>5 DEF BlockByNumber
<1>6. CASE bn \notin 0 .. Latest /\ bn \notin {-1, -2, -3, -4}
  BY <1>1, <1>6 DEF BlockByNumber
<1> QED BY <1>2, <1>3, <1>4, <1>5, <1>6

LEMMA FetchKeeps ==
  ASSUME CLIInv, NEW bn, Fetched(bn) \/ Skip(bn) \/ FetchFails(bn),
         UNCHANGED <<builderVars, gasVars, cliVars>>
  PROVE  CLIInv'
<1>1. Same /\ pc = "blocks" /\ pc' = "blocks" /\ UNCHANGED interval
  BY DEF Fetched, Skip, FetchFails, Same, startupVars, builderVars, cliVars
<1>2. caller = "cli" /\ word \in {"stats", "s"} /\ blocks \in Seq(0 .. Latest + 1)
  BY <1>1 DEF CLIInv, CallerInv, Commands
<1>3. blocks' \in Seq(0 .. Latest + 1)
  <2>1. CASE Fetched(bn)
    <3>1. PICK b \in BlockByNumber(bn) : blocks' = Append(blocks, b)
      BY <2>1 DEF Fetched
    <3>2. b \in 0 .. Latest + 1
      BY BlockNumbers
    <3> QED BY <1>2, <3>1, <3>2
  <2>2. CASE Skip(bn) \/ FetchFails(bn)
    BY <1>2, <2>2 DEF Skip, FetchFails
  <2> QED BY <2>1, <2>2
<1>4. CallerInv'
  BY <1>1, <1>2, <1>3 DEF CallerInv, Same, Commands
<1> QED BY <1>1, <1>2, <1>4, EndKeeps DEF Commands

LEMMA AnalyseKeeps ==
  ASSUME CLIInv, Analyse, UNCHANGED <<builderVars, gasVars, cliVars>>
  PROVE  CLIInv'
<1>1. Same /\ pc = "blocks" /\ UNCHANGED interval
  BY DEF Analyse, Same, builderVars, cliVars
<1>2. caller = "cli" /\ word \in {"stats", "s"} /\ blocks \in Seq(0 .. Latest + 1)
  BY <1>1 DEF CLIInv, CallerInv, Commands
<1>3. CASE failed
  <2>1. Fails /\ UNCHANGED blocks
    BY <1>3 DEF Analyse
  <2> QED BY <1>1, <1>2, <2>1, FailKeeps DEF Outside, Same
<1>4. CASE ~failed
  <2> DEFINE bs == Sorted(blocks)
  <2>1. blocks' = bs /\ CalculateBlockDurations(bs)
    BY <1>4 DEF Analyse
  <2>2. bs \in Seq(0 .. Latest + 1)
    <3>1. 0 .. Latest + 1 \in SUBSET Int
      OBVIOUS
    <3> QED BY <1>2, <3>1, AscendingTyped DEF Sorted
  <2> HIDE DEF bs
  <2>3. pc' \in {"failed", "panic", "done"}
    BY <2>1 DEF CalculateBlockDurations, Fails, Panics
  <2>4. CallerInv'
    BY <1>1, <1>2, <2>1, <2>2, <2>3 DEF CallerInv, Same, Commands
  <2> QED BY <1>1, <1>2, <2>3, <2>4, EndKeeps DEF Commands
<1> QED BY <1>3, <1>4

LEMMA StatsKeeps ==
  ASSUME CLIInv, StatsStep, UNCHANGED <<builderVars, gasVars, cliVars>>
  PROVE  CLIInv'
<1>1. CASE LatestFails
  <2>1. pc = "stats" /\ Fails /\ Same /\ Outside
    BY <1>1 DEF LatestFails, Same, Outside, builderVars, statsVars, cliVars
  <2>2. caller = "cli"
    BY <2>1 DEF CLIInv, CallerInv, Commands
  <2> QED BY <2>1, <2>2, FailKeeps
<1>2. CASE \E bn \in waiting : Fetched(bn) \/ Skip(bn) \/ FetchFails(bn)
  <2>1. PICK bn \in waiting : Fetched(bn) \/ Skip(bn) \/ FetchFails(bn)
    BY <1>2
  <2> QED BY <2>1, FetchKeeps
<1> QED BY <1>1, <1>2, SpawnKeeps, AnalyseKeeps DEF StatsStep

LEMMA GasKeeps ==
  ASSUME CLIInv, GasStep, UNCHANGED <<builderVars, statsVars, cliVars>>
  PROVE  CLIInv'
<1>1. /\ pc \in {"gas", "suggest", "quantiles"} /\ Same /\ UNCHANGED <<blocks, interval>>
      /\ pc' \in {"failed", "quantiles", "suggest", "done"}
  BY DEF GasStep, GasCallFails, FeeHistory, QuantilesFail, Quantiles, Suggest, Fails, Same,
       builderVars, statsVars, cliVars
<1>2. caller = "cli"
  BY <1>1 DEF CLIInv, CallerInv, Commands
<1>3. CallerInv'
  BY <1>1, <1>2 DEF CLIInv, CallerInv, Same, Commands
<1> QED BY <1>1, <1>2, <1>3, EndKeeps DEF Commands

LEMMA CLIInvStep ==
  ASSUME CLIInv, [Next]_vars
  PROVE  CLIInv'
<1>1. CASE UNCHANGED vars
  BY <1>1 DEF vars, startupVars, builderVars, statsVars, gasVars, cliVars, CLIInv, TypeInv, KeysInv,
       CallerInv, ClientInv, KeysMade, Ephemeral, FundInv, FundedMeansClient, SubKeys, StrategyInv,
       StrategyReady, ChecksFees
<1> QED BY <1>1, StartupKeeps, BuilderKeeps, StatsKeeps, GasKeeps, CommandKeeps DEF Next

LEMMA CLIInvHolds == Spec => []CLIInv
  BY InvInit, CLIInvStep, PTL DEF Spec

\* A client that is ready has the keys it was made with: the root key and, in
\* ephemeral mode, those with the numbers given out last.
LEMMA ReadyKeys ==
  ASSUME CLIInv
  PROVE  ClientKeysRight
<1> SUFFICES ASSUME pc = "ready", caller # "raw" PROVE ClientKeysRight
  BY DEF ClientKeysRight
<1> DEFINE n == cfg.ephemeral
<1>1. client.keys = cfg.keys /\ cfg \in Configs /\ made \in Nat
  BY DEF CLIInv, TypeInv, ClientInv, Connected
<1>2. \A i \in DOMAIN client.keys :
        client.keys[i][1] = "ephemeral" => i # 1 /\ (Ephemeral \/ builds > 1)
  BY <1>1 DEF CLIInv, KeysInv
<1>3. funded = IF Ephemeral THEN SubKeys ELSE {}
  BY DEF CLIInv, FundInv
<1>4. n \in Nat
  BY <1>1 DEF Configs
<1>5. CASE ~Ephemeral
  BY <1>1, <1>2, <1>3, <1>5 DEF ClientKeysRight, GetMaxConcurrency
<1>6. CASE Ephemeral
  <2>1. KeysMade
    BY <1>6 DEF CLIInv, ClientInv, Connected
  <2>2. Len(client.keys) = n + 1
    BY <1>1, <2>1 DEF KeysMade
  <2>3. \A i \in 1 .. n : client.keys[i + 1] = <<"ephemeral", (made - n) + i>>
    BY <1>1, <2>1 DEF KeysMade
  <2> HIDE DEF n
  <2>4. ASSUME NEW x \in SubKeys PROVE x \in {<<"ephemeral", made - i>> : i \in 0 .. n - 1}
    <3>1. PICK j \in 2 .. n + 1 : x = client.keys[j]
      BY <2>2 DEF SubKeys
    <3>2. j - 1 \in 1 .. n /\ (j - 1) + 1 = j
      BY <1>4
    <3>3. x = <<"ephemeral", (made - n) + (j - 1)>>
      BY <2>3, <3>1, <3>2
    <3>4. n - (j - 1) \in 0 .. n - 1 /\ made - (n - (j - 1)) = (made - n) + (j - 1)
      BY <1>1, <1>4
    <3> QED BY <3>3, <3>4
  <2>5. ASSUME NEW i \in 0 .. n - 1 PROVE <<"ephemeral", made - i>> \in SubKeys
    <3>1. n - i \in 1 .. n /\ (made - n) + (n - i) = made - i /\ (n - i) + 1 \in 2 .. n + 1
      BY <1>1, <1>4
    <3>2. client.keys[(n - i) + 1] = <<"ephemeral", made - i>>
      BY <2>3, <3>1
    <3> QED BY <2>2, <3>1, <3>2 DEF SubKeys
  <2>6. SubKeys = {<<"ephemeral", made - i>> : i \in 0 .. n - 1}
    BY <2>4, <2>5
  <2>7. Len(client.keys) - 1 = GetMaxConcurrency
    BY <1>4, <1>6, <2>2 DEF GetMaxConcurrency, n
  <2> QED BY <1>1, <1>2, <1>3, <1>6, <2>6, <2>7 DEF ClientKeysRight, n
<1> QED BY <1>5, <1>6

(***************************************************************************)
(* NewClientWithConfig and the builder: a client that is returned has the  *)
(* keys of its configuration, as many as GetMaxConcurrency says, the first *)
(* of them never an ephemeral one; in ephemeral mode the others are those  *)
(* made for it, whatever clients the same builder has made before, and all *)
(* of them funded.                                                         *)
(***************************************************************************)
THEOREM ClientKeysAreRight == Spec => []ClientKeysRight
<1>1. CLIInv => ClientKeysRight
  BY ReadyKeys
<1> QED BY <1>1, CLIInvHolds, PTL

(***************************************************************************)
(* NewClientRaw after NewClientWithConfig: nothing fails or panics any     *)
(* more once every ephemeral key has been funded, because the tracer was   *)
(* made before and handed over, and because the funding would have         *)
(* panicked on the missing timeout that the check of the fees needs.  That *)
(* check may still wait for ever.                                          *)
(***************************************************************************)
THEOREM FundedMeansAClient == Spec => []FundedMeansClient
<1>1. CLIInv => FundedMeansClient
  BY DEF CLIInv, FundInv
<1> QED BY <1>1, CLIInvHolds, PTL

(***************************************************************************)
(* NewClientRaw: a client with gas bumping has a strategy, and one whose   *)
(* configuration was validated for estimation the one of its priority.     *)
(***************************************************************************)
THEOREM StrategyIsReady == Spec => []StrategyReady
<1>1. CLIInv => StrategyReady
  BY DEF CLIInv, StrategyInv
<1> QED BY <1>1, CLIInvHolds, PTL

-----------------------------------------------------------------------------
(***************************************************************************)
(* The quantiles of gas prices and tips.                                   *)
(***************************************************************************)
At(s, p) == (p * Len(s)) \div 100

Between(s, p) ==
    /\ At(s, p) \in Nat /\ At(s, p) >= 1 /\ At(s, p) + 1 =< Len(s)
    /\ Percentile(s, p) \in Int /\ Ascending(s)[At(s, p)] =< Percentile(s, p)
    /\ Percentile(s, p) =< Ascending(s)[At(s, p) + 1]
    /\ (p * Len(s)) % 100 = 0 => Percentile(s, p) = Ascending(s)[At(s, p)]

\* The percentile lies between two neighbours of the sorted values, or is one.
LEMMA PercentileBetween ==
  ASSUME NEW s \in Seq(Nat), Len(s) >= 4, NEW p \in {25, 50, 75, 99}
  PROVE  Between(s, p)
<1> DEFINE n == Len(s)
           c == Ascending(s)
           i == (p * n) \div 100
<1>1. n \in Nat /\ n >= 4 /\ DOMAIN s = 1 .. n /\ s \in Seq(Int)
  BY DEF n
<1>2. i \in Nat /\ i >= 1 /\ i + 1 =< n
  <2> HIDE DEF n
  <2>1. CASE p = 25
    BY <1>1, <2>1
  <2>2. CASE p = 50
    BY <1>1, <2>2
  <2>3. CASE p = 75
    BY <1>1, <2>3
  <2>4. CASE p = 99
    BY <1>1, <2>4
  <2> QED BY <2>1, <2>2, <2>3, <2>4
<1>3. Percentile(s, p) = CASE n = 1 -> s[1]
                           [] n > 1 /\ (p * n) % 100 = 0 -> c[i]
                           [] OTHER -> (c[i] + c[i + 1]) \div 2
  BY DEF Percentile
<1> HIDE DEF i, n
<1>4. i \in DOMAIN s /\ i + 1 \in DOMAIN s /\ i =< i + 1
  BY <1>1, <1>2
<1>5. c[i] =< c[i + 1]
  BY <1>1, <1>4, AscendingInOrder
<1>6. c[i] \in Int /\ c[i + 1] \in Int
  <2>1. c \in Seq(Int) /\ DOMAIN c = DOMAIN s
    BY <1>1, AscendingElements
  <2> HIDE DEF c
  <2> QED BY <1>4, <2>1
<1> HIDE DEF c
<1>7. CASE (p * n) % 100 = 0
  <2>1. Percentile(s, p) = c[i]
    BY <1>1, <1>3, <1>7
  <2> QED BY <1>2, <1>5, <1>6, <2>1 DEF i, n, c, At, Between
<1>8. CASE (p * n) % 100 # 0
  <2>1. Percentile(s, p) = (c[i] + c[i + 1]) \div 2
    BY <1>1, <1>3, <1>8
  <2>2. \A x, y \in Int : x =< y => /\ (x + y) \div 2 \in Int
                                    /\ x =< (x + y) \div 2 /\ (x + y) \div 2 =< y
    OBVIOUS
  <2> QED BY <1>2, <1>5, <1>6, <1>8, <2>1, <2>2, SMTT(60) DEF i, n, c, At, Between
<1> QED BY <1>7, <1>8

LEMMA PercentileIsQuantile ==
  ASSUME NEW s \in Seq(Nat), Len(s) >= 4, NEW p \in {25, 50, 75, 99}
  PROVE  IsQuantile(s, p, Percentile(s, p))
<1> DEFINE n == Len(s)
           i == At(s, p)
           q == Percentile(s, p)
<1>1. n \in Nat /\ DOMAIN s = 1 .. n /\ s \in Seq(Int)
  BY DEF n
<1>2. /\ i \in Nat /\ i >= 1 /\ i + 1 =< n /\ q \in Int
      /\ Ascending(s)[i] =< q /\ q =< Ascending(s)[i + 1]
  <2>1. Between(s, p)
    BY PercentileBetween
  <2> QED BY <2>1 DEF Between
<1>3. n - i >= ((100 - p) * n) \div 100
  <2>1. i = (p * n) \div 100
    BY DEF At
  <2> HIDE DEF n, i
  <2>2. CASE p = 25 \/ p = 50
    BY <1>1, <2>1, <2>2
  <2>3. CASE p = 75
    BY <1>1, <2>1, <2>3
  <2>4. CASE p = 99
    BY <1>1, <2>1, <2>4
  <2> QED BY <2>1, <2>2, <2>3, <2>4
<1>4. ((100 - p) * n) \div 100 \in Int
  <2> HIDE DEF n
  <2> QED BY <1>1
<1> HIDE DEF i, n, q
<1>5. i \in DOMAIN s /\ i + 1 \in DOMAIN s
  BY <1>1, <1>2
<1>6. Cardinality(NoMore(s, q)) >= i
  BY <1>1, <1>2, <1>5, AtMost
<1>7. Ascending(s)[i + 1] >= q
  <2>1. Ascending(s) \in Seq(Int) /\ DOMAIN Ascending(s) = DOMAIN s
    BY <1>1, AscendingElements
  <2>2. Ascending(s)[i + 1] \in Int
    BY <1>5, <2>1
  <2> QED BY <1>2, <2>2
<1>8. Cardinality(NoLess(s, q)) >= Len(s) - (i + 1) + 1
  <2> DEFINE k == i + 1
  <2>1. k \in DOMAIN s /\ Ascending(s)[k] >= q /\ q \in Int
    BY <1>2, <1>5, <1>7
  <2> HIDE DEF k
  <2>2. Cardinality(NoLess(s, q)) >= Len(s) - k + 1
    BY <1>1, <2>1, AtLeast
  <2> QED BY <2>2 DEF k
<1>9. Cardinality(NoLess(s, q)) \in Int
  <2>1. IsFiniteSet(DOMAIN s)
    BY <1>1, FS_Interval
  <2>2. IsFiniteSet(NoLess(s, q))
    BY <2>1, FS_Subset, NoLess(s, q) \in SUBSET DOMAIN s DEF NoLess
  <2> QED BY <2>2, FS_CardinalityType
<1>10. Cardinality(NoLess(s, q)) >= ((100 - p) * n) \div 100
  <2> DEFINE a == Cardinality(NoLess(s, q))
             b == ((100 - p) * n) \div 100
  <2>1. a >= n - (i + 1) + 1 /\ a \in Int /\ b \in Int /\ n - i >= b
    BY <1>3, <1>4, <1>8, <1>9 DEF n
  <2> HIDE DEF a, b
  <2> QED BY <1>1, <1>2, <2>1 DEF a, b
<1> QED BY <1>6, <1>10 DEF IsQuantile, NoMore, NoLess, At, i, n, q

\* The largest value is the last of the sorted ones.
LEMMA MaxOfValues ==
  ASSUME NEW s \in Seq(Nat), NEW k \in DOMAIN s
  PROVE  Max(ToSet(s)) \in Int /\ Ascending(s)[k] =< Max(ToSet(s))
<1> DEFINE n == Len(s)
           c == Ascending(s)
           S == ToSet(s)
<1>1. n \in Nat /\ DOMAIN s = 1 .. n /\ s \in Seq(Int) /\ k =< n /\ n \in DOMAIN s
  OBVIOUS
<1>2. c \in Seq(Int) /\ DOMAIN c = DOMAIN s /\ ToSet(c) = S
  BY <1>1, AscendingElements, AscendingSameSet
<1>3. ASSUME NEW j \in DOMAIN s PROVE c[j] =< c[n]
  BY <1>1, AscendingInOrder
<1> HIDE DEF n, c, S
<1>4. \A j \in DOMAIN s : c[j] \in Int /\ c[j] \in S
  BY <1>2 DEF ToSet
<1>5. \A x \in S : \E j \in DOMAIN s : x = c[j]
  BY <1>2 DEF ToSet
<1>6. \A x \in S : c[n] >= x
  BY <1>1, <1>3, <1>4, <1>5
<1>7. \E m \in S : \A x \in S : m >= x
  BY <1>1, <1>4, <1>6
<1>8. Max(S) \in S /\ \A x \in S : Max(S) >= x
  BY <1>7, Zenon DEF Max
<1>9. c[k] \in S /\ c[k] \in Int /\ Max(S) \in Int /\ Max(S) >= c[k]
  BY <1>4, <1>5, <1>8
<1> QED BY <1>9 DEF c, S

LEMMA QuantilesInOrder ==
  ASSUME NEW s \in Seq(Nat), Len(s) >= 4
  PROVE  /\ Percentile(s, 25) =< Percentile(s, 50) /\ Percentile(s, 50) =< Percentile(s, 75)
         /\ Percentile(s, 75) =< Percentile(s, 99) /\ Percentile(s, 99) =< Max(ToSet(s))
<1> DEFINE n == Len(s)
           c == Ascending(s)
           at(p) == At(s, p)
           q(p) == Percentile(s, p)
<1>1. n \in Nat /\ n >= 4 /\ DOMAIN s = 1 .. n /\ s \in Seq(Int)
  BY DEF n
<1>2. ASSUME NEW p \in {25, 50, 75, 99}
      PROVE  /\ at(p) \in Nat /\ at(p) >= 1 /\ at(p) + 1 =< n /\ q(p) \in Int
             /\ c[at(p)] =< q(p) /\ q(p) =< c[at(p) + 1]
             /\ (p * n) % 100 = 0 => q(p) = c[at(p)]
  <2>1. Between(s, p)
    BY PercentileBetween
  <2> QED BY <2>1 DEF Between
<1>3. ASSUME NEW k \in 1 .. n PROVE c[k] \in Int
  <2>1. c \in Seq(Int) /\ DOMAIN c = DOMAIN s
    BY <1>1, AscendingElements
  <2> HIDE DEF c
  <2> QED BY <1>1, <2>1
<1>4. ASSUME NEW k \in 1 .. n, NEW l \in 1 .. n, k =< l PROVE c[k] =< c[l]
  BY <1>1, <1>4, AscendingInOrder
<1>5. /\ at(25) = (25 * n) \div 100 /\ at(50) = (50 * n) \div 100
      /\ at(75) = (75 * n) \div 100 /\ at(99) = (99 * n) \div 100
  BY DEF At
<1> HIDE DEF n, c, q, at
<1>6. /\ at(25) + 1 =< at(50) /\ at(50) + 1 =< at(75) /\ (n # 4 => at(75) + 1 =< at(99))
      /\ n = 4 => (75 * n) % 100 = 0 /\ at(75) = at(99)
  <2>1. at(25) + 1 =< at(50)
    BY <1>1, <1>5
  <2>2. at(50) + 1 =< at(75)
    BY <1>1, <1>5
  <2>3. n # 4 => at(75) + 1 =< at(99)
    BY <1>1, <1>5
  <2>4. n = 4 => (75 * n) % 100 = 0 /\ at(75) = at(99)
    BY <1>1, <1>5
  <2> QED BY <2>1, <2>2, <2>3, <2>4
<1>7. ASSUME NEW x \in {25, 50, 75, 99}, NEW y \in {25, 50, 75, 99}, at(x) + 1 =< at(y)
      PROVE  q(x) =< q(y)
  <2>1. /\ at(x) \in Nat /\ at(x) >= 1 /\ at(x) + 1 =< n /\ q(x) \in Int /\ q(x) =< c[at(x) + 1]
        /\ at(y) \in Nat /\ at(y) >= 1 /\ at(y) + 1 =< n /\ q(y) \in Int /\ c[at(y)] =< q(y)
    <3>1. at(x) \in Nat /\ at(x) >= 1 /\ at(x) + 1 =< n /\ q(x) \in Int /\ q(x) =< c[at(x) + 1]
      BY <1>2, SMTT(60)
    <3>2. at(y) \in Nat /\ at(y) >= 1 /\ at(y) + 1 =< n /\ q(y) \in Int /\ c[at(y)] =< q(y)
      BY <1>2, SMTT(60)
    <3> QED BY <3>1, <3>2
  <2>2. at(x) + 1 \in 1 .. n /\ at(y) \in 1 .. n
    BY <1>1, <2>1
  <2>3. c[at(x) + 1] =< c[at(y)] /\ c[at(x) + 1] \in Int /\ c[at(y)] \in Int
    BY <1>3, <1>4, <1>7, <2>2
  <2> QED BY <2>1, <2>3
<1>8. q(25) =< q(50) /\ q(50) =< q(75)
  BY <1>6, <1>7
<1>9. q(75) =< q(99)
  <2>1. CASE n # 4
    BY <1>6, <1>7, <2>1
  <2>2. CASE n = 4
    BY <1>2, <1>6, <2>2, SMTT(60)
  <2> QED BY <2>1, <2>2
<1>10. q(99) =< Max(ToSet(s))
  <2>1. /\ at(99) \in Nat /\ at(99) + 1 =< n /\ q(99) \in Int /\ q(99) =< c[at(99) + 1]
    BY <1>2
  <2> DEFINE k == at(99) + 1
  <2>2. k \in 1 .. n
    BY <1>1, <2>1
  <2> HIDE DEF k
  <2>3. c[k] =< Max(ToSet(s)) /\ c[k] \in Int /\ Max(ToSet(s)) \in Int
    BY <1>1, <1>3, <2>2, MaxOfValues DEF c
  <2> QED BY <2>1, <2>3 DEF k
<1> QED BY <1>8, <1>9, <1>10 DEF q

LEMMA QuantilesAreRight ==
  ASSUME NEW s \in Seq(Nat), HasQuantiles(s)
  PROVE  AreQuantiles(s, quantilesFromFloatArray(s)) /\ (Len(s) = 1 \/ Len(s) >= 4)
<1> DEFINE r == quantilesFromFloatArray(s)
<1>1. /\ r.p25 = Percentile(s, 25) /\ r.p50 = Percentile(s, 50) /\ r.p75 = Percentile(s, 75)
      /\ r.p99 = Percentile(s, 99) /\ r.max = Max(ToSet(s))
  BY DEF quantilesFromFloatArray
<1>2. Len(s) \in Nat /\ DOMAIN s = 1 .. Len(s)
  OBVIOUS
<1>3. Len(s) = 1 \/ Len(s) >= 4
  <2>1. Len(s) = 1 \/ 25 * Len(s) >= 100
    BY DEF HasQuantiles, HasPercentile
  <2> QED BY <1>2, <2>1
<1> HIDE DEF r
<1>4. CASE Len(s) >= 4
  <2>1. IsQuantile(s, 25, r.p25) /\ IsQuantile(s, 50, r.p50)
    BY <1>1, <1>4, PercentileIsQuantile
  <2>2. IsQuantile(s, 75, r.p75) /\ IsQuantile(s, 99, r.p99)
    BY <1>1, <1>4, PercentileIsQuantile
  <2>3. r.p25 =< r.p50 /\ r.p50 =< r.p75 /\ r.p75 =< r.p99 /\ r.p99 =< r.max
    BY <1>1, <1>4, QuantilesInOrder
  <2> QED BY <1>3, <2>1, <2>2, <2>3 DEF AreQuantiles, r
<1>5. CASE Len(s) = 1
  <2> DEFINE x == s[1]
  <2>1. DOMAIN s = {1} /\ x \in Nat
    BY <1>2, <1>5
  <2>2. \A p \in {25, 50, 75, 99} : Percentile(s, p) = x
    BY <1>5 DEF Percentile
  <2>3. r.max = x
    <3>1. ToSet(s) = {x}
      BY <2>1 DEF ToSet
    <3>2. (CHOOSE m \in {x} : \A y \in {x} : m >= y) = x
      <4>1. x >= x
        BY <2>1
      <4> HIDE DEF x
      <4> QED BY <4>1
    <3> QED BY <1>1, <3>1, <3>2 DEF Max
  <2> HIDE DEF x
  <2>4. ASSUME NEW p \in {25, 50, 75, 99} PROVE IsQuantile(s, p, x)
    <3> DEFINE A == {i \in DOMAIN s : s[i] =< x}
               B == {i \in DOMAIN s : s[i] >= x}
    <3>1. IsFiniteSet(DOMAIN s)
      BY <1>2, FS_Interval
    <3>2. IsFiniteSet(A) /\ IsFiniteSet(B)
      BY <3>1, FS_Subset, A \in SUBSET DOMAIN s, B \in SUBSET DOMAIN s
    <3> HIDE DEF A, B
    <3>3. Cardinality(A) \in Nat /\ Cardinality(B) \in Nat
      BY <3>2, FS_CardinalityType
    <3>4. (p * Len(s)) \div 100 = 0 /\ ((100 - p) * Len(s)) \div 100 = 0
      <4>1. (p * 1) \div 100 = 0 /\ ((100 - p) * 1) \div 100 = 0
        OBVIOUS
      <4> QED BY <1>5, <4>1
    <3> QED BY <3>3, <3>4 DEF IsQuantile, A, B
  <2>5. IsQuantile(s, 25, r.p25) /\ IsQuantile(s, 50, r.p50)
    BY <1>1, <2>2, <2>4
  <2>6. IsQuantile(s, 75, r.p75) /\ IsQuantile(s, 99, r.p99)
    BY <1>1, <2>2, <2>4
  <2>7. r.p25 =< r.p50 /\ r.p50 =< r.p75 /\ r.p75 =< r.p99 /\ r.p99 =< r.max
    BY <1>1, <2>1, <2>2, <2>3
  <2> QED BY <1>3, <2>5, <2>6, <2>7 DEF AreQuantiles, r
<1> QED BY <1>3, <1>4, <1>5

\* InOrder is made of the members of its set: the ranks of the members are
\* different, so every number up to the size of the set is the rank of one.
LEMMA RankReached ==
  ASSUME NEW S \in SUBSET Nat, IsFiniteSet(S), NEW j \in 1 .. Cardinality(S)
  PROVE  \E i \in S : Cardinality({k \in S : k =< i}) = j
<1> DEFINE n == Cardinality(S)
           Upto(i) == {k \in S : k =< i}
           rank == [i \in S |-> Cardinality(Upto(i))]
<1>1. n \in Nat /\ IsFiniteSet(1 .. n) /\ Cardinality(1 .. n) = n
  BY FS_CardinalityType, FS_Interval
<1>2. ASSUME NEW i \in S
      PROVE  IsFiniteSet(Upto(i)) /\ Cardinality(Upto(i)) \in 1 .. n
  <2>1. IsFiniteSet(Upto(i)) /\ Cardinality(Upto(i)) =< n
    BY FS_Subset, Upto(i) \in SUBSET S
  <2>2. i \in Upto(i)
    OBVIOUS
  <2>3. Cardinality(Upto(i)) \in Nat /\ Cardinality(Upto(i)) # 0
    BY <2>1, <2>2, FS_CardinalityType, FS_EmptySet
  <2> QED BY <1>1, <2>1, <2>3
<1>3. ASSUME NEW i \in S, NEW k \in S, i < k
      PROVE  Cardinality(Upto(i)) # Cardinality(Upto(k))
  <2>1. i \in Nat /\ k \in Nat /\ \A l \in S : l \in Nat
    OBVIOUS
  <2>2. Upto(i) \in SUBSET Upto(k)
    <3>1. ASSUME NEW l \in S, l =< i PROVE l =< k
      BY <1>3, <2>1, <3>1
    <3> QED BY <3>1
  <2>3. k \in Upto(k) /\ k \notin Upto(i)
    BY <1>3, <2>1
  <2> QED BY <2>2, <2>3, <1>2, FS_Subset
<1> HIDE DEF Upto, n
<1>4. rank \in Injection(S, 1 .. n)
  <2>1. rank \in [S -> 1 .. n]
    BY <1>2
  <2>2. ASSUME NEW i \in S, NEW k \in S, rank[i] = rank[k] PROVE i = k
    <3>1. i \in Nat /\ k \in Nat /\ ~(i < k) /\ ~(k < i)
      BY <2>2, <1>3
    <3> QED BY <3>1
  <2> QED BY <2>1, <2>2 DEF Injection, IsInjective
<1>5. rank \in Surjection(S, 1 .. n)
  BY <1>1, <1>4, FS_Injection DEF n
<1>6. \E i \in S : rank[i] = j
  BY <1>5 DEF Surjection, n
<1> QED BY <1>6 DEF Upto

LEMMA InOrderMembers ==
  ASSUME NEW S \in SUBSET Nat, IsFiniteSet(S), NEW j \in 1 .. Cardinality(S)
  PROVE  InOrder(S)[j] \in S
<1>1. \E i \in S : Cardinality({k \in S : k =< i}) = j
  BY RankReached
<1>2. InOrder(S)[j] = CHOOSE i \in S : Cardinality({k \in S : k =< i}) = j
  BY DEF InOrder
<1> QED BY <1>1, <1>2, Zenon

LEMMA DoubledNat ==
  ASSUME NEW fee \in Nat \cup {Nil}
  PROVE  Doubled(fee) \in Nat
  BY DEF Doubled

LEMMA FeesTyped ==
  ASSUME hist \in Histories
  PROVE  BaseFees \in Seq(Nat) /\ Tips \in Seq(Nat)
<1>1. hist.baseFee \in Seq(Nat \cup {Nil}) /\ hist.reward \in Seq(Seq(Nat \cup {Nil}))
  BY GasStatsAssumption
<1>2. BaseFees \in Seq(Nat)
  <2> DEFINE b == hist.baseFee
  <2>1. DOMAIN b = 1 .. Len(b) /\ Len(b) \in Nat /\ \A i \in DOMAIN b : b[i] \in Nat \cup {Nil}
    BY <1>1
  <2>2. \A i \in DOMAIN b : Doubled(b[i]) \in Nat
    BY <2>1, DoubledNat
  <2>3. BaseFees = [i \in 1 .. Len(b) |-> Doubled(b[i])]
    BY <2>1 DEF BaseFees
  <2> HIDE DEF b
  <2> QED BY <2>1, <2>2, <2>3
<1>3. Tips \in Seq(Nat)
  <2> DEFINE w == hist.reward
             R == {i \in DOMAIN w : w[i] # <<>>}
             n == Cardinality(R)
             o == InOrder(R)
  <2>1. DOMAIN w = 1 .. Len(w) /\ Len(w) \in Nat /\ \A i \in DOMAIN w : w[i] \in Seq(Nat \cup {Nil})
    BY <1>1
  <2>2. IsFiniteSet(DOMAIN w)
    BY <2>1, FS_Interval
  <2>3. IsFiniteSet(R) /\ R \in SUBSET Nat
    BY <2>1, <2>2, FS_Subset, R \in SUBSET DOMAIN w
  <2>4. \A i \in R : w[i][1] \in Nat \cup {Nil}
    BY <2>1
  <2>5. Tips = [k \in DOMAIN o |-> Doubled(w[o[k]][1])]
    BY DEF Tips
  <2> HIDE DEF w, R
  <2>6. n \in Nat /\ DOMAIN o = 1 .. n
    BY <2>3, FS_CardinalityType DEF InOrder
  <2>7. \A k \in 1 .. n : o[k] \in R
    BY <2>3, InOrderMembers
  <2> HIDE DEF n, o
  <2>8. \A k \in 1 .. n : Doubled(w[o[k]][1]) \in Nat
    BY <2>4, <2>7, DoubledNat
  <2> QED BY <2>5, <2>6, <2>8
<1> QED BY <1>2, <1>3

\* Steps before the quantiles are computed, and of other callers.
LEMMA GasQuiet ==
  ASSUME GasInv, UNCHANGED suggestions, pc' # "quantiles",
         pc \notin {"suggest"} \cup Ended \/ caller # "cli"
  PROVE  GasInv'
<1>1. suggestions' = NoSuggestions
  BY DEF GasInv
<1>2. GasQuantilesRight'
  BY <1>1 DEF GasQuantilesRight
<1> QED BY <1>1, <1>2 DEF GasInv

\* Where the steps of creation, of the builder and of the commands start.
LEMMA OtherSteps ==
  ASSUME \/ StartupStep \/ BuilderStep \/ CommandStep
  PROVE  /\ pc \notin {"blocks", "suggest"} \cup Ended \/ caller # "cli"
         /\ pc' \notin {"blocks", "quantiles"} /\ UNCHANGED caller
<1>1. CASE StartupStep
  <2>1. CASE \/ ReadConfigPanics \/ ReadConfigFails \/ ReadConfig \/ AppendPksToNetwork \/ ValidateConfig
             \/ ContractStoreFails \/ MakeKeys \/ WireFails \/ Wire \/ ChooseOptions
    BY <2>1 DEF Ended, ReadConfigPanics, ReadConfigFails, ReadConfig, AppendPksToNetwork, ValidateConfig,
         ContractStoreFails, MakeKeys, WireFails, Wire, ChooseOptions, Fails, Panics
  <2>2. CASE ~(\/ ReadConfigPanics \/ ReadConfigFails \/ ReadConfig \/ AppendPksToNetwork \/ ValidateConfig
               \/ ContractStoreFails \/ MakeKeys \/ WireFails \/ Wire \/ ChooseOptions)
    <3>1. \/ DialFails \/ Dial \/ UpdateNoncesFails \/ UpdateNonces \/ CheckRPCHealth
          \/ NotEphemeral \/ CalculateFundingFails \/ FundEphemeral \/ TracerFails \/ CheckFeesPanics
          \/ Finish \/ NoAnswer
      BY <1>1, <2>2 DEF StartupStep
    <3> QED BY <3>1 DEF Ended, DialFails, Dial, UpdateNoncesFails, UpdateNonces, CheckRPCHealth,
              NotEphemeral, CalculateFundingFails, FundEphemeral, TracerFails, CheckFeesPanics,
              Finish, NoAnswer, Fails, Panics
  <2> QED BY <2>1, <2>2
<1>2. CASE BuilderStep
  <2>1. CASE Build
    BY <2>1 DEF Build
  <2>2. CASE \E config : Set(config)
    BY <2>2 DEF Set, Settable
  <2> QED BY <1>2, <2>1, <2>2 DEF BuilderStep, WithRpcUrl, WithPrivateKeys, WithNetworkName, WithFees,
            WithTimeouts, WithArtifactsFolder, WithGasPriceEstimations, WithGasBumping,
            WithEphemeralAddresses, WithTracing, WithProtections, WithNonceManager
<1>3. CASE CommandStep
  BY <1>3 DEF Ended, CommandStep, NoNetwork, Before, StatsCommand, GasCommand, TraceCommandFails,
       TraceCommandPanics, TraceCommand, TraceTx, TraceDone, Commanded, Fails, Panics
<1> QED BY <1>1, <1>2, <1>3

LEMMA GasInvStep ==
  ASSUME CLIInv, GasInv, [Next]_vars
  PROVE  GasInv'
<1>1. CASE UNCHANGED vars
  BY <1>1 DEF vars, startupVars, gasVars, GasInv, GasQuantilesRight, BaseFees, Tips
<1>2. CASE StartupStep /\ UNCHANGED <<builderVars, statsVars, gasVars, cliVars>>
  BY <1>2, OtherSteps, GasQuiet DEF gasVars
<1>3. CASE BuilderStep /\ UNCHANGED <<statsVars, gasVars, cliVars>>
  BY <1>3, OtherSteps, GasQuiet DEF gasVars
<1>4. CASE CommandStep
  <2>1. UNCHANGED suggestions
    BY <1>4 DEF gasVars, CommandStep, NoNetwork, Before, StatsCommand, GasCommand,
         TraceCommandFails, TraceCommandPanics, TraceCommand, TraceTx, TraceDone
  <2> QED BY <1>4, <2>1, OtherSteps, GasQuiet
<1>5. CASE StatsStep /\ UNCHANGED <<builderVars, gasVars, cliVars>>
  <2>1. pc \in {"stats", "blocks"} /\ pc' # "quantiles" /\ UNCHANGED suggestions
    BY <1>5 DEF gasVars, StatsStep, LatestFails, Spawn, Fetched, Skip, FetchFails, Analyse,
         CalculateBlockDurations, startupVars, Fails, Panics
  <2> QED BY <2>1, GasQuiet DEF Ended
<1>6. CASE GasStep /\ UNCHANGED <<builderVars, statsVars, cliVars>>
  <2>1. caller = "cli" /\ UNCHANGED caller
    BY <1>6 DEF CLIInv, CallerInv, Commands, GasStep, GasCallFails, FeeHistory, QuantilesFail,
         Quantiles, Suggest
  <2>2. CASE FeeHistory
    <3>1. pc = "gas" /\ pc' = "quantiles" /\ hist' \in Histories /\ UNCHANGED suggestions
      BY <2>2 DEF FeeHistory
    <3>2. suggestions' = NoSuggestions
      BY <3>1 DEF GasInv, Ended
    <3> QED BY <3>1, <3>2 DEF GasInv, GasQuantilesRight
  <2>3. CASE GasCallFails \/ QuantilesFail \/ Suggest
    <3>1. pc' \in {"failed", "done"} /\ UNCHANGED <<hist, suggestions>>
      BY <2>3 DEF GasCallFails, QuantilesFail, Suggest, gasVars, Fails
    <3>2. GasQuantilesRight'
      BY <3>1 DEF GasInv, GasQuantilesRight, BaseFees, Tips
    <3> QED BY <2>1, <3>1, <3>2 DEF GasInv, Ended
  <2>4. CASE Quantiles
    <3>1. /\ pc = "quantiles" /\ HasQuantiles(BaseFees) /\ HasQuantiles(Tips)
          /\ suggestions' = [gasPrice |-> quantilesFromFloatArray(BaseFees),
                             tipCap |-> quantilesFromFloatArray(Tips)]
          /\ pc' = "suggest" /\ UNCHANGED hist
      BY <2>4 DEF Quantiles
    <3>2. BaseFees \in Seq(Nat) /\ Tips \in Seq(Nat)
      BY <3>1, FeesTyped DEF GasInv
    <3>3. AreQuantiles(BaseFees, quantilesFromFloatArray(BaseFees))
      BY <3>1, <3>2, QuantilesAreRight
    <3>4. AreQuantiles(Tips, quantilesFromFloatArray(Tips)) /\ (Len(Tips) = 1 \/ Len(Tips) >= 4)
      BY <3>1, <3>2, QuantilesAreRight
    <3>5. BaseFees' = BaseFees /\ Tips' = Tips
      BY <3>1 DEF BaseFees, Tips
    <3>6. /\ suggestions'.gasPrice = quantilesFromFloatArray(BaseFees)
          /\ suggestions'.tipCap = quantilesFromFloatArray(Tips)
      BY <3>1
    <3>7. GasQuantilesRight'
      BY <3>3, <3>4, <3>5, <3>6 DEF GasQuantilesRight
    <3> QED BY <2>1, <3>1, <3>7 DEF GasInv
  <2> QED BY <1>6, <2>2, <2>3, <2>4 DEF GasStep
<1> QED BY <1>1, <1>2, <1>3, <1>4, <1>5, <1>6 DEF Next

(***************************************************************************)
(* GasEstimator.Stats: for every fee history the quantiles of base fees    *)
(* and tips that are reported have their share of the values on either     *)
(* side and are in order.                                                  *)
(***************************************************************************)
THEOREM GasQuantilesAreRight == Spec => []GasQuantilesRight
<1>1. Init => GasInv
  BY DEF Init, GasInit, GasInv, GasQuantilesRight
<1>2. CLIInv /\ GasInv /\ [Next]_vars => GasInv'
  BY GasInvStep
<1>3. GasInv => GasQuantilesRight
  BY DEF GasInv
<1> QED BY <1>1, <1>2, <1>3, CLIInvHolds, PTL DEF Spec

-----------------------------------------------------------------------------
(***************************************************************************)
(* Sums.  A set of numbers that is closed under going down by one, and     *)
(* without 0, is empty: the form of induction that is used here, for the   *)
(* set of the numbers that are an exception.                               *)
(***************************************************************************)
LEMMA LeastNumber ==
  ASSUME NEW S \in SUBSET Nat, S # {}
  PROVE  \E m \in S : \A n \in S : m =< n
<1> DEFINE R == OpToRel(<, Nat)
<1>1. R = {ss \in Nat \X Nat : ss[1] < ss[2]}
  BY DEF OpToRel
<1>2. IsWellFoundedOn(R, Nat)
  BY NatLessThanWellFounded
<1> HIDE DEF R
<1>3. PICK m \in S : \A y \in S : ~(<<y, m>> \in R)
  BY <1>2, WFMin
<1>4. ASSUME NEW n \in S PROVE m =< n
  <2>1. ~(<<n, m>> \in R) BY <1>3
  <2>2. n \in Nat /\ m \in Nat OBVIOUS
  <2> QED BY <1>1, <2>1, <2>2
<1> QED BY <1>4

LEMMA NoException ==
  ASSUME NEW n \in Nat, NEW B \in SUBSET (0 .. n), 0 \notin B,
         \A m \in 1 .. n : m \in B => m - 1 \in B
  PROVE  B = {}
<1> SUFFICES ASSUME B # {} PROVE FALSE
  OBVIOUS
<1>1. B \in SUBSET Nat
  OBVIOUS
<1>2. PICK m \in B : \A k \in B : m =< k
  BY <1>1, LeastNumber
<1>3. m \in 1 .. n
  OBVIOUS
<1>4. m - 1 \in B
  BY <1>3
<1>5. m =< m - 1
  BY <1>2, <1>4
<1> QED BY <1>3, <1>5

\* f has the sums of the first elements.
Sums(s, f) ==
    /\ f \in [0 .. Len(s) -> Int] /\ f[0] = 0
    /\ \A i \in 1 .. Len(s) : f[i] = f[i - 1] + s[i]

LEMMA PartialSums ==
  ASSUME NEW s \in Seq(Int)
  PROVE  \E f : Sums(s, f)
<1> DEFINE n == Len(s)
           Good(m) == \E f \in [0 .. m -> Int] :
                         f[0] = 0 /\ \A i \in 1 .. m : f[i] = f[i - 1] + s[i]
           B == {m \in 0 .. n : ~Good(m)}
<1>1. n \in Nat /\ \A i \in 1 .. n : s[i] \in Int
  OBVIOUS
<1>2. Good(0)
  <2> DEFINE f == [i \in 0 .. 0 |-> 0]
  <2>1. f \in [0 .. 0 -> Int] /\ f[0] = 0 /\ \A i \in 1 .. 0 : f[i] = f[i - 1] + s[i]
    OBVIOUS
  <2> QED BY <2>1
<1>3. ASSUME NEW m \in 1 .. n, Good(m - 1) PROVE Good(m)
  <2>1. PICK f \in [0 .. m - 1 -> Int] :
           f[0] = 0 /\ \A i \in 1 .. m - 1 : f[i] = f[i - 1] + s[i]
    BY <1>3
  <2> DEFINE g == [i \in 0 .. m |-> IF i = m THEN f[m - 1] + s[m] ELSE f[i]]
  <2> HIDE DEF n
  <2>2. m \in Nat /\ m >= 1 /\ s[m] \in Int /\ f[m - 1] \in Int
    BY <1>1
  <2>3. g \in [0 .. m -> Int]
    BY <2>1, <2>2
  <2>4. g[0] = 0
    BY <2>1, <2>2
  <2>5. ASSUME NEW i \in 1 .. m PROVE g[i] = g[i - 1] + s[i]
    <3>1. CASE i = m
      BY <2>2, <3>1
    <3>2. CASE i # m
      <4>1. i \in 1 .. m - 1 /\ i - 1 \in 0 .. m /\ i - 1 # m /\ i \in 0 .. m
        BY <2>2, <3>2
      <4>2. g[i] = f[i] /\ g[i - 1] = f[i - 1]
        BY <3>2, <4>1
      <4> QED BY <2>1, <4>1, <4>2
    <3> QED BY <3>1, <3>2
  <2> HIDE DEF g
  <2> QED BY <2>3, <2>4, <2>5
<1> HIDE DEF Good
<1>4. B = {}
  <2>1. B \in SUBSET (0 .. n) /\ 0 \notin B
    BY <1>2
  <2>2. ASSUME NEW m \in 1 .. n, m \in B PROVE m - 1 \in B
    <3>1. m - 1 \in 0 .. n /\ ~Good(m)
      BY <1>1, <2>2
    <3> QED BY <1>3, <3>1
  <2> HIDE DEF B
  <2> QED BY <1>1, <2>1, <2>2, NoException
<1>5. Good(n)
  BY <1>1, <1>4
<1> QED BY <1>5 DEF Good, Sums

LEMMA SumIsLast ==
  ASSUME NEW s \in Seq(Int)
  PROVE  \E f : Sums(s, f) /\ SumOf(s) = f[Len(s)]
<1> DEFINE n == Len(s)
           F(f) == [i \in 0 .. n |-> IF i = 0 THEN 0 ELSE f[i - 1] + s[i]]
           u == CHOOSE f : f = F(f)
<1>1. n \in Nat /\ \A i \in 1 .. n : s[i] \in Int
  OBVIOUS
<1>2. SumOf(s) = u[n]
  BY DEF SumOf
<1>3. PICK f : Sums(s, f)
  BY PartialSums
<1>4. f = F(f)
  <2>1. f = [i \in 0 .. n |-> f[i]]
    BY <1>3 DEF Sums
  <2>2. \A i \in 0 .. n : f[i] = IF i = 0 THEN 0 ELSE f[i - 1] + s[i]
    BY <1>1, <1>3 DEF Sums
  <2> HIDE DEF n
  <2> QED BY <2>1, <2>2
<1>5. u = F(u)
  <2> HIDE DEF F
  <2> QED BY <1>4, Zenon
<1> HIDE DEF u
<1>6. /\ DOMAIN u = 0 .. n /\ u[0] = 0 /\ \A i \in 1 .. n : u[i] = u[i - 1] + s[i]
      /\ u = [i \in 0 .. n |-> u[i]]
  <2>1. DOMAIN u = 0 .. n /\ u = [i \in 0 .. n |-> u[i]]
    BY <1>5
  <2>2. \A i \in 0 .. n : u[i] = IF i = 0 THEN 0 ELSE u[i - 1] + s[i]
    BY <1>5
  <2> HIDE DEF n
  <2>3. u[0] = 0
    BY <1>1, <2>2
  <2>4. ASSUME NEW i \in 1 .. n PROVE u[i] = u[i - 1] + s[i]
    <3>1. i \in 0 .. n /\ i # 0
      BY <1>1
    <3> QED BY <2>2, <3>1
  <2> QED BY <2>1, <2>3, <2>4
<1> DEFINE B == {i \in 0 .. n : u[i] \notin Int}
<1>7. B = {}
  <2>1. B \in SUBSET (0 .. n) /\ 0 \notin B
    BY <1>6
  <2>2. ASSUME NEW m \in 1 .. n, m \in B PROVE m - 1 \in B
    <3>1. m - 1 \in 0 .. n /\ u[m] \notin Int /\ u[m] = u[m - 1] + s[m] /\ s[m] \in Int
      <4>1. u[m] = u[m - 1] + s[m]
        BY <1>6
      <4>2. m - 1 \in 0 .. n /\ s[m] \in Int
        BY <1>1
      <4> QED BY <2>2, <4>1, <4>2
    <3>2. u[m - 1] \notin Int
      BY <3>1
    <3> QED BY <3>1, <3>2
  <2> HIDE DEF B
  <2> QED BY <1>1, <2>1, <2>2, NoException
<1>8. \A i \in 0 .. n : u[i] \in Int
  BY <1>7
<1>9. u \in [0 .. n -> Int]
  BY <1>6, <1>8
<1>10. Sums(s, u)
  BY <1>6, <1>9 DEF Sums
<1> QED BY <1>2, <1>10

\* The sum of differences.
LEMMA SumOfDifferences ==
  ASSUME NEW s \in Seq(Int), NEW t \in [1 .. Len(s) + 1 -> Int],
         \A i \in 1 .. Len(s) : s[i] = t[i + 1] - t[i]
  PROVE  SumOf(s) = t[Len(s) + 1] - t[1]
<1> DEFINE n == Len(s)
<1>1. PICK f : Sums(s, f) /\ SumOf(s) = f[n]
  BY SumIsLast
<1>2. /\ n \in Nat /\ f \in [0 .. n -> Int] /\ f[0] = 0
      /\ \A i \in 1 .. n : f[i] = f[i - 1] + s[i]
  BY <1>1 DEF Sums
<1>3. t \in [1 .. n + 1 -> Int] /\ \A i \in 1 .. n : s[i] = t[i + 1] - t[i]
  OBVIOUS
<1> DEFINE B == {i \in 0 .. n : f[i] # t[i + 1] - t[1]}
<1> HIDE DEF n
<1>4. B = {}
  <2>1. B \in SUBSET (0 .. n)
    OBVIOUS
  <2>2. 0 \notin B
    <3>1. t[1] \in Int /\ t[0 + 1] = t[1]
      BY <1>2, <1>3
    <3> QED BY <1>2, <3>1
  <2>3. ASSUME NEW m \in 1 .. n, m \in B PROVE m - 1 \in B
    <3>1. m - 1 \in 0 .. n /\ (m - 1) + 1 = m /\ f[m] # t[m + 1] - t[1]
      BY <1>2, <2>3
    <3>2. t[1] \in Int /\ t[m] \in Int /\ t[m + 1] \in Int /\ f[m - 1] \in Int
      <4>1. 1 \in 1 .. n + 1 /\ m \in 1 .. n + 1 /\ m + 1 \in 1 .. n + 1
        BY <1>2
      <4>2. t[1] \in Int /\ t[m] \in Int /\ t[m + 1] \in Int
        BY <1>3, <4>1
      <4>3. f[m - 1] \in Int
        BY <1>2, <3>1
      <4> QED BY <4>2, <4>3
    <3>3. f[m] = f[m - 1] + (t[m + 1] - t[m])
      BY <1>2, <1>3
    <3>4. f[m - 1] # t[m] - t[1]
      BY <3>1, <3>2, <3>3
    <3> QED BY <3>1, <3>4
  <2> HIDE DEF B
  <2> QED BY <1>2, <2>1, <2>2, <2>3, NoException
<1>5. n \in 0 .. n
  BY <1>2
<1>6. f[n] = t[n + 1] - t[1]
  BY <1>4, <1>5
<1> QED BY <1>1, <1>6 DEF n

LEMMA SumBounded ==
  ASSUME NEW s \in Seq(Int), NEW M \in Int, \A i \in 1 .. Len(s) : s[i] =< M
  PROVE  SumOf(s) \in Int /\ SumOf(s) =< Len(s) * M
<1> DEFINE n == Len(s)
<1>1. PICK f : Sums(s, f) /\ SumOf(s) = f[n]
  BY SumIsLast
<1>2. /\ n \in Nat /\ f \in [0 .. n -> Int] /\ f[0] = 0
      /\ \A i \in 1 .. n : f[i] = f[i - 1] + s[i]
  BY <1>1 DEF Sums
<1>3. \A i \in 1 .. n : s[i] \in Int /\ s[i] =< M
  OBVIOUS
<1> DEFINE B == {i \in 0 .. n : ~(f[i] =< i * M)}
<1> HIDE DEF n
<1>4. B = {}
  <2>1. B \in SUBSET (0 .. n)
    OBVIOUS
  <2>2. 0 \notin B
    <3>1. 0 * M = 0
      OBVIOUS
    <3> QED BY <1>2, <3>1
  <2>3. ASSUME NEW m \in 1 .. n, m \in B PROVE m - 1 \in B
    <3>1. m - 1 \in 0 .. n /\ ~(f[m] =< m * M)
      BY <1>2, <2>3
    <3>2. f[m - 1] \in Int /\ f[m] = f[m - 1] + s[m] /\ s[m] \in Int /\ s[m] =< M
      BY <1>2, <1>3, <3>1
    <3>3. (m - 1) * M + M = m * M /\ m * M \in Int /\ (m - 1) * M \in Int
      OBVIOUS
    <3>4. ~(f[m - 1] =< (m - 1) * M)
      <4> DEFINE a == m * M
                 b == (m - 1) * M
      <4>1. b + M = a /\ a \in Int /\ b \in Int /\ ~(f[m] =< a)
        BY <3>1, <3>3
      <4> HIDE DEF a, b
      <4>2. ~(f[m - 1] =< b)
        BY <3>2, <4>1
      <4> QED BY <4>2 DEF b
    <3> QED BY <3>1, <3>4
  <2> HIDE DEF B
  <2> QED BY <1>2, <2>1, <2>2, <2>3, NoException
<1>5. n \in 0 .. n
  BY <1>2
<1>6. f[n] =< n * M /\ f[n] \in Int
  BY <1>2, <1>4, <1>5
<1> QED BY <1>1, <1>6 DEF n

LEMMA SumNotNegative ==
  ASSUME NEW s \in Seq(Nat)
  PROVE  SumOf(s) \in Nat
<1> DEFINE n == Len(s)
<1>1. PICK f : Sums(s, f) /\ SumOf(s) = f[n]
  <2>1. s \in Seq(Int)
    OBVIOUS
  <2> QED BY <2>1, SumIsLast
<1>2. /\ n \in Nat /\ f \in [0 .. n -> Int] /\ f[0] = 0
      /\ \A i \in 1 .. n : f[i] = f[i - 1] + s[i]
  BY <1>1 DEF Sums
<1>3. \A i \in 1 .. n : s[i] \in Nat
  OBVIOUS
<1> DEFINE B == {i \in 0 .. n : f[i] \notin Nat}
<1> HIDE DEF n
<1>4. B = {}
  <2>1. B \in SUBSET (0 .. n) /\ 0 \notin B
    BY <1>2
  <2>2. ASSUME NEW m \in 1 .. n, m \in B PROVE m - 1 \in B
    <3>1. m - 1 \in 0 .. n /\ f[m] \notin Nat /\ f[m] = f[m - 1] + s[m] /\ s[m] \in Nat
      BY <1>2, <1>3, <2>2
    <3>2. f[m - 1] \notin Nat
      BY <3>1
    <3> QED BY <3>1, <3>2
  <2> HIDE DEF B
  <2> QED BY <1>2, <2>1, <2>2, NoException
<1>5. n \in 0 .. n
  BY <1>2
<1> QED BY <1>1, <1>4, <1>5

-----------------------------------------------------------------------------
(***************************************************************************)
(* The statistics of blocks.                                               *)
(***************************************************************************)
\* Of up to 20 values the 95th percentile is the largest; in any case few are
\* larger.
LEMMA Percentile95Facts ==
  ASSUME NEW s \in Seq(Int), Len(s) >= 1
  PROVE  /\ Percentile95(s) \in Int
         /\ Len(s) =< 20 => \A i \in 1 .. Len(s) : s[i] =< Percentile95(s)
         /\ 20 * Cardinality({i \in DOMAIN s : s[i] > Percentile95(s)}) < Len(s)
<1> DEFINE n == Len(s)
           k == (95 * n) \div 100 + 1
           c == Ascending(s)
<1>1. n \in Nat /\ n >= 1 /\ DOMAIN s = 1 .. n
  BY DEF n
<1>2. Percentile95(s) = c[k]
  BY DEF Percentile95, Sorted
<1> HIDE DEF n
<1>3. k \in 1 .. n /\ 20 * (n - k) < n /\ (n =< 20 => k = n)
  BY <1>1
<1> HIDE DEF k
<1>4. c \in Seq(Int) /\ DOMAIN c = DOMAIN s
  BY AscendingElements
<1>5. c[k] \in Int
  <2> HIDE DEF c
  <2> QED BY <1>1, <1>3, <1>4
<1>6. ASSUME n =< 20, NEW i \in 1 .. n PROVE s[i] =< c[k]
  <2>1. Place(s, i) \in DOMAIN s /\ From(s)[Place(s, i)] = i
    BY <1>1, PlaceRange, FromPlace
  <2>2. c[Place(s, i)] = s[i]
    BY <2>1, AscendingElements
  <2>3. Place(s, i) =< k /\ k \in DOMAIN s
    BY <1>1, <1>3, <1>6, <2>1
  <2>4. c[Place(s, i)] =< c[k]
    BY <2>1, <2>3, AscendingInOrder
  <2> QED BY <2>2, <2>4
<1>7. LET T == {i \in DOMAIN s : s[i] > c[k]}
      IN  Cardinality(T) \in Nat /\ Cardinality(T) =< n - k
  <2>1. k \in DOMAIN s
    BY <1>1, <1>3
  <2> QED BY <2>1, FewGreater DEF n
<1> DEFINE T == {i \in DOMAIN s : s[i] > c[k]}
<1>8. 20 * Cardinality(T) < n
  <2>1. Cardinality(T) \in Nat /\ Cardinality(T) =< n - k
    BY <1>7
  <2> HIDE DEF T
  <2> QED BY <1>1, <1>3, <2>1
<1> QED BY <1>2, <1>5, <1>6, <1>8 DEF n

LEMMA AverageBounded ==
  ASSUME NEW s \in Seq(Int), Len(s) >= 1, NEW M \in Int, \A i \in 1 .. Len(s) : s[i] =< M
  PROVE  Average(s) \in Int /\ Average(s) =< M
<1> DEFINE n == Len(s)
           a == SumOf(s)
           b == n * M
<1>1. n \in Nat /\ n >= 1
  BY DEF n
<1>2. a \in Int /\ a =< b
  BY SumBounded
<1>3. Average(s) = a \div n
  BY DEF Average
<1> HIDE DEF n, a
<1>4. a \div n =< M /\ a \div n \in Int
  BY <1>1, <1>2
<1> QED BY <1>3, <1>4

\* The 95th percentile as a percentage of an average that is no greater.
LEMMA RatioRight ==
  ASSUME NEW x \in Int, NEW y \in Nat, y =< x
  PROVE  calculateRatioPercentage(x, y) >= 100 \/ calculateRatioPercentage(x, y) = 0
<1>1. CASE y = 0
  BY <1>1 DEF calculateRatioPercentage
<1>2. CASE y # 0
  <2>1. (100 * x) \div y >= 100
    BY <1>2
  <2> QED BY <1>2, <2>1 DEF calculateRatioPercentage
<1> QED BY <1>1, <1>2

LEMMA TimesGrow ==
  ASSUME NEW a \in 0 .. Latest + 1, NEW b \in 0 .. Latest + 1, a =< b
  PROVE  Chain[a].time =< Chain[b].time
<1> DEFINE n == Latest + 1 - a
           B == {d \in 0 .. n : ~(Chain[a].time =< Chain[a + d].time)}
<1>1. /\ Latest \in Nat /\ \A k \in 0 .. Latest + 1 : Chain[k].time \in Nat
      /\ \A k \in 1 .. Latest + 1 : Chain[k - 1].time =< Chain[k].time
  BY BlockStatsAssumption
<1>2. n \in Nat
  BY <1>1
<1>3. B \in SUBSET (0 .. n)
  OBVIOUS
<1>4. 0 \notin B
  <2>1. a + 0 = a /\ Chain[a].time \in Nat
    BY <1>1
  <2> QED BY <2>1
<1>5. ASSUME NEW m \in 1 .. n, m \in B PROVE m - 1 \in B
  <2>1. /\ m - 1 \in 0 .. n /\ a + m \in 1 .. Latest + 1 /\ (a + m) - 1 = a + (m - 1)
        /\ a + (m - 1) \in 0 .. Latest + 1 /\ a + m \in 0 .. Latest + 1
    BY <1>1
  <2>2. Chain[a + (m - 1)].time =< Chain[a + m].time
    BY <1>1, <2>1
  <2>3. Chain[a].time \in Nat /\ Chain[a + m].time \in Nat /\ Chain[a + (m - 1)].time \in Nat
    BY <1>1, <2>1
  <2>4. ~(Chain[a].time =< Chain[a + m].time)
    BY <1>5
  <2>5. ~(Chain[a].time =< Chain[a + (m - 1)].time)
    BY <2>2, <2>3, <2>4
  <2> QED BY <2>1, <2>5
<1>6. B = {}
  <2> HIDE DEF B, n
  <2> QED BY <1>2, <1>3, <1>4, <1>5, NoException
<1>7. b - a \in 0 .. n /\ a + (b - a) = b
  BY <1>1
<1> QED BY <1>6, <1>7

\* What is reported of blocks that are in order.
LEMMA ReportRight ==
  ASSUME NEW bs \in Seq(0 .. Latest + 1), \A i \in 1 .. Len(bs) - 1 : bs[i] < bs[i + 1],
         CalculateBlockDurations(bs), stats' # stats
  PROVE  /\ pc' = "done"
         /\ \A i \in DOMAIN stats'.durations : stats'.durations[i] >= 0
         /\ SumOf(stats'.durations) = Chain[Last(bs)].time - Chain[bs[1]].time
         /\ 20 * Cardinality({i \in DOMAIN stats'.durations : stats'.durations[i] > stats'.p95})
               < Len(stats'.durations)
         /\ Len(stats'.durations) =< 20 =>
               stats'.p95 >= stats'.average /\ (stats'.bump >= 100 \/ stats'.bump = 0)
<1> DEFINE n == Len(bs) - 1
           t == [i \in 1 .. n + 1 |-> Chain[bs[i]].time]
           durations == [i \in 1 .. n |-> Chain[bs[i + 1]].time - Chain[bs[i]].time]
           fees == [i \in 1 .. n |-> Chain[bs[i + 1]].fee]
<1>1. /\ bs # <<>> /\ n # 0 /\ ~(\E i \in 1 .. n : fees[i] = NoFee) /\ pc' = "done"
      /\ stats' = [durations |-> durations, p95 |-> Percentile95(durations),
                   average |-> Average(durations),
                   bump |-> calculateRatioPercentage(Percentile95(fees), Average(fees))]
  BY DEF CalculateBlockDurations
<1>2. /\ Len(bs) \in Nat /\ n \in Nat /\ n >= 1 /\ Len(bs) = n + 1
      /\ \A i \in 1 .. n + 1 : bs[i] \in 0 .. Latest + 1
  <2>1. Len(bs) \in Nat /\ Len(bs) # 0
    BY <1>1
  <2>2. n # 0
    BY <1>1
  <2>3. n \in Nat /\ n >= 1 /\ Len(bs) = n + 1
    <3> DEFINE k == Len(bs)
    <3>1. k \in Nat /\ k # 0 /\ n = k - 1 /\ n # 0
      BY <2>1, <2>2
    <3> HIDE DEF k, n
    <3>2. n \in Nat /\ n >= 1 /\ k = n + 1
      BY <3>1
    <3> QED BY <3>2 DEF k
  <2>4. \A i \in 1 .. Len(bs) : bs[i] \in 0 .. Latest + 1
    <3> DEFINE S == 0 .. Latest + 1
    <3>1. bs \in Seq(S)
      OBVIOUS
    <3> HIDE DEF S
    <3>2. \A i \in 1 .. Len(bs) : bs[i] \in S
      BY <3>1
    <3> QED BY <3>2 DEF S
  <2> QED BY <2>1, <2>3, <2>4
<1> HIDE DEF n
<1>3. /\ \A k \in 0 .. Latest + 1 : Chain[k].time \in Nat
      /\ \A k \in 0 .. Latest + 1 : Chain[k].fee \in Nat \cup {NoFee}
  BY BlockStatsAssumption
<1>4. t \in [1 .. n + 1 -> Int]
  BY <1>2, <1>3
<1>5. ASSUME NEW i \in 1 .. n
      PROVE  /\ durations[i] = t[i + 1] - t[i] /\ durations[i] \in Nat
             /\ fees[i] \in Nat
  <2>1. i \in 1 .. n + 1 /\ i + 1 \in 1 .. n + 1
    BY <1>2
  <2>2. bs[i] \in 0 .. Latest + 1 /\ bs[i + 1] \in 0 .. Latest + 1 /\ bs[i] < bs[i + 1]
    BY <1>2, <2>1 DEF n
  <2>3. bs[i] =< bs[i + 1]
    BY <2>2
  <2>4. Chain[bs[i]].time =< Chain[bs[i + 1]].time
    BY <2>2, <2>3, TimesGrow
  <2>5. Chain[bs[i]].time \in Nat /\ Chain[bs[i + 1]].time \in Nat
    BY <1>3, <2>2
  <2>6. durations[i] = Chain[bs[i + 1]].time - Chain[bs[i]].time
    OBVIOUS
  <2>7. Chain[bs[i + 1]].fee \in Nat \cup {NoFee}
    BY <1>3, <2>2
  <2>8. fees[i] = Chain[bs[i + 1]].fee
    OBVIOUS
  <2> QED BY <1>1, <2>1, <2>4, <2>5, <2>6, <2>7, <2>8
<1>6. durations \in Seq(Int) /\ Len(durations) = n /\ DOMAIN durations = 1 .. n
  <2>1. \A i \in 1 .. n : durations[i] \in Nat
    BY <1>5
  <2>2. durations = [i \in 1 .. n |-> durations[i]]
    OBVIOUS
  <2> HIDE DEF durations
  <2>3. durations \in [1 .. n -> Int]
    BY <2>1, <2>2
  <2> QED BY <1>2, <2>3
<1>7. fees \in Seq(Nat) /\ fees \in Seq(Int) /\ Len(fees) = n
  <2>1. \A i \in 1 .. n : fees[i] \in Nat
    BY <1>5
  <2>2. fees = [i \in 1 .. n |-> fees[i]]
    OBVIOUS
  <2> HIDE DEF fees
  <2>3. fees \in [1 .. n -> Nat] /\ fees \in [1 .. n -> Int]
    BY <2>1, <2>2
  <2>4. fees \in Seq(Nat) /\ Len(fees) = n
    BY <1>2, <2>3
  <2>5. fees \in Seq(Int)
    BY <1>2, <2>3
  <2> QED BY <2>4, <2>5
<1>8. SumOf(durations) = Chain[Last(bs)].time - Chain[bs[1]].time
  <2>1. \A i \in 1 .. n : durations[i] = t[i + 1] - t[i]
    BY <1>5
  <2>2. t[n + 1] = Chain[Last(bs)].time /\ t[1] = Chain[bs[1]].time
    BY <1>2 DEF Last
  <2> HIDE DEF t, durations
  <2>3. SumOf(durations) = t[Len(durations) + 1] - t[1]
    BY <1>4, <1>6, <2>1, SumOfDifferences
  <2> QED BY <1>6, <2>2, <2>3
<1>9. \A i \in 1 .. n : durations[i] >= 0
  <2>1. \A i \in 1 .. n : durations[i] \in Nat
    BY <1>5
  <2> HIDE DEF durations
  <2> QED BY <2>1
<1> HIDE DEF durations, fees
<1>10. /\ Percentile95(durations) \in Int
       /\ n =< 20 => \A i \in 1 .. n : durations[i] =< Percentile95(durations)
       /\ 20 * Cardinality({i \in DOMAIN durations : durations[i] > Percentile95(durations)}) < n
  BY <1>2, <1>6, Percentile95Facts
<1>11. /\ Percentile95(fees) \in Int
       /\ n =< 20 => \A i \in 1 .. n : fees[i] =< Percentile95(fees)
  BY <1>2, <1>7, Percentile95Facts
<1>12. ASSUME n =< 20
       PROVE  /\ Percentile95(durations) >= Average(durations)
              /\ LET r == calculateRatioPercentage(Percentile95(fees), Average(fees))
                 IN  r >= 100 \/ r = 0
  <2>1. Average(durations) \in Int /\ Average(durations) =< Percentile95(durations)
    BY <1>2, <1>6, <1>10, <1>12, AverageBounded
  <2>2. Average(fees) \in Int /\ Average(fees) =< Percentile95(fees)
    BY <1>2, <1>7, <1>11, <1>12, AverageBounded
  <2>3. Average(fees) \in Nat
    <3>1. SumOf(fees) \in Nat
      BY <1>7, SumNotNegative
    <3>2. \A x, y \in Nat : y # 0 => x \div y \in Nat
      OBVIOUS
    <3>3. Average(fees) = SumOf(fees) \div n
      BY <1>7 DEF Average
    <3> QED BY <1>2, <3>1, <3>2, <3>3
  <2> QED BY <1>10, <1>11, <2>1, <2>2, <2>3, RatioRight
<1> DEFINE r == calculateRatioPercentage(Percentile95(fees), Average(fees))
<1>13. /\ stats'.durations = durations /\ stats'.p95 = Percentile95(durations)
       /\ stats'.average = Average(durations) /\ stats'.bump = r
  BY <1>1
<1>14. n =< 20 => Percentile95(durations) >= Average(durations) /\ (r >= 100 \/ r = 0)
  BY <1>12
<1> HIDE DEF r
<1>15. 20 * Cardinality({i \in DOMAIN stats'.durations : stats'.durations[i] > stats'.p95})
          < Len(stats'.durations)
  BY <1>6, <1>10, <1>13
<1> QED BY <1>1, <1>6, <1>8, <1>9, <1>13, <1>14, <1>15

LEMMA StatsQuiet ==
  ASSUME StatsInv, UNCHANGED <<caller, waiting, skipped, failed, blocks, stats>>, pc' # "blocks",
         pc \notin {"blocks"} \cup Ended \/ caller # "cli"
  PROVE  StatsInv'
<1>1. stats' = NoStats /\ waiting' = {} /\ skipped' = {} /\ failed' = FALSE /\ blocks' = <<>>
  BY DEF StatsInv, Ended
<1>2. StatsBlocksRight'
  BY <1>1 DEF StatsBlocksRight
<1> QED BY <1>1, <1>2 DEF StatsInv

LEMMA SpawnStats ==
  ASSUME CLIInv, StatsInv, Spawn
  PROVE  StatsInv'
<1>1. pc = "stats" /\ UNCHANGED <<caller, skipped, failed, blocks, stats>>
  BY DEF Spawn
<1>2. caller = "cli" /\ interval \in StatsFlags
  BY <1>1 DEF CLIInv, CallerInv, Commands
<1>3. interval.start \in Int /\ interval.end \in Int /\ Latest \in Int
  BY <1>2, CLIAssumption, BlockStatsAssumption
<1>4. skipped = {} /\ failed = FALSE /\ blocks = <<>> /\ stats = NoStats
  BY <1>1 DEF StatsInv, Ended
<1>5. CASE pc' = "blocks"
  <2> DEFINE a == IF interval.start < 0 THEN Latest + interval.start ELSE interval.start
             b == IF interval.end = 0 THEN Latest ELSE interval.end
  <2>1. interval' = [start |-> a, end |-> b] /\ waiting' = a .. b - 1
    BY <1>5 DEF Spawn, Panics, Fails
  <2>2. a \in Int /\ b \in Int
    BY <1>3
  <2> HIDE DEF a, b
  <2>3. interval'.start = a /\ interval'.end = b
    BY <2>1
  <2>4. ToSet(blocks') = {} /\ skipped' = {} /\ blocks' = <<>>
    BY <1>1, <1>4 DEF ToSet
  <2>5. FetchedInv'
    BY <2>1, <2>2, <2>3, <2>4 DEF FetchedInv
  <2>6. StatsBlocksRight'
    BY <1>5 DEF StatsBlocksRight
  <2> QED BY <1>1, <1>2, <1>4, <1>5, <2>5, <2>6 DEF StatsInv
<1>6. CASE pc' # "blocks"
  <2>1. UNCHANGED waiting
    BY <1>6 DEF Spawn
  <2> QED BY <1>1, <1>6, <2>1, StatsQuiet DEF Ended
<1> QED BY <1>5, <1>6

\* A goroutine takes one number out of those that are waited for: its block is
\* that of the number, unless the interval starts before the first block.
LEMMA FetchStats ==
  ASSUME CLIInv, StatsInv, NEW bn \in waiting, Fetched(bn) \/ Skip(bn) \/ FetchFails(bn)
  PROVE  StatsInv'
<1>1. /\ pc = "blocks" /\ pc' = "blocks" /\ UNCHANGED <<caller, interval, stats>>
      /\ waiting' = waiting \ {bn}
  BY DEF Fetched, Skip, FetchFails, startupVars
<1>2. caller = "cli" /\ stats = NoStats /\ FetchedInv
  BY <1>1 DEF CLIInv, CallerInv, Commands, StatsInv
<1>3. blocks \in Seq(0 .. Latest + 1) /\ Latest \in Nat
  BY BlockStatsAssumption DEF CLIInv, CallerInv
<1>4. FetchedInv'
  <2> DEFINE a == interval.start
             R == interval.start .. interval.end - 1
             T == ToSet(blocks)
  <2>1. interval'.start \in Int /\ interval'.end \in Int /\ interval' = interval
    BY <1>1, <1>2 DEF FetchedInv
  <2>2. SUFFICES ASSUME a >= 0, ~failed'
                 PROVE  /\ waiting' \cup skipped' \cup ToSet(blocks') = R
                        /\ waiting' \cap skipped' = {} /\ waiting' \cap ToSet(blocks') = {}
                        /\ skipped' \cap ToSet(blocks') = {}
                        /\ \A i, j \in DOMAIN blocks' : blocks'[i] = blocks'[j] => i = j
    BY <2>1 DEF FetchedInv
  <2>3. ~FetchFails(bn) /\ ~failed
    BY <2>2 DEF FetchFails, Fetched, Skip
  <2>4. /\ waiting \cup skipped \cup T = R /\ waiting \cap skipped = {} /\ waiting \cap T = {}
        /\ skipped \cap T = {} /\ \A i, j \in DOMAIN blocks : blocks[i] = blocks[j] => i = j
    BY <1>2, <2>2, <2>3 DEF FetchedInv
  <2>5. bn \in Int /\ bn >= 0
    <3>1. bn \in R /\ interval.start \in Int /\ interval.end \in Int
      BY <1>2, <2>4 DEF FetchedInv
    <3> QED BY <2>2, <3>1
  <2> HIDE DEF R
  <2>6. CASE Skip(bn)
    <3>1. skipped' = skipped \cup {bn} /\ blocks' = blocks
      BY <2>6 DEF Skip
    <3> HIDE DEF T
    <3>2. ToSet(blocks') = T
      BY <3>1 DEF T
    <3>3. /\ waiting' \cup skipped' \cup T = R /\ waiting' \cap skipped' = {}
          /\ waiting' \cap T = {} /\ skipped' \cap T = {}
      BY <1>1, <2>4, <3>1
    <3> QED BY <2>4, <3>1, <3>2, <3>3
  <2>7. CASE Fetched(bn)
    <3>1. PICK b \in BlockByNumber(bn) : blocks' = Append(blocks, b)
      BY <2>7 DEF Fetched
    <3>2. b = bn /\ b \in 0 .. Latest
      <4>1. CASE bn \in 0 .. Latest
        BY <3>1, <4>1 DEF BlockByNumber
      <4>2. CASE bn \notin 0 .. Latest
        <5>1. bn # -1 /\ bn # -2 /\ bn \notin {-3, -4}
          BY <2>5
        <5>2. BlockByNumber(bn) = {}
          BY <4>2, <5>1 DEF BlockByNumber
        <5> QED BY <3>1, <5>2
      <4> QED BY <4>1, <4>2
    <3>3. UNCHANGED skipped
      BY <2>7 DEF Fetched
    <3> DEFINE n == Len(blocks)
    <3>4. /\ n \in Nat /\ DOMAIN blocks = 1 .. n /\ DOMAIN blocks' = 1 .. n + 1
          /\ blocks'[n + 1] = bn /\ \A i \in 1 .. n : blocks'[i] = blocks[i]
      <4> DEFINE S == 0 .. Latest + 1
      <4>1. blocks \in Seq(S) /\ bn \in S
        BY <1>3, <3>2
      <4> HIDE DEF S
      <4> QED BY <3>1, <3>2, <4>1
    <3> HIDE DEF n
    <3>5. ToSet(blocks') = T \cup {bn}
      <4>1. \A i \in 1 .. n + 1 : i \in 1 .. n \/ i = n + 1
        BY <3>4
      <4>2. n + 1 \in 1 .. n + 1 /\ \A i \in 1 .. n : i \in 1 .. n + 1
        BY <3>4
      <4> QED BY <3>4, <4>1, <4>2 DEF ToSet
    <3>6. bn \notin T
      BY <2>4
    <3>7. ASSUME NEW i \in 1 .. n + 1, NEW j \in 1 .. n + 1, blocks'[i] = blocks'[j]
          PROVE  i = j
      <4>1. \A k \in 1 .. n : blocks[k] # bn
        BY <3>4, <3>6 DEF ToSet
      <4>2. (i \in 1 .. n \/ i = n + 1) /\ (j \in 1 .. n \/ j = n + 1)
        BY <3>4
      <4> QED BY <2>4, <3>4, <3>7, <4>1, <4>2
    <3> HIDE DEF T
    <3>8. /\ waiting' \cup skipped' \cup ToSet(blocks') = R
          /\ waiting' \cap skipped' = {} /\ waiting' \cap ToSet(blocks') = {}
          /\ skipped' \cap ToSet(blocks') = {}
      BY <1>1, <2>4, <3>3, <3>5, <3>6
    <3> QED BY <3>4, <3>7, <3>8
  <2> QED BY <2>3, <2>6, <2>7
<1>5. StatsBlocksRight'
  BY <1>1 DEF StatsBlocksRight
<1> QED BY <1>1, <1>2, <1>4, <1>5 DEF StatsInv

LEMMA AnalyseStats ==
  ASSUME CLIInv, StatsInv, Analyse
  PROVE  StatsInv'
<1>1. /\ pc = "blocks" /\ waiting = {}
      /\ UNCHANGED <<caller, interval, waiting, skipped, failed>>
  BY DEF Analyse
<1>2. caller = "cli" /\ stats = NoStats /\ FetchedInv
  BY <1>1 DEF CLIInv, CallerInv, Commands, StatsInv
<1>3. CASE failed
  <2>1. pc' = "failed" /\ UNCHANGED stats
    BY <1>3 DEF Analyse, Fails
  <2>2. StatsBlocksRight'
    BY <2>1 DEF StatsBlocksRight
  <2> QED BY <1>1, <1>2, <2>1, <2>2 DEF StatsInv, Ended
<1>4. CASE ~failed
  <2> DEFINE bs == Ascending(blocks)
  <2>1. blocks' = bs /\ CalculateBlockDurations(bs)
    BY <1>4 DEF Analyse, Sorted
  <2>2. blocks \in Seq(0 .. Latest + 1) /\ 0 .. Latest + 1 \in SUBSET Int
    BY DEF CLIInv, CallerInv
  <2>3. blocks \in Seq(Int)
    <3> DEFINE S == 0 .. Latest + 1
    <3>1. blocks \in Seq(S) /\ S \in SUBSET Int
      BY <2>2
    <3> HIDE DEF S
    <3>2. blocks \in [1 .. Len(blocks) -> S] /\ Len(blocks) \in Nat
      BY <3>1
    <3>3. blocks \in [1 .. Len(blocks) -> Int]
      BY <3>1, <3>2
    <3> QED BY <3>2, <3>3
  <2>4. bs \in Seq(0 .. Latest + 1)
    BY <2>2, AscendingTyped
  <2>5. ToSet(bs) = ToSet(blocks) /\ Len(bs) = Len(blocks)
    BY <2>3, AscendingSameSet, AscendingElements
  <2>6. pc' \in Ended
    BY <2>1 DEF CalculateBlockDurations, Ended, Fails, Panics
  <2>7. ASSUME stats' # NoStats, interval.start >= 0
        PROVE  /\ ToSet(blocks') = (interval'.start .. interval'.end - 1) \ skipped'
               /\ \A i \in 1 .. Len(blocks') - 1 : blocks'[i] < blocks'[i + 1]
    <3>1. /\ waiting \cup skipped \cup ToSet(blocks) = interval.start .. interval.end - 1
          /\ skipped \cap ToSet(blocks) = {}
          /\ \A i, j \in DOMAIN blocks : blocks[i] = blocks[j] => i = j
      BY <1>2, <1>4, <2>7 DEF FetchedInv
    <3>2. ToSet(blocks) = (interval.start .. interval.end - 1) \ skipped
      BY <1>1, <3>1
    <3>3. ASSUME NEW i \in 1 .. Len(bs) - 1 PROVE bs[i] < bs[i + 1]
      <4> DEFINE k == i + 1
      <4>1. Len(blocks) \in Nat /\ DOMAIN blocks = 1 .. Len(blocks)
        BY <2>3
      <4>2. i \in DOMAIN blocks /\ k \in DOMAIN blocks /\ i < k
        BY <2>5, <4>1
      <4> HIDE DEF k
      <4>3. bs[i] < bs[k]
        BY <2>3, <3>1, <4>2, AscendingStrict
      <4> QED BY <4>3 DEF k
    <3> HIDE DEF bs
    <3> QED BY <1>1, <2>1, <2>5, <3>2, <3>3
  <2>8. StatsBlocksRight' /\ (stats' # NoStats => pc' = "done")
    <3>1. CASE stats' = NoStats
      BY <3>1 DEF StatsBlocksRight
    <3>2. CASE stats' # NoStats
      <4>1. stats' # stats
        BY <1>2, <3>2
      <4>2. pc' = "done"
        BY <2>1, <4>1 DEF CalculateBlockDurations
      <4>3. CASE interval.start >= 0
        <5> HIDE DEF bs
        <5>1. /\ ToSet(blocks') = (interval'.start .. interval'.end - 1) \ skipped'
              /\ \A i \in 1 .. Len(bs) - 1 : bs[i] < bs[i + 1]
          BY <2>1, <2>7, <3>2, <4>3
        <5>2. /\ \A i \in DOMAIN stats'.durations : stats'.durations[i] >= 0
              /\ SumOf(stats'.durations) = Chain[Last(bs)].time - Chain[bs[1]].time
              /\ 20 * Cardinality({i \in DOMAIN stats'.durations : stats'.durations[i] > stats'.p95})
                    < Len(stats'.durations)
              /\ Len(stats'.durations) =< 20 =>
                    stats'.p95 >= stats'.average /\ (stats'.bump >= 100 \/ stats'.bump = 0)
          BY <2>1, <2>4, <4>1, <5>1, ReportRight
        <5> QED BY <2>1, <4>2, <5>1, <5>2 DEF StatsBlocksRight
      <4>4. CASE ~(interval.start >= 0)
        <5>1. ~(interval'.start >= 0)
          BY <1>1, <4>4
        <5>2. StatsBlocksRight'
          BY <5>1 DEF StatsBlocksRight
        <5> QED BY <4>2, <5>2
      <4> QED BY <4>2, <4>3, <4>4, StatsBlocksRight' \in BOOLEAN
    <3> QED BY <3>1, <3>2
  <2> QED BY <1>1, <1>2, <2>6, <2>8 DEF StatsInv, Ended
<1> QED BY <1>3, <1>4

LEMMA StatsInvStep ==
  ASSUME CLIInv, StatsInv, [Next]_vars
  PROVE  StatsInv'
<1>1. CASE UNCHANGED vars
  BY <1>1 DEF vars, startupVars, statsVars, StatsInv, FetchedInv, StatsBlocksRight
<1>2. CASE StartupStep /\ UNCHANGED <<builderVars, statsVars, gasVars, cliVars>>
  BY <1>2, OtherSteps, StatsQuiet DEF statsVars
<1>3. CASE BuilderStep /\ UNCHANGED <<statsVars, gasVars, cliVars>>
  BY <1>3, OtherSteps, StatsQuiet DEF statsVars
<1>4. CASE CommandStep
  <2>1. UNCHANGED <<waiting, skipped, failed, blocks, stats>>
    BY <1>4 DEF statsVars, CommandStep, NoNetwork, Before, StatsCommand, GasCommand,
         TraceCommandFails, TraceCommandPanics, TraceCommand, TraceTx, TraceDone
  <2> QED BY <1>4, <2>1, OtherSteps, StatsQuiet
<1>5. CASE GasStep /\ UNCHANGED <<builderVars, statsVars, cliVars>>
  <2>1. pc \in {"gas", "suggest", "quantiles"} /\ pc' # "blocks" /\ UNCHANGED caller
    BY <1>5 DEF GasStep, GasCallFails, FeeHistory, QuantilesFail, Quantiles, Suggest, Fails
  <2> QED BY <1>5, <2>1, StatsQuiet DEF statsVars, Ended
<1>6. CASE StatsStep
  <2>1. CASE LatestFails
    BY <2>1, StatsQuiet DEF LatestFails, statsVars, Fails, Ended
  <2>2. CASE \E bn \in waiting : Fetched(bn) \/ Skip(bn) \/ FetchFails(bn)
    <3>1. PICK bn \in waiting : Fetched(bn) \/ Skip(bn) \/ FetchFails(bn)
      BY <2>2
    <3> QED BY <3>1, FetchStats
  <2> QED BY <1>6, <2>1, <2>2, SpawnStats, AnalyseStats DEF StatsStep
<1> QED BY <1>1, <1>2, <1>3, <1>4, <1>5, <1>6 DEF Next

(***************************************************************************)
(* BlockStats.Stats: in whatever order the goroutines fetch the blocks of  *)
(* an interval, and whichever they pass over, the report is about the      *)
(* blocks that could be read, in order, and its figures fit together.      *)
(***************************************************************************)
THEOREM StatsBlocksAreRight == Spec => []StatsBlocksRight
<1>1. Init => StatsInv
  BY DEF Init, StatsInit, StatsInv, StatsBlocksRight
<1>2. CLIInv /\ StatsInv /\ [Next]_vars => StatsInv'
  BY StatsInvStep
<1>3. StatsInv => StatsBlocksRight
  BY DEF StatsInv
<1> QED BY <1>1, <1>2, <1>3, CLIInvHolds, PTL DEF Spec

==============================================================================
