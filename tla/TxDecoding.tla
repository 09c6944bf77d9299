----------------------------- MODULE TxDecoding -----------------------------
(***************************************************************************)
(* What Client.Decode does with a mined transaction before it traces it    *)
(* (decode.go): find the revert reason by replaying the call, then decode  *)
(* the inputs and the events.                                              *)
(*                                                                         *)
(* An event of the ABI is the sequence of its arguments, TRUE for an       *)
(* indexed one; argument i of a log has the value i.  Which ABI belongs to *)
(* the address is the subject of ABIFinder; here it is found or not.  The  *)
(* store, if there is one, has ABIs that define errors and events.         *)
(***************************************************************************)
EXTENDS Integers, Sequences, FiniteSets, Sorting

CONSTANTS
    EventLayouts,  \* the events of the ABI
    MaxLogs,       \* bound: logs of the transaction
    CodeSizes,     \* bytes of code at the address
    Trailers,      \* the last two bytes of the code as a number
    Versions       \* compiler versions <<major, minor, patch>>

ASSUME TxDecodingAssumption ==
    /\ \A e \in EventLayouts : e \in Seq(BOOLEAN)
    /\ MaxLogs \in Nat /\ CodeSizes \subseteq Nat /\ Trailers \subseteq Nat
    /\ Versions \subseteq Nat \X Nat \X Nat

VARIABLES
    pc,         \* where Decode, or the tracer, is
    reverted,   \* receipt: Status is 0
    store,      \* ContractStore is there, and the ABIFinder with it
    replay,     \* how the replay of the reverted call ended
    code,       \* what CodeAt returned for the address of the transaction
    revertErr,  \* local: the error that Decode will return
    hint,       \* what was logged about an undecodable reason
    logs,       \* receipt: the logs
    decoded     \* what decodeTransaction returned

txVars == <<reverted, store, replay, code, revertErr, hint, logs, decoded>>

None == "none"
Default == [err |-> None, events |-> <<>>]

Logs == [kind : {"event"}, layout : EventLayouts, data : {"ok", "malformed"}]
        \cup [kind : {"foreign", "anonymous"}, layout : {<<>>}, data : {"ok"}]

Replays == {"succeeds", "plain", "noData", "malformed", "short", "unknown",
            "known", "knownMalformed"}

Codes == [size : CodeSizes, trailer : Trailers, marker : BOOLEAN, solc : BOOLEAN,
          version : Versions]
NoCode == [size |-> 0, trailer |-> 0, marker |-> FALSE, solc |-> FALSE, version |-> <<0, 0, 0>>]

TxInit ==
    /\ pc = "receipt"
    /\ reverted \in BOOLEAN /\ store \in BOOLEAN
    /\ replay = None /\ code = NoCode /\ revertErr = None /\ hint = None
    /\ logs = <<>> /\ decoded = Default

-----------------------------------------------------------------------------
(***************************************************************************)
(* The revert reason.                                                      *)
(***************************************************************************)
\* Mutant of DecodeCustomABIErr: a replay without an error has no reason and
\* is no error.
DecodeCustomABIErrOfNil(r) ==
    CASE r = "plain"                    -> <<None, "cast">>
      [] r = "malformed" /\ store       -> <<None, "hex">>
      [] r = "known" /\ store           -> <<"custom", None>>
      [] r = "knownMalformed" /\ store  -> <<None, "unpack">>
      [] OTHER                          -> <<None, None>>

\* <<reason, error>>: the type assertion fails for a nil error too; data of
\* less than four bytes is returned as an error that is nil.
DecodeCustomABIErr(r) ==
    CASE r \in {"succeeds", "plain"}    -> <<None, "cast">>
      [] r = "malformed" /\ store       -> <<None, "hex">>
      [] r = "known" /\ store           -> <<"custom", None>>
      [] r = "knownMalformed" /\ store  -> <<None, "unpack">>
      [] OTHER                          -> <<None, None>>

\* Two hexadecimal digits per byte; the code ends with the metadata, preceded
\* by the opcode INVALID, and the length of the metadata.
DecodePragmaVersion(c) ==
    CASE c.size < 2                                       -> "panic"
      [] c.size >= 2 /\ c.trailer > c.size                -> "noMetadata"
      [] c.trailer =< c.size /\ c.trailer + 3 > c.size    -> "panic"
      [] c.trailer + 3 =< c.size /\ ~c.marker             -> "noMetadata"
      [] c.trailer + 3 =< c.size /\ c.marker /\ ~c.solc   -> "notSolc"
      [] OTHER                                            -> "version"

DoesPragmaSupportCustomRevert(v) ==
    v[2] > 8 \/ (v[2] = 8 /\ v[3] >= 4) \/ v[1] > 0

\* Looked up only if the error says no more than "execution reverted" and the
\* transaction creates no contract.
HintFor(c) ==
    LET found == DecodePragmaVersion(c) IN
    CASE found = "panic"                 -> "panic"
      [] found \notin {"panic", "version"} -> "noVersion"
      [] found = "version" /\ DoesPragmaSupportCustomRevert(c.version) -> "supported"
      [] OTHER                           -> "unsupported"

\* callAndGetRevertReason: the replay runs on the state at the end of the
\* block, so it need not fail again.  CallMsgFromTx has nothing to fail on: the
\* sender of a mined transaction can be recovered.
RevertReason(r, c) ==
    LET reason == DecodeCustomABIErr(r) IN
    /\ pc = "receipt" /\ reverted
    /\ replay' = r /\ code' = c
    /\ \/ /\ reason # <<None, None>>
          /\ c = NoCode
          /\ revertErr' = IF reason[2] # None THEN reason[2] ELSE reason[1]
          /\ pc' = "decode" /\ UNCHANGED hint
       \/ /\ reason = <<None, None>> /\ r # "succeeds"
          /\ \/ c = NoCode /\ hint' = "notRead"
             \/ hint' = HintFor(c)
          /\ revertErr' = "plain"
          /\ pc' = IF hint' = "panic" THEN "panic" ELSE "decode"
       \/ /\ reason = <<None, None>> /\ r = "succeeds"
          /\ c = NoCode
          /\ pc' = "decode" /\ UNCHANGED <<revertErr, hint>>
    /\ UNCHANGED <<reverted, store, logs, decoded>>

NotReverted ==
    /\ pc = "receipt" /\ ~reverted
    /\ pc' = "decode"
    /\ UNCHANGED txVars

-----------------------------------------------------------------------------
(***************************************************************************)
(* Inputs and events.                                                      *)
(***************************************************************************)
Indices(s) == {i \in DOMAIN s : s[i]}

\* The topics after the first: the values of the indexed arguments, in order.
TopicsOf(layout) == InOrder(Indices(layout))

\* Mutant of topicsMap: the first topic, which identifies the event, is not
\* skipped.
topicsMapFromFirst(layout) ==
    LET topics == <<0>> \o TopicsOf(layout)
    IN  [i \in {j \in Indices(layout) : j =< Len(topics)} |-> topics[i]]

\* Topic i is paired with argument i of the event, and dropped if that
\* argument is not indexed.
topicsMap(layout) ==
    LET topics == TopicsOf(layout)
    IN  [i \in {j \in Indices(layout) : j =< Len(topics)} |-> topics[i]]

eventsMap(layout) == [i \in DOMAIN layout \ Indices(layout) |-> i]

\* decodeEventFromLog and decodedLogFromMaps: a topic replaces an argument of
\* the same name.
EventData(layout) ==
    [i \in DOMAIN eventsMap(layout) \cup DOMAIN topicsMap(layout) |->
        IF i \in DOMAIN topicsMap(layout) THEN topicsMap(layout)[i] ELSE eventsMap(layout)[i]]

\* The logs of events that the ABI has, by their position.
KnownLogs(los) == InOrder({i \in DOMAIN los : los[i].kind = "event"})

\* Logs of events that the ABI lacks are skipped; a log without topics is
\* asked for its first one; the first log whose data or topics do not fit the
\* ABI ends the loop with an error.
decodeContractLogs(los) ==
    LET bad == {i \in DOMAIN los : los[i].kind = "anonymous"
                                   \/ los[i].data = "malformed"}
        known == KnownLogs(los)
    IN  IF bad = {}
        THEN [err |-> None, events |-> [k \in DOMAIN known |-> EventData(los[known[k]].layout)]]
        ELSE LET first == CHOOSE i \in bad : \A j \in bad : i =< j
             IN  [err |-> IF los[first].kind = "anonymous" THEN "panic" ELSE "log",
                  events |-> <<>>]

\* decodeTransaction: without a selector or a store there is nothing to decode.
DecodeNothing ==
    /\ pc = "decode"
    /\ pc' = "decoded"
    /\ UNCHANGED txVars

\* The ABI is not found; it does not fit the inputs.
InputErrors == {"abi", "input"}

DecodeInputsFails ==
    /\ pc = "decode" /\ store
    /\ \E e \in InputErrors : decoded' = [Default EXCEPT !.err = e]
    /\ pc' = "decoded"
    /\ UNCHANGED <<reverted, store, replay, code, revertErr, hint, logs>>

\* A reverted transaction has no logs.
DecodeEvents ==
    /\ pc = "decode" /\ store
    /\ logs' \in UNION {[1 .. n -> Logs] : n \in 0 .. IF reverted THEN 0 ELSE MaxLogs}
    /\ decoded' = decodeContractLogs(logs')
    /\ pc' = IF decoded'.err = "panic" THEN "panic" ELSE "decoded"
    /\ UNCHANGED <<reverted, store, replay, code, revertErr, hint>>

TxStep ==
    \/ \E r \in Replays, c \in Codes \cup {NoCode} : RevertReason(r, c)
    \/ NotReverted
    \/ DecodeNothing
    \/ DecodeInputsFails
    \/ DecodeEvents

-----------------------------------------------------------------------------
\* Reference: versions from 0.8.4 on have custom errors.
AtLeast084(v) ==
    \/ v[1] > 0
    \/ v[1] = 0 /\ v[2] > 8
    \/ v[1] = 0 /\ v[2] = 8 /\ v[3] >= 4

(***************************************************************************)
(* callAndGetRevertReason: a reverted transaction is never taken for a     *)
(* successful one, even if its replay at the end of the block succeeds;    *)
(* the error of the ABI is named if and only if the replay returned one    *)
(* that the store knows and can unpack; and a reader is told that custom   *)
(* errors are supported only if the compiler was at least 0.8.4.           *)
(***************************************************************************)
RevertReasonRight ==
    pc \in {"decode", "decoded"} =>
        /\ reverted = (revertErr # None)
        /\ (revertErr = "custom") = (store /\ replay = "known")
        /\ hint = "supported" => AtLeast084(code.version)
        /\ hint = "unsupported" => ~AtLeast084(code.version)

IndexedFirst(layout) == \A i, j \in DOMAIN layout : i < j /\ layout[j] => layout[i]

(***************************************************************************)
(* decodeEventFromLog pairs topics with arguments by position: an event    *)
(* whose indexed arguments come first is decoded completely and every      *)
(* value is under the name of its own argument.                            *)
(***************************************************************************)
EventArgumentsRight ==
    pc = "decoded" /\ decoded.events # <<>> =>
        LET known == KnownLogs(logs) IN
        /\ Len(decoded.events) = Len(known)
        /\ \A k \in DOMAIN known :
              IndexedFirst(logs[known[k]].layout) =>
                  decoded.events[k] = [i \in DOMAIN logs[known[k]].layout |-> i]
=============================================================================
