------------------------------ MODULE ABIFinder ------------------------------
(***************************************************************************)
(* Which contract is at an address: the contract map (contract_map.go) and *)
(* its file, the store of ABIs (contract_store.go), their registration by  *)
(* DeployContract and LoadContract (client.go), and FindABIByMethod        *)
(* (abi_finder.go), called by tracing and decoding goroutines.  Map and    *)
(* store have a lock each, held per operation; FindABIByMethod reads the   *)
(* store without it.                                                       *)
(*                                                                         *)
(* A name stands for itself with or without the suffix .abi, which the     *)
(* code adds and trims; an ABI is the set of its method signatures.        *)
(***************************************************************************)
EXTENDS Naturals, FiniteSets

CONSTANTS
    Contracts,    \* names
    Signatures,
    Methods,      \* the ABI of each name
    Addresses,
    Finders,      \* goroutines that call FindABIByMethod
    UNKNOWN,      \* the address of a creation, or of a call that the trace lacks
    NoName,       \* the empty string
    MaxRestarts   \* bound: processes that run one after the other, less one

ASSUME ABIFinderAssumption ==
    /\ IsFiniteSet(Contracts)
    /\ Methods \in [Contracts -> SUBSET Signatures]
    /\ UNKNOWN \notin Addresses \X {"lower", "checksum"}
    /\ NoName \notin Contracts
    /\ MaxRestarts \in Nat

VARIABLES
    upper,       \* addresses whose checksum has an upper-case letter
    code,        \* chain: the contract that is, or will be, at an address
    onChain,     \* chain: addresses with code
    abiDir,      \* the ABIs in the directory of the configuration
    saves,       \* ShouldSaveDeployedContractMap
    file,        \* the contract map file: addresses written so far
    addressMap,  \* ContractMap, by the key as it is stored
    ABIs,        \* names in the ContractStore
    reg,         \* DeployContract or LoadContract for an address
    pc, to, sig, \* a finder and the arguments of its call
    name,        \* the name it has read from the map
    pick,        \* the ABI it has found
    result,      \* what FindABIByMethod has returned
    restarts

chain == <<upper, code, onChain>>
config == <<abiDir, saves>>
finder == <<pc, to, sig, name, pick, result>>
vars == <<chain, config, file, addressMap, ABIs, reg, finder, restarts>>

\* An address as a string.  Hex() writes its checksum in the case of its letters,
\* which leaves all of them in lower case for some addresses.
AddressStrings == Addresses \X {"lower", "checksum"}
ToLower(str) == <<str[1], "lower">>
Hex(a) == <<a, IF a \in upper THEN "checksum" ELSE "lower">>

NoResult == [name |-> NoName, dup |-> 0, error |-> "none", guessed |-> FALSE]

All(x) == [f \in Finders |-> x]

\* LoadDeployedContracts: the keys of the new map are written with Hex().
Loaded(entries) ==
    [str \in AddressStrings |->
        IF str[1] \in entries /\ str = Hex(str[1]) THEN code[str[1]] ELSE NoName]

Init ==
    /\ upper \in SUBSET Addresses
    /\ code \in [Addresses -> Contracts]
    /\ onChain \in SUBSET Addresses
    /\ abiDir \in SUBSET Contracts
    /\ saves \in BOOLEAN
    /\ file = {}
    /\ addressMap = Loaded({})
    /\ ABIs = abiDir
    /\ reg = [a \in Addresses |-> "none"]
    /\ pc = All("idle") /\ to = All(UNKNOWN) /\ sig = All({})
    /\ name = All(NoName) /\ pick = All(NoName) /\ result = All(NoResult)
    /\ restarts = 0

(***************************************************************************)
(* ContractMap and ContractStore: one operation under the lock.            *)
(***************************************************************************)
NameOf(str) == IF str = UNKNOWN THEN NoName ELSE addressMap[ToLower(str)]
IsKnownAddress(str) == NameOf(str) # NoName

AddContract(str, n) ==
    addressMap' =
        IF str = UNKNOWN THEN addressMap ELSE [addressMap EXCEPT ![ToLower(str)] = n]

AddABI(n) == ABIs' = ABIs \cup {n}

(***************************************************************************)
(* DeployContract: the transaction has been sent; name first, then ABI,    *)
(* then the wait, then the file.                                           *)
(***************************************************************************)
RegStep(a, from, next) == reg[a] = from /\ reg' = [reg EXCEPT ![a] = next]

DeployNamed(a) ==
    /\ a \notin onChain
    /\ RegStep(a, "none", "named")
    /\ AddContract(Hex(a), code[a])
    /\ UNCHANGED <<chain, config, file, ABIs, finder, restarts>>

\* Mutant of DeployABI: the ABI is left to the directory of the configuration.
DeployABIForgets(a) ==
    /\ RegStep(a, "named", "waiting")
    /\ UNCHANGED <<chain, config, file, addressMap, ABIs, finder, restarts>>

\* An ABI of that name is kept.
DeployABI(a) ==
    /\ RegStep(a, "named", "waiting")
    /\ AddABI(code[a])
    /\ UNCHANGED <<chain, config, file, addressMap, finder, restarts>>

\* An entry is appended; if that fails a warning is logged.
SaveDeployedContract(a) == file' \in {file, file \cup {a}}

Deployed(a) ==
    /\ RegStep(a, "waiting", "done")
    /\ a \in onChain
    /\ IF saves THEN SaveDeployedContract(a) ELSE UNCHANGED file
    /\ UNCHANGED <<chain, config, addressMap, ABIs, finder, restarts>>

DeployGivesUp(a) ==
    /\ RegStep(a, "waiting", "done")
    /\ UNCHANGED <<chain, config, file, addressMap, ABIs, finder, restarts>>

Mined(a) ==
    /\ reg[a] \in {"named", "waiting"} /\ a \notin onChain
    /\ onChain' = onChain \cup {a}
    /\ UNCHANGED <<upper, code, config, file, addressMap, ABIs, reg, finder, restarts>>

(***************************************************************************)
(* LoadContract: ABI first, then the name.                                 *)
(***************************************************************************)
LoadABI(a) ==
    /\ a \in onChain
    /\ RegStep(a, "none", "loaded")
    /\ AddABI(code[a])
    /\ UNCHANGED <<chain, config, file, addressMap, finder, restarts>>

LoadNamed(a) ==
    /\ RegStep(a, "loaded", "done")
    /\ AddContract(Hex(a), code[a])
    /\ UNCHANGED <<chain, config, file, ABIs, finder, restarts>>

(***************************************************************************)
(* FindABIByMethod.                                                        *)
(***************************************************************************)
Goto(f, l) == pc' = [pc EXCEPT ![f] = l]

HasMethod(n, f) == sig[f] \subseteq Methods[n]
Matching(f) == {n \in ABIs : HasMethod(n, f)}

\* The caller has a call to a contract on the chain, by any selector, or one
\* whose address it does not know.
Called ==
    {str \in AddressStrings : str[1] \in onChain /\ str \in {ToLower(str), Hex(str[1])}}
        \cup {UNKNOWN}

Call(f, str, s) ==
    /\ pc[f] = "idle"
    /\ to' = [to EXCEPT ![f] = str]
    /\ sig' = [sig EXCEPT ![f] = {s}]
    /\ result' = [result EXCEPT ![f] = NoResult]
    /\ Goto(f, IF IsKnownAddress(str) THEN "known" ELSE "search")
    /\ UNCHANGED <<chain, config, file, addressMap, ABIs, reg, name, pick, restarts>>

GetContractName(f) ==
    /\ pc[f] = "known"
    /\ name' = [name EXCEPT ![f] = NameOf(to[f])]
    /\ Goto(f, "lookup")
    /\ UNCHANGED <<chain, config, file, addressMap, ABIs, reg, to, sig, pick, result, restarts>>

Return(f, r) ==
    /\ result' = [result EXCEPT ![f] = r]
    /\ name' = [name EXCEPT ![f] = NoName]
    /\ pick' = [pick EXCEPT ![f] = NoName]
    /\ Goto(f, "idle")

\* Mutant of Decided: the mapping is not trusted, the store is always searched.
DecidedNever(f) == FALSE

\* The ABI of the known name is missing, or has the method, or has not.
Decided(f) == HasMethod(name[f], f)

LookupABI(f) ==
    /\ pc[f] = "lookup"
    /\ \/ /\ name[f] \notin ABIs
          /\ Return(f, [NoResult EXCEPT !.error = "NoAbiFound"])
       \/ /\ name[f] \in ABIs /\ Decided(f)
          /\ Return(f, [NoResult EXCEPT !.name = name[f]])
       \/ /\ name[f] \in ABIs /\ ~Decided(f)
          /\ Goto(f, "search")
          /\ UNCHANGED <<name, pick, result>>
    /\ UNCHANGED <<chain, config, file, addressMap, ABIs, reg, to, sig, restarts>>

\* The loop over the store, in any order, stops at the first match.  There is
\* one for an unknown address and one for a name that lacks the method.
Search(f) ==
    /\ pc[f] = "search"
    /\ \/ /\ Matching(f) = {}
          /\ Return(f, [NoResult EXCEPT !.error =
                IF name[f] = NoName THEN "NoABIMethod" ELSE "MethodById"])
       \/ \E n \in Matching(f) :
          /\ pick' = [pick EXCEPT ![f] = n]
          /\ Goto(f, "add")
          /\ UNCHANGED <<name, result>>
    /\ UNCHANGED <<chain, config, file, addressMap, ABIs, reg, to, sig, restarts>>

UpdateMapping(f) ==
    /\ pc[f] = "add"
    /\ AddContract(to[f], pick[f])
    /\ Goto(f, "count")
    /\ UNCHANGED <<chain, config, file, ABIs, reg, to, sig, name, pick, result, restarts>>

\* Mutant of getDuplicateCount: only ABIs added at run time are counted.
getDuplicateCountAdded(f) == Cardinality(Matching(f) \ (abiDir \cup {pick[f]}))

getDuplicateCount(f) == Cardinality(Matching(f)) - 1

CountDuplicates(f) ==
    /\ pc[f] = "count"
    /\ Return(f, [name |-> pick[f], dup |-> getDuplicateCount(f), error |-> "none",
                  guessed |-> TRUE])
    /\ UNCHANGED <<chain, config, file, addressMap, ABIs, reg, to, sig, restarts>>

(***************************************************************************)
(* The process ends at any point, which is also what the runtime does when *)
(* it catches FindABIByMethod iterating over the store during an AddABI,   *)
(* and a new one starts from the same configuration with the file as its   *)
(* contract_map_file.                                                      *)
(***************************************************************************)
Restart ==
    /\ restarts < MaxRestarts
    /\ restarts' = restarts + 1
    /\ addressMap' = Loaded(file)
    /\ ABIs' = abiDir
    /\ reg' = [a \in Addresses |-> "none"]
    /\ pc' = All("idle") /\ to' = All(UNKNOWN) /\ sig' = All({})
    /\ name' = All(NoName) /\ pick' = All(NoName) /\ result' = All(NoResult)
    /\ UNCHANGED <<chain, config, file>>

Next ==
    \/ \E a \in Addresses :
          \/ DeployNamed(a) \/ DeployABI(a) \/ Deployed(a) \/ DeployGivesUp(a) \/ Mined(a)
          \/ LoadABI(a) \/ LoadNamed(a)
    \/ \E f \in Finders :
          \/ \E str \in Called, s \in Signatures : Call(f, str, s)
          \/ GetContractName(f) \/ LookupABI(f) \/ Search(f) \/ UpdateMapping(f)
          \/ CountDuplicates(f)
    \/ Restart

Spec == Init /\ [][Next]_vars

-----------------------------------------------------------------------------
\* The call of a finder was to a method of the contract at the address, not to
\* its fallback.
RealMethod(f) ==
    /\ to[f] # UNKNOWN
    /\ sig[f] \subseteq Methods[code[to[f][1]]]

\* The process has taken the name of the address from the contract map file,
\* whose names are not checked against the store (docs/abi_finder_contract_map.md).
FromFile(a) == a \in file /\ restarts > 0 /\ NameOf(Hex(a)) = code[a]

\* A name that a lookup finds in the map has an ABI in the store, except
\* while DeployContract of that address is between its two registrations, or if
\* it is the contract's own name and comes from the contract map file: guesses
\* never leave a name for which FindABIByMethod reports a known contract
\* without an ABI, which it calls a corrupted contract map.
MappedHasABI ==
    \A a \in Addresses :
        NameOf(Hex(a)) \in ABIs \cup {NoName} \/ reg[a] = "named" \/ FromFile(a)

\* The right name of an address is replaced by a wrong one only by a finder
\* that read the map before the name was right, or that looks up a method the
\* contract does not have: once right, a name survives every later lookup of
\* its own methods.
RightMappingKept ==
    [][\A a \in Addresses :
          restarts' = restarts /\ NameOf(Hex(a)) = code[a] /\ NameOf(Hex(a))' # code[a] =>
              \E f \in Finders :
                  /\ pc[f] = "add" /\ to[f] # UNKNOWN /\ to[f][1] = a
                  /\ name[f] # code[a] \/ ~RealMethod(f)]_vars

\* A wrong contract found by searching the store is marked as potentially
\* inaccurate (DuplicateCount > 0) if the right ABI was in the store from the
\* start, also when ABIs are added between the search and the count.
WrongGuessFlagged ==
    \A f \in Finders :
        result[f].guessed /\ RealMethod(f) =>
            LET real == code[to[f][1]] IN
            real \in abiDir /\ result[f].name # real => result[f].dup > 0

\* A contract whose address was saved to the contract map file is known, in
\* this process and in those that load the file.
SavedContractsKnown == \A a \in file : IsKnownAddress(Hex(a))
=============================================================================
