--------------------------- MODULE ABIFinderProofs ---------------------------
(***************************************************************************)
(* Theorems about the contract map, the contract store and                 *)
(* FindABIByMethod, for any contracts, addresses, numbers of goroutines    *)
(* and restarts.                                                           *)
(***************************************************************************)
EXTENDS ABIFinder, FiniteSetTheorems, TLAPS

Names == Contracts \cup {NoName}

Shape ==
    /\ code \in [Addresses -> Contracts]
    /\ abiDir \subseteq ABIs /\ ABIs \subseteq Contracts
    /\ addressMap \in [AddressStrings -> Names]
    /\ reg \in [Addresses -> {"none", "named", "waiting", "loaded", "done"}]
    /\ pc \in [Finders -> {"idle", "known", "lookup", "search", "add", "count"}]
    /\ to \in [Finders -> AddressStrings \cup {UNKNOWN}]
    /\ sig \in [Finders -> SUBSET Signatures]
    /\ name \in [Finders -> Names] /\ pick \in [Finders -> Names]
    /\ DOMAIN result = Finders
    /\ restarts \in Nat

\* LoadContract has put the ABI in the store before the name; DeployContract and
\* the contract map file have not, but then the name is the contract's own.
AddressInv(a) ==
    /\ reg[a] = "loaded" => code[a] \in ABIs
    /\ addressMap[<<a, "lower">>] \in ABIs \cup {NoName}
          \/ /\ reg[a] = "named" \/ (a \in file /\ restarts > 0)
             /\ addressMap[<<a, "lower">>] = code[a]

\* A finder has a name between GetContractName and its return only, it goes on
\* to search only when the ABI of that name lacks the method, and what it picks
\* has an ABI with the method.
FinderInv(f) ==
    /\ pc[f] \in {"idle", "known"} => name[f] = NoName
    /\ pc[f] \in {"search", "add"} /\ name[f] # NoName => ~(sig[f] \subseteq Methods[name[f]])
    /\ pc[f] \in {"add", "count"} => pick[f] \in ABIs /\ sig[f] \subseteq Methods[pick[f]]

\* WrongGuessFlagged for one finder.
Flagged(f) ==
    result[f].guessed /\ to[f] # UNKNOWN /\ sig[f] \subseteq Methods[code[to[f][1]]] =>
        (code[to[f][1]] \in abiDir /\ result[f].name # code[to[f][1]] => result[f].dup > 0)

FinderInvs == \A f \in Finders : FinderInv(f) /\ Flagged(f)

ABIInv == Shape /\ (\A a \in Addresses : AddressInv(a)) /\ FinderInvs

-----------------------------------------------------------------------------
(* Addresses as strings. *)

LEMMA LowerIsString ==
  \A a \in Addresses : <<a, "lower">> \in AddressStrings /\ <<a, "checksum">> \in AddressStrings
  BY DEF AddressStrings

LEMMA HexIsString ==
  ASSUME NEW a \in Addresses
  PROVE  Hex(a) \in AddressStrings /\ Hex(a)[1] = a
<1>1. CASE a \in upper
  BY <1>1, LowerIsString DEF Hex
<1>2. CASE a \notin upper
  BY <1>2, LowerIsString DEF Hex
<1>3. QED
  BY <1>1, <1>2

LEMMA StringAddress ==
  \A str \in AddressStrings : str[1] \in Addresses /\ ToLower(str) = <<str[1], "lower">>
                              /\ str # UNKNOWN
  BY ABIFinderAssumption DEF AddressStrings, ToLower

\* A lookup of an address reads the key in lower case.
LEMMA NameOfHex ==
  ASSUME NEW a \in Addresses
  PROVE  Hex(a) # UNKNOWN /\ NameOf(Hex(a)) = addressMap[<<a, "lower">>]
<1>1. Hex(a) \in AddressStrings /\ Hex(a)[1] = a
  BY HexIsString
<1>2. Hex(a) # UNKNOWN /\ ToLower(Hex(a)) = <<a, "lower">>
  BY <1>1, StringAddress
<1>3. QED
  BY <1>2 DEF NameOf

LEMMA NameOfHexPrimed ==
  ASSUME NEW a \in Addresses
  PROVE  NameOf(Hex(a))' = addressMap'[<<a, "lower">>]
<1>1. Hex(a)' = <<a, "lower">> \/ Hex(a)' = <<a, "checksum">>
  BY DEF Hex
<1>2. ASSUME NEW str \in {<<a, "lower">>, <<a, "checksum">>}
      PROVE  str # UNKNOWN /\ ToLower(str) = <<a, "lower">>
  BY <1>2, LowerIsString, StringAddress
<1>3. Hex(a)' # UNKNOWN /\ ToLower(Hex(a)') = <<a, "lower">>
  BY <1>1, <1>2
<1>4. QED
  BY <1>3 DEF NameOf, ToLower

LEMMA NameOfType ==
  ASSUME Shape, NEW str \in AddressStrings \cup {UNKNOWN}
  PROVE  NameOf(str) \in Names
<1>1. CASE str = UNKNOWN
  BY <1>1 DEF NameOf, Names
<1>2. CASE str # UNKNOWN
  <2>1. ToLower(str) \in AddressStrings
    BY <1>2, StringAddress, LowerIsString
  <2>2. QED
    BY <1>2, <2>1 DEF NameOf, Shape
<1>3. QED
  BY <1>1, <1>2

\* What a new process finds for an address is nothing or its own name.
LEMMA LoadedNames ==
  ASSUME Shape, NEW entries
  PROVE  /\ Loaded(entries) \in [AddressStrings -> Names]
         /\ \A a \in Addresses :
               \/ Loaded(entries)[<<a, "lower">>] = NoName
               \/ a \in entries /\ Loaded(entries)[<<a, "lower">>] = code[a]
<1>1. ASSUME NEW str \in AddressStrings
      PROVE  /\ Loaded(entries)[str] \in Names
             /\ Loaded(entries)[str] = NoName \/ (str[1] \in entries /\ Loaded(entries)[str] = code[str[1]])
  BY <1>1, StringAddress DEF Loaded, Shape, Names
<1>2. Loaded(entries) \in [AddressStrings -> Names]
  BY <1>1 DEF Loaded
<1>3. ASSUME NEW a \in Addresses PROVE <<a, "lower">> \in AddressStrings /\ <<a, "lower">>[1] = a
  BY LowerIsString
<1>4. QED
  BY <1>1, <1>2, <1>3

-----------------------------------------------------------------------------
(* The steps. *)

LEMMA ABIInit == Init => ABIInv
<1> SUFFICES ASSUME Init PROVE ABIInv
  OBVIOUS
<1>1. /\ addressMap = Loaded({}) /\ ABIs = abiDir /\ abiDir \subseteq Contracts
      /\ code \in [Addresses -> Contracts]
      /\ reg = [a \in Addresses |-> "none"]
      /\ pc = [f \in Finders |-> "idle"] /\ to = [f \in Finders |-> UNKNOWN]
      /\ sig = [f \in Finders |-> {}]
      /\ name = [f \in Finders |-> NoName] /\ pick = [f \in Finders |-> NoName]
      /\ result = [f \in Finders |-> NoResult] /\ restarts = 0
  BY DEF Init, All
<1>2. ASSUME NEW str \in AddressStrings PROVE Loaded({})[str] = NoName
  BY <1>2 DEF Loaded
<1>3. addressMap \in [AddressStrings -> Names]
  BY <1>1, <1>2 DEF Loaded, Names
<1>4. Shape
  BY <1>1, <1>3 DEF Shape, Names
<1>5. \A a \in Addresses : AddressInv(a)
  BY <1>1, <1>2, LowerIsString DEF AddressInv
<1>6. FinderInvs
  BY <1>1 DEF FinderInvs, FinderInv, Flagged
<1>7. QED
  BY <1>4, <1>5, <1>6 DEF ABIInv

\* The registrations leave the finders alone, and the store only grows.
LEMMA FindersKept ==
  ASSUME FinderInvs, UNCHANGED <<code, abiDir, finder>>, ABIs \subseteq ABIs'
  PROVE  FinderInvs'
  BY DEF FinderInvs, FinderInv, Flagged, finder

LEMMA AddressesKept ==
  ASSUME \A a \in Addresses : AddressInv(a), UNCHANGED <<code, reg, addressMap, restarts>>,
         ABIs \subseteq ABIs', file \subseteq file'
  PROVE  (\A a \in Addresses : AddressInv(a))'
  BY DEF AddressInv

\* A step of one registration that gives its address the name n, or none.
LEMMA RegisterKeeps ==
  ASSUME ABIInv, NEW a \in Addresses, NEW from, NEW next \in {"named", "waiting", "loaded", "done"},
         RegStep(a, from, next), UNCHANGED <<code, abiDir, finder, restarts>>,
         addressMap' = addressMap \/ AddContract(Hex(a), code[a]),
         ABIs' = ABIs \/ AddABI(code[a]), file \subseteq file',
         AddressInv(a)'
  PROVE  ABIInv'
<1>1. code[a] \in Contracts
  BY DEF ABIInv, Shape
<1>2. ABIs \subseteq ABIs' /\ ABIs' \subseteq Contracts
  BY <1>1 DEF AddABI, ABIInv, Shape
<1>3. ToLower(Hex(a)) = <<a, "lower">> /\ Hex(a) # UNKNOWN
  BY NameOfHex DEF ToLower, Hex
<1>4. addressMap' = addressMap \/ addressMap' = [addressMap EXCEPT ![<<a, "lower">>] = code[a]]
  BY <1>3 DEF AddContract
<1>5. addressMap' \in [AddressStrings -> Names]
  BY <1>1, <1>4 DEF ABIInv, Shape, Names
<1>6. \A b \in Addresses \ {a} : addressMap'[<<b, "lower">>] = addressMap[<<b, "lower">>]
  BY <1>4, LowerIsString DEF ABIInv, Shape
<1>7. reg' = [reg EXCEPT ![a] = next]
  BY DEF RegStep
<1>8. \A b \in Addresses \ {a} : reg'[b] = reg[b]
  BY <1>7 DEF ABIInv, Shape
<1>9. Shape'
  BY <1>2, <1>5, <1>7 DEF ABIInv, Shape, finder
<1>10. \A b \in Addresses \ {a} : AddressInv(b)'
  BY <1>2, <1>6, <1>8 DEF ABIInv, AddressInv
<1>11. FinderInvs'
  BY <1>2, FindersKept DEF ABIInv
<1>12. QED
  BY <1>9, <1>10, <1>11 DEF ABIInv

\* What a registration does to its own address.
LEMMA OwnAddress ==
  ASSUME ABIInv, NEW a \in Addresses
  PROVE  /\ AddContract(Hex(a), code[a]) => addressMap'[<<a, "lower">>] = code[a]
         /\ \A from, next : RegStep(a, from, next) => reg[a] = from /\ reg'[a] = next
<1>1. ToLower(Hex(a)) = <<a, "lower">> /\ Hex(a) # UNKNOWN /\ <<a, "lower">> \in AddressStrings
  BY NameOfHex, LowerIsString DEF ToLower, Hex
<1>2. QED
  BY <1>1 DEF AddContract, RegStep, ABIInv, Shape

LEMMA RegistrationKeeps ==
  ASSUME ABIInv, NEW a \in Addresses,
         \/ DeployNamed(a) \/ DeployABI(a) \/ Deployed(a) \/ DeployGivesUp(a) \/ Mined(a)
         \/ LoadABI(a) \/ LoadNamed(a)
  PROVE  ABIInv'
<1>a. AddressInv(a)
  BY DEF ABIInv
<1>1. CASE DeployNamed(a)
  <2>1. /\ RegStep(a, "none", "named") /\ AddContract(Hex(a), code[a])
        /\ UNCHANGED <<code, abiDir, file, ABIs, finder, restarts>>
    BY <1>1 DEF DeployNamed, chain, config
  <2>2. AddressInv(a)'
    BY <2>1, OwnAddress DEF AddressInv
  <2>3. QED
    BY <2>1, <2>2, RegisterKeeps
<1>2. CASE DeployABI(a)
  <2>1. /\ RegStep(a, "named", "waiting") /\ AddABI(code[a])
        /\ UNCHANGED <<code, abiDir, file, addressMap, finder, restarts>>
    BY <1>2 DEF DeployABI, chain, config
  <2>2. AddressInv(a)'
    BY <2>1, <1>a, OwnAddress DEF AddressInv, AddABI
  <2>3. QED
    BY <2>1, <2>2, RegisterKeeps
<1>3. CASE Deployed(a) \/ DeployGivesUp(a)
  <2>1. /\ RegStep(a, "waiting", "done")
        /\ UNCHANGED <<code, abiDir, addressMap, ABIs, finder, restarts>>
        /\ file \subseteq file'
    BY <1>3 DEF Deployed, DeployGivesUp, SaveDeployedContract, chain, config
  <2>2. AddressInv(a)'
    BY <2>1, <1>a, OwnAddress DEF AddressInv
  <2>3. QED
    BY <2>1, <2>2, RegisterKeeps
<1>4. CASE LoadABI(a)
  <2>1. /\ RegStep(a, "none", "loaded") /\ AddABI(code[a])
        /\ UNCHANGED <<code, abiDir, file, addressMap, finder, restarts>>
    BY <1>4 DEF LoadABI, chain, config
  <2>2. AddressInv(a)'
    BY <2>1, <1>a, OwnAddress DEF AddressInv, AddABI
  <2>3. QED
    BY <2>1, <2>2, RegisterKeeps
<1>5. CASE LoadNamed(a)
  <2>1. /\ RegStep(a, "loaded", "done") /\ AddContract(Hex(a), code[a])
        /\ UNCHANGED <<code, abiDir, file, ABIs, finder, restarts>>
    BY <1>5 DEF LoadNamed, chain, config
  <2>2. AddressInv(a)'
    BY <2>1, <1>a, OwnAddress DEF AddressInv
  <2>3. QED
    BY <2>1, <2>2, RegisterKeeps
<1>6. CASE Mined(a)
  <2>1. UNCHANGED <<code, abiDir, file, addressMap, ABIs, reg, finder, restarts>>
    BY <1>6 DEF Mined, config
  <2>2. QED
    BY <2>1, FindersKept, AddressesKept DEF ABIInv, Shape, finder
<1>7. QED
  BY <1>1, <1>2, <1>3, <1>4, <1>5, <1>6

\* What a step of finder f leaves alone.
OthersKept(f) ==
    /\ UNCHANGED <<code, abiDir, file, ABIs, reg, restarts>>
    /\ \A g \in Finders \ {f} :
          /\ pc'[g] = pc[g] /\ to'[g] = to[g] /\ sig'[g] = sig[g] /\ name'[g] = name[g]
          /\ pick'[g] = pick[g] /\ result'[g] = result[g]

LEMMA FinderKeeps ==
  ASSUME ABIInv, NEW f \in Finders, OthersKept(f), Shape', FinderInv(f)', Flagged(f)',
         addressMap' = addressMap \/ (\A a \in Addresses : AddressInv(a))'
  PROVE  ABIInv'
<1>1. ASSUME NEW g \in Finders \ {f} PROVE FinderInv(g)' /\ Flagged(g)'
  <2>1. FinderInv(g) /\ Flagged(g)
    BY DEF ABIInv, FinderInvs
  <2>2. QED
    BY <2>1 DEF OthersKept, FinderInv, Flagged
<1>2. FinderInvs'
  BY <1>1 DEF FinderInvs
<1>3. (\A a \in Addresses : AddressInv(a))'
  BY AddressesKept DEF ABIInv, OthersKept
<1>4. QED
  BY <1>2, <1>3 DEF ABIInv

LEMMA CallKeeps ==
  ASSUME ABIInv, NEW f \in Finders, NEW str \in Called, NEW s \in Signatures, Call(f, str, s)
  PROVE  ABIInv'
<1> DEFINE l == IF IsKnownAddress(str) THEN "known" ELSE "search"
<1>1. str \in AddressStrings \cup {UNKNOWN} /\ l \in {"known", "search"}
  BY DEF Called
<1>2. /\ pc[f] = "idle" /\ pc' = [pc EXCEPT ![f] = l] /\ to' = [to EXCEPT ![f] = str]
      /\ sig' = [sig EXCEPT ![f] = {s}] /\ result' = [result EXCEPT ![f] = NoResult]
      /\ UNCHANGED <<code, abiDir, file, addressMap, ABIs, reg, name, pick, restarts>>
  BY DEF Call, Goto, chain, config
<1> HIDE DEF l
<1>3. Shape'
  BY <1>1, <1>2 DEF ABIInv, Shape
<1>4. OthersKept(f) /\ pc'[f] = l /\ result'[f] = NoResult
  BY <1>2 DEF OthersKept, ABIInv, Shape
<1>5. name'[f] = NoName
  BY <1>2 DEF ABIInv, FinderInvs, FinderInv
<1>6. FinderInv(f)' /\ Flagged(f)'
  BY <1>1, <1>4, <1>5 DEF FinderInv, Flagged, NoResult
<1>7. QED
  BY <1>2, <1>3, <1>4, <1>6, FinderKeeps

LEMMA GetContractNameKeeps ==
  ASSUME ABIInv, NEW f \in Finders, GetContractName(f)
  PROVE  ABIInv'
<1> DEFINE n == NameOf(to[f])
<1>1. n \in Names
  BY NameOfType DEF ABIInv, Shape
<1>2. /\ pc' = [pc EXCEPT ![f] = "lookup"] /\ name' = [name EXCEPT ![f] = n]
      /\ UNCHANGED <<code, abiDir, file, addressMap, ABIs, reg, to, sig, pick, result, restarts>>
  BY DEF GetContractName, Goto, chain, config
<1> HIDE DEF n
<1>3. Shape'
  BY <1>1, <1>2 DEF ABIInv, Shape
<1>4. OthersKept(f) /\ pc'[f] = "lookup"
  BY <1>2 DEF OthersKept, ABIInv, Shape
<1>5. FinderInv(f)' /\ Flagged(f)'
  BY <1>2, <1>4 DEF ABIInv, FinderInvs, FinderInv, Flagged
<1>6. QED
  BY <1>2, <1>3, <1>4, <1>5, FinderKeeps

\* FindABIByMethod returns r; a guess is a pick that r flags.
LEMMA ReturnKeeps ==
  ASSUME ABIInv, NEW f \in Finders, NEW r, Return(f, r),
         UNCHANGED <<code, abiDir, file, addressMap, ABIs, reg, to, sig, restarts>>,
         r.guessed => r.dup = getDuplicateCount(f) /\ r.name \in Matching(f)
  PROVE  ABIInv'
<1>1. /\ pc' = [pc EXCEPT ![f] = "idle"] /\ name' = [name EXCEPT ![f] = NoName]
      /\ pick' = [pick EXCEPT ![f] = NoName] /\ result' = [result EXCEPT ![f] = r]
  BY DEF Return, Goto
<1>2. Shape'
  BY <1>1 DEF ABIInv, Shape, Names
<1>3. OthersKept(f) /\ pc'[f] = "idle" /\ name'[f] = NoName /\ result'[f] = r
  BY <1>1 DEF OthersKept, ABIInv, Shape
<1>4. FinderInv(f)'
  BY <1>3 DEF FinderInv
<1>5. ASSUME r.guessed, to[f] # UNKNOWN, sig[f] \subseteq Methods[code[to[f][1]]],
             code[to[f][1]] \in abiDir, r.name # code[to[f][1]]
      PROVE  r.dup > 0
  <2> DEFINE real == code[to[f][1]]
  <2> DEFINE M == Matching(f)
  <2>1. real \in M /\ r.name \in M /\ M \subseteq Contracts
    BY <1>5 DEF Matching, HasMethod, ABIInv, Shape
  <2>2. IsFiniteSet(M)
    BY <2>1, FS_Subset, ABIFinderAssumption
  <2>3. IsFiniteSet({real, r.name}) /\ Cardinality({real, r.name}) = 2
    <3>1. IsFiniteSet({real}) /\ Cardinality({real}) = 1
      BY FS_Singleton
    <3>2. {real, r.name} = {real} \cup {r.name} /\ r.name \notin {real}
      BY <1>5
    <3>3. IsFiniteSet({real} \cup {r.name}) /\ Cardinality({real} \cup {r.name}) = 1 + 1
      BY <3>1, <3>2, FS_AddElement
    <3>4. QED
      BY <3>2, <3>3
  <2>4. Cardinality({real, r.name}) =< Cardinality(M)
    BY <2>1, <2>2, FS_Subset
  <2>5. Cardinality(M) \in Nat
    BY <2>2, FS_CardinalityType
  <2>6. r.dup = Cardinality(M) - 1
    BY <1>5 DEF getDuplicateCount
  <2> HIDE DEF M, real
  <2>7. QED
    BY <2>3, <2>4, <2>5, <2>6
<1>6. Flagged(f)'
  BY <1>3, <1>5 DEF Flagged
<1>7. QED
  BY <1>2, <1>3, <1>4, <1>6, FinderKeeps

LEMMA LookupABIKeeps ==
  ASSUME ABIInv, NEW f \in Finders, LookupABI(f)
  PROVE  ABIInv'
<1>1. pc[f] = "lookup" /\ UNCHANGED <<code, abiDir, file, addressMap, ABIs, reg, to, sig, restarts>>
  BY DEF LookupABI, chain, config
<1>2. CASE Return(f, [NoResult EXCEPT !.error = "NoAbiFound"])
  BY <1>1, <1>2, ReturnKeeps DEF NoResult
<1>3. CASE Return(f, [NoResult EXCEPT !.name = name[f]])
  BY <1>1, <1>3, ReturnKeeps DEF NoResult
<1>4. CASE name[f] \in ABIs /\ ~Decided(f) /\ Goto(f, "search") /\ UNCHANGED <<name, pick, result>>
  <2>1. pc' = [pc EXCEPT ![f] = "search"]
    BY <1>4 DEF Goto
  <2>2. Shape'
    BY <1>1, <1>4, <2>1 DEF ABIInv, Shape
  <2>3. OthersKept(f) /\ pc'[f] = "search"
    BY <1>1, <1>4, <2>1 DEF OthersKept, ABIInv, Shape
  <2>4. FinderInv(f)' /\ Flagged(f)'
    BY <1>1, <1>4, <2>3 DEF ABIInv, FinderInvs, FinderInv, Flagged, Decided, HasMethod
  <2>5. QED
    BY <1>1, <2>2, <2>3, <2>4, FinderKeeps
<1>5. QED
  BY <1>2, <1>3, <1>4 DEF LookupABI

LEMMA SearchKeeps ==
  ASSUME ABIInv, NEW f \in Finders, Search(f)
  PROVE  ABIInv'
<1>1. pc[f] = "search" /\ UNCHANGED <<code, abiDir, file, addressMap, ABIs, reg, to, sig, restarts>>
  BY DEF Search, chain, config
<1>2. ASSUME NEW e, Return(f, [NoResult EXCEPT !.error = e]) PROVE ABIInv'
  BY <1>1, <1>2, ReturnKeeps DEF NoResult
<1>3. ASSUME NEW n \in Matching(f), pick' = [pick EXCEPT ![f] = n], Goto(f, "add"),
             UNCHANGED <<name, result>>
      PROVE  ABIInv'
  <2>1. pc' = [pc EXCEPT ![f] = "add"] /\ n \in ABIs /\ sig[f] \subseteq Methods[n]
    BY <1>3 DEF Goto, Matching, HasMethod
  <2>2. Shape'
    BY <1>1, <1>3, <2>1 DEF ABIInv, Shape, Names
  <2>3. OthersKept(f) /\ pc'[f] = "add" /\ pick'[f] = n
    BY <1>1, <1>3, <2>1 DEF OthersKept, ABIInv, Shape
  <2>4. FinderInv(f)' /\ Flagged(f)'
    BY <1>1, <1>3, <2>1, <2>3 DEF ABIInv, FinderInvs, FinderInv, Flagged
  <2>5. QED
    BY <1>1, <2>2, <2>3, <2>4, FinderKeeps
<1>4. QED
  BY <1>2, <1>3 DEF Search

\* The mapping that a finder writes: to an address string, under its lower case.
LEMMA Written ==
  ASSUME ABIInv, NEW f \in Finders, UpdateMapping(f), to[f] # UNKNOWN
  PROVE  /\ to[f][1] \in Addresses
         /\ addressMap' = [addressMap EXCEPT ![<<to[f][1], "lower">>] = pick[f]]
         /\ pick[f] \in ABIs
<1>1. to[f] \in AddressStrings
  BY DEF ABIInv, Shape
<1>2. QED
  BY <1>1, StringAddress DEF UpdateMapping, AddContract, ABIInv, FinderInvs, FinderInv

LEMMA UpdateMappingKeeps ==
  ASSUME ABIInv, NEW f \in Finders, UpdateMapping(f)
  PROVE  ABIInv'
<1>1. /\ pc[f] = "add" /\ pc' = [pc EXCEPT ![f] = "count"]
      /\ UNCHANGED <<code, abiDir, file, ABIs, reg, to, sig, name, pick, result, restarts>>
  BY DEF UpdateMapping, Goto, chain, config
<1>2. addressMap' = addressMap \/ to[f] # UNKNOWN
  BY DEF UpdateMapping, AddContract
<1>3. addressMap' \in [AddressStrings -> Names]
  BY <1>2, Written DEF ABIInv, Shape, Names
<1>4. ASSUME NEW a \in Addresses PROVE AddressInv(a)'
  <2>1. \/ addressMap'[<<a, "lower">>] = addressMap[<<a, "lower">>]
        \/ addressMap'[<<a, "lower">>] \in ABIs
    BY <1>2, Written, LowerIsString DEF ABIInv, Shape
  <2>2. AddressInv(a)
    BY DEF ABIInv
  <2>3. QED
    BY <1>1, <2>1, <2>2 DEF AddressInv
<1>5. Shape'
  BY <1>1, <1>3 DEF ABIInv, Shape
<1>6. OthersKept(f) /\ pc'[f] = "count"
  BY <1>1 DEF OthersKept, ABIInv, Shape
<1>7. FinderInv(f)' /\ Flagged(f)'
  BY <1>1, <1>6 DEF ABIInv, FinderInvs, FinderInv, Flagged
<1>8. QED
  BY <1>4, <1>5, <1>6, <1>7, FinderKeeps

LEMMA CountKeeps ==
  ASSUME ABIInv, NEW f \in Finders, CountDuplicates(f)
  PROVE  ABIInv'
<1> DEFINE r == [name |-> pick[f], dup |-> getDuplicateCount(f), error |-> "none", guessed |-> TRUE]
<1>1. Return(f, r) /\ UNCHANGED <<code, abiDir, file, addressMap, ABIs, reg, to, sig, restarts>>
  BY DEF CountDuplicates, chain, config
<1>2. pick[f] \in Matching(f)
  BY DEF CountDuplicates, Matching, HasMethod, ABIInv, FinderInvs, FinderInv
<1>3. r.dup = getDuplicateCount(f) /\ r.name \in Matching(f)
  BY <1>2
<1> HIDE DEF r
<1>4. QED
  BY <1>1, <1>3, ReturnKeeps

LEMMA RestartKeeps ==
  ASSUME ABIInv, Restart
  PROVE  ABIInv'
<1>1. /\ addressMap' = Loaded(file) /\ ABIs' = abiDir
      /\ reg' = [a \in Addresses |-> "none"]
      /\ pc' = [f \in Finders |-> "idle"] /\ to' = [f \in Finders |-> UNKNOWN]
      /\ sig' = [f \in Finders |-> {}]
      /\ name' = [f \in Finders |-> NoName] /\ pick' = [f \in Finders |-> NoName]
      /\ result' = [f \in Finders |-> NoResult]
      /\ UNCHANGED <<code, abiDir, file>> /\ restarts' = restarts + 1
  BY DEF Restart, All, chain, config
<1>2. /\ addressMap' \in [AddressStrings -> Names]
      /\ \A a \in Addresses :
            \/ addressMap'[<<a, "lower">>] = NoName
            \/ a \in file /\ addressMap'[<<a, "lower">>] = code[a]
  BY <1>1, LoadedNames DEF ABIInv
<1>3. Shape'
  BY <1>1, <1>2 DEF ABIInv, Shape, Names
<1>4. (\A a \in Addresses : AddressInv(a))'
  <2>1. restarts' > 0
    BY <1>1 DEF ABIInv, Shape
  <2>2. QED
    BY <1>1, <1>2, <2>1 DEF AddressInv
<1>5. FinderInvs'
  BY <1>1 DEF FinderInvs, FinderInv, Flagged
<1>6. QED
  BY <1>3, <1>4, <1>5 DEF ABIInv

LEMMA ABIStep == ABIInv /\ [Next]_vars => ABIInv'
<1> SUFFICES ASSUME ABIInv, [Next]_vars PROVE ABIInv'
  OBVIOUS
<1>1. CASE UNCHANGED vars
  <2>1. UNCHANGED <<code, abiDir, file, ABIs, reg, addressMap, finder, restarts>>
    BY <1>1 DEF vars, chain, config
  <2>2. QED
    BY <2>1, FindersKept, AddressesKept DEF ABIInv, Shape, finder
<1>2. CASE Next
  BY <1>2, RegistrationKeeps, CallKeeps, GetContractNameKeeps, LookupABIKeeps, SearchKeeps,
     UpdateMappingKeeps, CountKeeps, RestartKeeps DEF Next
<1>3. QED
  BY <1>1, <1>2

-----------------------------------------------------------------------------
(***************************************************************************)
(* A name that FindABIByMethod finds in the contract map has an ABI in the *)
(* store, but for the moment in which DeployContract has registered the    *)
(* name and not yet the ABI and for the right names that the contract map  *)
(* file has brought: whatever finders, deployments, loads and restarts do  *)
(* in between (abi_finder.go, contract_map.go, contract_store.go).         *)
(***************************************************************************)
THEOREM MappedNamesHaveABIs == Spec => []MappedHasABI
<1>1. ABIInv => MappedHasABI
  BY NameOfHex DEF ABIInv, AddressInv, MappedHasABI, FromFile
<1>2. QED
  BY <1>1, ABIInit, ABIStep, PTL DEF Spec

(***************************************************************************)
(* A guess that is wrong although the right ABI was there from the start   *)
(* comes with a DuplicateCount above 0: getDuplicateCount, which runs      *)
(* after the search and after the mapping is written, still counts the     *)
(* right one (abi_finder.go).                                              *)
(***************************************************************************)
THEOREM WrongGuessesAreFlagged == Spec => []WrongGuessFlagged
<1>1. ABIInv => WrongGuessFlagged
  BY DEF ABIInv, FinderInvs, Flagged, WrongGuessFlagged, RealMethod
<1>2. QED
  BY <1>1, ABIInit, ABIStep, PTL DEF Spec

LEMMA RightNameKept ==
  ASSUME ABIInv, Next, NEW a \in Addresses, restarts' = restarts,
         NameOf(Hex(a)) = code[a], NameOf(Hex(a))' # code[a]
  PROVE  \E f \in Finders :
             /\ pc[f] = "add" /\ to[f] # UNKNOWN /\ to[f][1] = a
             /\ name[f] # code[a] \/ ~RealMethod(f)
<1> DEFINE key == <<a, "lower">>
<1>1. /\ addressMap[key] = code[a] /\ addressMap'[key] # addressMap[key]
      /\ code[a] \in Contracts /\ key \in AddressStrings
  BY NameOfHex, NameOfHexPrimed, LowerIsString DEF ABIInv, Shape
<1>2. ASSUME NEW b \in Addresses, AddContract(Hex(b), code[b]) PROVE FALSE
  <2>1. addressMap' = [addressMap EXCEPT ![<<b, "lower">>] = code[b]]
    BY <1>2, NameOfHex DEF AddContract, ToLower, Hex
  <2>2. CASE b = a
    BY <1>1, <2>1, <2>2 DEF ABIInv, Shape
  <2>3. CASE b # a
    BY <1>1, <2>1, <2>3 DEF ABIInv, Shape
  <2>4. QED
    BY <2>2, <2>3
<1>3. PICK f \in Finders : UpdateMapping(f)
  <2>1. addressMap' # addressMap
    BY <1>1
  <2>2. ~Restart
    BY DEF Restart, ABIInv, Shape
  <2>3. QED
    BY <1>2, <2>1, <2>2 DEF Next, DeployNamed, DeployABI, Deployed, DeployGivesUp, Mined,
       LoadABI, LoadNamed, Call, GetContractName, LookupABI, Search, CountDuplicates
<1>4. pc[f] = "add" /\ to[f] # UNKNOWN
  BY <1>1, <1>3 DEF UpdateMapping, AddContract
<1>5. /\ to[f][1] \in Addresses
      /\ addressMap' = [addressMap EXCEPT ![<<to[f][1], "lower">>] = pick[f]]
  BY <1>3, <1>4, Written
<1>6. to[f][1] = a
  BY <1>1, <1>5 DEF ABIInv, Shape
<1>7. name[f] # code[a] \/ ~RealMethod(f)
  BY <1>1, <1>4, <1>6, ABIFinderAssumption DEF RealMethod, ABIInv, FinderInvs, FinderInv
<1>8. QED
  BY <1>4, <1>6, <1>7

(***************************************************************************)
(* Once the map has the right name for an address, no later lookup of one  *)
(* of that contract's methods replaces it by a wrong one: only a finder    *)
(* can that had read the map before the name was right, or that looks up a *)
(* method the contract does not have (abi_finder.go, FindABIByMethod).     *)
(***************************************************************************)
THEOREM RightMappingIsKept == Spec => RightMappingKept
<1>1. ABIInv /\ [Next]_vars =>
        [\A a \in Addresses :
            restarts' = restarts /\ NameOf(Hex(a)) = code[a] /\ NameOf(Hex(a))' # code[a] =>
              \E f \in Finders :
                  /\ pc[f] = "add" /\ to[f] # UNKNOWN /\ to[f][1] = a
                  /\ name[f] # code[a] \/ ~RealMethod(f)]_vars
  BY RightNameKept
<1>2. QED
  BY <1>1, ABIInit, ABIStep, PTL DEF Spec, RightMappingKept
=============================================================================
