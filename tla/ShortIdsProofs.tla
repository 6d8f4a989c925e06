--------------------------- MODULE ShortIdsProofs ---------------------------
(***************************************************************************)
(* Proofs about ShortIds, for any number of commands of each kind.         *)
(***************************************************************************)
EXTENDS ShortIds, TLAPS

AnyStep(c) ==
    \/ highestNumber(c) \/ createClaim(c) \/ tryNext(c) \/ writeClaim(c)
    \/ Tell(c) \/ gradeReplay(c) \/ createBinding(c) \/ writeBinding(c)
    \/ closeBinding(c) \/ saveReplay(c) \/ Fail(c)

LEMMA IdSteps ==
    ASSUME [NextId]_idVars
    PROVE  (\E c \in Commands : AnyStep(c)) \/ UNCHANGED idVars
  BY DEF NextId, Claim, Bind, AnyStep

(* A command that has created its claim and lives holds its number alone.   *)
Holds(c) == pc[c] \in {"write", "close"} \cup Told

ClaimInv ==
    /\ \A c \in Commands : pc[c] = "create" => number[c] > 0
    /\ \A c \in Commands : Holds(c) =>
         /\ number[c] \in DOMAIN claims
         /\ claims[number[c]] = IF pc[c] = "write" THEN Torn ELSE c
    /\ \A c, d \in Commands :
         Holds(c) /\ Holds(d) /\ number[c] = number[d] => c = d
    /\ \A n \in DOMAIN claims : claims[n] # Torn =>
         /\ number[claims[n]] = n
         /\ pc[claims[n]] \notin {"list", "create", "write"}

(* Only a replay binds, its own number, after its claim is whole.           *)
BindInv ==
    /\ \A n \in DOMAIN bindings :
         /\ n \in DOMAIN claims
         /\ claims[n] \in Replays
         /\ bindings[n] \in {Torn, claims[n]}
    /\ \A c \in Commands :
         /\ pc[c] \in Binding \cup {"saved"} => c \in Replays
         /\ pc[c] = "told" => c \notin Replays
         /\ pc[c] \in {"write", "close", "session", "bind"} =>
              number[c] \notin DOMAIN bindings
         /\ pc[c] \in {"writeBinding", "closeBinding", "save", "saved"} =>
              /\ number[c] \in DOMAIN bindings
              /\ bindings[number[c]] = IF pc[c] = "writeBinding" THEN Torn
                                       ELSE c
         /\ c \in records => pc[c] = "saved"

IdInv == ShortIdTypeOK /\ ClaimInv /\ BindInv

LEMMA CommandsNotTorn ==
    ASSUME NEW c \in Commands PROVE c # Torn /\ c # Nothing
  BY ShortIdAssumption

LEMMA ReplaysAreCommands == Replays \subseteq Commands
  BY DEF Commands

LEMMA IdInit == InitIds => IdInv
<1> SUFFICES ASSUME InitIds PROVE IdInv
  OBVIOUS
<1>1. ShortIdTypeOK
  BY DEF InitIds, ShortIdTypeOK, Steps, Claiming
<1>2. ClaimInv
  BY DEF InitIds, ClaimInv, Holds, Told, Binding
<1>3. BindInv
  BY DEF InitIds, BindInv, Binding
<1> QED
  BY <1>1, <1>2, <1>3 DEF IdInv

LEMMA TypeStep ==
    ASSUME IdInv, NEW c \in Commands, AnyStep(c)
    PROVE  ShortIdTypeOK'
<1> USE DEF IdInv, ShortIdTypeOK, Goto, Steps, Claiming, Binding
<1>1. CASE highestNumber(c) \/ tryNext(c)
  BY <1>1 DEF highestNumber, tryNext
<1>2. CASE Tell(c) \/ gradeReplay(c) \/ closeBinding(c) \/ Fail(c)
  BY <1>2 DEF Tell, gradeReplay, closeBinding, Fail
<1>3. CASE createClaim(c) \/ writeClaim(c)
  <2>1. number[c] \in Nat \ {0}
    BY <1>3 DEF createClaim, writeClaim, ClaimInv, Holds, Told
  <2>2. PICK text \in {Torn, c} : claims' = With(claims, number[c], text)
    BY <1>3 DEF createClaim, writeClaim
  <2>3. /\ DOMAIN claims' \subseteq Nat \ {0}
        /\ \A n \in DOMAIN claims' : claims'[n] \in Commands \cup {Torn}
    BY <2>1, <2>2 DEF With
  <2> QED
    BY <1>3, <2>3 DEF createClaim, writeClaim
<1>4. CASE createBinding(c) \/ writeBinding(c)
  <2>1. number[c] \in Nat \ {0} /\ c \in Replays
    BY <1>4 DEF createBinding, writeBinding, ClaimInv, BindInv, Holds, Told
  <2>2. PICK text \in {Torn, c} : bindings' = With(bindings, number[c], text)
    BY <1>4 DEF createBinding, writeBinding
  <2>3. /\ DOMAIN bindings' \subseteq Nat \ {0}
        /\ \A n \in DOMAIN bindings' : bindings'[n] \in Replays \cup {Torn}
    BY <2>1, <2>2 DEF With
  <2> QED
    BY <1>4, <2>3 DEF createBinding, writeBinding
<1>5. CASE saveReplay(c)
  BY <1>5 DEF saveReplay, BindInv
<1> QED
  BY <1>1, <1>2, <1>3, <1>4, <1>5 DEF AnyStep

-----------------------------------------------------------------------------
(* A step of c leaves the number and the place of every other command.      *)
LEMMA OthersKept ==
    ASSUME IdInv, NEW c \in Commands, AnyStep(c)
    PROVE  \A d \in Commands : d # c => number'[d] = number[d] /\ pc'[d] = pc[d]
  BY DEF IdInv, ShortIdTypeOK, AnyStep, Goto, highestNumber, createClaim,
         tryNext, writeClaim, Tell, gradeReplay, createBinding, writeBinding,
         closeBinding, saveReplay, Fail

LEMMA ClaimStep ==
    ASSUME IdInv, NEW c \in Commands, AnyStep(c)
    PROVE  ClaimInv'
<1> USE CommandsNotTorn
<1>1. \A d \in Commands : d # c => number'[d] = number[d] /\ pc'[d] = pc[d]
  BY OthersKept
<1>2. \A n \in DOMAIN claims : claims[n] \in Commands \cup {Torn}
  BY DEF IdInv, ShortIdTypeOK
<1>3. CASE highestNumber(c) \/ tryNext(c)
  <2>1. /\ claims' = claims /\ pc'[c] = "create" /\ number'[c] > 0
        /\ pc[c] \in {"list", "create"}
    BY <1>3 DEF highestNumber, tryNext, Goto, IdInv, ShortIdTypeOK, ClaimInv
  <2> QED
    BY <1>1, <1>2, <2>1 DEF ClaimInv, Holds, Told, Binding, IdInv
<1>4. CASE createClaim(c)
  <2>1. /\ claims' = With(claims, number[c], Torn)
        /\ number[c] \notin DOMAIN claims
        /\ number' = number /\ pc[c] = "create" /\ pc'[c] = "write"
    BY <1>4 DEF createClaim, Goto, IdInv, ShortIdTypeOK
  <2>2. /\ DOMAIN claims' = DOMAIN claims \cup {number[c]}
        /\ claims'[number[c]] = Torn
        /\ \A k \in DOMAIN claims : claims'[k] = claims[k]
    BY <2>1 DEF With
  <2> QED
    BY <1>1, <1>2, <2>1, <2>2 DEF ClaimInv, Holds, Told, Binding, IdInv
<1>5. CASE writeClaim(c)
  <2>1. /\ claims' = With(claims, number[c], c)
        /\ number[c] \in DOMAIN claims
        /\ number' = number /\ pc[c] = "write" /\ pc'[c] = "close"
    BY <1>5 DEF writeClaim, Goto, IdInv, ShortIdTypeOK, ClaimInv, Holds
  <2>2. /\ DOMAIN claims' = DOMAIN claims
        /\ claims'[number[c]] = c
        /\ \A k \in DOMAIN claims : k # number[c] => claims'[k] = claims[k]
    BY <2>1 DEF With
  <2> QED
    BY <1>1, <1>2, <2>1, <2>2 DEF ClaimInv, Holds, Told, Binding, IdInv
<1>6. CASE \/ Tell(c) \/ gradeReplay(c) \/ createBinding(c) \/ writeBinding(c)
           \/ closeBinding(c) \/ saveReplay(c) \/ Fail(c)
  <2>1. /\ claims' = claims /\ number' = number
        /\ \/ /\ pc[c] \in {"close"} \cup Told
              /\ pc'[c] \in Told
           \/ pc'[c] = "failed"
    BY <1>6 DEF Tell, gradeReplay, createBinding, writeBinding, closeBinding,
                saveReplay, Fail, Goto, IdInv, ShortIdTypeOK, Told, Binding
  <2> QED
    BY <1>1, <1>2, <2>1 DEF ClaimInv, Holds, Told, Binding, IdInv
<1> QED
  BY <1>3, <1>4, <1>5, <1>6 DEF AnyStep

LEMMA BindStep ==
    ASSUME IdInv, NEW c \in Commands, AnyStep(c)
    PROVE  BindInv'
<1> USE CommandsNotTorn, ReplaysAreCommands
<1>1. \A d \in Commands : d # c => number'[d] = number[d] /\ pc'[d] = pc[d]
  BY OthersKept
<1>2. \A n \in DOMAIN claims : claims[n] \in Commands \cup {Torn}
  BY DEF IdInv, ShortIdTypeOK
<1>3. CASE highestNumber(c) \/ tryNext(c)
  <2>1. /\ claims' = claims /\ bindings' = bindings /\ records' = records
        /\ pc'[c] = "create" /\ pc[c] \in {"list", "create"}
    BY <1>3 DEF highestNumber, tryNext, Goto, IdInv, ShortIdTypeOK
  <2> QED
    BY <1>1, <2>1 DEF BindInv, Binding, IdInv
<1>4. CASE createClaim(c) \/ writeClaim(c)
  <2>1. /\ number[c] \notin DOMAIN claims \/ claims[number[c]] = Torn
        /\ \E text \in {Torn, c} : claims' = With(claims, number[c], text)
        /\ number' = number /\ bindings' = bindings /\ records' = records
        /\ pc[c] \in {"create", "write"} /\ pc'[c] \in {"write", "close"}
    BY <1>4 DEF createClaim, writeClaim, Goto, IdInv, ShortIdTypeOK, ClaimInv,
                Holds
  <2>2. number[c] \notin DOMAIN bindings
    BY <2>1 DEF BindInv, IdInv
  <2>3. \A n \in DOMAIN bindings : n \in DOMAIN claims' /\ claims'[n] = claims[n]
    BY <2>1, <2>2 DEF BindInv, IdInv, With
  <2> QED
    BY <1>1, <2>1, <2>2, <2>3 DEF BindInv, Binding, IdInv
<1>5. CASE createBinding(c) \/ writeBinding(c)
  <2>1. /\ \/ /\ pc[c] = "bind" /\ pc'[c] = "writeBinding"
              /\ bindings' = With(bindings, number[c], Torn)
           \/ /\ pc[c] = "writeBinding" /\ pc'[c] = "closeBinding"
              /\ bindings' = With(bindings, number[c], c)
        /\ number' = number /\ claims' = claims /\ records' = records
    BY <1>5 DEF createBinding, writeBinding, Goto, IdInv, ShortIdTypeOK
  <2>2. /\ c \in Replays /\ number[c] \in DOMAIN claims
        /\ claims[number[c]] = c
    BY <2>1 DEF IdInv, ClaimInv, BindInv, Holds, Told, Binding
  <2>3. /\ DOMAIN bindings' = DOMAIN bindings \cup {number[c]}
        /\ bindings'[number[c]] = IF pc'[c] = "writeBinding" THEN Torn ELSE c
        /\ \A n \in DOMAIN bindings : n # number[c] => bindings'[n] = bindings[n]
    BY <2>1 DEF With
  <2>4. \A d \in Commands : d # c /\ Holds(d) => number[d] # number[c]
    BY <2>1 DEF IdInv, ClaimInv, Holds, Told, Binding
  <2>5. \A n \in DOMAIN bindings' :
          /\ n \in DOMAIN claims
          /\ claims[n] \in Replays
          /\ bindings'[n] \in {Torn, claims[n]}
    BY <2>2, <2>3 DEF IdInv, BindInv
  <2>6. ASSUME NEW d \in Commands, d # c
        PROVE  /\ pc[d] \in {"write", "close", "session", "bind"} =>
                    number[d] \notin DOMAIN bindings'
               /\ pc[d] \in {"writeBinding", "closeBinding", "save", "saved"} =>
                    /\ number[d] \in DOMAIN bindings'
                    /\ bindings'[number[d]] = IF pc[d] = "writeBinding"
                                              THEN Torn ELSE d
    BY <2>3, <2>4, <2>6 DEF IdInv, BindInv, Holds, Told, Binding
  <2> QED
    BY <1>1, <2>1, <2>2, <2>3, <2>5, <2>6 DEF IdInv, BindInv, Binding
<1>6. CASE \/ Tell(c) \/ gradeReplay(c) \/ closeBinding(c) \/ saveReplay(c)
           \/ Fail(c)
  <2>1. /\ claims' = claims /\ number' = number /\ bindings' = bindings
        /\ records' = IF pc'[c] = "saved" THEN records \cup {c} ELSE records
        /\ \/ /\ pc[c] = "close"
              /\ pc'[c] = IF c \in Replays THEN "session" ELSE "told"
           \/ pc[c] = "session" /\ pc'[c] = "bind"
           \/ pc[c] = "closeBinding" /\ pc'[c] = "save"
           \/ pc[c] = "save" /\ pc'[c] = "saved"
           \/ pc[c] \in Steps /\ pc'[c] = "failed"
    BY <1>6 DEF Tell, gradeReplay, closeBinding, saveReplay, Fail, Goto, IdInv,
                ShortIdTypeOK
  <2>2. c \notin records
    BY <2>1 DEF IdInv, BindInv, Steps, Claiming, Binding
  <2> QED
    BY <1>1, <2>1, <2>2 DEF IdInv, BindInv, Binding
<1> QED
  BY <1>3, <1>4, <1>5, <1>6 DEF AnyStep

LEMMA IdStep == IdInv /\ [NextId]_idVars => IdInv'
<1> SUFFICES ASSUME IdInv, [NextId]_idVars
             PROVE  IdInv'
  OBVIOUS
<1>1. ASSUME NEW c \in Commands, AnyStep(c)
      PROVE  IdInv'
  BY <1>1, TypeStep, ClaimStep, BindStep DEF IdInv
<1>2. CASE UNCHANGED idVars
  BY <1>2 DEF idVars, IdInv, ShortIdTypeOK, ClaimInv, BindInv, Holds
<1> QED
  BY <1>1, <1>2, IdSteps

LEMMA IdInvariant == IdSpec => []IdInv
  BY IdInit, IdStep, PTL DEF IdSpec

(* A number that a command was told names its own record, and no other      *)
(* command's, for any number of commands (createExclusively, bindReplay).   *)
THEOREM ToldNumbersNameOwn == IdSpec => []ToldNamesOwn
<1>1. IdInv => ToldNamesOwn
  BY CommandsNotTorn
     DEF IdInv, ClaimInv, BindInv, Holds, Told, Binding, ToldNamesOwn, readEntry
<1> QED
  BY <1>1, IdInvariant, PTL

(* What a number names, it names for good (createExclusively).              *)
THEOREM NamesAreKept == IdSpec => NameIsKept
<1>1. ASSUME IdInv, [NextId]_idVars
      PROVE  [\A n \in DOMAIN claims :
                readEntry(n) # Nothing => readEntry(n)' = readEntry(n)]_idVars
  <2> SUFFICES ASSUME NEW n \in DOMAIN claims, readEntry(n) # Nothing,
                      NEW c \in Commands, AnyStep(c)
               PROVE  readEntry(n)' = readEntry(n)
    BY <1>1, IdSteps
  <2>1. claims[n] # Torn
    BY DEF readEntry
  <2>2. claims'[n] = claims[n] /\ n \in DOMAIN claims'
    <3>1. CASE createClaim(c) \/ writeClaim(c)
      <4>1. number[c] # n
        BY <1>1, <2>1, <3>1 DEF createClaim, writeClaim, IdInv, ClaimInv, Holds
      <4> QED
        BY <3>1, <4>1 DEF createClaim, writeClaim, With
    <3>2. CASE ~(createClaim(c) \/ writeClaim(c))
      BY <3>2 DEF AnyStep, highestNumber, tryNext, Tell, gradeReplay,
                  createBinding, writeBinding, closeBinding, saveReplay, Fail
    <3> QED
      BY <3>1, <3>2
  <2>3. ASSUME claims[n] \in Replays
        PROVE  bindings'[n] = bindings[n] /\ n \in DOMAIN bindings'
    <3>1. n \in DOMAIN bindings /\ bindings[n] # Torn
      BY <2>1, <2>3 DEF readEntry
    <3>2. CASE createBinding(c) \/ writeBinding(c)
      <4>1. number[c] # n
        BY <1>1, <3>1, <3>2 DEF createBinding, writeBinding, IdInv, BindInv
      <4> QED
        BY <3>1, <3>2, <4>1 DEF createBinding, writeBinding, With
    <3>3. CASE ~(createBinding(c) \/ writeBinding(c))
      BY <3>1, <3>3 DEF AnyStep, highestNumber, tryNext, Tell, gradeReplay,
                  createClaim, writeClaim, closeBinding, saveReplay, Fail
    <3> QED
      BY <3>2, <3>3
  <2> QED
    BY <2>1, <2>2, <2>3 DEF readEntry
<1> QED
  BY <1>1, IdInvariant, PTL DEF IdSpec, NameIsKept
=============================================================================
