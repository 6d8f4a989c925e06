------------------------------ MODULE ShortIds ------------------------------
(***************************************************************************)
(* The short id registry of one case (short-id-claim.ts,                   *)
(* short-id-registry.ts): commands of several processes claim numbers, and *)
(* a replay binds its number to its record once the record's name is       *)
(* known (replay-lineage.ts, replay-recording.ts).                         *)
(*                                                                         *)
(* A command stands for the one record it makes.  A claim or a binding is  *)
(* created empty and written after; until it is written whole it does not  *)
(* parse, and a reader takes it for Torn.                                  *)
(***************************************************************************)
EXTENDS Naturals, FiniteSets

CONSTANTS
    Runs,     \* the commands that make a run or a session attempt, letter r
    Groups,   \* the commands that make a confirmation group, letter g
    Replays,  \* the commands that replay a stage, letter r
    Torn,     \* what a reader finds in a file that is not written whole
    Nothing   \* what a number names that names no record

Commands == Runs \cup Groups \cup Replays

ASSUME ShortIdAssumption ==
    /\ Runs \cap Groups = {} /\ Runs \cap Replays = {}
    /\ Groups \cap Replays = {}
    /\ Torn \notin Commands /\ Nothing \notin Commands
    /\ Torn # Nothing

VARIABLES
    claims,    \* claims/<n>, a function on the numbers claimed
    bindings,  \* bindings/<n>
    records,   \* the replays whose record is written
    number,    \* the number a command is claiming or has claimed
    pc         \* where each command is

idVars == <<claims, bindings, records, number, pc>>

Claiming == {"list", "create", "write", "close"}
Binding == {"session", "bind", "writeBinding", "closeBinding", "save"}
Steps == Claiming \cup Binding

(* The steps at which a command has been told its number.                   *)
Told == Binding \cup {"told", "saved"}

ShortIdTypeOK ==
    /\ DOMAIN claims \subseteq Nat \ {0}
    /\ \A n \in DOMAIN claims : claims[n] \in Commands \cup {Torn}
    /\ DOMAIN bindings \subseteq Nat \ {0}
    /\ \A n \in DOMAIN bindings : bindings[n] \in Replays \cup {Torn}
    /\ records \subseteq Replays
    /\ number \in [Commands -> Nat]
    /\ pc \in [Commands -> Steps \cup {"told", "saved", "failed"}]

InitIds ==
    /\ claims = [n \in {} |-> Torn]
    /\ bindings = [n \in {} |-> Torn]
    /\ records = {}
    /\ number = [c \in Commands |-> 0]
    /\ pc = [c \in Commands |-> "list"]

Goto(c, step) == pc' = [pc EXCEPT ![c] = step]

(* The directory with the file n of it holding text.                        *)
With(directory, n, text) ==
    [k \in DOMAIN directory \cup {n} |-> IF k = n THEN text ELSE directory[k]]

-----------------------------------------------------------------------------
(* claimShortId tries the numbers from the one after the highest claimed.   *)
IsHighest(n) == \A k \in DOMAIN claims : k <= n

highestNumber(c) ==
    /\ pc[c] = "list"
    /\ \E n \in DOMAIN claims \cup {0} :
          IsHighest(n) /\ number' = [number EXCEPT ![c] = n + 1]
    /\ Goto(c, "create")
    /\ UNCHANGED <<claims, bindings, records>>

(* Mutant: the claim is opened to be written, whether it exists or not.     *)
createClaim_Truncating(c) ==
    /\ pc[c] = "create"
    /\ claims' = With(claims, number[c], Torn)
    /\ Goto(c, "write")
    /\ UNCHANGED <<bindings, records, number>>

createClaim(c) ==
    /\ pc[c] = "create"
    /\ number[c] \notin DOMAIN claims
    /\ claims' = With(claims, number[c], Torn)
    /\ Goto(c, "write")
    /\ UNCHANGED <<bindings, records, number>>

(* Mutant: a number that is taken is tried again.                           *)
tryNext_Same(c) ==
    /\ pc[c] = "create"
    /\ number[c] \in DOMAIN claims
    /\ UNCHANGED idVars

tryNext(c) ==
    /\ pc[c] = "create"
    /\ number[c] \in DOMAIN claims
    /\ number' = [number EXCEPT ![c] = @ + 1]
    /\ UNCHANGED <<claims, bindings, records, pc>>

writeClaim(c) ==
    /\ pc[c] = "write"
    /\ claims' = With(claims, number[c], c)
    /\ Goto(c, "close")
    /\ UNCHANGED <<bindings, records, number>>

(* The command is told its number; a replay goes on to its session.         *)
Tell(c) ==
    /\ pc[c] = "close"
    /\ Goto(c, IF c \in Replays THEN "session" ELSE "told")
    /\ UNCHANGED <<claims, bindings, records, number>>

-----------------------------------------------------------------------------
(* A replay that was graded binds its number and writes its record.         *)

(* Mutant: the record is written, and then the number is bound.             *)
gradeReplay_RecordFirst(c) ==
    /\ pc[c] = "session"
    /\ records' = records \cup {c}
    /\ Goto(c, "bind")
    /\ UNCHANGED <<claims, bindings, number>>

gradeReplay(c) ==
    /\ pc[c] = "session"
    /\ Goto(c, "bind")
    /\ UNCHANGED <<claims, bindings, records, number>>

createBinding(c) ==
    /\ pc[c] = "bind"
    /\ number[c] \notin DOMAIN bindings
    /\ bindings' = With(bindings, number[c], Torn)
    /\ Goto(c, "writeBinding")
    /\ UNCHANGED <<claims, records, number>>

writeBinding(c) ==
    /\ pc[c] = "writeBinding"
    /\ bindings' = With(bindings, number[c], c)
    /\ Goto(c, "closeBinding")
    /\ UNCHANGED <<claims, records, number>>

closeBinding(c) ==
    /\ pc[c] = "closeBinding"
    /\ Goto(c, "save")
    /\ UNCHANGED <<claims, bindings, records, number>>

saveReplay(c) ==
    /\ pc[c] = "save"
    /\ records' = records \cup {c}
    /\ Goto(c, "saved")
    /\ UNCHANGED <<claims, bindings, number>>

(* Mutant: a command that fails gives its number back.                      *)
Fail_Frees(c) ==
    /\ pc[c] \in Steps
    /\ claims' = IF pc[c] \in Steps \ {"list", "create"}
                 THEN [n \in DOMAIN claims \ {number[c]} |-> claims[n]]
                 ELSE claims
    /\ Goto(c, "failed")
    /\ UNCHANGED <<bindings, records, number>>

(* A command fails at any step, as when its number is bound already, or its *)
(* process is killed.                                                       *)
Fail(c) ==
    /\ pc[c] \in Steps
    /\ Goto(c, "failed")
    /\ UNCHANGED <<claims, bindings, records, number>>

Claim(c) ==
    \/ highestNumber(c) \/ createClaim(c) \/ tryNext(c) \/ writeClaim(c)
    \/ Tell(c)

Bind(c) ==
    \/ gradeReplay(c) \/ createBinding(c) \/ writeBinding(c)
    \/ closeBinding(c) \/ saveReplay(c)

NextId == \E c \in Commands : Claim(c) \/ Bind(c) \/ Fail(c)

IdSpec == InitIds /\ [][NextId]_idVars

(* The file system answers the calls of a command that lives.  Nothing      *)
(* makes a replay's session end.                                            *)
FairIdSpec == IdSpec /\ \A c \in Commands : WF_idVars(Claim(c))

-----------------------------------------------------------------------------
(* What the registry says a number names (readEntry): the claim, and for a  *)
(* replay the record bound to it.  A claim does not change once it is read  *)
(* whole, so the two files are read as at the second read.                  *)
readEntry(n) ==
    IF n \notin DOMAIN claims \/ claims[n] = Torn THEN Nothing
    ELSE IF claims[n] \notin Replays THEN claims[n]
    ELSE IF n \notin DOMAIN bindings \/ bindings[n] = Torn THEN Nothing
    ELSE bindings[n]

(* docs/design.md: "concurrent commands in one records directory never      *)
(* share a number".  A number a command was told names its own record: at   *)
(* once for a run or a group, for a replay from its record's write on, and  *)
(* never another command's, whoever died in between (createExclusively,     *)
(* bindReplay).                                                             *)
ToldNamesOwn ==
    \A c \in Commands :
        /\ pc[c] \in Told => readEntry(number[c]) \in {Nothing, c}
        /\ pc[c] = "told" => readEntry(number[c]) = c
        /\ c \in records => readEntry(number[c]) = c

(* docs/design.md: "a command that fails after claiming leaves a gap rather *)
(* than freeing the number".  What a number names, it names for good.       *)
NameIsKept ==
    [][\A n \in DOMAIN claims :
         readEntry(n) # Nothing => readEntry(n)' = readEntry(n)]_idVars

(* A command that claims a number gets one, however many others claim at    *)
(* the same time (claimShortId).                                            *)
ClaimEnds == \A c \in Commands : <>(pc[c] \notin Claiming)
=============================================================================
