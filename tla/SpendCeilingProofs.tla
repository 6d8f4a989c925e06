------------------------- MODULE SpendCeilingProofs -------------------------
(***************************************************************************)
(* The bound on what a rep is billed, for any number of reps and any       *)
(* amounts, and the reading of a halted call.                              *)
(*                                                                         *)
(* Every step of a rep starts a call, ends without one, charges a call to  *)
(* both ceilings, with what its session left out before, takes an answer   *)
(* that tells no total or loses what a failed call cost; the invariant is  *)
(* shown for each of the five.                                             *)
(***************************************************************************)
EXTENDS SpendCeiling, FiniteSetTheorems, TLAPS

OnlyRep(r) ==
    \A q \in Reps \ {r} :
       at'[q] = at[q] /\ spent'[q] = spent[q] /\ call'[q] = call[q]
         /\ billed'[q] = billed[q]

StartStep(r) ==
    /\ at'[r] = at[r] /\ spent'[r] = spent[r] /\ billed'[r] = billed[r]
    /\ groupSpent' = groupSpent
    /\ \E asked \in Nat :
          /\ ~Refused(r)
          /\ call'[r] = [budget |-> budgetFor(r, asked), asked |-> asked,
                         cost |-> 0]

RefuseStep(r) ==
    /\ at'[r] = "ended" /\ call[r] = NoCall /\ call'[r] = NoCall
    /\ spent'[r] = spent[r] /\ billed'[r] = billed[r]
    /\ groupSpent' = groupSpent

ChargeStep(r) ==
    /\ at[r] \in Paid /\ call[r] # NoCall
    /\ \E cost \in Costs(r), late \in Nat :
          /\ billed'[r] = billed[r] + cost
          /\ spent'[r] = spent[r] + (late + cost)
          /\ groupSpent' = groupSpent + (late + cost)
          /\ \/ call'[r] = NoCall
             \/ /\ at'[r] = "ended"
                /\ call'[r] = [budget |-> call[r].budget,
                               asked |-> call[r].asked, cost |-> cost]

OmitStep(r) ==
    /\ at[r] \in Paid /\ call'[r] = NoCall
    /\ spent'[r] = spent[r] /\ billed'[r] = billed[r]
    /\ groupSpent' = groupSpent

LoseStep(r) ==
    /\ at[r] \in Paid /\ call[r] # NoCall
    /\ at'[r] = "ended" /\ call'[r] = NoCall
    /\ spent'[r] = spent[r] /\ groupSpent' = groupSpent
    /\ \E cost \in Costs(r) : billed'[r] = billed[r] + cost

StepKind(r) ==
    /\ OnlyRep(r)
    /\ \/ StartStep(r) \/ RefuseStep(r) \/ ChargeStep(r) \/ OmitStep(r)
       \/ LoseStep(r)

-----------------------------------------------------------------------------
(* The group's ceiling is a number of dollars: groupSpendCeilingUsd.        *)
LEMMA GroupCeilingType == groupSpendCeilingUsd \in Nat
<1>1. Cardinality(Reps) \in Nat
  BY FS_CardinalityType, SpendAssumption
<1>2. \A n \in Nat : Ceiling * n \in Nat
  BY SpendAssumption
<1> QED BY <1>1, <1>2 DEF groupSpendCeilingUsd

(* What an answer does to the ceilings and to the account of its session.   *)
LEMMA RecordType ==
    ASSUME SpendTypeOK, NEW r \in Reps, NEW cost \in Costs(r),
           NEW told \in BOOLEAN, NEW account \in Account,
           record(r, account, cost, told)
    PROVE  /\ spent' \in [Reps -> Nat] /\ groupSpent' \in Nat
           /\ omitted' \in Nat /\ billed' \in [Reps -> Nat]
           /\ recorded(account, cost, told) \in Account
<1>1. /\ cost \in Nat /\ account.spent \in Nat /\ account.late \in Nat
  BY SpendAssumption DEF Costs, SpendTypeOK, Account
<1>2. CASE told
  <2>1. billed[r] + cost \in Nat /\ spent[r] + (account.late + cost) \in Nat
    BY <1>1 DEF SpendTypeOK
  <2>2. /\ billed' = [billed EXCEPT ![r] = billed[r] + cost]
        /\ spent' = [spent EXCEPT ![r] = spent[r] + (account.late + cost)]
        /\ groupSpent' = groupSpent + (account.late + cost)
        /\ omitted' = omitted
    BY <1>2 DEF record, charge, Billed
  <2>3. recorded(account, cost, told) \in Account
    BY <1>1, <1>2 DEF recorded, Account
  <2> QED BY <1>1, <2>1, <2>2, <2>3 DEF SpendTypeOK
<1>3. CASE ~told
  BY <1>1, <1>3 DEF record, recorded, Account, SpendTypeOK
<1> QED BY <1>2, <1>3

(* An answer is charged with what its session left out, or is not charged.  *)
LEMMA RecordKind ==
    ASSUME SpendTypeOK, NEW r \in Reps, NEW cost \in Costs(r),
           NEW told \in BOOLEAN, NEW account \in Account,
           record(r, account, cost, told), Answered(r),
           at[r] \in Paid, call[r] # NoCall,
           \A q \in Reps \ {r} : at'[q] = at[q]
    PROVE  StepKind(r)
<1>1. call'[r] = NoCall /\ \A q \in Reps \ {r} : call'[q] = call[q]
  BY DEF Answered, SpendTypeOK
<1>2. CASE told
  <2>1. account.late \in Nat
    BY DEF Account
  <2> QED BY <1>1, <1>2, <2>1 DEF record, charge, Billed, StepKind, OnlyRep,
                                  ChargeStep, SpendTypeOK
<1>3. CASE ~told
  BY <1>1, <1>3 DEF record, StepKind, OnlyRep, OmitStep, SpendTypeOK
<1> QED BY <1>2, <1>3

(* A rep that is over. *)
LEMMA EndType ==
    ASSUME SpendTypeOK, NEW r \in Reps, End(r)
    PROVE  /\ at' \in [Reps -> Paid \cup {"ended"}]
           /\ stage' \in [Reps -> 1..(Stages + 1)]
           /\ tries' \in [Reps -> Nat]
           /\ session' \in [Reps -> Account]
           /\ owner' \in [Reps -> Account]
BY DEF End, NoSpend, Account, SpendTypeOK

(* Every step keeps the types: no account of the reps leaves the naturals.  *)
LEMMA TypeStep ==
    ASSUME SpendTypeOK, NEW r \in Reps, RepStep(r)
    PROVE  SpendTypeOK'
<1> USE SpendAssumption, GroupCeilingType
<1>c. ASSUME Answered(r)
      PROVE  call' \in [Reps -> [budget : Nat, asked : Nat, cost : Nat]]
  BY <1>c DEF Answered, NoCall, SpendTypeOK
<1>1. ASSUME NEW asked \in Nat, StartCall(r, asked) PROVE SpendTypeOK'
  <2>1. budgetFor(r, asked) \in Nat
    BY <1>1 DEF StartCall, Refused, budgetFor, AtMost, LeftToRep, LeftToGroup,
                SpendTypeOK
  <2> QED BY <1>1, <2>1 DEF StartCall, SpendTypeOK, progress, accounts,
                            sessions
<1>2. CASE invoke(r)
  <2>1. remainingBudget(session[r]) \in Nat
    BY <1>2 DEF invoke, StartCall, remainingBudget, Account, SpendTypeOK
  <2> QED BY <1>1, <1>2, <2>1 DEF invoke
<1>3. CASE ask(r)
  <2>1. remainingBudget(owner[r]) \in Nat
    BY <1>3 DEF ask, StartCall, remainingBudget, Account, SpendTypeOK
  <2> QED BY <1>1, <1>3, <2>1 DEF ask
<1>4. CASE invokeJudge(r)
  BY <1>1, <1>4 DEF invokeJudge
<1>5. CASE StartRefused(r)
  BY <1>5, EndType DEF StartRefused, SpendTypeOK
<1>6. CASE acceptTurn(r)
  <2>1. PICK cost \in Costs(r), told \in BOOLEAN :
          /\ record(r, session[r], cost, told)
          /\ \/ /\ at' = [at EXCEPT ![r] = "judge"]
                /\ tries' = [tries EXCEPT ![r] = 0]
                /\ session' = [session EXCEPT ![r] = NoSpend]
                /\ UNCHANGED <<stage, owner>>
             \/ /\ at' = [at EXCEPT ![r] = "answer"]
                /\ tries' = [tries EXCEPT ![r] = @ + 1]
                /\ session' = [session EXCEPT ![r] = recorded(@, cost, told)]
                /\ UNCHANGED <<stage, owner>>
             \/ End(r)
    BY <1>6 DEF acceptTurn
  <2>2. session[r] \in Account
    BY DEF SpendTypeOK
  <2>3. /\ spent' \in [Reps -> Nat] /\ groupSpent' \in Nat
        /\ omitted' \in Nat /\ billed' \in [Reps -> Nat]
        /\ recorded(session[r], cost, told) \in Account
    BY <2>1, <2>2, RecordType
  <2>4. NoSpend \in Account /\ tries[r] + 1 \in Nat
    BY DEF NoSpend, Account, SpendTypeOK
  <2>5. /\ at' \in [Reps -> Paid \cup {"ended"}]
        /\ stage' \in [Reps -> 1..(Stages + 1)]
        /\ tries' \in [Reps -> Nat]
        /\ session' \in [Reps -> Account]
        /\ owner' \in [Reps -> Account]
    BY <2>1, <2>3, <2>4, EndType DEF Paid, SpendTypeOK
  <2> QED BY <1>6, <1>c, <2>3, <2>5 DEF acceptTurn, SpendTypeOK
<1>7. CASE OwnerAnswers(r)
  <2>1. PICK cost \in Costs(r), told \in BOOLEAN :
          /\ record(r, owner[r], cost, told)
          /\ \/ /\ at' = [at EXCEPT ![r] = "turn"]
                /\ owner' = [owner EXCEPT ![r] = recorded(@, cost, told)]
                /\ UNCHANGED <<stage, tries, session>>
             \/ End(r)
    BY <1>7 DEF OwnerAnswers
  <2>2. owner[r] \in Account
    BY DEF SpendTypeOK
  <2>3. /\ spent' \in [Reps -> Nat] /\ groupSpent' \in Nat
        /\ omitted' \in Nat /\ billed' \in [Reps -> Nat]
        /\ recorded(owner[r], cost, told) \in Account
    BY <2>1, <2>2, RecordType
  <2>4. /\ at' \in [Reps -> Paid \cup {"ended"}]
        /\ stage' \in [Reps -> 1..(Stages + 1)]
        /\ tries' \in [Reps -> Nat]
        /\ session' \in [Reps -> Account]
        /\ owner' \in [Reps -> Account]
    BY <2>1, <2>3, EndType DEF Paid, SpendTypeOK
  <2> QED BY <1>7, <1>c, <2>3, <2>4 DEF OwnerAnswers, SpendTypeOK
<1>8. CASE JudgeAnswers(r)
  <2>1. /\ spent' \in [Reps -> Nat] /\ groupSpent' \in Nat
        /\ omitted' \in Nat /\ billed' \in [Reps -> Nat]
    <3>1. NoSpend \in Account
      BY DEF NoSpend, Account
    <3> QED BY <1>8, <3>1, RecordType DEF JudgeAnswers
  <2>2. /\ at' \in [Reps -> Paid \cup {"ended"}]
        /\ stage' \in [Reps -> 1..(Stages + 1)]
        /\ tries' \in [Reps -> Nat]
        /\ session' \in [Reps -> Account]
        /\ owner' \in [Reps -> Account]
    <3>1. CASE End(r)
      BY <3>1, EndType
    <3>2. CASE acceptJudgment(r) /\ ~End(r)
      <4>1. stage[r] + 1 \in 1..(Stages + 1)
        BY <3>2 DEF acceptJudgment, SpendTypeOK
      <4>2. /\ stage' = [stage EXCEPT ![r] = @ + 1]
            /\ \/ at' = [at EXCEPT ![r] = "turn"]
               \/ at' = [at EXCEPT ![r] = "judge"]
            /\ tries' = [tries EXCEPT ![r] = 0]
            /\ session' = session /\ owner' = owner
        BY <3>2 DEF acceptJudgment, sessions
      <4> QED BY <4>1, <4>2 DEF Paid, SpendTypeOK
    <3>3. CASE rejectJudgment(r) /\ ~End(r)
      <4>1. tries[r] + 1 \in Nat
        BY DEF SpendTypeOK
      <4> QED BY <3>3, <4>1 DEF rejectJudgment, SpendTypeOK, sessions
    <3> QED BY <1>8, <3>1, <3>2, <3>3 DEF JudgeAnswers
  <2> QED BY <1>8, <1>c, <2>1, <2>2 DEF JudgeAnswers, SpendTypeOK
<1>9. CASE CallFails(r)
  <2>1. PICK cost \in Costs(r) :
           /\ Billed(r, cost)
           /\ \/ /\ charge(r, Late(r) + cost)
                 /\ call' = [call EXCEPT ![r].cost = cost]
              \/ Answered(r) /\ UNCHANGED <<spent, groupSpent>>
    BY <1>9 DEF CallFails
  <2>2. cost \in Nat /\ Late(r) \in Nat
    BY <2>1 DEF Costs, Late, Account, SpendTypeOK
  <2>3. billed' \in [Reps -> Nat]
    BY <2>1, <2>2 DEF Billed, SpendTypeOK
  <2>4. /\ call' \in [Reps -> [budget : Nat, asked : Nat, cost : Nat]]
        /\ spent' \in [Reps -> Nat] /\ groupSpent' \in Nat
    <3>1. CASE /\ charge(r, Late(r) + cost)
               /\ call' = [call EXCEPT ![r].cost = cost]
      <4>1. call' \in [Reps -> [budget : Nat, asked : Nat, cost : Nat]]
        BY <2>2, <3>1 DEF SpendTypeOK
      <4>2. Late(r) + cost \in Nat
        BY <2>2
      <4> QED BY <3>1, <4>1, <4>2 DEF charge, SpendTypeOK
    <3>2. CASE Answered(r) /\ UNCHANGED <<spent, groupSpent>>
      BY <1>c, <3>2 DEF SpendTypeOK
    <3> QED BY <2>1, <3>1, <3>2
  <2>5. End(r) /\ UNCHANGED omitted
    BY <1>9 DEF CallFails
  <2>6. /\ at' \in [Reps -> Paid \cup {"ended"}]
        /\ stage' \in [Reps -> 1..(Stages + 1)]
        /\ tries' \in [Reps -> Nat]
        /\ session' \in [Reps -> Account]
        /\ owner' \in [Reps -> Account]
    BY <2>5, EndType
  <2> QED BY <2>3, <2>4, <2>5, <2>6 DEF SpendTypeOK
<1> QED BY <1>2, <1>3, <1>4, <1>5, <1>6, <1>7, <1>8, <1>9 DEF RepStep

(* Every operation of a rep is one of the five kinds of step.               *)
LEMMA StepKinds ==
    ASSUME SpendTypeOK, NEW r \in Reps, RepStep(r)
    PROVE  StepKind(r)
<1> USE SpendAssumption
<1>e. ASSUME End(r)
      PROVE  at'[r] = "ended" /\ \A q \in Reps \ {r} : at'[q] = at[q]
  BY <1>e DEF End, SpendTypeOK
<1>1. ASSUME NEW asked \in Nat, StartCall(r, asked) PROVE StepKind(r)
  BY <1>1 DEF StartCall, StepKind, OnlyRep, StartStep, SpendTypeOK, progress,
              accounts
<1>2. CASE invoke(r)
  <2>1. remainingBudget(session[r]) \in Nat
    BY <1>2 DEF invoke, StartCall, remainingBudget, Account, SpendTypeOK
  <2> QED BY <1>1, <1>2, <2>1 DEF invoke
<1>3. CASE ask(r)
  <2>1. remainingBudget(owner[r]) \in Nat
    BY <1>3 DEF ask, StartCall, remainingBudget, Account, SpendTypeOK
  <2> QED BY <1>1, <1>3, <2>1 DEF ask
<1>4. CASE invokeJudge(r)
  BY <1>1, <1>4 DEF invokeJudge
<1>5. CASE StartRefused(r)
  BY <1>5, <1>e DEF StartRefused, Idle, StepKind, OnlyRep, RefuseStep
<1>6. CASE acceptTurn(r)
  <2>1. \A q \in Reps \ {r} : at'[q] = at[q]
    BY <1>6, <1>e DEF acceptTurn, SpendTypeOK
  <2>2. session[r] \in Account
    BY DEF SpendTypeOK
  <2> QED BY <1>6, <2>1, <2>2, RecordKind DEF acceptTurn, InFlight, Paid
<1>7. CASE OwnerAnswers(r)
  <2>1. \A q \in Reps \ {r} : at'[q] = at[q]
    BY <1>7, <1>e DEF OwnerAnswers, SpendTypeOK
  <2>2. owner[r] \in Account
    BY DEF SpendTypeOK
  <2> QED BY <1>7, <2>1, <2>2, RecordKind DEF OwnerAnswers, InFlight, Paid
<1>8. CASE JudgeAnswers(r)
  <2>1. \A q \in Reps \ {r} : at'[q] = at[q]
    BY <1>8, <1>e DEF JudgeAnswers, acceptJudgment, rejectJudgment, SpendTypeOK
  <2>2. NoSpend \in Account
    BY DEF NoSpend, Account
  <2> QED BY <1>8, <2>1, <2>2, RecordKind DEF JudgeAnswers, InFlight, Paid
<1>9. CASE CallFails(r)
  <2>1. /\ at[r] \in Paid /\ call[r] # NoCall
        /\ at'[r] = "ended" /\ \A q \in Reps \ {r} : at'[q] = at[q]
    BY <1>9, <1>e DEF CallFails
  <2>2. PICK cost \in Costs(r) :
           /\ Billed(r, cost)
           /\ \/ /\ charge(r, Late(r) + cost)
                 /\ call' = [call EXCEPT ![r].cost = cost]
              \/ Answered(r) /\ UNCHANGED <<spent, groupSpent>>
    BY <1>9 DEF CallFails
  <2>3. Late(r) \in Nat
    BY DEF Late, Account, SpendTypeOK
  <2>4. billed'[r] = billed[r] + cost
        /\ \A q \in Reps \ {r} : billed'[q] = billed[q]
    BY <2>2 DEF Billed, SpendTypeOK
  <2>5. CASE charge(r, Late(r) + cost) /\ call' = [call EXCEPT ![r].cost = cost]
    <3>1. /\ call'[r] = [budget |-> call[r].budget, asked |-> call[r].asked,
                         cost |-> cost]
          /\ \A q \in Reps \ {r} : call'[q] = call[q]
      BY <2>5 DEF SpendTypeOK
    <3> QED BY <2>1, <2>2, <2>3, <2>4, <2>5, <3>1 DEF charge, StepKind,
                                      OnlyRep, ChargeStep, SpendTypeOK
  <2>6. CASE Answered(r) /\ UNCHANGED <<spent, groupSpent>>
    BY <2>1, <2>2, <2>4, <2>6 DEF Answered, StepKind, OnlyRep, LoseStep,
                                  SpendTypeOK
  <2> QED BY <2>2, <2>5, <2>6
<1> QED BY <1>2, <1>3, <1>4, <1>5, <1>6, <1>7, <1>8, <1>9 DEF RepStep

-----------------------------------------------------------------------------
(* No step takes back what was charged to the group: charge only adds.      *)
LEMMA GroupGrows ==
    ASSUME SpendTypeOK, NEW r \in Reps, StepKind(r)
    PROVE  groupSpent' >= groupSpent
<1>1. groupSpent \in Nat
  BY DEF SpendTypeOK
<1>2. \A cost \in Costs(r) : cost \in Nat
  BY SpendAssumption DEF Costs, SpendTypeOK
<1>3. groupSpent' = groupSpent \/ \E cost \in Costs(r), late \in Nat :
                                    groupSpent' = groupSpent + (late + cost)
  BY DEF StepKind, StartStep, RefuseStep, ChargeStep, OmitStep, LoseStep
<1> QED BY <1>1, <1>2, <1>3

(* budgetFor grants at most what the rep has left, and less than was asked  *)
(* only when the rep or the group has no more.                              *)
LEMMA GrantClamp ==
    ASSUME SpendTypeOK, NEW r \in Reps, NEW asked \in Nat, ~Refused(r)
    PROVE  /\ budgetFor(r, asked) \in Nat
           /\ spent[r] + budgetFor(r, asked) <= Ceiling
           /\ budgetFor(r, asked) < asked =>
                 \/ spent[r] + budgetFor(r, asked) >= Ceiling
                 \/ groupSpent + budgetFor(r, asked) >= groupSpendCeilingUsd
BY SpendAssumption, GroupCeilingType
   DEF Refused, budgetFor, AtMost, LeftToRep, LeftToGroup, SpendTypeOK

(* The invariant is kept, rep by rep: the rep that moves and the others.    *)
LEMMA InvStep ==
    ASSUME SpendInv, SpendTypeOK', NEW r \in Reps, StepKind(r)
    PROVE  SpendInv'
<1> USE SpendAssumption, GroupCeilingType
<1> USE DEF SpendInv
<1>g. groupSpent' >= groupSpent
  BY GroupGrows
<1>t. /\ groupSpent \in Nat /\ groupSpent' \in Nat
      /\ \A q \in Reps : spent[q] \in Nat /\ billed[q] \in Nat
                           /\ call[q].budget \in Nat /\ call[q].asked \in Nat
  BY DEF SpendTypeOK
<1>1. ASSUME NEW q \in Reps \ {r}
      PROVE  /\ (at'[q] \in Paid /\ call'[q] # NoCall) =>
                  /\ spent'[q] + call'[q].budget <= Ceiling
                  /\ call'[q].budget < call'[q].asked =>
                        \/ spent'[q] + call'[q].budget >= Ceiling
                        \/ groupSpent' + call'[q].budget >= groupSpendCeilingUsd
             /\ at'[q] \in Paid => billed'[q] <= spent'[q]
             /\ billed'[q] <= Ceiling + Overrun
             /\ (at'[q] = "ended" /\ call'[q].budget < call'[q].asked
                   /\ call'[q].cost >= call'[q].budget) => reached(q)'
  <2>1. at'[q] = at[q] /\ spent'[q] = spent[q] /\ call'[q] = call[q]
          /\ billed'[q] = billed[q]
    BY DEF StepKind, OnlyRep
  <2> QED BY <1>g, <1>t, <2>1
        DEF GrantInv, BilledInv, RunOverrun, HaltedReadsCeiling, reached
<1>2. /\ (at'[r] \in Paid /\ call'[r] # NoCall) =>
            /\ spent'[r] + call'[r].budget <= Ceiling
            /\ call'[r].budget < call'[r].asked =>
                  \/ spent'[r] + call'[r].budget >= Ceiling
                  \/ groupSpent' + call'[r].budget >= groupSpendCeilingUsd
      /\ at'[r] \in Paid => billed'[r] <= spent'[r]
      /\ billed'[r] <= Ceiling + Overrun
      /\ (at'[r] = "ended" /\ call'[r].budget < call'[r].asked
            /\ call'[r].cost >= call'[r].budget) => reached(r)'
  <2>1. CASE StartStep(r)
    <3>1. PICK asked \in Nat :
             ~Refused(r) /\ call'[r] = [budget |-> budgetFor(r, asked),
                                        asked |-> asked, cost |-> 0]
      BY <2>1 DEF StartStep
    <3> QED BY <1>t, <2>1, <3>1, GrantClamp
          DEF StartStep, BilledInv, RunOverrun, HaltedReadsCeiling, reached
  <2>2. CASE RefuseStep(r)
    BY <2>2 DEF RefuseStep, NoCall, Paid, RunOverrun
  <2>3. CASE ChargeStep(r)
    <3>1. PICK cost \in Costs(r), late \in Nat :
            /\ billed'[r] = billed[r] + cost
            /\ spent'[r] = spent[r] + (late + cost)
            /\ groupSpent' = groupSpent + (late + cost)
            /\ \/ call'[r] = NoCall
               \/ /\ at'[r] = "ended"
                  /\ call'[r] = [budget |-> call[r].budget,
                                 asked |-> call[r].asked, cost |-> cost]
      BY <2>3 DEF ChargeStep
    <3>2. /\ cost \in Nat /\ cost <= call[r].budget + Overrun
          /\ spent[r] + call[r].budget <= Ceiling
          /\ billed[r] <= spent[r]
      BY <1>t, <2>3 DEF ChargeStep, Costs, GrantInv, BilledInv
    <3>3. billed'[r] <= Ceiling + Overrun /\ billed'[r] <= spent'[r]
      BY <1>t, <3>1, <3>2
    <3>4. CASE call'[r] = NoCall
      BY <3>3, <3>4 DEF NoCall
    <3>5. CASE /\ at'[r] = "ended"
               /\ call'[r] = [budget |-> call[r].budget,
                              asked |-> call[r].asked, cost |-> cost]
      <4>1. (call[r].budget < call[r].asked /\ cost >= call[r].budget) =>
               reached(r)'
        BY <1>t, <2>3, <3>1, <3>2 DEF ChargeStep, GrantInv, reached
      <4> QED BY <3>3, <3>5, <4>1 DEF Paid
    <3> QED BY <3>1, <3>4, <3>5
  <2>5. CASE OmitStep(r)
    BY <1>t, <2>5 DEF OmitStep, BilledInv, RunOverrun, NoCall
  <2>4. CASE LoseStep(r)
    BY <1>t, <2>4 DEF LoseStep, Costs, GrantInv, BilledInv, RunOverrun, NoCall,
                      Paid
  <2> QED BY <2>1, <2>2, <2>3, <2>4, <2>5 DEF StepKind
<1> QED BY <1>1, <1>2 DEF GrantInv, BilledInv, RunOverrun, HaltedReadsCeiling

-----------------------------------------------------------------------------
(* The invariant of the ceilings, for any reps, amounts and order of calls. *)
THEOREM SpendInvariance == SpendSpec => []SpendInv
<1>1. InitSpend => SpendInv
  <2> SUFFICES ASSUME InitSpend PROVE SpendInv
    OBVIOUS
  <2>1. SpendTypeOK
    BY SpendAssumption DEF InitSpend, SpendTypeOK, Paid, NoCall, NoSpend,
                           Account
  <2>2. GrantInv /\ BilledInv /\ RunOverrun /\ HaltedReadsCeiling
    BY SpendAssumption DEF InitSpend, GrantInv, BilledInv, RunOverrun,
                           HaltedReadsCeiling, NoCall
  <2> QED BY <2>1, <2>2 DEF SpendInv
<1>2. SpendInv /\ [NextSpend]_spendVars => SpendInv'
  <2> SUFFICES ASSUME SpendInv, [NextSpend]_spendVars PROVE SpendInv'
    OBVIOUS
  <2>1. CASE NextSpend
    <3>1. PICK r \in Reps : RepStep(r)
      BY <2>1 DEF NextSpend
    <3>2. SpendTypeOK
      BY DEF SpendInv
    <3>3. SpendTypeOK' /\ StepKind(r)
      BY <3>1, <3>2, TypeStep, StepKinds
    <3> QED BY <3>3, InvStep
  <2>2. CASE UNCHANGED spendVars
    BY <2>2 DEF spendVars, progress, accounts, sessions, SpendInv,
                SpendTypeOK, GrantInv, BilledInv, RunOverrun, HaltedReadsCeiling, reached
  <2> QED BY <2>1, <2>2
<1> QED BY <1>1, <1>2, PTL DEF SpendSpec

(* A rep is billed at most its ceiling and one call's overrun, but for the  *)
(* answers whose envelopes told no total, and though a failed call may tell *)
(* nothing: budgetFor, sessionCalls.record and the end of a failed rep.     *)
THEOREM BilledWithinOverrun == SpendSpec => []RunOverrun
<1>1. SpendInv => RunOverrun
  BY DEF SpendInv
<1> QED BY <1>1, SpendInvariance, PTL

(* A call halted at a clamped budget reads as stopped at the ceiling: what  *)
(* reached answers to stoppingAtCeiling and paidJudgeFailure.               *)
THEOREM HaltReads == SpendSpec => []HaltedReadsCeiling
<1>1. SpendInv => HaltedReadsCeiling
  BY DEF SpendInv
<1> QED BY <1>1, SpendInvariance, PTL

=============================================================================
