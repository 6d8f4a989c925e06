---------------------------- MODULE SpendCeiling ----------------------------
(***************************************************************************)
(* The spend ceiling of a confirmation group and of its reps               *)
(* (spend-ceiling.ts), and the three places that spend under it: the turns *)
(* of a stage's session (workflow.ts), the Product Owner who answers them  *)
(* (product-owner.ts) and the Judge with its retry (judge-attempt.ts).     *)
(*                                                                         *)
(* The reps run at once, each with one provider call in flight at most.  A *)
(* call's budget is granted when it starts and its cost is charged when it *)
(* ends, so other reps charge in between.  A run outside a group is a      *)
(* group of one: its two ceilings are the same.                            *)
(*                                                                         *)
(* Dollars are whole units.  The provider stops a session only after the   *)
(* request that crosses its budget, so a call costs its budget and at most *)
(* Overrun more.  An envelope it reports may carry the session's total     *)
(* (total_cost_usd) or not: a total charges all the session cost since the *)
(* last one, and an envelope without it charges nothing.                   *)
(***************************************************************************)
EXTENDS Integers, FiniteSets

CONSTANTS
    Reps,           \* the reps of the group
    Ceiling,        \* spendCeilingUsd, the ceiling of a rep
    SessionBudget,  \* sessionBudgetUsd, the budget of a provider session
    Overrun,        \* what one call may cost past the budget it was given
    Stages,         \* the number of stages of the pipeline
    MaxTurns,       \* MAX_STAGE_TURNS
    MaxAttempts,    \* MAX_JUDGE_ATTEMPTS
    MaxOmitted      \* a bound on the answers of the group without a total

ASSUME SpendAssumption ==
    /\ IsFiniteSet(Reps)
    /\ Ceiling \in Nat \ {0}
    /\ SessionBudget \in Nat \ {0}
    /\ Overrun \in Nat
    /\ Stages \in Nat \ {0}
    /\ MaxTurns \in Nat \ {0}
    /\ MaxAttempts \in Nat \ {0}
    /\ MaxOmitted \in Nat

VARIABLES
    at,          \* what the rep pays for next, or now
    stage,       \* the stage it is in, Stages + 1 at the final Judge
    tries,       \* the turns of the session, the attempts of the Judge
    session,     \* the account of the stage's session (sessionCalls)
    owner,       \* the account of the Product Owner's session
    spent,       \* spentUsd of the rep's ceiling
    groupSpent,  \* spentUsd of the group's ceiling
    call,        \* the call in flight, or the one that failed the rep
    omitted,     \* how many answers told no total
    billed       \* for the properties only: what the provider billed the
                 \* rep, but for answers whose envelopes told no total

progress == <<at, stage, tries>>
sessions == <<session, owner>>
accounts == <<sessions, spent, groupSpent, omitted, billed>>
spendVars == <<progress, accounts, call>>

Paid == {"turn", "answer", "judge"}
NoCall == [budget |-> 0, asked |-> 0, cost |-> 0]

(* spent is sessionCalls.spentUsd, the last total the session reported, and *)
(* late what it cost since then.                                            *)
Account == [spent : Nat, late : Nat]
NoSpend == [spent |-> 0, late |-> 0]

SpendTypeOK ==
    /\ at \in [Reps -> Paid \cup {"ended"}]
    /\ stage \in [Reps -> 1..(Stages + 1)]
    /\ tries \in [Reps -> Nat]
    /\ session \in [Reps -> Account]
    /\ owner \in [Reps -> Account]
    /\ spent \in [Reps -> Nat]
    /\ groupSpent \in Nat
    /\ call \in [Reps -> [budget : Nat, asked : Nat, cost : Nat]]
    /\ omitted \in Nat
    /\ billed \in [Reps -> Nat]

InitSpend ==
    /\ at = [r \in Reps |-> "turn"]
    /\ stage = [r \in Reps |-> 1]
    /\ tries = [r \in Reps |-> 0]
    /\ session = [r \in Reps |-> NoSpend]
    /\ owner = [r \in Reps |-> NoSpend]
    /\ spent = [r \in Reps |-> 0]
    /\ groupSpent = 0
    /\ call = [r \in Reps |-> NoCall]
    /\ omitted = 0
    /\ billed = [r \in Reps |-> 0]

-----------------------------------------------------------------------------
(* The ceilings.                                                            *)

groupSpendCeilingUsd == Ceiling * Cardinality(Reps)

LeftToRep(r) == Ceiling - spent[r]
LeftToGroup == groupSpendCeilingUsd - groupSpent

Refused(r) == LeftToRep(r) <= 0 \/ LeftToGroup <= 0

AtMost(x, y) == IF x <= y THEN x ELSE y

budgetFor(r, asked) == AtMost(AtMost(asked, LeftToRep(r)), LeftToGroup)

(* Mutant: a rep's cost is not passed on to its group. *)
charge_RepOnly(r, cost) ==
    /\ spent' = [spent EXCEPT ![r] = @ + cost]
    /\ UNCHANGED groupSpent

charge(r, cost) ==
    /\ spent' = [spent EXCEPT ![r] = @ + cost]
    /\ groupSpent' = groupSpent + cost

(* Mutant: a rep does not ask its group's ceiling. *)
reached_OwnOnly(r) == spent[r] >= Ceiling

reached(r) == spent[r] >= Ceiling \/ groupSpent >= groupSpendCeilingUsd

-----------------------------------------------------------------------------
(* A call starts with the budget both ceilings leave of what its session    *)
(* has left.                                                                *)

Idle(r, what) == at[r] = what /\ call[r] = NoCall

StartCall(r, asked) ==
    /\ asked > 0
    /\ ~Refused(r)
    /\ call' = [call EXCEPT ![r] = [budget |-> budgetFor(r, asked),
                                    asked |-> asked, cost |-> 0]]
    /\ UNCHANGED <<progress, accounts>>

remainingBudget(account) == SessionBudget - account.spent

invoke(r) ==
    /\ Idle(r, "turn")
    /\ tries[r] < MaxTurns
    /\ StartCall(r, remainingBudget(session[r]))

ask(r) ==
    /\ Idle(r, "answer")
    /\ StartCall(r, remainingBudget(owner[r]))

invokeJudge(r) ==
    /\ Idle(r, "judge")
    /\ StartCall(r, SessionBudget)

(* The rep is over, and its sessions with it. *)
End(r) ==
    /\ at' = [at EXCEPT ![r] = "ended"]
    /\ session' = [session EXCEPT ![r] = NoSpend]
    /\ owner' = [owner EXCEPT ![r] = NoSpend]
    /\ tries' = [tries EXCEPT ![r] = 0]
    /\ UNCHANGED stage

(* No call starts: the stage ran out of turns, the session of its budget,   *)
(* or a ceiling refuses.                                                    *)
StartRefused(r) ==
    /\ \/ /\ Idle(r, "turn")
          /\ \/ tries[r] >= MaxTurns
             \/ remainingBudget(session[r]) <= 0
             \/ Refused(r)
       \/ /\ Idle(r, "answer")
          /\ remainingBudget(owner[r]) <= 0 \/ Refused(r)
       \/ Idle(r, "judge") /\ Refused(r)
    /\ End(r)
    /\ UNCHANGED <<spent, groupSpent, omitted, billed, call>>

-----------------------------------------------------------------------------
(* A call ends.                                                             *)

InFlight(r, what) == at[r] = what /\ call[r] # NoCall

Costs(r) == 0..(call[r].budget + Overrun)

Answered(r) == call' = [call EXCEPT ![r] = NoCall]

Billed(r, cost) == billed' = [billed EXCEPT ![r] = @ + cost]

(* sessionCalls.record: the account after a call whose envelope told the    *)
(* session's total, or did not.                                             *)
recorded(account, cost, told) ==
    IF told THEN [spent |-> account.spent + account.late + cost, late |-> 0]
            ELSE [account EXCEPT !.late = @ + cost]

(* What a call that was answered charges. *)
record(r, account, cost, told) ==
    IF told THEN /\ Billed(r, cost)
                 /\ charge(r, account.late + cost)
                 /\ UNCHANGED omitted
            ELSE /\ omitted < MaxOmitted
                 /\ omitted' = omitted + 1
                 /\ UNCHANGED <<billed, spent, groupSpent>>

(* acceptTurn: the turn is charged before it is read.  A turn that completes *)
(* the stage ends its session.                                              *)
acceptTurn(r) ==
    /\ InFlight(r, "turn")
    /\ \E cost \in Costs(r), told \in BOOLEAN :
          /\ record(r, session[r], cost, told)
          /\ \/ /\ at' = [at EXCEPT ![r] = "judge"]
                /\ tries' = [tries EXCEPT ![r] = 0]
                /\ session' = [session EXCEPT ![r] = NoSpend]
                /\ UNCHANGED <<stage, owner>>
             \/ /\ at' = [at EXCEPT ![r] = "answer"]
                /\ tries' = [tries EXCEPT ![r] = @ + 1]
                /\ session' = [session EXCEPT ![r] = recorded(@, cost, told)]
                /\ UNCHANGED <<stage, owner>>
             \/ End(r)
    /\ Answered(r)

OwnerAnswers(r) ==
    /\ InFlight(r, "answer")
    /\ \E cost \in Costs(r), told \in BOOLEAN :
          /\ record(r, owner[r], cost, told)
          /\ \/ /\ at' = [at EXCEPT ![r] = "turn"]
                /\ owner' = [owner EXCEPT ![r] = recorded(@, cost, told)]
                /\ UNCHANGED <<stage, tries, session>>
             \/ End(r)
    /\ Answered(r)

(* The next stage has a session of its own; the final Judge has none. *)
acceptJudgment(r) ==
    \/ /\ stage[r] <= Stages
       /\ stage' = [stage EXCEPT ![r] = @ + 1]
       /\ at' = [at EXCEPT ![r] = IF stage[r] < Stages THEN "turn" ELSE "judge"]
       /\ tries' = [tries EXCEPT ![r] = 0]
       /\ UNCHANGED sessions
    \/ End(r)

rejectJudgment(r) ==
    IF tries[r] + 1 < MaxAttempts
      THEN /\ tries' = [tries EXCEPT ![r] = @ + 1]
           /\ UNCHANGED <<at, stage, sessions>>
      ELSE End(r)

(* Each attempt is a session of its own, so a cost it leaves out is never   *)
(* made up for.                                                             *)
JudgeAnswers(r) ==
    /\ InFlight(r, "judge")
    /\ \E cost \in Costs(r), told \in BOOLEAN : record(r, NoSpend, cost, told)
    /\ acceptJudgment(r) \/ rejectJudgment(r)
    /\ Answered(r)

(* What the session of the call in flight cost since its last total. *)
Late(r) == CASE at[r] = "turn"   -> session[r].late
             [] at[r] = "answer" -> owner[r].late
             [] OTHER            -> 0

(* Mutant: a Judge whose call failed is tried again. *)
CallFails_Retried(r) ==
    /\ at[r] \in Paid
    /\ call[r] # NoCall
    /\ \E cost \in Costs(r) :
          /\ Billed(r, cost)
          /\ \/ /\ charge(r, Late(r) + cost)
                /\ call' = [call EXCEPT ![r].cost = cost]
                /\ End(r)
             \/ /\ Answered(r)
                /\ tries' = [tries EXCEPT ![r] = @ + 1]
                /\ tries[r] < MaxAttempts
                /\ UNCHANGED <<spent, groupSpent, at, stage, sessions>>
    /\ UNCHANGED omitted

(* A failed call ends the rep.  A provider that reports the failure, as it  *)
(* does when it halts the session at its budget, is charged what its        *)
(* envelope tells; a call that ends without an envelope, or with one that   *)
(* tells no total, is not.                                                  *)
CallFails(r) ==
    /\ at[r] \in Paid
    /\ call[r] # NoCall
    /\ \E cost \in Costs(r) :
          /\ Billed(r, cost)
          /\ \/ /\ charge(r, Late(r) + cost)
                /\ call' = [call EXCEPT ![r].cost = cost]
             \/ /\ Answered(r)
                /\ UNCHANGED <<spent, groupSpent>>
    /\ End(r)
    /\ UNCHANGED omitted

-----------------------------------------------------------------------------
RepStep(r) ==
    \/ invoke(r)
    \/ ask(r)
    \/ invokeJudge(r)
    \/ StartRefused(r)
    \/ acceptTurn(r)
    \/ OwnerAnswers(r)
    \/ JudgeAnswers(r)
    \/ CallFails(r)

NextSpend == \E r \in Reps : RepStep(r)

SpendSpec == InitSpend /\ [][NextSpend]_spendVars

-----------------------------------------------------------------------------
(* What the provider billed a rep passes its ceiling by one call's overrun  *)
(* at most, but for the answers whose envelopes told no total: these are    *)
(* charged nothing and the rep goes on, and no later total makes up for     *)
(* them once their session is over.  A call that fails without telling its  *)
(* cost is within the bound, because it is the rep's last.                  *)
(* docs/reference.md: the ceiling bounds spend by at most the call in       *)
(* flight.                                                                  *)
RunOverrun == \A r \in Reps : billed[r] <= Ceiling + Overrun

(* A call halted at a budget that a ceiling had clamped reads as stopped at *)
(* the ceiling, though others charged the group since the budget was        *)
(* granted: stoppingAtCeiling and paidJudgeFailure ask reached() to tell    *)
(* such a halt from a session that used up its own budget.  It is the halt  *)
(* whose envelope tells its total: one that does not is charged nothing.    *)
HaltedReadsCeiling ==
    \A r \in Reps :
       (at[r] = "ended" /\ call[r].budget < call[r].asked
          /\ call[r].cost >= call[r].budget) => reached(r)

-----------------------------------------------------------------------------
(* The inductive invariant: a call in flight was granted what its rep still *)
(* has left, which nothing else can spend, and if it was clamped it spends  *)
(* at least what is left to its rep or to the group; and a rep that goes on *)
(* was charged all that is counted as billed.                               *)
GrantInv ==
    \A r \in Reps :
       (at[r] \in Paid /\ call[r] # NoCall) =>
          /\ spent[r] + call[r].budget <= Ceiling
          /\ call[r].budget < call[r].asked =>
                \/ spent[r] + call[r].budget >= Ceiling
                \/ groupSpent + call[r].budget >= groupSpendCeilingUsd

BilledInv == \A r \in Reps : at[r] \in Paid => billed[r] <= spent[r]

SpendInv ==
    SpendTypeOK /\ GrantInv /\ BilledInv /\ RunOverrun /\ HaltedReadsCeiling

=============================================================================
