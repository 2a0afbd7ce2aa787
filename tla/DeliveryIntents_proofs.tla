----------------------- MODULE DeliveryIntents_proofs -----------------------
(***************************************************************************)
(* Types, effects and responsibility in DeliveryIntents, for any number of *)
(* generations, drainers and events.                                       *)
(***************************************************************************)
EXTENDS DeliveryIntents, FiniteNumbers

Statuses == {"none", "pending", "done", "failed", "superseded"}
Claims == [on : Intents, nr : Nat, from : Input \cup {None}]
MostEver == Max(Attempts) + events

-----------------------------------------------------------------------------
(* The inductive invariant, by the part of the state it is about.          *)

\* How far the world has gone.  A generation writes its target once, so besides
\* the users there are no more writers of terms than generations.
WorldOK ==
    /\ input \in [structural : Nat, presentation : Nat, day : Nat]
    /\ events \in 0..MaxEvents
    /\ input.structural <= events /\ input.day <= events
    /\ input.presentation <= events + made
    /\ made > 0 /\ status[<<made, "target">>] # "done"
         => input.presentation < events + made
    /\ wanted \in 1..(events + 1) /\ projected \in 0..wanted
    /\ due \in BOOLEAN

GenerationOK ==
    /\ made \in 0..MaxGens
    /\ versions \in [Gens -> Input]
    /\ view \in [Gens -> 0..(MaxEvents + 1)]
    /\ occurrence \in [Gens -> 0..MaxGens]
    /\ plan # None =>
         /\ made < MaxGens
         /\ plan.versions \in Input /\ plan.view \in 0..(MaxEvents + 1)
         /\ plan.occurrence \in 0..MaxGens

\* What is leased is pending, and nothing exists of generations to come.
IntentOK ==
    /\ status \in [Intents -> Statuses]
    /\ \A i \in Intents : i[1] > made => status[i] = "none"
    /\ leased \subseteq InStatus({"pending"})
    /\ attempt \in [Intents -> Nat]
    /\ work \subseteq Claims

\* A budget is overdrawn at no time.
BudgetOK ==
    /\ used \in [Intents -> Nat] /\ most \in [Intents -> Nat]
    /\ Max(Attempts) \in Nat
    /\ \A i \in Intents : used[i] <= most[i] /\ 1 <= most[i] /\ most[i] <= MostEver
    /\ cooling \subseteq Intents

ReceiptOK ==
    /\ told \in [Gens -> Nat] /\ \A g \in Gens : told[g] <= 1
    /\ changed \subseteq Gens

DeliveryInv == WorldOK /\ GenerationOK /\ IntentOK /\ BudgetOK /\ ReceiptOK
               /\ OneResponsible

-----------------------------------------------------------------------------
LEMMA Numbers ==
    /\ MaxGens \in Nat \ {0} /\ MaxEvents \in Nat
    /\ Gens = 1..MaxGens
    /\ \A n \in Attempts : n \in Nat \ {0}
  BY DeliveryAssumption DEF Gens

LEMMA MostAllowed ==
    ASSUME NEW n \in Attempts
    PROVE  Max(Attempts) \in Nat /\ n <= Max(Attempts)
<1>1. Attempts \subseteq Nat /\ IsFiniteSet(Attempts) /\ Attempts # {}
  BY DeliveryAssumption
<1> QED
  BY <1>1, MaxOfFinite

\* The row that keeps the budget of an intent is an intent's.
LEMMA BudgetIsARow ==
    ASSUME NEW i \in Intents, status[i] # "none"
    PROVE  Budget(i) \in Intents
<1> DEFINE rows == {g \in Gens : Same(<<g, i[2]>>, i)}
<1>1. i[1] \in Gens /\ i = <<i[1], i[2]>> /\ i[2] \in Kinds
  BY DEF Intents
<1>2. i[1] \in rows
  <2>1. Same(i, i)
    BY DEF Same
  <2> QED
    BY <1>1, <2>1
<1>3. rows \subseteq Gens /\ Gens \subseteq Nat
  BY Numbers
<1>4. Min(rows) \in rows
  <2> HIDE DEF rows
  <2> QED
    BY <1>2, <1>3, MinOfNumbers
<1> QED
  BY <1>1, <1>3, <1>4 DEF Budget, Intents

LEMMA InputTyped == WorldOK /\ GenerationOK => input \in Input
<1> SUFFICES ASSUME WorldOK, GenerationOK PROVE input \in Input
  OBVIOUS
<1>1. /\ input.structural \in 0..MaxEvents
      /\ input.presentation \in 0..(MaxEvents + MaxGens)
      /\ input.day \in 0..MaxEvents
  BY Numbers DEF WorldOK, GenerationOK
<1>2. input = [structural |-> input.structural, presentation |-> input.presentation,
               day |-> input.day]
  BY DEF WorldOK
<1> QED
  BY <1>1, <1>2 DEF Input

LEMMA InvInit == Init => DeliveryInv
<1> SUFFICES ASSUME Init PROVE DeliveryInv
  OBVIOUS
<1>1. WorldOK
  BY Numbers DEF Init, WorldOK, First
<1>2. GenerationOK
  BY Numbers DEF Init, GenerationOK, First, Input
<1>3. IntentOK
  BY DEF Init, IntentOK, Statuses
<1>4. BudgetOK
  <2>1. PICK n \in Attempts : most = [i \in Intents |-> n]
    BY DEF Init
  <2> QED
    BY <2>1, MostAllowed, Numbers DEF Init, BudgetOK, MostEver
<1>5. ReceiptOK
  BY DEF Init, ReceiptOK
<1>6. OneResponsible
  BY DEF Init, OneResponsible
<1> QED
  BY <1>1, <1>2, <1>3, <1>4, <1>5, <1>6 DEF DeliveryInv

-----------------------------------------------------------------------------
(* What a step may do to the rows: the life of an intent.                  *)

Moves(i) ==
    \/ status'[i] = status[i]
    \/ /\ status[i] = "none" /\ status'[i] = "pending"
       /\ i[1] = made + 1 /\ made' = made + 1
    \/ status[i] = "pending" /\ status'[i] \in {"failed", "superseded"}
    \/ /\ status[i] = "pending" /\ status'[i] = "done"
       /\ Valid(i) /\ Ready(i)
    \/ status[i] = "failed" /\ status'[i] \in {"pending", "superseded"}
    \/ /\ status[i] = "done" /\ status'[i] = "pending"
       /\ i[2] \in {"refresh", "complete"}

RowsMove == status' \in [Intents -> Statuses] /\ \A i \in Intents : Moves(i)

\* The rows of a step that changes at most one of them.
LEMMA OneRowMoves ==
    ASSUME IntentOK, NEW i \in Intents, NEW new \in Statuses,
           status' = [status EXCEPT ![i] = new], Moves(i)
    PROVE  RowsMove
  BY DEF RowsMove, Moves, IntentOK

LEMMA NoRowMoves == IntentOK /\ UNCHANGED status => RowsMove
  BY DEF RowsMove, Moves, IntentOK

\* What a claim is on, and that the intent is pending while the claim stands.
LEMMA ClaimIsOnPending ==
    ASSUME IntentOK, NEW c \in work
    PROVE  /\ c.on \in Intents /\ c.nr \in Nat
           /\ Matches(c) => status[c.on] = "pending" /\ c.on \in leased
  BY DEF IntentOK, Claims, Matches

\* A settlement changes the row it is on, and a target those it arms again.
LEMMA SettleMoves ==
    ASSUME IntentOK, NEW c \in work, Settle(c)
    PROVE  RowsMove
<1> DEFINE i == c.on
           g == i[1]
<1>1. /\ i \in Intents /\ g \in Gens /\ i[2] \in Kinds /\ i = <<g, i[2]>>
      /\ status[i] = "pending" /\ Valid(i) /\ Ready(i)
  BY ClaimIsOnPending DEF Settle, Intents
<1>2. CASE status' = [status EXCEPT ![i] = "done"]
  <2>1. Moves(i)
    BY <1>1, <1>2 DEF Moves, IntentOK
  <2> QED
    BY <1>1, <1>2, <2>1, OneRowMoves DEF Statuses
<1>3. CASE i[2] = "target" /\ ApplyTarget(g)
  <2>1. /\ i = <<g, "target">>
        /\ \A j \in Intents :
             status'[j] = IF j = i THEN "done"
                          ELSE IF projected # wanted /\ j \in Rearm(g) THEN "pending"
                          ELSE status[j]
    BY <1>1, <1>3 DEF ApplyTarget
  <2>2. \A j \in Rearm(g) : status[j] = "done" /\ j[2] \in {"refresh", "complete"}
    BY DEF Rearm, Of
  <2>3. \A j \in Intents : Moves(j)
    BY <1>1, <2>1, <2>2 DEF Moves
  <2>4. status' \in [Intents -> Statuses]
    BY <1>3 DEF ApplyTarget, IntentOK, Statuses
  <2> QED
    BY <2>3, <2>4 DEF RowsMove
<1> QED
  BY <1>1, <1>2, <1>3 DEF Settle, ApplyFinding, ApplyRefresh, ApplyComplete, ApplyAssist,
     Done, Kinds, Term

LEMMA StatusStep ==
    ASSUME IntentOK, GenerationOK, [Next]_vars
    PROVE  RowsMove
<1>1. CASE Publish
  <2>1. CASE UNCHANGED status
    BY <2>1, NoRowMoves
  <2>2. CASE /\ made' = made + 1
             /\ status' = [i \in Intents |-> IF i \in Of(made + 1, plan.kinds)
                                             THEN "pending" ELSE status[i]]
    <3>1. \A i \in Of(made + 1, plan.kinds) : i[1] = made + 1
      BY DEF Of
    <3>2. \A i \in Intents : i[1] = made + 1 => status[i] = "none"
      BY Numbers DEF IntentOK, GenerationOK
    <3>3. \A i \in Intents : Moves(i)
      BY <2>2, <3>1, <3>2 DEF Moves
    <3> QED
      BY <2>2, <3>3 DEF RowsMove, IntentOK, Statuses
  <2> QED
    BY <1>1, <2>1, <2>2 DEF Publish
<1>2. CASE ClaimDue
  <2>1. PICK i \in Heads : Supersede(i) \/ GiveUp(i) \/ Take(i)
    BY <1>2 DEF ClaimDue
  <2>2. i \in Intents /\ status[i] = "pending"
    BY DEF Heads, Due, InStatus
  <2>3. CASE Supersede(i)
    BY <2>2, <2>3, OneRowMoves DEF Supersede, Moves, Statuses, IntentOK
  <2>4. CASE GiveUp(i)
    BY <2>2, <2>4, OneRowMoves DEF GiveUp, Moves, Statuses, IntentOK
  <2> QED
    BY <2>1, <2>3, <2>4, NoRowMoves DEF Take
<1>3. ASSUME NEW c \in work, Settle(c) PROVE RowsMove
  BY <1>3, SettleMoves
<1>4. ASSUME NEW c \in work, PutBack(c) PROVE RowsMove
  <2>1. c.on \in Intents /\ status[c.on] = "pending"
    BY <1>4, ClaimIsOnPending DEF PutBack
  <2>2. UNCHANGED status \/ status' = [status EXCEPT ![c.on] = "superseded"]
    BY <1>4, <2>1 DEF PutBack, IntentOK
  <2> QED
    BY <2>1, <2>2, OneRowMoves, NoRowMoves DEF Moves, Statuses, IntentOK
<1>5. ASSUME NEW c \in work, Fail(c) PROVE RowsMove
  <2>1. c.on \in Intents /\ status[c.on] = "pending"
    BY <1>5, ClaimIsOnPending DEF Fail
  <2>2. \/ UNCHANGED status
        \/ \E new \in {"failed", "superseded"} : status' = [status EXCEPT ![c.on] = new]
    BY <1>5 DEF Fail
  <2> QED
    BY <2>1, <2>2, OneRowMoves, NoRowMoves DEF Moves, Statuses, IntentOK
<1>6. ASSUME NEW i \in Intents, RetryIntent(i) PROVE RowsMove
  BY <1>6, OneRowMoves DEF RetryIntent, Retryable, Moves, Statuses, IntentOK
<1>7. CASE Collect
  <2>1. status' = [i \in Intents |-> IF Obsolete(i) THEN "superseded" ELSE status[i]]
    BY <1>7 DEF Collect
  <2>2. \A i \in Intents : Moves(i)
    BY <2>1 DEF Moves, Obsolete
  <2> QED
    BY <2>1, <2>2 DEF RowsMove, IntentOK, Statuses
<1>8. CASE UNCHANGED status
  BY <1>8, NoRowMoves
<1>9. \/ Publish \/ ClaimDue \/ Collect \/ UNCHANGED status
      \/ \E c \in work : Settle(c) \/ PutBack(c) \/ Fail(c)
      \/ \E i \in Intents : RetryIntent(i)
  BY DEF Next, Drain, Plan, Prepare, Lose, Crash, LeaseEnds, CooldownEnds, FactsChange,
     TermChanges, Ask, Midnight, Change, vars, intent
<1> QED
  BY <1>1, <1>2, <1>3, <1>4, <1>5, <1>6, <1>7, <1>8, <1>9

-----------------------------------------------------------------------------
(* The world and the generations.                                          *)

Bounded == /\ MaxGens \in Nat \ {0} /\ MaxEvents \in Nat
           /\ events \in Nat /\ made \in Nat

\* A settlement that writes a term was the publication's first.
LEMMA TargetWrites ==
    ASSUME DeliveryInv, NEW c \in work, Settle(c)
    PROVE  WorldOK'
<1> DEFINE i == c.on
           g == i[1]
<1> USE DEF DeliveryInv
<1>1. /\ i \in Intents /\ g \in Gens /\ i[2] \in Kinds /\ i = <<g, i[2]>>
      /\ status[i] = "pending" /\ Valid(i) /\ UNCHANGED <<made, events>>
  BY ClaimIsOnPending DEF Settle, Intents, generation
<1>2. RowsMove
  BY SettleMoves
<1>3. status[<<made, "target">>] = "done" /\ made > 0 => status'[<<made, "target">>] = "done"
  <2>1. made > 0 => <<made, "target">> \in Intents
    BY Numbers DEF GenerationOK, Intents, Kinds, Term
  <2> QED
    BY <1>2, <2>1 DEF RowsMove, Moves
<1>4. CASE UNCHANGED <<input, wanted, projected>> /\ due' \in BOOLEAN
  BY <1>1, <1>3, <1>4 DEF WorldOK
<1>5. CASE i[2] = "target" /\ ApplyTarget(g)
  <2>1. g = made /\ i = <<made, "target">> /\ made > 0
    BY <1>1, <1>5, Numbers DEF Valid, Term
  <2>2. input.presentation < events + made
    BY <1>1, <2>1 DEF WorldOK
  <2>3. status'[<<made, "target">>] = "done"
    BY <1>1, <1>5, <2>1 DEF ApplyTarget
  <2>4. /\ projected' = wanted /\ UNCHANGED <<wanted, due>>
        /\ input' \in {input, [input EXCEPT !.presentation = @ + 1]}
    BY <1>5 DEF ApplyTarget
  <2>5. /\ input' \in [structural : Nat, presentation : Nat, day : Nat]
        /\ input'.structural = input.structural /\ input'.day = input.day
        /\ input'.presentation <= events + made
    BY <2>2, <2>4, Numbers DEF WorldOK, GenerationOK
  <2> QED
    BY <1>1, <2>3, <2>4, <2>5 DEF WorldOK
<1> QED
  BY <1>1, <1>4, <1>5 DEF Settle, ApplyFinding, ApplyRefresh, ApplyComplete, ApplyAssist,
     Kinds, Term, world, WorldOK

LEMMA WorldStep ==
    ASSUME DeliveryInv, [Next]_vars
    PROVE  WorldOK'
<1> USE DEF DeliveryInv
<1>0. RowsMove
  BY StatusStep
<1>1. made' = made /\ made > 0 /\ status[<<made, "target">>] = "done"
        => status'[<<made, "target">>] = "done"
  <2>1. made > 0 => <<made, "target">> \in Intents
    BY Numbers DEF GenerationOK, Intents, Kinds, Term
  <2> QED
    BY <1>0, <2>1 DEF RowsMove, Moves
<1>a. /\ events \in Nat /\ made \in Nat /\ MaxEvents \in Nat
      /\ wanted \in Nat /\ 1 <= wanted /\ wanted <= events + 1 /\ events <= MaxEvents
      /\ projected \in Nat /\ projected <= wanted
  BY Numbers DEF WorldOK, GenerationOK
<1>2. ASSUME UNCHANGED <<input, wanted, projected, made>>, due' \in BOOLEAN,
             \/ events' = events
             \/ events' = events + 1 /\ events < MaxEvents
      PROVE  WorldOK'
  <2>1. /\ input' \in [structural : Nat, presentation : Nat, day : Nat]
        /\ input'.structural <= events' /\ input'.day <= events'
        /\ input'.presentation <= events' + made'
    BY <1>2, <1>a DEF WorldOK
  <2>2. made' > 0 /\ status'[<<made', "target">>] # "done"
          => input'.presentation < events' + made'
    BY <1>1, <1>2, <1>a DEF WorldOK
  <2>3. events' \in 0..MaxEvents /\ wanted' \in 1..(events' + 1) /\ projected' \in 0..wanted'
    BY <1>2, <1>a
  <2> QED
    BY <1>2, <2>1, <2>2, <2>3 DEF WorldOK
<1>3. CASE Plan
  <2>1. UNCHANGED <<input, wanted, projected, made, events>> /\ due' = FALSE
    BY <1>3 DEF Plan, generation
  <2> QED
    BY <1>2, <2>1
<1>4. CASE Publish
  <2>1. CASE UNCHANGED <<made, due>> \/ (UNCHANGED made /\ due' = TRUE)
    <3>1. UNCHANGED <<input, wanted, projected, made, events>> /\ due' \in BOOLEAN
      BY <1>4, <2>1 DEF Publish, WorldOK
    <3> QED
      BY <1>2, <3>1
  <2>2. CASE made' = made + 1 /\ UNCHANGED due
    BY <1>4, <2>2, Numbers DEF Publish, WorldOK, GenerationOK
  <2> QED
    BY <1>4, <2>1, <2>2 DEF Publish, generation
<1>5. CASE ClaimDue
  BY <1>2, <1>5 DEF ClaimDue, world, generation, WorldOK
<1>6. ASSUME NEW c \in work, Drain(c) \/ Fail(c) \/ Crash(c) PROVE WorldOK'
  <2>1. CASE Settle(c)
    BY <2>1, TargetWrites
  <2>2. CASE Prepare(c) \/ Lose(c) \/ PutBack(c)
    BY <1>2, <2>2 DEF Prepare, Lose, PutBack, world, generation, WorldOK
  <2>3. CASE Fail(c) \/ Crash(c)
    BY <1>2, <2>3, Numbers DEF Fail, Crash, Event, world, generation, WorldOK
  <2> QED
    BY <1>6, <2>1, <2>2, <2>3 DEF Drain
<1>7. ASSUME NEW i \in Intents, LeaseEnds(i) \/ CooldownEnds(i) \/ RetryIntent(i)
      PROVE  WorldOK'
  <2>1. UNCHANGED <<world, generation>> /\ events' \in {events, events + 1}
        /\ (events' # events => events < MaxEvents)
    BY <1>7 DEF LeaseEnds, CooldownEnds, RetryIntent, Event
  <2> QED
    BY <1>2, <2>1, Numbers DEF world, generation, WorldOK
<1>8. CASE Collect
  BY <1>2, <1>8 DEF Collect, world, generation, WorldOK
<1>9. CASE FactsChange \/ TermChanges \/ Ask \/ Midnight
  <2>1. UNCHANGED <<projected, made, status>> /\ events < MaxEvents /\ events' = events + 1
    BY <1>9 DEF FactsChange, TermChanges, Ask, Midnight, Change, Event, generation, intent
  <2>2. wanted' \in {wanted, wanted + 1} /\ due' \in BOOLEAN
    BY <1>9 DEF FactsChange, TermChanges, Ask, Midnight, WorldOK
  <2>3. input' \in {input, [input EXCEPT !.structural = @ + 1],
                    [input EXCEPT !.presentation = @ + 1], [input EXCEPT !.day = @ + 1]}
    BY <1>9 DEF FactsChange, TermChanges, Ask, Midnight, Change
  <2>4. /\ input' \in [structural : Nat, presentation : Nat, day : Nat]
        /\ input'.structural <= input.structural + 1
        /\ input'.presentation <= input.presentation + 1
        /\ input'.day <= input.day + 1
    BY <2>3 DEF WorldOK
  <2>5. /\ events \in Nat /\ made \in Nat /\ MaxEvents \in Nat
        /\ wanted \in 1..(events + 1) /\ projected \in 0..wanted
        /\ input.structural \in Nat /\ input.presentation \in Nat /\ input.day \in Nat
    BY Numbers DEF WorldOK, GenerationOK
  <2>6. events' \in 0..MaxEvents /\ wanted' \in 1..(events' + 1) /\ projected' \in 0..wanted'
    BY <2>1, <2>2, <2>5
  <2>7. /\ input'.structural <= events' /\ input'.day <= events'
        /\ input'.presentation <= events' + made'
        /\ made' > 0 /\ status'[<<made', "target">>] # "done"
              => input'.presentation < events' + made'
    <3>1. /\ input.structural <= events /\ input.day <= events
          /\ input.presentation <= events + made
          /\ made > 0 /\ status[<<made, "target">>] # "done"
                => input.presentation < events + made
      BY DEF WorldOK
    <3>2. input'.structural \in Nat /\ input'.presentation \in Nat /\ input'.day \in Nat
      BY <2>4
    <3>3. events' = events + 1 /\ made' = made /\ status' = status
      BY <2>1
    <3> QED
      BY <2>4, <2>5, <3>1, <3>2, <3>3
  <2> QED
    BY <2>2, <2>4, <2>6, <2>7 DEF WorldOK
<1>10. CASE UNCHANGED vars
  BY <1>2, <1>10 DEF vars, world, generation, WorldOK
<1> QED
  BY <1>3, <1>4, <1>5, <1>6, <1>7, <1>8, <1>9, <1>10 DEF Next

LEMMA GenerationStep ==
    ASSUME DeliveryInv, [Next]_vars
    PROVE  GenerationOK'
<1> USE DEF DeliveryInv
<1>0. UNCHANGED <<generation, plan>> => GenerationOK'
  BY DEF generation, GenerationOK
<1>1. CASE Plan
  <2>1. made < MaxGens /\ UNCHANGED generation
        /\ plan'.versions = input /\ plan'.view = projected
        /\ plan'.occurrence \in {0, made + 1, occurrence[made]}
    BY <1>1 DEF Plan
  <2>2. made > 0 => occurrence[made] \in 0..MaxGens
    BY Numbers DEF GenerationOK
  <2>3. plan'.occurrence \in 0..MaxGens
    <3>1. made = 0 => plan'.occurrence \in {0, made + 1}
      BY <1>1, Numbers DEF Plan
    <3> QED
      BY <2>1, <2>2, <3>1, Numbers DEF GenerationOK
  <2>4. projected \in 0..(MaxEvents + 1)
    BY Numbers DEF WorldOK
  <2> QED
    BY <2>1, <2>3, <2>4, InputTyped DEF generation, GenerationOK
<1>2. CASE Publish
  <2>1. plan # None /\ plan' = None
    BY <1>2 DEF Publish
  <2>2. CASE UNCHANGED generation
    BY <2>1, <2>2 DEF generation, GenerationOK
  <2>3. CASE /\ made' = made + 1
             /\ versions' = [versions EXCEPT ![made + 1] = plan.versions]
             /\ view' = [view EXCEPT ![made + 1] = plan.view]
             /\ occurrence' = [occurrence EXCEPT ![made + 1] = plan.occurrence]
    BY <2>1, <2>3, Numbers DEF GenerationOK
  <2> QED
    BY <1>2, <2>2, <2>3 DEF Publish
<1>3. Plan \/ Publish \/ UNCHANGED <<generation, plan>>
  BY DEF Next, ClaimDue, Drain, Prepare, Lose, PutBack, Settle, Fail, Crash, LeaseEnds,
     CooldownEnds, RetryIntent, Collect, FactsChange, TermChanges, Ask, Midnight, Change,
     vars
<1> QED
  BY <1>0, <1>1, <1>2, <1>3

-----------------------------------------------------------------------------
(* Leases and the responsibility for an effect.                            *)

\* Who loses leases and keeps what the leased are made from keeps the one
\* responsible for each effect.
LEMMA FewerLeases ==
    ASSUME DeliveryInv, leased' \subseteq leased,
           \A g \in Gens : g <= made => /\ versions'[g] = versions[g]
                                        /\ occurrence'[g] = occurrence[g]
    PROVE  OneResponsible'
<1> USE DEF DeliveryInv
<1> SUFFICES ASSUME NEW i \in Intents, NEW j \in Intents, i # j,
                    status'[i] = "pending", status'[j] = "pending",
                    Same(i, j)', i \in leased', j \in leased'
             PROVE  FALSE
  BY DEF OneResponsible, InStatus
<1>1. i \in leased /\ j \in leased /\ status[i] = "pending" /\ status[j] = "pending"
  BY DEF IntentOK, InStatus
<1>2. i[1] \in Gens /\ j[1] \in Gens /\ i[1] <= made /\ j[1] <= made
  <2>1. i[1] \in Gens /\ j[1] \in Gens /\ made \in Nat
    BY Numbers DEF GenerationOK, Intents
  <2>2. ~(i[1] > made) /\ ~(j[1] > made)
    BY <1>1 DEF IntentOK
  <2> QED
    BY <2>1, <2>2, Numbers
<1>3. Same(i, j)
  BY <1>1, <1>2 DEF Same
<1> QED
  BY <1>1, <1>3 DEF OneResponsible, InStatus

LEMMA PublishedKept ==
    ASSUME GenerationOK, [Next]_vars
    PROVE  /\ \A g \in Gens : g <= made => /\ versions'[g] = versions[g]
                                           /\ occurrence'[g] = occurrence[g]
           /\ made' \in {made, made + 1}
<1>1. CASE UNCHANGED generation
  BY <1>1 DEF generation
<1>2. CASE Publish
  <2>1. \/ UNCHANGED generation
        \/ /\ made' = made + 1
           /\ versions' = [versions EXCEPT ![made + 1] = plan.versions]
           /\ occurrence' = [occurrence EXCEPT ![made + 1] = plan.occurrence]
    BY <1>2 DEF Publish
  <2>2. \A g \in Gens : g <= made => g # made + 1
    BY Numbers DEF GenerationOK
  <2> QED
    BY <1>1, <2>1, <2>2 DEF GenerationOK
<1>3. Publish \/ UNCHANGED generation
  BY DEF Next, Plan, ClaimDue, Drain, Prepare, Lose, PutBack, Settle, Fail, Crash,
     LeaseEnds, CooldownEnds, RetryIntent, Collect, FactsChange, TermChanges, Ask,
     Midnight, Change, vars
<1> QED
  BY <1>1, <1>2, <1>3

\* Nothing exists of generations to come.
LEMMA NoFutureRows ==
    ASSUME DeliveryInv, [Next]_vars
    PROVE  \A i \in Intents : i[1] > made' => status'[i] = "none"
<1> USE DEF DeliveryInv
<1> SUFFICES ASSUME NEW i \in Intents, i[1] > made' PROVE status'[i] = "none"
  OBVIOUS
<1>1. made' \in {made, made + 1} /\ made \in Nat /\ i[1] \in Nat
  BY PublishedKept, Numbers DEF GenerationOK, Intents
<1>2. i[1] > made
  BY <1>1
<1>3. status[i] = "none"
  BY <1>2 DEF IntentOK
<1>4. Moves(i)
  BY StatusStep DEF RowsMove
<1> QED
  BY <1>1, <1>3, <1>4 DEF Moves

\* The rows and claims keep their types when no lease is taken.
LeasesShrink ==
    /\ leased' \subseteq leased
    /\ \A i \in leased' : status'[i] = "pending"
    /\ attempt' = attempt /\ work' \subseteq Claims

LEMMA ShrinkingKept ==
    ASSUME DeliveryInv, [Next]_vars, LeasesShrink
    PROVE  IntentOK' /\ OneResponsible'
<1>1. OneResponsible'
  BY FewerLeases, PublishedKept DEF DeliveryInv, LeasesShrink
<1>2. IntentOK'
  <2>1. status' \in [Intents -> Statuses]
    BY StatusStep DEF RowsMove, DeliveryInv
  <2>2. leased' \subseteq Intents
    BY DEF LeasesShrink, DeliveryInv, IntentOK, InStatus
  <2> QED
    BY <2>1, <2>2, NoFutureRows DEF LeasesShrink, DeliveryInv, IntentOK, InStatus
<1> QED
  BY <1>1, <1>2

\* A claim is taken only where nobody is responsible for the effect.
LEMMA TakeKept ==
    ASSUME DeliveryInv, NEW i \in Heads, Take(i), UNCHANGED generation
    PROVE  IntentOK' /\ OneResponsible'
<1> USE DEF DeliveryInv
<1>1. /\ i \in Intents /\ status[i] = "pending" /\ Valid(i)
      /\ ~Deferred(i) /\ ~Responsible(i)
  <2>1. i \in InStatus({"pending"}) /\ ~Deferred(i)
    BY DEF Heads, Due
  <2>2. Valid(i)
    BY DEF Take
  <2>3. ~Responsible(i)
    BY <2>1, <2>2 DEF Deferred
  <2> QED
    BY <2>1, <2>2, <2>3 DEF InStatus
<1>2. /\ UNCHANGED <<status, made, versions, occurrence>>
      /\ leased' = leased \cup {i}
      /\ attempt' = [attempt EXCEPT ![i] = @ + 1]
      /\ work' = work \cup {[on |-> i, nr |-> attempt[i] + 1, from |-> None]}
  BY DEF Take, generation
<1>3. IntentOK'
  <2>1. attempt' \in [Intents -> Nat]
    BY <1>1, <1>2 DEF IntentOK
  <2>2. [on |-> i, nr |-> attempt[i] + 1, from |-> None] \in Claims
    BY <1>1 DEF IntentOK, Claims
  <2> QED
    BY <1>1, <1>2, <2>1, <2>2 DEF IntentOK, InStatus
<1>4. OneResponsible'
  <2> SUFFICES ASSUME NEW j \in Intents, NEW k \in Intents, j # k,
                      status[j] = "pending", status[k] = "pending",
                      Same(j, k)', j \in leased', k \in leased'
               PROVE  FALSE
    BY <1>2 DEF OneResponsible, InStatus
  <2>1. Same(j, k) /\ Same(k, j)
    BY <1>2 DEF Same
  <2>2. \A x \in leased \ {i} : ~(Same(i, x) /\ status[x] = "pending")
    BY <1>1 DEF Responsible
  <2>3. CASE j = i
    BY <1>2, <2>1, <2>2, <2>3
  <2>4. CASE k = i
    BY <1>2, <2>1, <2>2, <2>4
  <2>5. CASE j # i /\ k # i
    BY <1>2, <2>1, <2>5 DEF OneResponsible, InStatus
  <2> QED
    BY <2>3, <2>4, <2>5
<1> QED
  BY <1>3, <1>4

LEMMA IntentStep ==
    ASSUME DeliveryInv, [Next]_vars
    PROVE  IntentOK' /\ OneResponsible'
<1> USE DEF DeliveryInv
<1> DEFINE Goal == IntentOK' /\ OneResponsible'
<1>0. \A i \in leased : status[i] = "pending" /\ i \in Intents
  BY DEF IntentOK, InStatus
<1>w. work \subseteq Claims
  BY DEF IntentOK
<1>1. CASE Publish
  <2>1. UNCHANGED <<leased, attempt, work>>
    BY <1>1 DEF Publish
  <2>2. \A i \in leased : status'[i] = "pending"
    BY <1>0, <1>1 DEF Publish
  <2> QED
    BY <1>w, <2>1, <2>2, ShrinkingKept DEF LeasesShrink
<1>2. CASE ClaimDue
  <2>1. PICK i \in Heads : Supersede(i) \/ GiveUp(i) \/ Take(i)
    BY <1>2 DEF ClaimDue
  <2>2. i \notin leased
    BY DEF Heads, Due
  <2>3. CASE Supersede(i) \/ GiveUp(i)
    <3>1. /\ UNCHANGED <<leased, attempt, work>>
          /\ \E new \in Statuses : status' = [status EXCEPT ![i] = new]
      BY <2>3 DEF Supersede, GiveUp, Statuses
    <3>2. \A j \in leased : status'[j] = "pending"
      BY <1>0, <2>2, <3>1 DEF IntentOK
    <3> QED
      BY <1>w, <3>1, <3>2, ShrinkingKept DEF LeasesShrink
  <2>4. CASE Take(i)
    BY <1>2, <2>4, TakeKept DEF ClaimDue, generation
  <2> QED
    BY <2>1, <2>3, <2>4
<1>3. ASSUME NEW c \in work, Prepare(c) PROVE Goal
  <2>1. UNCHANGED <<leased, attempt, status>>
        /\ work' = (work \ {c}) \cup {[c EXCEPT !.from = input]}
    BY <1>3 DEF Prepare, intent
  <2>2. [c EXCEPT !.from = input] \in Claims
    BY <1>w, InputTyped DEF Claims
  <2>3. LeasesShrink
    BY <1>0, <1>w, <2>1, <2>2 DEF LeasesShrink
  <2> QED
    BY <2>3, ShrinkingKept
<1>4. ASSUME NEW c \in work, Lose(c) \/ Crash(c) PROVE Goal
  <2>1. LeasesShrink
    BY <1>0, <1>w, <1>4 DEF Lose, Crash, Finish, intent, LeasesShrink
  <2> QED
    BY <2>1, ShrinkingKept
<1>5. ASSUME NEW c \in work, PutBack(c) \/ Fail(c) PROVE Goal
  <2>1. /\ leased' = leased \ {c.on} /\ attempt' = attempt
        /\ work' = work \ {c}
    BY <1>5 DEF PutBack, Fail, Finish, Release
  <2>2. UNCHANGED status \/ \E new \in Statuses : status' = [status EXCEPT ![c.on] = new]
    BY <1>5 DEF PutBack, Fail, Statuses, IntentOK
  <2>3. LeasesShrink
    BY <1>0, <1>w, <2>1, <2>2 DEF LeasesShrink, IntentOK
  <2> QED
    BY <2>3, ShrinkingKept
<1>6. ASSUME NEW c \in work, Settle(c) PROVE Goal
  <2>1. /\ leased' = leased \ {c.on} /\ attempt' = attempt
        /\ work' = work \ {c}
    BY <1>6 DEF Settle, Finish, Release
  <2>2. c.on \in Intents /\ c.on = <<c.on[1], c.on[2]>> /\ c.on[2] \in Kinds
    BY ClaimIsOnPending DEF Intents
  <2>3. \A j \in leased \ {c.on} : status'[j] = "pending"
    <3>1. CASE status' = [status EXCEPT ![c.on] = "done"]
      BY <1>0, <3>1 DEF IntentOK
    <3>2. CASE ApplyTarget(c.on[1]) /\ c.on[2] = "target"
      BY <1>0, <2>2, <3>2 DEF ApplyTarget
    <3> QED
      BY <1>6, <2>2, <3>1, <3>2 DEF Settle, ApplyFinding, ApplyRefresh, ApplyComplete,
         ApplyAssist, Done, Kinds, Term
  <2>4. LeasesShrink
    BY <1>w, <2>1, <2>3 DEF LeasesShrink
  <2> QED
    BY <2>4, ShrinkingKept
<1>7. ASSUME NEW i \in Intents, LeaseEnds(i) \/ CooldownEnds(i) PROVE Goal
  <2>1. LeasesShrink
    BY <1>0, <1>w, <1>7 DEF LeaseEnds, CooldownEnds, intent, LeasesShrink
  <2> QED
    BY <2>1, ShrinkingKept
<1>8. ASSUME NEW i \in Intents, RetryIntent(i) PROVE Goal
  <2>1. LeasesShrink
    BY <1>0, <1>w, <1>8 DEF RetryIntent, LeasesShrink, IntentOK
  <2> QED
    BY <2>1, ShrinkingKept
<1>9. CASE Collect
  <2>1. LeasesShrink
    BY <1>0, <1>w, <1>9 DEF Collect, Obsolete, LeasesShrink
  <2> QED
    BY <2>1, ShrinkingKept
<1>10. CASE UNCHANGED <<intent, work>>
  <2>1. LeasesShrink
    BY <1>0, <1>w, <1>10 DEF intent, LeasesShrink
  <2> QED
    BY <2>1, ShrinkingKept
<1>11. Plan \/ FactsChange \/ TermChanges \/ Ask \/ Midnight \/ UNCHANGED vars
         => UNCHANGED <<intent, work>>
  BY DEF Plan, FactsChange, TermChanges, Ask, Midnight, Change, vars
<1> QED
  BY <1>1, <1>2, <1>3, <1>4, <1>5, <1>6, <1>7, <1>8, <1>9, <1>10, <1>11 DEF Next, Drain

-----------------------------------------------------------------------------
(* Budgets and receipts.                                                   *)

\* Who is not granted a retry spends at most what is left of the budget.
SpendsOnly ==
    /\ most' = most /\ used' \in [Intents -> Nat]
    /\ \A i \in Intents : used'[i] <= most[i]
    /\ cooling' \subseteq Intents

LEMMA SpendingKept ==
    ASSUME DeliveryInv, [Next]_vars, SpendsOnly
    PROVE  BudgetOK'
<1> USE DEF DeliveryInv
<1>1. events' = events \/ events' = events + 1
  BY DEF Next, Plan, Publish, ClaimDue, Drain, Prepare, Lose, PutBack, Settle, Fail, Crash,
     LeaseEnds, CooldownEnds, RetryIntent, Collect, FactsChange, TermChanges, Ask, Midnight,
     Change, Event, vars
<1>2. Max(Attempts) \in Nat /\ events \in Nat
  BY Numbers DEF WorldOK, BudgetOK
<1>3. ASSUME NEW i \in Intents
      PROVE  most[i] \in Nat /\ 1 <= most[i] /\ most[i] <= Max(Attempts) + events'
  <2>1. most[i] \in Nat /\ 1 <= most[i] /\ most[i] <= Max(Attempts) + events
    BY DEF BudgetOK, MostEver
  <2> QED
    BY <1>1, <1>2, <2>1
<1> QED
  BY <1>2, <1>3 DEF SpendsOnly, BudgetOK, MostEver

\* A release returns one claim to the budget and ends its cooldown.
LEMMA ReleaseSpends ==
    ASSUME DeliveryInv, NEW i \in Intents, Release(i)
    PROVE  SpendsOnly
<1>1. /\ used' = [used EXCEPT ![Budget(i)] = IF @ = 0 THEN 0 ELSE @ - 1]
      /\ most' = most /\ cooling' = cooling \ {Budget(i)}
  BY DEF Release
<1>2. \A j \in Intents : used[j] \in Nat /\ most[j] \in Nat /\ used[j] <= most[j]
  BY DEF DeliveryInv, BudgetOK
<1>3. \A j \in Intents : used'[j] \in Nat /\ used'[j] <= most[j]
  BY <1>1, <1>2 DEF DeliveryInv, BudgetOK
<1> QED
  BY <1>1, <1>3 DEF SpendsOnly, DeliveryInv, BudgetOK

LEMMA BudgetStep ==
    ASSUME DeliveryInv, [Next]_vars
    PROVE  BudgetOK'
<1> USE DEF DeliveryInv
<1>0. \A i \in Intents : status[i] \in {"pending", "failed"} => Budget(i) \in Intents
  BY BudgetIsARow
<1>1. CASE UNCHANGED <<used, most>> /\ cooling' \subseteq Intents
  BY <1>1, SpendingKept DEF SpendsOnly, BudgetOK
<1>2. CASE ClaimDue
  <2>1. PICK i \in Heads : Supersede(i) \/ GiveUp(i) \/ Take(i)
    BY <1>2 DEF ClaimDue
  <2>2. UNCHANGED <<most, cooling>>
    BY <1>2 DEF ClaimDue
  <2>3. CASE Supersede(i) \/ GiveUp(i)
    BY <1>1, <2>2, <2>3 DEF Supersede, GiveUp, BudgetOK
  <2>4. CASE Take(i)
    <3> DEFINE b == Budget(i)
    <3>1. /\ used' = [used EXCEPT ![b] = @ + 1]
          /\ ~(used[b] >= most[b])
      BY <2>4 DEF Take, Exhausted
    <3>2. b \in Intents
      BY <1>0 DEF Heads, Due, InStatus
    <3>3. used[b] \in Nat /\ most[b] \in Nat /\ used[b] + 1 <= most[b]
      BY <3>1, <3>2 DEF BudgetOK
    <3>4. used \in [Intents -> Nat] /\ \A j \in Intents : used[j] <= most[j]
      BY DEF BudgetOK
    <3>5. used' \in [Intents -> Nat] /\ \A j \in Intents : used'[j] <= most[j]
      <4> HIDE DEF b
      <4>1. \A j \in Intents : used'[j] = IF j = b THEN used[b] + 1 ELSE used[j]
        BY <3>1, <3>4
      <4>2. used' \in [Intents -> Nat]
        <5>1. used' = [used EXCEPT ![b] = used[b] + 1] /\ used[b] + 1 \in Nat
          BY <3>1, <3>3
        <5> QED
          BY <3>4, <5>1
      <4> QED
        BY <3>3, <3>4, <4>1, <4>2
    <3>6. SpendsOnly
      BY <2>2, <3>5 DEF SpendsOnly, BudgetOK
    <3> QED
      BY <3>6, SpendingKept
  <2> QED
    BY <2>1, <2>3, <2>4
<1>3. ASSUME NEW c \in work, PutBack(c) \/ Settle(c) PROVE BudgetOK'
  <2>1. c.on \in Intents /\ Release(c.on)
    BY <1>3, ClaimIsOnPending DEF PutBack, Settle
  <2> QED
    BY <2>1, ReleaseSpends, SpendingKept
<1>4. ASSUME NEW c \in work, Fail(c) PROVE BudgetOK'
  <2>1. c.on \in Intents /\ status[c.on] = "pending"
    BY <1>4, ClaimIsOnPending DEF Fail
  <2>2. Budget(c.on) \in Intents
    BY <1>0, <2>1
  <2>3. \/ UNCHANGED <<used, most>> /\ cooling' \subseteq cooling \cup {Budget(c.on)}
        \/ Release(c.on)
    BY <1>4 DEF Fail
  <2>4. CASE Release(c.on)
    BY <2>1, <2>4, ReleaseSpends, SpendingKept
  <2> QED
    BY <1>1, <2>2, <2>3, <2>4 DEF BudgetOK
<1>5. ASSUME NEW i \in Intents, RetryIntent(i) PROVE BudgetOK'
  <2> DEFINE b == Budget(i)
  <2>1. /\ most' = [most EXCEPT ![b] = used[b] + 1]
        /\ used' = used /\ cooling' = cooling \ {b} /\ events' = events + 1
    BY <1>5 DEF RetryIntent, Event
  <2>2. b \in Intents
    BY <1>0, <1>5 DEF RetryIntent, Retryable
  <2>3. used[b] \in Nat /\ most[b] \in Nat /\ used[b] <= most[b]
        /\ Max(Attempts) \in Nat /\ events \in Nat
    BY <2>2, Numbers DEF BudgetOK, WorldOK
  <2>4. \A j \in Intents : /\ used[j] \in Nat /\ most[j] \in Nat /\ used[j] <= most[j]
                           /\ 1 <= most[j] /\ most[j] <= Max(Attempts) + events
    BY DEF BudgetOK, MostEver
  <2>5. most' \in [Intents -> Nat]
    <3>1. most \in [Intents -> Nat] /\ used[b] + 1 \in Nat
      BY <2>3 DEF BudgetOK
    <3> HIDE DEF b
    <3> QED
      BY <2>1, <3>1
  <2>6. ASSUME NEW j \in Intents
        PROVE  used[j] <= most'[j] /\ 1 <= most'[j]
               /\ most'[j] <= Max(Attempts) + (events + 1)
    <3>1. CASE j = b
      <4>1. most'[j] = used[b] + 1 /\ most[b] <= Max(Attempts) + events
        BY <2>1, <2>2, <2>4, <3>1 DEF BudgetOK
      <4> QED
        BY <2>3, <3>1, <4>1
    <3>2. CASE j # b
      <4>1. most'[j] = most[j]
        BY <2>1, <3>2 DEF BudgetOK
      <4> QED
        BY <2>3, <2>4, <4>1
    <3> QED
      BY <3>1, <3>2
  <2> HIDE DEF b
  <2> QED
    BY <2>1, <2>3, <2>5, <2>6 DEF BudgetOK, MostEver
<1>6. ASSUME NEW i \in Intents, LeaseEnds(i) \/ CooldownEnds(i) PROVE BudgetOK'
  <2>1. UNCHANGED <<used, most>> /\ cooling' \subseteq cooling
    BY <1>6 DEF LeaseEnds, CooldownEnds, budget
  <2> QED
    BY <1>1, <2>1 DEF BudgetOK
<1>7. ASSUME NEW c \in work, Prepare(c) \/ Lose(c) \/ Crash(c) PROVE BudgetOK'
  <2>1. UNCHANGED budget
    BY <1>7 DEF Prepare, Lose, Crash
  <2> QED
    BY <1>1, <2>1 DEF BudgetOK, budget
<1>8. CASE UNCHANGED budget
  BY <1>1, <1>8 DEF BudgetOK, budget
<1>9. Plan \/ Publish \/ Collect \/ FactsChange \/ TermChanges \/ Ask \/ Midnight
      \/ UNCHANGED vars => UNCHANGED budget
  BY DEF Plan, Publish, Collect, FactsChange, TermChanges, Ask, Midnight, Change, vars
<1> QED
  BY <1>2, <1>3, <1>4, <1>5, <1>6, <1>7, <1>8, <1>9 DEF Next, Drain

\* A finding is told where its receipt is not known, and so once.
LEMMA ReceiptStep ==
    ASSUME DeliveryInv, [Next]_vars
    PROVE  ReceiptOK'
<1> USE DEF DeliveryInv
<1>1. ASSUME NEW c \in work, Settle(c) PROVE ReceiptOK'
  <2> DEFINE g == c.on[1]
  <2>1. g \in Gens
    BY ClaimIsOnPending DEF Intents
  <2>2. CASE ApplyFinding(g)
    <3>1. CASE told' = told
      BY <2>2, <3>1 DEF ApplyFinding, terms, ReceiptOK
    <3>2. CASE ~Known(g) /\ told' = [told EXCEPT ![occurrence[g]] = @ + 1]
      <4>1. occurrence[g] \in Gens => told[occurrence[g]] \in Nat /\ ~(told[occurrence[g]] > 0)
        BY <3>2 DEF Known, ReceiptOK
      <4>2. occurrence[g] \in Gens => told[occurrence[g]] = 0
        BY <4>1
      <4>3. told' \in [Gens -> Nat] /\ \A h \in Gens : told'[h] <= 1
        <5> DEFINE o == occurrence[g]
        <5>1. /\ told' = [told EXCEPT ![o] = @ + 1]
              /\ o \in Gens => told[o] = 0
          BY <3>2, <4>2
        <5>2. told \in [Gens -> Nat] /\ \A h \in Gens : told[h] <= 1
          BY DEF ReceiptOK
        <5> HIDE DEF o
        <5>3. ASSUME NEW h \in Gens PROVE told'[h] \in Nat /\ told'[h] <= 1
          <6>1. CASE h = o
            BY <5>1, <5>2, <6>1
          <6>2. CASE h # o
            BY <5>1, <5>2, <6>2
          <6> QED
            BY <6>1, <6>2
        <5>4. DOMAIN told' = Gens /\ told' = [h \in Gens |-> told'[h]]
          BY <5>1, <5>2
        <5> QED
          BY <5>3, <5>4
      <4> QED
        BY <2>2, <4>3 DEF ApplyFinding, terms, ReceiptOK
    <3> QED
      BY <2>2, <3>1, <3>2 DEF ApplyFinding
  <2>3. CASE UNCHANGED told /\ changed' \subseteq changed \cup {g}
    BY <2>1, <2>3 DEF ReceiptOK
  <2>4. ApplyTarget(g) \/ ApplyRefresh(g) \/ ApplyComplete(g) \/ ApplyAssist(g)
          => UNCHANGED told /\ changed' \subseteq changed \cup {g}
    BY DEF ApplyTarget, ApplyRefresh, ApplyComplete, ApplyAssist, terms
  <2>5. c.on[2] \in Kinds
    BY ClaimIsOnPending DEF Intents
  <2> QED
    BY <1>1, <2>2, <2>3, <2>4, <2>5 DEF Settle, Kinds, Term
<1>2. (\E c \in work : Settle(c)) \/ UNCHANGED <<told, changed>>
  BY DEF Next, Plan, Publish, ClaimDue, Drain, Prepare, Lose, PutBack, Fail, Crash,
     LeaseEnds, CooldownEnds, RetryIntent, Collect, FactsChange, TermChanges, Ask, Midnight,
     Change, vars, terms
<1> QED
  BY <1>1, <1>2 DEF ReceiptOK

LEMMA DeliveryInvStep ==
    ASSUME DeliveryInv, [Next]_vars
    PROVE  DeliveryInv'
  BY WorldStep, GenerationStep, IntentStep, BudgetStep, ReceiptStep DEF DeliveryInv

-----------------------------------------------------------------------------
(* The theorems.                                                           *)

\* The invariant that everything below rests on: of no generation to come a row
\* exists, what is leased is pending, no budget is overdrawn, a term is written
\* once by each generation, no occurrence of a finding is told twice and no
\* effect is in the hands of two drainers.
THEOREM DeliveryInvariant == Spec => []DeliveryInv
  BY InvInit, DeliveryInvStep, PTL DEF Spec

\* Every reachable state is well typed; among it, no effect spends more claims
\* than its budget allows (delivery_attempts, delivery_max_attempts).
THEOREM DeliveryTypeCorrect == Spec => []TypeOK
<1>1. DeliveryInv => TypeOK
  <2> SUFFICES ASSUME DeliveryInv PROVE TypeOK
    OBVIOUS
  <2> USE DEF DeliveryInv
  <2>1. input \in Input
    BY InputTyped
  <2>2. wanted \in 1..(MaxEvents + 1) /\ projected \in 0..(MaxEvents + 1)
    BY Numbers DEF WorldOK
  <2>3. ASSUME NEW i \in Intents
        PROVE  used[i] \in 0..most[i] /\ most[i] \in 1..(Max(Attempts) + MaxEvents)
    <3>1. /\ events \in Nat /\ MaxEvents \in Nat /\ events <= MaxEvents
          /\ Max(Attempts) \in Nat
          /\ used[i] \in Nat /\ most[i] \in Nat /\ used[i] <= most[i] /\ 1 <= most[i]
          /\ most[i] <= Max(Attempts) + events
      BY Numbers DEF WorldOK, BudgetOK, MostEver
    <3> QED
      BY <3>1
  <2>4. leased \subseteq Intents
    BY DEF IntentOK, InStatus
  <2> QED
    BY <2>1, <2>2, <2>3, <2>4 DEF TypeOK, WorldOK, GenerationOK, IntentOK, BudgetOK,
       ReceiptOK, Statuses
<1> QED
  BY <1>1, DeliveryInvariant, PTL

\* Members are told of an occurrence of a finding once, whatever drainers crash,
\* leases end and generations carry it: the receipt (StewardFindingDelivery) and
\* the effect are one transaction.
THEOREM ToldOnce == Spec => []EffectOnce
<1>1. DeliveryInv => EffectOnce
  BY DEF DeliveryInv, ReceiptOK, EffectOnce
<1> QED
  BY <1>1, DeliveryInvariant, PTL

\* At no time two drainers hold a lease for the same effect, be it for intents of
\* different generations (_claim_due, the check of other owners).
THEOREM OneIsResponsible == Spec => []OneResponsible
<1>1. DeliveryInv => OneResponsible
  BY DEF DeliveryInv
<1> QED
  BY <1>1, DeliveryInvariant, PTL

\* An assist intent is done only when the chain of terms of its generation is not
\* pending and its barriers have not failed (_prerequisites_ready, which settling
\* asks again).
THEOREM ChainBeforeAssist == Spec => OrderKept
<1> DEFINE Order == \A g \in Gens :
             status[<<g, "assist">>] # "done" /\ status'[<<g, "assist">>] = "done"
               => /\ ~Some(g, Term, {"pending"})
                  /\ ~Some(g, {"refresh", "complete"}, {"failed"})
<1>1. DeliveryInv /\ [Next]_vars => [Order]_vars
  <2> SUFFICES ASSUME DeliveryInv, [Next]_vars, NEW g \in Gens,
                      status[<<g, "assist">>] # "done",
                      status'[<<g, "assist">>] = "done"
               PROVE  /\ ~Some(g, Term, {"pending"})
                      /\ ~Some(g, {"refresh", "complete"}, {"failed"})
    OBVIOUS
  <2>1. <<g, "assist">> \in Intents
    BY DEF Intents, Kinds
  <2>2. Moves(<<g, "assist">>)
    BY <2>1, StatusStep DEF DeliveryInv, RowsMove
  <2>3. Ready(<<g, "assist">>)
    BY <2>2 DEF Moves
  <2> QED
    BY <2>3 DEF Ready
<1> QED
  BY <1>1, DeliveryInvariant, PTL DEF Spec, OrderKept
=============================================================================
