--------------------------- MODULE Dungeon_proofs ---------------------------
(***************************************************************************)
(* Proofs about Dungeon, for any number of clients, any timers and lives:   *)
(* whom a run belongs to, who takes part in it, and which run a record is   *)
(* of.                                                                       *)
(***************************************************************************)
EXTENDS Dungeon, FiniteSetTheorems, TLAPS

\* What was left of the warmup is kept only while the short one runs.
WarmupKept ==
  /\ saved > 0 => saved > ReadyWarmup /\ warmup <= ReadyWarmup
  /\ state = "inactive" => saved = 0
  /\ state = "waiting" /\ saved > 0 => warmup > 0

\* During a run nobody enters who was not on the way when it began.
EntrantsAreLate ==
  state = "active" => \A c \in Clients : where[c] = "coming" => c \in late

\* Who is in the world of a run is in its scenario, or late, or cut off, or on
\* the way out without a body.
InsideIsKnown ==
  scenario = "running" =>
    \A c \in Inside : \/ c \in participants \cup late \cup cutOff
                      \/ where[c] = "leaving" /\ body[c] # "alive"

\* Who is in the world of a run was there when it began, or is late.
StartedNow ==
  state = "active" => \A c \in Inside : started[c] = "this" \/ c \in late

\* What ScenarioBelongsToRun says beside the types.
BelongsToRun ==
  /\ (scenario # "none") <=> (state = "active")
  /\ (participants # {} \/ lives > 0) => scenario = "running"
  /\ participants \subseteq Inside

Typed == TypeOK /\ WarmupKept
Closed == EntrantsAreLate /\ InsideIsKnown /\ StartedNow /\ RecordIsOfThisRun
IInv == Typed /\ BelongsToRun /\ Closed

-----------------------------------------------------------------------------
\* Deaths take lives and participants, and record whom they cut off.
LEMMA DeathsCount ==
  ASSUME TypeOK, NEW S \in SUBSET Clients, NEW P \in SUBSET Clients, NEW rest,
         DeathsOf(S, rest, P)
  PROVE  /\ participants' \subseteq P
         /\ lives' \in 0..MaxLives /\ lives' <= lives
         /\ P \subseteq participants' \cup cutOff'
         /\ cutOff \subseteq cutOff' /\ cutOff' \subseteq Clients
<1>1. Cardinality(S) \in Nat
  BY DungeonAssumption, FS_Subset, FS_CardinalityType
<1> QED BY <1>1, DungeonAssumption DEF DeathsOf, Less, TypeOK

\* The warmup that is left never exceeds the whole.
LEMMA WarmupRuns ==
  ASSUME Typed
  PROVE  /\ WarmupLeft \in 0..Warmup /\ Remaining(WarmupLeft) \in 0..Warmup
         /\ Skips(WarmupLeft) => WarmupLeft > ReadyWarmup
         /\ saved > 0 => WarmupLeft <= ReadyWarmup
         /\ state \in {"inactive", "waiting"} /\ saved > 0 => WarmupLeft > 0
BY DungeonAssumption DEF Typed, TypeOK, WarmupKept, WarmupLeft, Remaining, Skips, Resumes

\* Every action keeps the types and the warmup.
LEMMA StepTyped == Typed /\ [Next]_vars => Typed'
<1> SUFFICES ASSUME Typed, [Next]_vars PROVE Typed'
  OBVIOUS
<1> USE DungeonAssumption
<1>1. CASE TickEmpty
  <2>1. /\ state' = "inactive" /\ scenario' = "none" /\ participants' = {}
        /\ warmup' \in 0..Warmup /\ saved' \in 0..Warmup /\ lives' \in 0..MaxLives
        /\ endTick' \in 0..(Limit + FinishTime) /\ safe' \in 0..(SafeTime + 1)
    BY <1>1 DEF TickEmpty
  <2>2. UNCHANGED <<cutOff, where, body, ready, started, late, recorded>>
    BY <1>1 DEF TickEmpty
  <2>3. overtime' \in BOOLEAN
    BY <1>1 DEF TickEmpty
  <2>4. TypeOK'
    BY <2>1, <2>2, <2>3 DEF Typed, TypeOK
  <2>5. WarmupKept'
    BY <1>1 DEF WarmupKept, TickEmpty
  <2> QED BY <2>4, <2>5 DEF Typed
<1>2. CASE TickWaiting
  <2>1. body' \in [Clients -> {"alive", "dead", "due"}]
    BY <1>2 DEF Typed, TypeOK, TickWaiting, Aged
  <2>2. warmup' \in 0..Warmup /\ saved' \in 0..Warmup /\ state' = "waiting"
    BY <1>2, WarmupRuns DEF Typed, TypeOK, TickWaiting, Less
  <2>3. WarmupKept'
    BY <1>2, <2>2, WarmupRuns DEF Typed, TypeOK, WarmupKept, TickWaiting, Less, Remaining, Skips, Resumes
  <2> QED BY <1>2, <2>1, <2>2, <2>3 DEF Typed, TypeOK, TickWaiting, group, ghosts
<1>3. CASE TickStart
  <2>1. body' \in [Clients -> {"alive", "dead", "due"}]
    BY <1>3 DEF Typed, TypeOK, TickStart, Aged
  <2>2. started' \in [Clients -> {"never", "this", "earlier"}]
    BY <1>3 DEF Typed, TypeOK, TickStart, Stamp
  <2>3. saved' \in 0..Warmup /\ WarmupKept'
    BY <1>3, WarmupRuns DEF Typed, TypeOK, WarmupKept, TickStart, Remaining, Skips, Resumes
  <2>4. endTick' \in 0..(Limit + FinishTime) /\ safe' \in 0..(SafeTime + 1) /\ warmup' \in 0..Warmup
    BY <1>3 DEF TickStart
  <2>5. participants' \subseteq Clients /\ late' \cup cutOff' \subseteq Clients
    BY <1>3 DEF TickStart, Inside
  <2>6. recorded' \in [Clients -> {"never", "this", "earlier"}]
    BY <1>3 DEF TickStart
  <2> QED BY <1>3, <2>1, <2>2, <2>3, <2>4, <2>5, <2>6 DEF Typed, TypeOK, TickStart
<1>4. CASE TickRunning
  <2> DEFINE killed == IF endTick = 1 THEN Alive ELSE {}
  <2>1. killed \in SUBSET Clients /\ participants \in SUBSET Clients
    BY DEF Alive, Inside, Typed, TypeOK
  <2>2. DeathsOf(killed, safe', participants)
    BY <1>4 DEF TickRunning
  <2>3. participants' \subseteq Clients /\ lives' \in 0..MaxLives /\ cutOff' \subseteq Clients
    BY <2>1, <2>2, DeathsCount DEF Typed, TypeOK
  <2>4. body' \in [Clients -> {"alive", "dead", "due"}]
    BY <1>4 DEF Typed, TypeOK, TickRunning, Aged
  <2>5. endTick' \in 0..(Limit + FinishTime) /\ safe' \in 0..(SafeTime + 1)
    BY <1>4 DEF Typed, TypeOK, TickRunning, Less
  <2> QED BY <1>4, <2>3, <2>4, <2>5 DEF Typed, TypeOK, WarmupKept, TickRunning, ghosts
<1>5. CASE MobDies
  BY <1>5 DEF Typed, TypeOK, WarmupKept, controller, group, ghosts, MobDies
<1>6. CASE ScenarioEnds
  BY <1>6 DEF Typed, TypeOK, WarmupKept, controller, group, ghosts, ScenarioEnds
<1>7. CASE Complete
  <2>1. recorded' \in [Clients -> {"never", "this", "earlier"}]
    BY <1>7 DEF Typed, TypeOK, Complete
  <2>2. WarmupKept'
    BY <1>7 DEF Typed, WarmupKept, Complete
  <2>3. /\ state' = "finish" /\ scenario' = "none" /\ participants' = {}
        /\ lives' \in 0..MaxLives /\ endTick' \in 0..(Limit + FinishTime)
    BY <1>7 DEF Complete
  <2>4. UNCHANGED <<warmup, saved, safe, cutOff, where, body, ready, started, late>>
    BY <1>7 DEF Complete
  <2>5. overtime' \in BOOLEAN
    BY <1>7 DEF Complete
  <2>6. TypeOK'
    BY <2>1, <2>3, <2>4, <2>5 DEF Typed, TypeOK
  <2> QED BY <2>2, <2>6 DEF Typed
<1>8. ASSUME NEW n \in 0..MaxLives, ScenarioStep(n) PROVE Typed'
  BY <1>8 DEF Typed, TypeOK, WarmupKept, controller, group, ghosts, ScenarioStep
<1>9. ASSUME NEW c \in Clients, Join(c) PROVE Typed'
  BY <1>9 DEF Typed, TypeOK, WarmupKept, controller, group, ghosts, Join
<1>10. ASSUME NEW c \in Clients, Arrive(c) PROVE Typed'
  BY <1>10 DEF Typed, TypeOK, WarmupKept, controller, group, ghosts, Arrive
<1>11. ASSUME NEW c \in Clients, ToggleReady(c) PROVE Typed'
  BY <1>11 DEF Typed, TypeOK, WarmupKept, controller, group, ghosts, ToggleReady
<1>12. ASSUME NEW c \in Clients, Exit(c) PROVE Typed'
  BY <1>12 DEF Typed, TypeOK, WarmupKept, controller, group, ghosts, Exit
<1>13. ASSUME NEW c \in Clients, Die(c) PROVE Typed'
  BY <1>13, DeathsCount DEF Typed, TypeOK, WarmupKept, controller, group, ghosts, Die, Alive, Inside
<1>14. ASSUME NEW c \in Clients, Spawn(c) PROVE Typed'
  BY <1>14 DEF Typed, TypeOK, WarmupKept, controller, group, ghosts, Spawn
<1>15. ASSUME NEW c \in Clients, Leave(c) PROVE Typed'
  <2>1. {c} \cap Alive \in SUBSET Clients /\ participants \ {c} \in SUBSET Clients
    BY DEF Typed, TypeOK
  <2>2. DeathsOf({c} \cap Alive, safe, participants \ {c})
    BY <1>15 DEF Leave, Gone
  <2>3. participants' \subseteq Clients /\ lives' \in 0..MaxLives /\ cutOff' \subseteq Clients
    BY <2>1, <2>2, DeathsCount DEF Typed, TypeOK
  <2> QED BY <1>15, <2>3 DEF Typed, TypeOK, WarmupKept, controller, ghosts, Leave, Gone
<1>16. ASSUME NEW c \in Clients, Drop(c) PROVE Typed'
  <2>1. {c} \cap Alive \in SUBSET Clients /\ participants \ {c} \in SUBSET Clients
    BY DEF Typed, TypeOK
  <2>2. DeathsOf({c} \cap Alive, safe, participants \ {c})
    BY <1>16 DEF Drop, Gone
  <2>3. participants' \subseteq Clients /\ lives' \in 0..MaxLives /\ cutOff' \subseteq Clients
    BY <2>1, <2>2, DeathsCount DEF Typed, TypeOK
  <2> QED BY <1>16, <2>3 DEF Typed, TypeOK, WarmupKept, controller, ghosts, Drop, Gone
<1>17. CASE UNCHANGED vars
  BY <1>17 DEF Typed, TypeOK, WarmupKept, vars, controller, group, ghosts
<1> QED BY <1>1, <1>2, <1>3, <1>4, <1>5, <1>6, <1>7, <1>8, <1>9, <1>10, <1>11, <1>12, <1>13, <1>14, <1>15, <1>16, <1>17 DEF Next, Tick

-----------------------------------------------------------------------------
\* Every action keeps the scenario and its participants to the run.
LEMMA StepBelongs == Typed /\ Typed' /\ BelongsToRun /\ [Next]_vars => BelongsToRun'
<1> SUFFICES ASSUME Typed, Typed', BelongsToRun, [Next]_vars PROVE BelongsToRun'
  OBVIOUS
<1> USE DungeonAssumption
<1>1. CASE TickEmpty
  BY <1>1 DEF BelongsToRun, TickEmpty, Inside
<1>2. CASE TickWaiting
  BY <1>2 DEF BelongsToRun, TickWaiting, Inside, group
<1>3. CASE TickStart
  BY <1>3 DEF BelongsToRun, TickStart, Inside
<1>4. CASE TickRunning
  <2> DEFINE killed == IF endTick = 1 THEN Alive ELSE {}
  <2>1. killed \in SUBSET Clients /\ participants \in SUBSET Clients
    BY DEF Alive, Inside, Typed, TypeOK
  <2>2. DeathsOf(killed, safe', participants)
    BY <1>4 DEF TickRunning
  <2>3. participants' \subseteq participants /\ lives' <= lives
    BY <2>1, <2>2, DeathsCount DEF Typed
  <2> QED BY <1>4, <2>3 DEF BelongsToRun, TickRunning, Inside, Typed, TypeOK
<1>5. CASE MobDies
  BY <1>5 DEF BelongsToRun, MobDies, Inside, controller
<1>6. CASE ScenarioEnds
  BY <1>6 DEF BelongsToRun, ScenarioEnds, ScenarioGoesOn, controller
<1>7. CASE Complete
  BY <1>7 DEF BelongsToRun, Complete
<1>8. ASSUME NEW n \in 0..MaxLives, ScenarioStep(n) PROVE BelongsToRun'
  BY <1>8 DEF BelongsToRun, ScenarioStep, ScenarioGoesOn, Inside, controller
<1>9. ASSUME NEW c \in Clients, Join(c) PROVE BelongsToRun'
  BY <1>9 DEF BelongsToRun, Join, Inside, controller, group, Typed, TypeOK
<1>10. ASSUME NEW c \in Clients, Arrive(c) PROVE BelongsToRun'
  BY <1>10 DEF BelongsToRun, Arrive, Inside, controller, group, Typed, TypeOK
<1>11. ASSUME NEW c \in Clients, ToggleReady(c) PROVE BelongsToRun'
  BY <1>11 DEF BelongsToRun, ToggleReady, Inside, controller, group
<1>12. ASSUME NEW c \in Clients, Exit(c) PROVE BelongsToRun'
  BY <1>12 DEF BelongsToRun, Exit, Inside, controller, group, Typed, TypeOK
<1>13. ASSUME NEW c \in Clients, Die(c) PROVE BelongsToRun'
  <2>1. participants' \subseteq participants /\ lives' <= lives
    BY <1>13, DeathsCount DEF Typed, TypeOK, Die
  <2> QED BY <1>13, <2>1 DEF BelongsToRun, Die, Inside, controller, Typed, TypeOK
<1>14. ASSUME NEW c \in Clients, Spawn(c) PROVE BelongsToRun'
  BY <1>14 DEF BelongsToRun, Spawn, Inside, controller, Typed, TypeOK
<1>15. ASSUME NEW c \in Clients, Leave(c) \/ Drop(c) PROVE BelongsToRun'
  <2>1. {c} \cap Alive \in SUBSET Clients /\ participants \ {c} \in SUBSET Clients
    BY DEF Typed, TypeOK
  <2>2. Gone(c)
    BY <1>15 DEF Leave, Drop
  <2>3. participants' \subseteq participants \ {c} /\ lives' <= lives
    BY <2>1, <2>2, DeathsCount DEF Typed, Gone
  <2> QED BY <2>2, <2>3 DEF BelongsToRun, Gone, Inside, controller, Typed, TypeOK
<1>16. CASE UNCHANGED vars
  BY <1>16 DEF BelongsToRun, Inside, vars, controller, group
<1> QED BY <1>1, <1>2, <1>3, <1>4, <1>5, <1>6, <1>7, <1>8, <1>9, <1>10, <1>11, <1>12,
           <1>13, <1>14, <1>15, <1>16 DEF Next, Tick

-----------------------------------------------------------------------------
\* No action lets anybody into the world of a run without it being known.
LEMMA StepKnown ==
  Typed /\ BelongsToRun /\ EntrantsAreLate /\ InsideIsKnown /\ [Next]_vars => InsideIsKnown'
<1> SUFFICES ASSUME Typed, BelongsToRun, EntrantsAreLate, InsideIsKnown, [Next]_vars
             PROVE  InsideIsKnown'
  OBVIOUS
<1> USE DungeonAssumption
<1>1. CASE TickEmpty
  BY <1>1 DEF InsideIsKnown, TickEmpty
<1>2. CASE TickWaiting
  BY <1>2 DEF InsideIsKnown, BelongsToRun, TickWaiting, group
<1>3. CASE TickStart
  BY <1>3 DEF InsideIsKnown, TickStart, Inside
<1>4. CASE TickRunning
  <2> DEFINE killed == IF endTick = 1 THEN Alive ELSE {}
  <2>1. killed \in SUBSET Clients /\ participants \in SUBSET Clients
    BY DEF Alive, Inside, Typed, TypeOK
  <2>2. DeathsOf(killed, safe', participants)
    BY <1>4 DEF TickRunning
  <2>3. participants \subseteq participants' \cup cutOff' /\ cutOff \subseteq cutOff'
    BY <2>1, <2>2, DeathsCount DEF Typed
  <2>4. \A c \in Clients : body[c] # "alive" => body'[c] # "alive"
    BY <1>4 DEF TickRunning, Aged
  <2> QED BY <1>4, <2>3, <2>4 DEF InsideIsKnown, TickRunning, Inside, ghosts
<1>5. CASE MobDies
  BY <1>5 DEF InsideIsKnown, MobDies, Inside, ghosts
<1>6. CASE ScenarioEnds
  BY <1>6 DEF InsideIsKnown, ScenarioEnds
<1>7. CASE Complete
  BY <1>7 DEF InsideIsKnown, Complete
<1>8. ASSUME NEW n \in 0..MaxLives, ScenarioStep(n) PROVE InsideIsKnown'
  BY <1>8 DEF InsideIsKnown, ScenarioStep, Inside, ghosts
<1>9. ASSUME NEW c \in Clients, Join(c) PROVE InsideIsKnown'
  BY <1>9 DEF InsideIsKnown, Join, Inside, group, ghosts, Typed, TypeOK
<1>10. ASSUME NEW c \in Clients, Arrive(c) PROVE InsideIsKnown'
  <2>1. scenario = "running" => c \in late
    BY <1>10 DEF EntrantsAreLate, BelongsToRun, Arrive
  <2> QED BY <1>10, <2>1 DEF InsideIsKnown, Arrive, Inside, group, ghosts, Typed, TypeOK
<1>11. ASSUME NEW c \in Clients, ToggleReady(c) PROVE InsideIsKnown'
  BY <1>11 DEF InsideIsKnown, ToggleReady, Inside, group, ghosts
<1>12. ASSUME NEW c \in Clients, Exit(c) PROVE InsideIsKnown'
  BY <1>12 DEF InsideIsKnown, Exit, Inside, group, ghosts, Typed, TypeOK
<1>13. ASSUME NEW c \in Clients, Die(c) PROVE InsideIsKnown'
  <2>1. participants \subseteq participants' \cup cutOff' /\ cutOff \subseteq cutOff'
    BY <1>13, DeathsCount DEF Typed, TypeOK, Die
  <2> QED BY <1>13, <2>1 DEF InsideIsKnown, Die, Inside, ghosts, Typed, TypeOK
<1>14. ASSUME NEW c \in Clients, Spawn(c) PROVE InsideIsKnown'
  BY <1>14 DEF InsideIsKnown, Spawn, Inside, Typed, TypeOK
<1>15. ASSUME NEW c \in Clients, Leave(c) \/ Drop(c) PROVE InsideIsKnown'
  <2>1. {c} \cap Alive \in SUBSET Clients /\ participants \ {c} \in SUBSET Clients
    BY DEF Typed, TypeOK
  <2>2. Gone(c) /\ late' = late
    BY <1>15 DEF Leave, Drop, ghosts
  <2>3. participants \ {c} \subseteq participants' \cup cutOff' /\ cutOff \subseteq cutOff'
    BY <2>1, <2>2, DeathsCount DEF Typed, Gone
  <2> QED BY <2>2, <2>3 DEF InsideIsKnown, Gone, Inside, Typed, TypeOK
<1>16. CASE UNCHANGED vars
  BY <1>16 DEF InsideIsKnown, Inside, vars, group, ghosts
<1> QED BY <1>1, <1>2, <1>3, <1>4, <1>5, <1>6, <1>7, <1>8, <1>9, <1>10, <1>11, <1>12,
           <1>13, <1>14, <1>15, <1>16 DEF Next, Tick

\* EntrantsAreLate and StartedNow: only the start of a run makes them hold anew.
LEMMA StepStarted ==
  Typed /\ EntrantsAreLate /\ StartedNow /\ [Next]_vars => EntrantsAreLate' /\ StartedNow'
<1> SUFFICES ASSUME Typed, EntrantsAreLate, StartedNow, [Next]_vars
             PROVE  EntrantsAreLate' /\ StartedNow'
  OBVIOUS
<1> USE DEF EntrantsAreLate, StartedNow
<1>1. CASE TickEmpty
  BY <1>1 DEF TickEmpty
<1>2. CASE TickWaiting
  BY <1>2 DEF TickWaiting
<1>3. CASE TickStart
  BY <1>3 DEF TickStart, Stamp, Inside
<1>4. CASE TickRunning
  BY <1>4 DEF TickRunning, Inside, ghosts
<1>5. CASE MobDies \/ ScenarioEnds
  BY <1>5 DEF MobDies, ScenarioEnds, Inside, controller, ghosts
<1>6. CASE Complete
  BY <1>6 DEF Complete
<1>7. ASSUME NEW n \in 0..MaxLives, ScenarioStep(n) PROVE EntrantsAreLate' /\ StartedNow'
  BY <1>7 DEF ScenarioStep, Inside, controller, ghosts
<1>8. ASSUME NEW c \in Clients, Join(c) PROVE EntrantsAreLate' /\ StartedNow'
  BY <1>8 DEF Join, Inside, controller, ghosts
<1>9. ASSUME NEW c \in Clients, Arrive(c) \/ Exit(c) PROVE EntrantsAreLate' /\ StartedNow'
  BY <1>9 DEF Arrive, Exit, Inside, controller, ghosts, Typed, TypeOK
<1>10. ASSUME NEW c \in Clients, ToggleReady(c) \/ Die(c) PROVE EntrantsAreLate' /\ StartedNow'
  BY <1>10 DEF ToggleReady, Die, Inside, controller, ghosts
<1>11. ASSUME NEW c \in Clients, Spawn(c) PROVE EntrantsAreLate' /\ StartedNow'
  BY <1>11 DEF Spawn, Inside, controller, Typed, TypeOK
<1>12. ASSUME NEW c \in Clients, Leave(c) \/ Drop(c) PROVE EntrantsAreLate' /\ StartedNow'
  <2>1. /\ where' = [where EXCEPT ![c] = "out"] /\ state' = state /\ late' = late
        /\ \A d \in Clients \ {c} : started'[d] = started[d]
    BY <1>12 DEF Leave, Drop, Gone, controller, ghosts, Typed, TypeOK
  <2> QED BY <2>1 DEF Inside, Typed, TypeOK
<1>13. CASE UNCHANGED vars
  BY <1>13 DEF Inside, vars, controller, ghosts
<1> QED BY <1>1, <1>2, <1>3, <1>4, <1>5, <1>6, <1>7, <1>8, <1>9, <1>10, <1>11, <1>12,
           <1>13 DEF Next, Tick

\* The end of a run records its own start; nothing else records anything.
LEMMA StepRecord ==
  Typed /\ BelongsToRun /\ StartedNow /\ RecordIsOfThisRun /\ [Next]_vars => RecordIsOfThisRun'
<1> SUFFICES ASSUME Typed, BelongsToRun, StartedNow, RecordIsOfThisRun, [Next]_vars
             PROVE  RecordIsOfThisRun'
  OBVIOUS
<1>1. CASE TickStart
  BY <1>1 DEF RecordIsOfThisRun, TickStart
<1>2. CASE Complete
  <2>1. state = "active" /\ late' = late
    BY <1>2 DEF BelongsToRun, Complete, ScenarioGoesOn
  <2>2. ASSUME NEW c \in Clients, recorded'[c] = "earlier" PROVE c \in late
    BY <1>2, <2>1, <2>2 DEF StartedNow, Complete
  <2> QED BY <2>1, <2>2 DEF RecordIsOfThisRun
<1>3. ASSUME ~TickStart, ~Complete PROVE UNCHANGED <<late, recorded>>
  <2>1. CASE UNCHANGED vars
    BY <2>1 DEF vars, ghosts
  <2>2. CASE TickEmpty \/ TickWaiting \/ TickRunning \/ MobDies \/ ScenarioEnds
    BY <2>2 DEF TickEmpty, TickWaiting, TickRunning, MobDies, ScenarioEnds, ghosts
  <2>3. ASSUME NEW n \in 0..MaxLives, ScenarioStep(n) PROVE UNCHANGED <<late, recorded>>
    BY <2>3 DEF ScenarioStep, ghosts
  <2>4. ASSUME NEW c \in Clients, \/ Join(c) \/ Arrive(c) \/ ToggleReady(c) \/ Exit(c)
                                 \/ Die(c) \/ Spawn(c) \/ Leave(c) \/ Drop(c)
        PROVE  UNCHANGED <<late, recorded>>
    BY <2>4 DEF Join, Arrive, ToggleReady, Exit, Die, Spawn, Leave, Drop, ghosts
  <2> QED BY <1>3, <2>1, <2>2, <2>3, <2>4 DEF Next, Tick
<1> QED BY <1>1, <1>2, <1>3 DEF RecordIsOfThisRun

-----------------------------------------------------------------------------
\* The strengthened invariant holds of a dungeon nobody has entered yet.
LEMMA InitIInv == Init => IInv
<1> SUFFICES ASSUME Init PROVE IInv
  OBVIOUS
<1>1. /\ warmup \in 0..Warmup /\ saved \in 0..Warmup /\ lives \in 0..MaxLives
      /\ endTick \in 0..(Limit + FinishTime) /\ safe \in 0..(SafeTime + 1)
  BY DungeonAssumption DEF Init
<1>2. /\ started \in [Clients -> {"never", "this", "earlier"}] /\ recorded = started
      /\ ready \in [Clients -> BOOLEAN] /\ overtime \in BOOLEAN
  BY DEF Init
<1>3. Typed
  BY <1>1, <1>2 DEF Init, Typed, TypeOK, WarmupKept
<1>4. BelongsToRun
  BY DEF Init, BelongsToRun
<1>5. Closed
  BY DEF Init, Closed, EntrantsAreLate, InsideIsKnown, StartedNow, RecordIsOfThisRun
<1> QED BY <1>3, <1>4, <1>5 DEF IInv

\* It holds in every reachable state.
LEMMA Invariant == Spec => []IInv
<1>1. IInv /\ [Next]_vars => IInv'
  BY StepTyped, StepBelongs, StepKnown, StepStarted, StepRecord DEF IInv, Closed
<1> QED BY InitIInv, <1>1, PTL DEF Spec

\* A scenario is kept exactly for a run, with participants and lives only while
\* it runs, and every participant is in the world (ChangeState, Tick and the
\* ways out of the world: PendingChangeWorld, OnClientDrop, TryRespawn).
THEOREM ScenarioKept == Spec => []ScenarioBelongsToRun
<1>1. IInv => ScenarioBelongsToRun
  BY DEF IInv, Typed, BelongsToRun, ScenarioBelongsToRun
<1> QED BY <1>1, Invariant, PTL

\* Who is alive in the world of a running scenario takes part in it, if he was
\* not on the way when it began and was not cut off by a death without a life.
THEOREM AliveTakePart == Spec => []PlayersTakePart
<1>1. IInv => PlayersTakePart
  <2> SUFFICES ASSUME InsideIsKnown, scenario = "running", NEW c \in Alive
               PROVE  c \in participants \cup late \cup cutOff
    BY DEF IInv, Closed, PlayersTakePart
  <2> QED BY DEF InsideIsKnown, Alive
<1> QED BY <1>1, Invariant, PTL

\* FinishDungeon saves a time counted from the start of this run, but for the
\* players who were on the way when it began.
THEOREM RecordsCount == Spec => []RecordIsOfThisRun
<1>1. IInv => RecordIsOfThisRun
  BY DEF IInv, Closed
<1> QED BY <1>1, Invariant, PTL

=============================================================================
