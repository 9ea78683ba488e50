------------------------------ MODULE Dungeon ------------------------------
(***************************************************************************)
(* CGameControllerDungeon of                                                *)
(* src/src/game/server/worldmodes/dungeon/dungeon.cpp, the group scenario it *)
(* runs (core/scenarios/base) and the clients that change to its world and  *)
(* from it. A dungeon waits for players, runs its scenario for those who    *)
(* are there when it starts, and takes new ones when it is empty again.     *)
(*                                                                         *)
(* Time passes in Tick, the controller's part of a server tick; a step of   *)
(* the model stands for several seconds. What the players, the mobs and the *)
(* steps of the scenario do comes between two ticks in any order. A client  *)
(* who is on the way counts as being in world 0 until its map is loaded     *)
(* (CServer::GetClientWorldID): the dungeon does not know of it.            *)
(*                                                                         *)
(* Ghosts: late are the clients who were on the way when the run began,     *)
(* cutOff those who died when no life was left, recorded from which run the *)
(* time was counted that the last finish saved for a player, overtime that  *)
(* somebody has come back with a life after the time limit of the run.      *)
(***************************************************************************)
EXTENDS Naturals, FiniteSets

CONSTANTS Clients,
          Warmup,      \* sv_duties_warmup
          ReadyWarmup, \* the 10 seconds that are left when all are ready
          Limit,       \* CDungeonData::m_TimeLimit
          FinishTime,  \* the 20 seconds after the end
          SafeTime,    \* sv_dungeon_safe_time
          MaxLives     \* bound: lives a step of the scenario gives

ASSUME DungeonAssumption ==
  /\ IsFiniteSet(Clients)
  /\ Warmup \in Nat /\ ReadyWarmup \in Nat \ {0} /\ Limit \in Nat \ {0}
  /\ FinishTime \in Nat \ {0} /\ SafeTime \in Nat /\ MaxLives \in Nat

VARIABLES state,        \* CDungeonData::m_State
          warmup,       \* m_WarmupTick
          saved,        \* m_LastWarmupTick: what was left when all became ready
          endTick,      \* m_EndTick
          safe,         \* ticks until m_SafeSpawnTick has passed
          scenario,     \* m_ScenarioID: none, running, or one that is over
          participants, \* GroupScenarioBase::m_vParticipantIDs
          lives,        \* m_GroupLives
          where,        \* out, on the way in, inside, on the way out
          body,         \* of a player inside: alive, dead, due to (re)spawn
          ready,        \* m_TempDutiesReady
          started,      \* m_TempStartDungeonTick: of no run, this one, an earlier one
          late, cutOff, recorded, overtime

controller == <<state, warmup, saved, endTick, safe>>
group == <<scenario, participants, lives, cutOff>>
ghosts == <<late, recorded, overtime>>
vars == <<controller, group, where, body, ready, started, ghosts>>

Inside == {c \in Clients : where[c] \in {"inside", "leaving"}}
Alive == {c \in Inside : body[c] = "alive"}
Less(a, b) == IF a > b THEN a - b ELSE 0

Init == /\ state = "inactive" /\ warmup = 0 /\ saved = 0 /\ endTick = 0 /\ safe = 0
        /\ scenario = "none" /\ participants = {} /\ lives = 0
        /\ where = [c \in Clients |-> "out"] /\ body = [c \in Clients |-> "due"]
        /\ ready = [c \in Clients |-> FALSE] /\ started = [c \in Clients |-> "never"]
        /\ late = {} /\ cutOff = {} /\ recorded = started /\ overtime = FALSE

-----------------------------------------------------------------------------
\* Variant: whether players are passing the dungeon is not asked.
JoinAnytime(c) ==
  /\ where[c] = "out"
  /\ where' = [where EXCEPT ![c] = "coming"]
  /\ UNCHANGED <<controller, group, body, ready, started, ghosts>>

\* DUNGEON_JOIN of the menu; the change of world itself comes with the next tick.
Join(c) ==
  /\ where[c] = "out" /\ state \in {"inactive", "waiting"}
  /\ where' = [where EXCEPT ![c] = "coming"]
  /\ UNCHANGED <<controller, group, body, ready, started, ghosts>>

\* The client has loaded the map. A new player object, that has not spawned.
Arrive(c) ==
  /\ where[c] = "coming"
  /\ where' = [where EXCEPT ![c] = "inside"]
  /\ body' = [body EXCEPT ![c] = "due"] /\ ready' = [ready EXCEPT ![c] = FALSE]
  /\ UNCHANGED <<controller, group, started, ghosts>>

\* `Vote yes' in a dungeon world.
ToggleReady(c) ==
  /\ c \in Alive /\ state \in {"inactive", "waiting"}
  /\ ready' = [ready EXCEPT ![c] = ~@]
  /\ UNCHANGED <<controller, group, where, body, started, ghosts>>

\* DUTIES_EXIT of the menu, open to the living.
Exit(c) ==
  /\ where[c] = "inside" /\ c \in Alive
  /\ where' = [where EXCEPT ![c] = "leaving"]
  /\ UNCHANGED <<controller, group, body, ready, started, ghosts>>

-----------------------------------------------------------------------------
\* OnCharacterDeath of the characters D, mobs included, when rest of the safe
\* time is left and the scenario's participants are those of P: each death takes
\* a life of the group; who finds none left takes no part any longer.
DeathsOf(D, rest, P) ==
  IF state \in {"active", "finish"} /\ rest = 0 /\ scenario = "running"
  THEN /\ lives' = Less(lives, Cardinality(D))
       /\ \E R \in SUBSET D :
            /\ Cardinality(R) = Less(Cardinality(D), lives)
            /\ participants' = P \ R
            /\ cutOff' = cutOff \cup R
  ELSE participants' = P /\ UNCHANGED <<lives, cutOff>>

\* A player dies in the game.
Die(c) ==
  /\ c \in Alive
  /\ body' = [body EXCEPT ![c] = "dead"]
  /\ DeathsOf({c}, safe, participants)
  /\ UNCHANGED <<controller, scenario, where, ready, started, ghosts>>

\* A mob dies. Unlike CWorldScenario's, this OnCharacterDeath does not ask
\* whether the victim is a bot.
MobDies ==
  /\ state = "active" /\ safe = 0 /\ scenario = "running" /\ lives > 0
  /\ lives' = lives - 1
  /\ UNCHANGED <<controller, scenario, participants, cutOff, where, body, ready, started, ghosts>>

\* Variant: one who goes stays in the scenario's list.
GoneButListed(c) ==
  /\ where' = [where EXCEPT ![c] = "out"]
  /\ body' = [body EXCEPT ![c] = "due"] /\ ready' = [ready EXCEPT ![c] = FALSE]
  /\ DeathsOf({c} \cap Alive, safe, participants)
  /\ UNCHANGED <<controller, scenario>>

\* The client is taken out of its scenario, then the character is killed, which
\* counts as a death of the group.
Gone(c) ==
  /\ where' = [where EXCEPT ![c] = "out"]
  /\ body' = [body EXCEPT ![c] = "due"] /\ ready' = [ready EXCEPT ![c] = FALSE]
  /\ DeathsOf({c} \cap Alive, safe, participants \ {c})
  /\ UNCHANGED <<controller, scenario>>

\* PendingChangeWorld of a player on the way out.
Leave(c) ==
  /\ where[c] = "leaving"
  /\ Gone(c)
  /\ UNCHANGED <<started, ghosts>>

\* The connection is closed; what is kept for the client is erased.
Drop(c) ==
  /\ where[c] # "out"
  /\ Gone(c)
  /\ started' = [started EXCEPT ![c] = "never"]
  /\ UNCHANGED ghosts

-----------------------------------------------------------------------------
\* Variant: only the group's lives are asked for.
ThrownOutWithoutLives == scenario = "running" /\ lives = 0

\* Who spawns when the safe time is over may be late for the run.
ThrownOut == scenario # "running" \/ state = "finish" \/ lives = 0

\* TryRespawn and OnCharacterSpawn.
Spawn(c) ==
  /\ where[c] = "inside" /\ body[c] = "due"
  /\ IF state \in {"active", "finish"} /\ safe = 0 /\ ThrownOut
     THEN /\ where' = [where EXCEPT ![c] = "leaving"]
          /\ participants' = participants \ {c}
          /\ UNCHANGED <<body, overtime>>
     ELSE /\ body' = [body EXCEPT ![c] = "alive"]
          /\ overtime' = (overtime \/ (state = "active" /\ endTick = 0))
          /\ UNCHANGED <<where, participants>>
  /\ UNCHANGED <<controller, scenario, lives, cutOff, ready, started, late, recorded>>

-----------------------------------------------------------------------------
\* ScenarioBase::Tick and the steps of the script. It goes on while one of its
\* participants has a character.
ScenarioGoesOn == scenario = "running" /\ participants \cap Alive # {}

\* A step begins; it may change the lives (set_group_lives).
ScenarioStep(n) ==
  /\ ScenarioGoesOn
  /\ lives' = n
  /\ UNCHANGED <<controller, scenario, participants, cutOff, where, body, ready, started, ghosts>>

\* The scenario ends without the dungeon being completed: its last step is over,
\* or it has no participant any more. UpdateScenarios then forgets it.
ScenarioEnds ==
  /\ ScenarioGoesOn \/ (scenario = "running" /\ participants = {})
  /\ scenario' = "over" /\ participants' = {} /\ lives' = 0
  /\ UNCHANGED <<controller, cutOff, where, body, ready, started, ghosts>>

\* dungeon_complete: FinishDungeon, ChangeState(STATE_FINISH). The scenario is
\* stopped and everyone in the world who has a start time gets a record.
Complete ==
  /\ ScenarioGoesOn
  /\ state' = "finish" /\ endTick' = FinishTime
  /\ scenario' = "none" /\ participants' = {} /\ lives' = 0
  /\ recorded' = [c \in Clients |-> IF c \in Inside THEN started[c] ELSE "never"]
  /\ overtime' = FALSE
  /\ UNCHANGED <<warmup, saved, safe, cutOff, where, body, ready, started, late>>

-----------------------------------------------------------------------------
\* Half a second and sv_player_respawn_time after the death.
Aged(b) == [c \in Clients |-> IF b[c] = "dead" THEN "due" ELSE b[c]]

\* ChangeState(STATE_INACTIVE): nobody is in the world any more.
TickEmpty ==
  /\ Inside = {} /\ state # "inactive"
  /\ state' = "inactive"
  /\ warmup' = 0 /\ saved' = 0 /\ endTick' = 0 /\ safe' = 0
  /\ scenario' = "none" /\ participants' = {} /\ lives' = 0
  /\ overtime' = FALSE
  /\ UNCHANGED <<cutOff, where, body, ready, started, late, recorded>>

\* What is left of the warmup, given what was left before.
AllReady == \A c \in Inside : ready[c]
Skips(left) == AllReady /\ left > ReadyWarmup
Resumes == ~AllReady /\ saved > 0
Remaining(left) == IF Skips(left) THEN ReadyWarmup
                   ELSE IF Resumes THEN saved - (ReadyWarmup - left) ELSE left
WarmupLeft == IF state = "inactive" THEN Warmup ELSE warmup

\* The first player opens the waiting time; it runs, shorter when all are ready.
TickWaiting ==
  /\ Inside # {} /\ state \in {"inactive", "waiting"}
  /\ WarmupLeft = 0 \/ Remaining(WarmupLeft) > 1
  /\ state' = "waiting"
  /\ warmup' = Less(Remaining(WarmupLeft), 1)
  /\ saved' = IF WarmupLeft = 0 THEN saved
              ELSE IF Skips(WarmupLeft) THEN WarmupLeft ELSE IF Resumes THEN 0 ELSE saved
  /\ body' = Aged(body)
  /\ UNCHANGED <<endTick, safe, group, where, ready, started, ghosts>>

\* Variant: a start time that is set is not set again.
StampOnce == [c \in Clients |-> IF c \in Inside /\ started[c] = "never" THEN "this"
                                ELSE IF started[c] = "this" THEN "earlier" ELSE started[c]]

\* The start time of the players of the new run; those of others grow old.
Stamp == [c \in Clients |-> IF c \in Inside THEN "this"
                            ELSE IF started[c] = "this" THEN "earlier" ELSE started[c]]

\* The waiting time is over, ChangeState(STATE_ACTIVE): the scenario is
\* registered, its first step begins, everyone in the world takes part and is
\* killed to start from the spawn point.
TickStart ==
  /\ Inside # {} /\ state \in {"inactive", "waiting"}
  /\ WarmupLeft # 0 /\ Remaining(WarmupLeft) = 1
  /\ state' = "active" /\ warmup' = 0 /\ endTick' = Limit /\ safe' = SafeTime + 1
  /\ saved' = IF Skips(WarmupLeft) THEN WarmupLeft ELSE IF Resumes THEN 0 ELSE saved
  /\ scenario' = "running" /\ participants' = Inside
  /\ \E n \in 0..MaxLives : lives' = n
  /\ started' = Stamp
  /\ body' = [c \in Clients |-> IF c \in Alive THEN "dead" ELSE Aged(body)[c]]
  /\ late' = {c \in Clients : where[c] = "coming"} /\ cutOff' = {}
  /\ recorded' = [c \in Clients |-> "never"]
  /\ UNCHANGED <<where, ready, overtime>>

\* The time of the run, or that after its end, runs out: all are killed once.
TickRunning ==
  /\ Inside # {} /\ state \in {"active", "finish"}
  /\ endTick' = Less(endTick, 1) /\ safe' = Less(safe, 1)
  /\ LET killed == IF endTick = 1 THEN Alive ELSE {}
     IN /\ body' = [c \in Clients |-> IF c \in killed THEN "dead" ELSE Aged(body)[c]]
        /\ DeathsOf(killed, safe', participants)
  /\ UNCHANGED <<state, warmup, saved, scenario, where, ready, started, ghosts>>

Tick == TickEmpty \/ TickWaiting \/ TickStart \/ TickRunning

Next == \/ Tick
        \/ MobDies \/ ScenarioEnds \/ Complete
        \/ \E n \in 0..MaxLives : ScenarioStep(n)
        \/ \E c \in Clients : \/ Join(c) \/ Arrive(c) \/ ToggleReady(c) \/ Exit(c)
                              \/ Die(c) \/ Spawn(c) \/ Leave(c) \/ Drop(c)

\* The server ticks, and in its ticks players change worlds and spawn.
Fair == WF_vars(Tick) /\ \A c \in Clients : WF_vars(Spawn(c)) /\ WF_vars(Leave(c))

Spec == Init /\ [][Next]_vars /\ Fair

-----------------------------------------------------------------------------
TypeOK ==
  /\ state \in {"inactive", "waiting", "active", "finish"}
  /\ warmup \in 0..Warmup /\ saved \in 0..Warmup
  /\ endTick \in 0..(Limit + FinishTime) /\ safe \in 0..(SafeTime + 1)
  /\ scenario \in {"none", "running", "over"}
  /\ participants \subseteq Clients /\ lives \in 0..MaxLives
  /\ where \in [Clients -> {"out", "coming", "inside", "leaving"}]
  /\ body \in [Clients -> {"alive", "dead", "due"}]
  /\ ready \in [Clients -> BOOLEAN]
  /\ started \in [Clients -> {"never", "this", "earlier"}]
  /\ late \cup cutOff \subseteq Clients /\ recorded \in [Clients -> {"never", "this", "earlier"}]
  /\ overtime \in BOOLEAN

\* The variables have their types, and a scenario is kept exactly for a run: it
\* has participants and lives only while it runs, and every participant is in
\* the world, however players leave, drop, die or are thrown out.
ScenarioBelongsToRun ==
  /\ TypeOK
  /\ (scenario # "none") <=> (state = "active")
  /\ (participants # {} \/ lives > 0) => scenario = "running"
  /\ participants \subseteq Inside

\* Who is alive in a dungeon while its scenario runs takes part in it, unless
\* he was on the way when the run began (the check of the menu was long before),
\* or had died without a life left and was given one before he came back.
PlayersTakePart ==
  scenario = "running" => Alive \subseteq participants \cup late \cup cutOff

\* The record saved at the end counts from the start of this run, except for a
\* player who was on the way when it began: his start time is an earlier one.
RecordIsOfThisRun ==
  \A c \in Clients : recorded[c] = "earlier" => c \in late

\* A dungeon that has been entered is free again in the end, whatever the
\* players do or leave undone, unless lives are left when the time is over:
\* nothing throws out who comes back with one, if the run is never completed.
DungeonIsFreeAgain == state # "inactive" ~> state = "inactive" \/ overtime
=============================================================================
