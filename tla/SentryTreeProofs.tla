-------------------------- MODULE SentryTreeProofs --------------------------
(***************************************************************************)
(* Proofs about SentryTreeHistory, for every set of messages, every        *)
(* cooldown and confirm duration, and nodes that hold or do not; and about *)
(* SentryEngagement, for every timeout and number of frames required.      *)
(***************************************************************************)
EXTENDS SentryTreeHistory, SentryEngagement, TLAPS

\* What the assumptions say of the constants.
LEMMA ConstantTypes ==
  /\ CooldownSec \in Nat \ {0}
  /\ ConfirmDuration \in Nat
  /\ Unset \notin Int
  /\ PublishMayRun \in BOOLEAN
  BY GateAssumption, CooldownAssumption, TreeAssumption, UnsetAssumption
  DEF GateAssumption, CooldownAssumption, TreeAssumption, UnsetAssumption

-----------------------------------------------------------------------------
(* What the operations of the components do to their own types. *)

\* SetChassisMode writes entries of the right types.
LEMMA SetChassisModeType ==
  ASSUME ChassisTypeOK,
         NEW cmd, NEW mode \in {Follow, Spin}, SetChassisModeFrom(cmd, mode)
  PROVE  ChassisTypeOK'
  BY ConstantTypes DEF ChassisTypeOK, SetChassisModeFrom, Follow, Spin, Stopped

\* Time keeps the types of the gate's timer and of the cooldown.
LEMMA ElapseType ==
  ASSUME GateTypeOK, ChassisTypeOK, ElapseGate, ElapseCooldown
  PROVE  GateTypeOK' /\ ChassisTypeOK'
<1>1. GateTypeOK'
  BY ConstantTypes DEF GateTypeOK, ElapseGate
<1>2. ChassisTypeOK'
  BY ConstantTypes DEF ChassisTypeOK, ElapseCooldown, Follow, Spin, Stopped
<1> QED BY <1>1, <1>2

\* A tick of the start gate keeps the types of its timer.
LEMMA CheckGameStartType ==
  ASSUME GateTypeOK, CheckGameStart
  PROVE  GateTypeOK'
  BY ConstantTypes DEF GateTypeOK, CheckGameStart

\* Whatever the verdict on the enemy, the mode is one of the two.
LEMMA EnemyMode ==
  ASSUME enemy \in BOOLEAN
  PROVE  (IF enemy THEN Spin ELSE Follow) \in {Follow, Spin}
  OBVIOUS

-----------------------------------------------------------------------------
(* Type correctness *)

\* Every step of the tick thread keeps the types.
LEMMA TickStepType ==
  ASSUME TypeOK, TickStep
  PROVE  TypeOK'
<1> USE DEF TypeOK, BetweenTicks, InsideTick, Default, Combat, Survival
<1>1. CASE Initialize
  <2>1. ChassisTypeOK'
    BY <1>1, SetChassisModeType DEF Initialize, Follow, Spin
  <2> QED BY <1>1, <2>1 DEF Initialize, Published, refereeVars, gateVars, GateTypeOK
<1>2. CASE CheckStart
  <2>1. GateTypeOK'
    BY <1>2, CheckGameStartType DEF CheckStart
  <2> QED BY <1>2, <2>1 DEF CheckStart, refereeVars, chassisVars, ChassisTypeOK
<1>3. CASE CheckSurvival
  BY <1>3 DEF CheckSurvival, gateVars, GateTypeOK, refereeVars, chassisVars, ChassisTypeOK
<1>4. CASE MaintainSurvival
  BY <1>4 DEF MaintainSurvival, gateVars, GateTypeOK, refereeVars, chassisVars, ChassisTypeOK
<1>5. CASE SurvivalAction
  <2>1. ChassisTypeOK'
    BY <1>5, SetChassisModeType, EnemyMode DEF SurvivalAction, SetChassisMode
  <2> QED BY <1>5, <2>1 DEF SurvivalAction, Published, refereeVars, gateVars, GateTypeOK
<1>6. CASE CombatMode
  <2>1. ChassisTypeOK'
    BY <1>6, SetChassisModeType DEF CombatMode, SetChassisMode
  <2> QED BY <1>6, <2>1 DEF CombatMode, Published, refereeVars, gateVars, GateTypeOK
<1>7. CASE NoCombat
  BY <1>7 DEF NoCombat, gateVars, GateTypeOK, refereeVars, chassisVars, ChassisTypeOK
<1>8. CASE DefaultModeEntry
  <2>1. ChassisTypeOK'
    BY <1>8, SetChassisModeType DEF DefaultModeEntry, SetChassisMode
  <2> QED BY <1>8, <2>1 DEF DefaultModeEntry, Published, refereeVars, gateVars, GateTypeOK
<1>9. CASE DefaultModeRefused
  BY <1>9 DEF DefaultModeRefused, gateVars, GateTypeOK, refereeVars, chassisVars, ChassisTypeOK
<1>10. CASE HoldDone
  BY <1>10 DEF HoldDone, gateVars, GateTypeOK, refereeVars, chassisVars, ChassisTypeOK
<1>11. CASE ExecuteSurvive
  BY <1>11 DEF ExecuteSurvive, gateVars, GateTypeOK, refereeVars, chassisVars, ChassisTypeOK
<1>12. CASE ExecuteCombat
  BY <1>12 DEF ExecuteCombat, gateVars, GateTypeOK, refereeVars, chassisVars, ChassisTypeOK
<1>13. CASE ExecuteDefault
  BY <1>13 DEF ExecuteDefault, PubGoal, gateVars, GateTypeOK, refereeVars, chassisVars, ChassisTypeOK
<1>14. CASE CombatActions
  BY <1>14 DEF CombatActions, PubGoal, gateVars, GateTypeOK, refereeVars, chassisVars, ChassisTypeOK
<1>15. CASE RmulSupply
  BY <1>15 DEF RmulSupply, PubGoal, gateVars, GateTypeOK, refereeVars, chassisVars, ChassisTypeOK
<1>16. CASE RetrySupplied
  BY <1>16 DEF RetrySupplied, gateVars, GateTypeOK, refereeVars, chassisVars, ChassisTypeOK
<1> QED
  BY <1>1, <1>2, <1>3, <1>4, <1>5, <1>6, <1>7, <1>8, <1>9, <1>10, <1>11,
     <1>12, <1>13, <1>14, <1>15, <1>16 DEF TickStep

\* The server, the callbacks and time keep the types.
LEMMA OtherStepType ==
  ASSUME TypeOK, GoalAccepted \/ CancelTree \/ Callback \/ Elapse
  PROVE  TypeOK'
<1> USE DEF TypeOK, BetweenTicks, InsideTick, Default, Combat, Survival
<1>1. CASE GoalAccepted
  BY <1>1 DEF GoalAccepted, NewTreeBlackboard, NewGate, refereeVars,
              GateTypeOK, ChassisTypeOK
<1>2. CASE CancelTree
  BY <1>2, ConstantTypes
  DEF CancelTree, HaltSetChassisMode, gateVars, GateTypeOK, refereeVars,
      chassisVars, ChassisTypeOK
<1>3. CASE Callback
  <2> USE DEF refereeVars, gateVars, GateTypeOK, chassisVars, ChassisTypeOK
  <2>1. ASSUME NEW msg \in RobotMsgs, RobotStatusCallback(msg)
        PROVE  TypeOK'
    BY <2>1 DEF RobotStatusCallback
  <2>2. ASSUME NEW msg \in RfidMsgs, RfidStatusCallback(msg)
        PROVE  TypeOK'
    BY <2>2 DEF RfidStatusCallback
  <2>3. ASSUME NEW msg \in GameMsgs, RefereeGameStatus(msg)
        PROVE  TypeOK'
    BY <2>3 DEF RefereeGameStatus, GameStatusCallback
  <2>4. CASE EnemyChanges
    <3>1. enemy' \in BOOLEAN
      BY <2>4, Zenon DEF EnemyChanges
    <3> QED BY <2>4, <3>1 DEF EnemyChanges
  <2> QED BY <1>3, <2>1, <2>2, <2>3, <2>4 DEF Callback
<1>4. CASE Elapse
  BY <1>4, ElapseType DEF Elapse, refereeVars
<1> QED BY <1>1, <1>2, <1>3, <1>4

\* Every step keeps the types, those of the history included.
LEMMA TypeStep ==
  ASSUME HTypeOK, [HNext]_hvars
  PROVE  HTypeOK'
<1>1. TypeOK'
  <2>1. CASE Next
    BY <2>1, TickStepType, OtherStepType DEF HTypeOK, Next
  <2>2. CASE UNCHANGED vars
    BY <2>2 DEF HTypeOK, TypeOK, vars, gateVars, GateTypeOK, refereeVars,
                chassisVars, ChassisTypeOK
  <2> QED BY <2>1, <2>2 DEF HNext, Next, hvars
<1>2. (spinAge \in 0 .. CooldownSec)'
  BY ConstantTypes
  DEF HTypeOK, HNext, hvars, historyVars, RememberSpin, SpinGrowsOlder
<1>3. (verdicts \subseteq {"fit", "unfit", "recovered", "unrecovered"})'
  BY DEF HTypeOK, HNext, hvars, historyVars, RememberVerdicts, Verdicts
<1> QED BY <1>1, <1>2, <1>3 DEF HTypeOK

\* Every variable keeps its type.
THEOREM TypeCorrect == HSpec => []HTypeOK
<1>1. HInit => HTypeOK
  <2> SUFFICES ASSUME HInit PROVE HTypeOK
    OBVIOUS
  <2>1. GateTypeOK /\ ChassisTypeOK
    BY DEF HInit, Init, GateInit, ChassisInit, GateTypeOK, ChassisTypeOK
  <2>2. enemy \in BOOLEAN
    BY DEF HInit, Init
  <2>3. spinAge \in 0 .. CooldownSec
    BY ConstantTypes DEF HInit
  <2> QED
    BY <2>1, <2>2, <2>3
    DEF HInit, Init, HTypeOK, TypeOK, BetweenTicks, InsideTick
<1> QED BY <1>1, TypeStep, PTL DEF HSpec

-----------------------------------------------------------------------------
(* The chassis: command, cooldown and mode agree.  The three invariants    *)
(* lean on each other: the cooldown is written only when chassis_mode_cmd  *)
(* says that the mode changes, so it measures the spin only as long as the *)
(* entry mirrors the topic.                                                *)

ChassisInv ==
  /\ HTypeOK
  /\ CommandMirrorsTopic
  /\ CooldownMeasuresSpin
  /\ ExecuteModeAgrees

\* SetChassisMode in a running tree: topic and entry agree afterwards, and
\* the cooldown still measures the spin.
LEMMA SetChassisModeKeeps ==
  ASSUME ChassisInv, at \notin {"off", "initialize"}, RememberSpin,
         NEW mode \in {Follow, Spin}, SetChassisMode(mode)
  PROVE  /\ chassis' = mode
         /\ chassis_mode_cmd' = mode
         /\ CooldownMeasuresSpin'
  BY ConstantTypes
  DEF ChassisInv, HTypeOK, TypeOK, ChassisTypeOK, CommandMirrorsTopic,
      CooldownMeasuresSpin, RememberSpin, SetChassisMode, SetChassisModeFrom,
      Follow, Spin

\* A step that leaves topic and entries alone leaves the cooldown right.
LEMMA UntouchedChassisKeeps ==
  ASSUME ChassisInv, RememberSpin, UNCHANGED chassisVars
  PROVE  CooldownMeasuresSpin'
  BY DEF ChassisInv, CooldownMeasuresSpin, RememberSpin, chassisVars

\* Every step of the tick thread keeps topic, entries and mode together.
LEMMA TickStepChassis ==
  ASSUME ChassisInv, TickStep, RememberSpin
  PROVE  CommandMirrorsTopic' /\ CooldownMeasuresSpin' /\ ExecuteModeAgrees'
<1> USE DEF CommandMirrorsTopic, ExecuteModeAgrees
<1>1. CASE Initialize
  BY <1>1
  DEF Initialize, SetChassisModeFrom, Published, CooldownMeasuresSpin, Follow, Spin
<1>2. CASE CheckStart
  BY <1>2, UntouchedChassisKeeps DEF CheckStart, ChassisInv, chassisVars
<1>3. CASE CheckSurvival
  BY <1>3, UntouchedChassisKeeps DEF CheckSurvival, ChassisInv, chassisVars
<1>4. CASE MaintainSurvival
  BY <1>4, UntouchedChassisKeeps DEF MaintainSurvival, ChassisInv, chassisVars
<1>5. CASE SurvivalAction
  <2> DEFINE mode == IF enemy THEN Spin ELSE Follow
  <2>1. mode \in {Follow, Spin}
    OBVIOUS
  <2>2. SetChassisMode(mode) /\ at = "survive"
    BY <1>5 DEF SurvivalAction
  <2> HIDE DEF mode
  <2>3. /\ chassis' = mode
        /\ chassis_mode_cmd' = mode
        /\ CooldownMeasuresSpin'
    BY <2>1, <2>2, SetChassisModeKeeps
  <2> QED BY <1>5, <2>3, ConstantTypes
          DEF SurvivalAction, Default, Combat, Survival
<1>6. CASE CombatMode
  BY <1>6, SetChassisModeKeeps, ConstantTypes DEF CombatMode, Default, Combat
<1>7. CASE NoCombat
  BY <1>7, UntouchedChassisKeeps DEF NoCombat, ChassisInv, chassisVars
<1>8. CASE DefaultModeEntry
  BY <1>8, SetChassisModeKeeps, ConstantTypes DEF DefaultModeEntry, Default, Combat
<1>9. CASE DefaultModeRefused
  BY <1>9, UntouchedChassisKeeps DEF DefaultModeRefused, ChassisInv, chassisVars
<1>10. CASE HoldDone
  BY <1>10, UntouchedChassisKeeps DEF HoldDone, ChassisInv, chassisVars
<1>11. CASE ExecuteSurvive
  BY <1>11, UntouchedChassisKeeps DEF ExecuteSurvive, ChassisInv, chassisVars
<1>12. CASE ExecuteCombat
  BY <1>12, UntouchedChassisKeeps DEF ExecuteCombat, ChassisInv, chassisVars
<1>13. CASE ExecuteDefault
  BY <1>13, UntouchedChassisKeeps DEF ExecuteDefault, PubGoal, ChassisInv, chassisVars
<1>14. CASE CombatActions
  BY <1>14, UntouchedChassisKeeps DEF CombatActions, PubGoal, ChassisInv, chassisVars
<1>15. CASE RmulSupply
  BY <1>15, UntouchedChassisKeeps DEF RmulSupply, PubGoal, ChassisInv, chassisVars
<1>16. CASE RetrySupplied
  BY <1>16, UntouchedChassisKeeps DEF RetrySupplied, ChassisInv, chassisVars
<1> QED
  BY <1>1, <1>2, <1>3, <1>4, <1>5, <1>6, <1>7, <1>8, <1>9, <1>10, <1>11,
     <1>12, <1>13, <1>14, <1>15, <1>16 DEF TickStep

\* So do the creation and the cancellation of a tree.
LEMMA ServerStepChassis ==
  ASSUME ChassisInv, GoalAccepted \/ CancelTree, RememberSpin
  PROVE  CommandMirrorsTopic' /\ CooldownMeasuresSpin' /\ ExecuteModeAgrees'
<1>1. CASE GoalAccepted
  BY <1>1
  DEF GoalAccepted, NewTreeBlackboard, RememberSpin, ChassisInv,
      CommandMirrorsTopic, CooldownMeasuresSpin, ExecuteModeAgrees
<1>2. CASE CancelTree
  BY <1>2
  DEF CancelTree, HaltSetChassisMode, chassisVars, RememberSpin, ChassisInv,
      CommandMirrorsTopic, CooldownMeasuresSpin, ExecuteModeAgrees, Spin, Stopped
<1> QED BY <1>1, <1>2

\* So do messages from the referee.
LEMMA CallbackChassis ==
  ASSUME ChassisInv, Callback, RememberSpin
  PROVE  CommandMirrorsTopic' /\ CooldownMeasuresSpin' /\ ExecuteModeAgrees'
<1>1. UNCHANGED <<chassisVars, current_mode, at>>
  BY DEF Callback, RobotStatusCallback, RfidStatusCallback, RefereeGameStatus,
         EnemyChanges
<1> QED
  BY <1>1, UntouchedChassisKeeps
  DEF ChassisInv, CommandMirrorsTopic, ExecuteModeAgrees, chassisVars

\* Time: the cooldown loses what the age of the spin gains.
LEMMA ElapseChassis ==
  ASSUME ChassisInv, Elapse, SpinGrowsOlder
  PROVE  CommandMirrorsTopic' /\ CooldownMeasuresSpin' /\ ExecuteModeAgrees'
  BY ConstantTypes
  DEF ChassisInv, Elapse, ElapseCooldown, SpinGrowsOlder, HTypeOK, TypeOK,
      ChassisTypeOK, CommandMirrorsTopic, CooldownMeasuresSpin, ExecuteModeAgrees

\* ChassisInv is inductive.
LEMMA ChassisInvStep ==
  ASSUME ChassisInv, [HNext]_hvars
  PROVE  ChassisInv'
<1>1. HTypeOK'
  BY TypeStep DEF ChassisInv
<1>2. CASE HNext
  BY <1>1, <1>2, TickStepChassis, ServerStepChassis, CallbackChassis, ElapseChassis
  DEF HNext, ChassisInv
<1>3. CASE UNCHANGED hvars
  BY <1>1, <1>3
  DEF hvars, vars, historyVars, chassisVars, ChassisInv, CommandMirrorsTopic,
      CooldownMeasuresSpin, ExecuteModeAgrees
<1> QED BY <1>2, <1>3

\* ChassisInv holds in every run of the tree.
LEMMA ChassisInvariant == HSpec => []ChassisInv
<1>1. HInit => CommandMirrorsTopic /\ CooldownMeasuresSpin /\ ExecuteModeAgrees
  BY ConstantTypes
  DEF HInit, Init, ChassisInit, CommandMirrorsTopic, CooldownMeasuresSpin,
      ExecuteModeAgrees, Spin
<1>2. HTypeOK /\ CommandMirrorsTopic /\ CooldownMeasuresSpin /\ ExecuteModeAgrees
        => ChassisInv
  BY DEF ChassisInv
<1> QED BY <1>1, <1>2, TypeCorrect, ChassisInvStep, PTL DEF HSpec

\* chassis_mode_cmd says what the topic said last, whenever a running tree
\* may read it.
THEOREM CommandMirrors == HSpec => []CommandMirrorsTopic
<1>1. ChassisInv => CommandMirrorsTopic
  BY DEF ChassisInv
<1> QED BY <1>1, ChassisInvariant, PTL

\* While the chassis spins, the cooldown and the age of the spin add up to
\* CooldownSec: the entry is there, and no pass pushes it forward.
THEOREM CooldownMeasures == HSpec => []CooldownMeasuresSpin
<1>1. ChassisInv => CooldownMeasuresSpin
  BY DEF ChassisInv
<1> QED BY <1>1, ChassisInvariant, PTL

\* Execute finds the chassis as its mode calls for.
THEOREM ExecuteAgrees == HSpec => []ExecuteModeAgrees
<1>1. ChassisInv => ExecuteModeAgrees
  BY DEF ChassisInv
<1> QED BY <1>1, ChassisInvariant, PTL

\* combat_cooldown_gate: the default branch ends a spin only when it has
\* lasted for CooldownSec.
THEOREM DefaultReturns == HSpec => DefaultReturnAfterCooldown
<1> DEFINE A == chassis = Spin /\ chassis' = Follow /\ current_mode' = Default
                  /\ at # "initialize" => spinAge = CooldownSec
<1>1. ASSUME ChassisInv, [HNext]_hvars, chassis = Spin, chassis' = Follow,
             current_mode' = Default, at # "initialize"
      PROVE  spinAge = CooldownSec
  <2>1. TickStep
    BY <1>1
    DEF HNext, hvars, vars, chassisVars, GoalAccepted, NewTreeBlackboard,
        CancelTree, HaltSetChassisMode, Callback, RobotStatusCallback,
        RfidStatusCallback, RefereeGameStatus, EnemyChanges, Elapse,
        ElapseCooldown, Spin, Follow, Stopped
  <2>2. DefaultModeEntry
    BY <1>1, <2>1
    DEF TickStep, Initialize, CheckStart, CheckSurvival, MaintainSurvival,
        SurvivalAction, CombatMode, SetChassisMode, SetChassisModeFrom, NoCombat,
        DefaultModeRefused, HoldDone, ExecuteSurvive, ExecuteCombat, ExecuteDefault,
        CombatActions, RmulSupply, RetrySupplied, chassisVars,
        Spin, Follow, Default, Survival
  <2>3. cooldown = 0
    BY <1>1, <2>2
    DEF DefaultModeEntry, CooldownGate, CombatCooldownReady, ChassisInv,
        CommandMirrorsTopic
  <2> QED BY <1>1, <2>3, ConstantTypes
          DEF ChassisInv, HTypeOK, CooldownMeasuresSpin
<1>2. ChassisInv /\ [HNext]_hvars => [A]_hvars
  BY <1>1
<1> QED BY <1>2, ChassisInvariant, PTL DEF HSpec, DefaultReturnAfterCooldown

-----------------------------------------------------------------------------
(* Refinement: a step of the tree is a step of the contract or stutters. *)

\* A step of the tree that touches neither chassis nor mode is a stutter of
\* the contract.
LEMMA SilentStep ==
  ASSUME RememberSpin, UNCHANGED <<chassisVars, current_mode>>,
         at \notin {"off", "initialize"}, at' \notin {"off", "initialize"}
  PROVE  UNCHANGED Contract!vars
  BY DEF RememberSpin, chassisVars, Phase, Contract!vars

\* Every step of the tick thread is a step of the contract or a stutter.
LEMMA TickStepContract ==
  ASSUME ChassisInv, TickStep, RememberSpin
  PROVE  [Contract!Next]_(Contract!vars)
<1>1. CASE Initialize
  <2>1. Contract!Start
    BY <1>1
    DEF Initialize, SetChassisModeFrom, Published, RememberSpin, Phase, Follow,
        Default, Contract!Start, Contract!Send
  <2> QED BY <2>1 DEF Contract!Next
<1>2. CASE CheckStart
  BY <1>2, SilentStep DEF CheckStart
<1>3. CASE CheckSurvival
  BY <1>3, SilentStep DEF CheckSurvival
<1>4. CASE MaintainSurvival
  BY <1>4, SilentStep DEF MaintainSurvival
<1>5. CASE SurvivalAction
  <2>1. chassis' \in {Spin, Follow}
    BY <1>5 DEF SurvivalAction, SetChassisMode, SetChassisModeFrom
  <2>2. Contract!GoSurvival
    BY <1>5, <2>1
    DEF SurvivalAction, Published, RememberSpin, Phase, Spin, Follow, Survival,
        Contract!GoSurvival, Contract!Send
  <2> QED BY <2>2 DEF Contract!Next
<1>6. CASE CombatMode
  <2>1. Contract!GoCombat
    BY <1>6
    DEF CombatMode, SetChassisMode, SetChassisModeFrom, Published, RememberSpin,
        Phase, Spin, Combat, Contract!GoCombat, Contract!Send
  <2> QED BY <2>1 DEF Contract!Next
<1>7. CASE NoCombat
  BY <1>7, SilentStep DEF NoCombat
<1>8. CASE DefaultModeEntry
  <2>1. chassis = Spin => spinAge = CooldownSec
    BY <1>8, ConstantTypes
    DEF DefaultModeEntry, CooldownGate, CombatCooldownReady, ChassisInv,
        HTypeOK, CommandMirrorsTopic, CooldownMeasuresSpin
  <2>2. Contract!GoDefault
    BY <1>8, <2>1
    DEF DefaultModeEntry, SetChassisMode, SetChassisModeFrom, Published,
        RememberSpin, Phase, Spin, Follow, Default, Contract!GoDefault, Contract!Send
  <2> QED BY <2>2 DEF Contract!Next
<1>9. CASE DefaultModeRefused
  <2>1. chassis = Spin /\ spinAge < CooldownSec
    BY <1>9, ConstantTypes
    DEF DefaultModeRefused, CooldownGate, CombatCooldownReady, ChassisInv,
        HTypeOK, TypeOK, ChassisTypeOK, CommandMirrorsTopic, CooldownMeasuresSpin
  <2>2. Contract!AwaitCooldown
    BY <1>9, <2>1
    DEF DefaultModeRefused, chassisVars, RememberSpin, Phase, Spin, Default,
        Contract!AwaitCooldown
  <2> QED BY <2>2 DEF Contract!Next
<1>10. CASE HoldDone
  BY <1>10, SilentStep DEF HoldDone
<1>11. CASE ExecuteSurvive
  BY <1>11, SilentStep DEF ExecuteSurvive
<1>12. CASE ExecuteCombat
  BY <1>12, SilentStep DEF ExecuteCombat
<1>13. CASE ExecuteDefault
  BY <1>13, SilentStep DEF ExecuteDefault, PubGoal
<1>14. CASE CombatActions
  BY <1>14, SilentStep DEF CombatActions, PubGoal
<1>15. CASE RmulSupply
  BY <1>15, SilentStep DEF RmulSupply, PubGoal
<1>16. CASE RetrySupplied
  BY <1>16, SilentStep DEF RetrySupplied
<1> QED
  BY <1>1, <1>2, <1>3, <1>4, <1>5, <1>6, <1>7, <1>8, <1>9, <1>10, <1>11,
     <1>12, <1>13, <1>14, <1>15, <1>16 DEF TickStep

\* Every step at all is a step of the contract or a stutter.
LEMMA ContractStep ==
  ASSUME ChassisInv, [HNext]_hvars
  PROVE  [Contract!Next]_(Contract!vars)
<1>1. CASE TickStep /\ RememberSpin
  BY <1>1, TickStepContract
<1>2. CASE GoalAccepted /\ RememberSpin
  <2>1. Contract!Create
    BY <1>2 DEF GoalAccepted, NewTreeBlackboard, RememberSpin, Phase, Contract!Create
  <2> QED BY <2>1 DEF Contract!Next
<1>3. CASE CancelTree /\ RememberSpin
  <2>1. chassis' = 0 \/ chassis' = chassis
    BY <1>3 DEF CancelTree, HaltSetChassisMode, chassisVars, Stopped
  <2>2. Contract!Abandon
    BY <1>3, <2>1
    DEF CancelTree, BetweenTicks, RememberSpin, Phase, Contract!Abandon, Contract!Send
  <2> QED BY <2>2 DEF Contract!Next
<1>4. CASE Callback /\ RememberSpin
  <2>1. UNCHANGED <<chassisVars, current_mode, at>>
    BY <1>4 DEF Callback, RobotStatusCallback, RfidStatusCallback,
                RefereeGameStatus, EnemyChanges
  <2> QED BY <1>4, <2>1 DEF chassisVars, RememberSpin, Phase, Contract!vars
<1>5. CASE Elapse /\ SpinGrowsOlder
  <2>1. UNCHANGED <<chassis, current_mode, at>>
    BY <1>5 DEF Elapse, ElapseCooldown
  <2>2. Contract!Age \/ UNCHANGED Contract!vars
    BY <1>5, <2>1 DEF SpinGrowsOlder, Phase, Spin, Contract!Age, Contract!vars
  <2> QED BY <2>2 DEF Contract!Next
<1>6. CASE UNCHANGED hvars
  BY <1>6 DEF hvars, vars, historyVars, chassisVars, Phase, Contract!vars
<1> QED BY <1>1, <1>2, <1>3, <1>4, <1>5, <1>6 DEF HNext

\* The tree implements the contract with the chassis.
THEOREM Refinement == HSpec => ImplementsContract
<1>1. HInit => Contract!Init
  BY DEF HInit, Init, ChassisInit, Phase, Contract!Init
<1> QED
  BY <1>1, ContractStep, ChassisInvariant, PTL
  DEF HSpec, ImplementsContract, Contract!Spec

-----------------------------------------------------------------------------
(* The mode and the status.  A pass keeps the verdicts it has read, so     *)
(* what justifies its next step is still there when it takes the step,     *)
(* whatever messages arrive in between.                                    *)

PassInv ==
  /\ at = "initialize" => current_mode = Unset
  /\ Deciding => Verdicts \subseteq verdicts
  /\ at \in {"maintain", "combat", "default"} => "fit" \in verdicts
  /\ at \in {"combat", "default"} /\ current_mode = Survival
       => "recovered" \in verdicts
  /\ at = "survive" => verdicts \cap {"unfit", "unrecovered"} # {}
  /\ at \in {"holdModeSelect", "execute", "attack"} =>
       /\ current_mode # Survival => "fit" \in verdicts
       /\ current_mode = Survival => verdicts \cap {"unfit", "unrecovered"} # {}

\* What the present status amounts to.
LEMMA VerdictsNow ==
  /\ "fit" \in Verdicts <=> Fit
  /\ "unfit" \in Verdicts <=> ~Fit
  /\ "recovered" \in Verdicts <=> Recovered
  /\ "unrecovered" \in Verdicts <=> ~Recovered
  BY DEF Verdicts

\* A pass that goes on deciding forgets no verdict and adds the present ones.
LEMMA VerdictsKept ==
  ASSUME RememberVerdicts
  PROVE  /\ Deciding' => Verdicts' \subseteq verdicts'
         /\ Deciding /\ Deciding' => verdicts \subseteq verdicts'
  BY DEF RememberVerdicts

\* Every step of the tick thread keeps what the pass relies on.
LEMMA TickStepPass ==
  ASSUME TypeOK, PassInv, TickStep, RememberVerdicts
  PROVE  PassInv'
<1> USE VerdictsKept, ConstantTypes DEF PassInv, Deciding, Default, Combat, Survival
<1>1. CASE Initialize
  BY <1>1 DEF Initialize, Published
<1>2. CASE CheckStart
  BY <1>2 DEF CheckStart
<1>3. CASE CheckSurvival
  BY <1>3, VerdictsNow DEF CheckSurvival
<1>4. CASE MaintainSurvival
  BY <1>4, VerdictsNow DEF MaintainSurvival
<1>5. CASE SurvivalAction
  BY <1>5 DEF SurvivalAction, Published
<1>6. CASE CombatMode
  BY <1>6 DEF CombatMode, Published
<1>7. CASE NoCombat
  BY <1>7 DEF NoCombat
<1>8. CASE DefaultModeEntry
  BY <1>8 DEF DefaultModeEntry, Published
<1>9. CASE DefaultModeRefused
  BY <1>9 DEF DefaultModeRefused
<1>10. CASE HoldDone
  BY <1>10 DEF HoldDone
<1>11. CASE ExecuteSurvive
  BY <1>11 DEF ExecuteSurvive
<1>12. CASE ExecuteCombat
  BY <1>12 DEF ExecuteCombat
<1>13. CASE ExecuteDefault
  BY <1>13 DEF ExecuteDefault, PubGoal
<1>14. CASE CombatActions
  BY <1>14 DEF CombatActions, PubGoal
<1>15. CASE RmulSupply
  BY <1>15 DEF RmulSupply, PubGoal
<1>16. CASE RetrySupplied
  BY <1>16 DEF RetrySupplied
<1> QED
  BY <1>1, <1>2, <1>3, <1>4, <1>5, <1>6, <1>7, <1>8, <1>9, <1>10, <1>11,
     <1>12, <1>13, <1>14, <1>15, <1>16 DEF TickStep

\* The server, the callbacks and time keep it too.
LEMMA OtherStepPass ==
  ASSUME PassInv, RememberVerdicts, GoalAccepted \/ CancelTree \/ Callback \/ Elapse
  PROVE  PassInv'
<1> USE VerdictsKept DEF PassInv, Deciding
<1>1. CASE GoalAccepted
  BY <1>1 DEF GoalAccepted
<1>2. CASE CancelTree
  BY <1>2 DEF CancelTree
<1>3. CASE Callback \/ Elapse
  <2>1. UNCHANGED <<current_mode, at>>
    BY <1>3 DEF Callback, RobotStatusCallback, RfidStatusCallback,
                RefereeGameStatus, EnemyChanges, Elapse
  <2> QED BY <2>1
<1> QED BY <1>1, <1>2, <1>3

\* PassInv holds in every run of the tree.
LEMMA PassInvariant == HSpec => []PassInv
<1>1. HInit => PassInv
  BY DEF HInit, Init, PassInv, Deciding
<1>2. ASSUME HTypeOK, PassInv, [HNext]_hvars
      PROVE  PassInv'
  <2>1. CASE HNext
    BY <1>2, <2>1, TickStepPass, OtherStepPass DEF HNext, HTypeOK
  <2>2. CASE UNCHANGED hvars
    BY <1>2, <2>2
    DEF hvars, vars, refereeVars, historyVars, PassInv, Deciding, Verdicts,
        Fit, Recovered
  <2> QED BY <1>2, <2>1, <2>2
<1> QED BY <1>1, <1>2, TypeCorrect, PTL DEF HSpec

\* Every decision rests on a status that was on the blackboard during its
\* own pass.
THEOREM ModeMatches == HSpec => []ModeMatchesStatus
<1>1. PassInv => ModeMatchesStatus
  BY DEF PassInv, ModeMatchesStatus
<1> QED BY <1>1, PassInvariant, PTL

\* Survival mode is left only by a pass that saw a recovered status.
THEOREM LeavesRecovered == HSpec => LeavesSurvivalRecovered
<1> DEFINE A == current_mode = Survival /\ current_mode' # Survival /\ at # "off"
                  => {"fit", "recovered"} \subseteq verdicts
<1>1. ASSUME PassInv, [HNext]_hvars, current_mode = Survival,
             current_mode' # Survival, at # "off"
      PROVE  {"fit", "recovered"} \subseteq verdicts
  <2>1. at \in {"combat", "default", "initialize"}
    BY <1>1
    DEF HNext, hvars, vars, GoalAccepted, CancelTree, Callback, RobotStatusCallback,
        RfidStatusCallback, RefereeGameStatus, EnemyChanges, Elapse, TickStep,
        Initialize, CheckStart, CheckSurvival, MaintainSurvival, SurvivalAction,
        CombatMode, NoCombat, DefaultModeEntry, DefaultModeRefused, HoldDone,
        ExecuteSurvive, ExecuteCombat, ExecuteDefault, CombatActions, RmulSupply,
        RetrySupplied
  <2> QED BY <1>1, <2>1, ConstantTypes DEF PassInv, Survival
<1>2. PassInv /\ [HNext]_hvars => [A]_hvars
  BY <1>1
<1> QED BY <1>2, PassInvariant, PTL DEF HSpec, LeavesSurvivalRecovered

-----------------------------------------------------------------------------
(* The tree with its IsDetectEnemy nodes *)

\* The inductive invariant: the tick thread is in a node only where the tree
\* has one, a node succeeds only with a full count, and the tree goes on with
\* the verdict of the node that it stands at.
EngagementInv ==
  /\ EngagementTypeOK
  /\ at \notin DetectPlaces => reading.at = "idle"
  /\ at \in DetectPlaces /\ reading.at = "success" => enemy /\ count[at] = StableRequired
  /\ at \in DetectPlaces /\ reading.at = "failure" => ~enemy

\* The parameters of the nodes.
LEMMA NodeConstants ==
  /\ FreshTimeout \in Nat /\ StableRequired \in Nat \ {0}
  /\ DetectPlaces \subseteq DetectNodes
  BY ViewAssumption, EngagementAssumption
  DEF ViewAssumption, EngagementAssumption

\* What is as old as can be told stays so; all else grows older.
LEMMA OlderType ==
  ASSUME NEW a \in 0 .. Old
  PROVE  Older(a) \in 0 .. Old
  BY NodeConstants DEF Older, Old

\* A node between two ticks, or one that has given its verdict.
LEMMA RestingType ==
  ASSUME NEW state \in {"idle", "success", "failure"}
  PROVE  /\ Resting(state).at = state
         /\ Resting(state) \in
              [at : {"idle", "stamp", "judge", "success", "failure"},
               valid : BOOLEAN, age : 0 .. Old, news : BOOLEAN]
<1>1. Old \in 0 .. Old
  BY NodeConstants DEF Old
<1> QED
  BY <1>1 DEF Resting

\* What was read, field by field.
LEMMA ReadingFields ==
  ASSUME ViewTypeOK
  PROVE  /\ reading = [at |-> reading.at, valid |-> reading.valid,
                       age |-> reading.age, news |-> reading.news]
         /\ reading.at \in {"idle", "stamp", "judge", "success", "failure"}
         /\ reading.valid \in BOOLEAN
         /\ reading.age \in 0 .. Old
         /\ reading.news \in BOOLEAN
         /\ receive = [at |-> receive.at, age |-> receive.age]
         /\ receive.at \in {"idle", "clock", "stamp"}
         /\ receive.age \in 0 .. Old
  BY DEF ViewTypeOK

\* One of the reads of a node, and its verdict.
LEMMA TickDetectType ==
  ASSUME ViewTypeOK, NEW n \in DetectNodes, TickDetect(n)
  PROVE  /\ ViewTypeOK'
         /\ reading'.at # "idle"
         /\ reading'.at = "success" => count'[n] = StableRequired
<1> USE ReadingFields, NodeConstants
<1>1. CASE LookAtPosition
  <2>1. reading' = [at |-> "stamp", valid |-> valid, age |-> Old, news |-> FALSE]
    BY <1>1 DEF LookAtPosition
  <2>2. Old \in 0 .. Old /\ valid \in BOOLEAN
    BY DEF Old, ViewTypeOK
  <2> QED
    BY <1>1, <2>1, <2>2 DEF LookAtPosition, ViewTypeOK, positionView, nodeView
<1>2. CASE LookAtStamp(n)
  <2>1. reading' = [at |-> "judge", valid |-> reading.valid, age |-> age, news |-> news[n]]
    BY <1>2 DEF LookAtStamp
  <2>2. news[n] \in BOOLEAN /\ age \in 0 .. Old
    BY DEF ViewTypeOK
  <2> QED
    BY <1>2, <2>1, <2>2 DEF LookAtStamp, ViewTypeOK, positionView, nodeView
<1>3. CASE Decide(n)
  <2>1. CountAfter(n) \in 0 .. StableRequired
    BY DEF CountAfter, ViewTypeOK
  <2>2. count' \in [DetectNodes -> 0 .. StableRequired] /\ count'[n] = CountAfter(n)
    BY <1>3, <2>1 DEF Decide, ViewTypeOK
  <2>3. news' \in [DetectNodes -> BOOLEAN]
    <3> DEFINE after == IF Visible /\ reading.news THEN age < reading.age ELSE news[n]
    <3>1. after \in BOOLEAN
      <4>1. news[n] \in BOOLEAN
        BY DEF ViewTypeOK
      <4>2. age \in Int /\ reading.age \in Int
        BY DEF ViewTypeOK, Old
      <4>3. (age < reading.age) \in BOOLEAN
        BY ONLY <4>2, SMT
      <4> QED
        BY <4>1, <4>3, Zenon
    <3>2. news' = [news EXCEPT ![n] = after]
      BY <1>3 DEF Decide
    <3> HIDE DEF after
    <3> QED
      BY <3>1, <3>2, Zenon DEF ViewTypeOK
  <2> DEFINE verdict == IF Visible /\ count'[n] = StableRequired
                        THEN "success" ELSE "failure"
  <2>4. /\ reading' = Resting(verdict)
        /\ verdict \in {"success", "failure"}
        /\ verdict = "success" => count'[n] = StableRequired
    BY <1>3 DEF Decide
  <2> HIDE DEF verdict
  <2>5. UNCHANGED positionView
    BY <1>3 DEF Decide
  <2> QED
    BY <2>2, <2>3, <2>4, <2>5, RestingType DEF ViewTypeOK, positionView
<1> QED
  BY <1>1, <1>2, <1>3 DEF TickDetect

\* The callback of the enemy's position leaves the nodes' counts and what the
\* tick thread has read.
LEMMA ReceiveType ==
  ASSUME ViewTypeOK, Receive
  PROVE  ViewTypeOK' /\ UNCHANGED <<reading, count>>
<1> USE ReadingFields, NodeConstants
<1>1. ASSUME NEW v \in BOOLEAN, ReceivePosition(v)
      PROVE  ViewTypeOK' /\ UNCHANGED <<reading, count>>
  <2>1. receive' = [at |-> "clock", age |-> receive.age]
    BY <1>1 DEF ReceivePosition
  <2>2. valid' \in BOOLEAN
    BY <1>1 DEF ReceivePosition
  <2> QED
    BY <1>1, <2>1, <2>2 DEF ReceivePosition, ViewTypeOK, nodeView
<1>2. CASE ReceiveClock
  <2>1. receive' = [at |-> "stamp", age |-> 0] /\ 0 \in 0 .. Old
    BY <1>2 DEF ReceiveClock, Old
  <2> QED
    BY <1>2, <2>1 DEF ReceiveClock, ViewTypeOK, nodeView
<1>3. CASE ReceiveStamp
  <2>1. receive' = [at |-> "idle", age |-> Old] /\ Old \in 0 .. Old
    BY <1>3 DEF ReceiveStamp, Old
  <2>2. news' \in [DetectNodes -> BOOLEAN]
    BY <1>3 DEF ReceiveStamp
  <2> QED
    BY <1>3, <2>1, <2>2 DEF ReceiveStamp, ViewTypeOK
<1> QED
  BY <1>1, <1>2, <1>3 DEF Receive

\* So does the clock, but for the ages.
LEMMA GrowOlderType ==
  ASSUME ViewTypeOK, GrowOlder
  PROVE  ViewTypeOK' /\ reading'.at = reading.at /\ UNCHANGED count
<1>1. /\ receive' = [at |-> receive.at, age |-> Older(receive.age)]
      /\ reading' = [at |-> reading.at, valid |-> reading.valid,
                     age |-> Older(reading.age), news |-> reading.news]
  BY ReadingFields DEF GrowOlder
<1>2. /\ Older(receive.age) \in 0 .. Old
      /\ Older(reading.age) \in 0 .. Old
      /\ age' \in 0 .. Old
  BY ReadingFields, OlderType DEF GrowOlder, ViewTypeOK
<1> QED
  BY <1>1, <1>2, ReadingFields DEF GrowOlder, ViewTypeOK, nodeView

\* A step of the nodes is, to the tree, a change of the verdict or no step.
LEMMA DetectIsChange ==
  ASSUME TypeOK, DetectEnemyStable
  PROVE  EnemyChanges \/ UNCHANGED vars
<1>1. UNCHANGED <<gateVars, chassisVars, robotStatus, rfidStatus, current_mode, goalPose, at>>
  BY DEF DetectEnemyStable
<1>2. enemy' = ~enemy \/ enemy' = enemy
  <2>1. enemy \in BOOLEAN
    BY DEF TypeOK
  <2>2. enemy' = enemy \/ enemy' = (reading'.at = "success")
    BY DEF DetectEnemyStable
  <2> QED
    BY <2>1, <2>2, Zenon
<1> QED
  BY <1>1, <1>2 DEF EnemyChanges, vars, refereeVars

\* Every step of the composition is one of the tree, or leaves it alone.
LEMMA EngagementStep ==
  ASSUME TypeOK, [EngagementNext]_engagementVars
  PROVE  [Next]_vars
<1>1. CASE TreeStep
  BY <1>1 DEF TreeStep, Next
<1>2. CASE DetectEnemyStable
  BY <1>2, DetectIsChange DEF Callback, Next
<1>3. CASE GoalAccepted /\ NewDetectNodes
  BY <1>3 DEF Next
<1>4. CASE CancelTree /\ UNCHANGED viewVars
  BY <1>4 DEF Next
<1>5. CASE RefereeCallback /\ UNCHANGED viewVars
  BY <1>5 DEF RefereeCallback, Callback, Next
<1>6. CASE Receive /\ UNCHANGED vars
  BY <1>6
<1>7. CASE Elapse /\ GrowOlder
  BY <1>7 DEF Next
<1>8. CASE UNCHANGED engagementVars
  BY <1>8 DEF engagementVars
<1> QED
  BY <1>1, <1>2, <1>3, <1>4, <1>5, <1>6, <1>7, <1>8 DEF EngagementNext

\* The types of the tree do not depend on the history.
LEMMA TreeTypeStep ==
  ASSUME TypeOK, [Next]_vars
  PROVE  TypeOK'
<1>1. CASE Next
  BY <1>1, TickStepType, OtherStepType DEF Next
<1>2. CASE UNCHANGED vars
  BY <1>2 DEF TypeOK, vars, gateVars, GateTypeOK, refereeVars, chassisVars, ChassisTypeOK
<1> QED
  BY <1>1, <1>2

\* EngagementInv is inductive.
LEMMA EngagementInvStep ==
  ASSUME EngagementInv, [EngagementNext]_engagementVars
  PROVE  EngagementInv'
<1> USE DEF EngagementInv, EngagementTypeOK
<1>1. TypeOK'
  BY EngagementStep, TreeTypeStep
<1>2. CASE TreeStep
  <2>1. UNCHANGED <<positionView, nodeView>> /\ reading' = Resting("idle")
    BY <1>2 DEF TreeStep
  <2>2. reading'.at = "idle" /\ ViewTypeOK'
    BY <2>1, RestingType DEF ViewTypeOK, positionView, nodeView
  <2> QED
    BY <1>1, <2>2
<1>3. CASE DetectEnemyStable
  <2>1. at \in DetectNodes /\ TickDetect(at) /\ at' = at /\ at \in DetectPlaces
    BY <1>3, NodeConstants DEF DetectEnemyStable
  <2>2. /\ ViewTypeOK'
        /\ reading'.at # "idle"
        /\ reading'.at = "success" => count'[at] = StableRequired
    BY <2>1, TickDetectType
  <2>3. reading'.at \in {"success", "failure"} => enemy' = (reading'.at = "success")
    BY <1>3 DEF DetectEnemyStable, Judged
  <2>4. /\ reading'.at = "success" => enemy'
        /\ reading'.at = "failure" => ~enemy'
    BY <2>3
  <2> QED
    BY <1>1, <2>1, <2>2, <2>4
<1>4. CASE GoalAccepted /\ NewDetectNodes
  <2>1. at = "off" /\ at' = "initialize" /\ UNCHANGED <<positionView, reading>>
    BY <1>4 DEF GoalAccepted, NewDetectNodes
  <2>2. ViewTypeOK'
    <3>1. count' \in [DetectNodes -> 0 .. StableRequired]
      BY <1>4, NodeConstants DEF NewDetectNodes
    <3>2. news' \in [DetectNodes -> BOOLEAN]
      BY <1>4 DEF NewDetectNodes
    <3> QED
      BY <2>1, <3>1, <3>2 DEF ViewTypeOK, positionView
  <2> QED
    BY <1>1, <2>1, <2>2 DEF DetectPlaces
<1>5. CASE CancelTree /\ UNCHANGED viewVars
  <2>1. at \in BetweenTicks /\ at' = "off" /\ reading' = reading
    BY <1>5 DEF CancelTree, viewVars
  <2>2. ViewTypeOK'
    BY <1>5 DEF viewVars, positionView, nodeView, ViewTypeOK
  <2> QED
    BY <1>1, <2>1, <2>2 DEF DetectPlaces, BetweenTicks
<1>6. CASE RefereeCallback /\ UNCHANGED viewVars
  <2>1. UNCHANGED <<at, enemy, reading, count>>
    BY <1>6
    DEF RefereeCallback, RobotStatusCallback, RfidStatusCallback, RefereeGameStatus,
        refereeVars, viewVars, nodeView
  <2>2. ViewTypeOK'
    BY <1>6 DEF viewVars, positionView, nodeView, ViewTypeOK
  <2> QED
    BY <1>1, <2>1, <2>2
<1>7. CASE Receive /\ UNCHANGED vars
  <2>1. ViewTypeOK' /\ UNCHANGED <<at, enemy, reading, count>>
    BY <1>7, ReceiveType DEF vars, refereeVars
  <2> QED
    BY <1>1, <2>1
<1>8. CASE Elapse /\ GrowOlder
  <2>1. ViewTypeOK' /\ reading'.at = reading.at /\ UNCHANGED <<at, enemy, count>>
    BY <1>8, GrowOlderType DEF Elapse, refereeVars
  <2> QED
    BY <1>1, <2>1
<1>9. CASE UNCHANGED engagementVars
  <2>1. UNCHANGED <<at, enemy, reading, count>> /\ ViewTypeOK'
    BY <1>9
    DEF engagementVars, vars, refereeVars, viewVars, positionView, nodeView, ViewTypeOK
  <2> QED
    BY <1>1, <2>1
<1> QED
  BY <1>2, <1>3, <1>4, <1>5, <1>6, <1>7, <1>8, <1>9 DEF EngagementNext

\* EngagementInv holds however the callbacks, the clock, goals and
\* cancellations come between the steps of the tick thread.
THEOREM EngagementInvariant == EngagementSpec => []EngagementInv
<1>1. EngagementInit => EngagementInv
  <2> SUFFICES ASSUME EngagementInit PROVE EngagementInv
    OBVIOUS
  <2>1. TypeOK
    <3>1. GateTypeOK /\ ChassisTypeOK
      BY DEF EngagementInit, Init, GateInit, ChassisInit, GateTypeOK, ChassisTypeOK
    <3>2. enemy \in BOOLEAN
      BY DEF EngagementInit, Init
    <3> QED
      BY <3>1, <3>2 DEF EngagementInit, Init, TypeOK, BetweenTicks, InsideTick
  <2>2. reading.at = "idle" /\ ViewTypeOK
    <3>1. Old \in 0 .. Old
      BY NodeConstants DEF Old
    <3>2. /\ count \in [DetectNodes -> 0 .. StableRequired]
          /\ news \in [DetectNodes -> BOOLEAN]
      BY NodeConstants DEF EngagementInit, ViewInit
    <3>3. valid \in BOOLEAN
      BY Zenon DEF EngagementInit, ViewInit
    <3> QED
      BY <3>1, <3>2, <3>3, RestingType DEF EngagementInit, ViewInit, ViewTypeOK
  <2> QED
    BY <2>1, <2>2 DEF EngagementInv, EngagementTypeOK
<1> QED
  BY <1>1, EngagementInvStep, PTL DEF EngagementSpec

\* The tree keeps all that is proved of it when its verdict on the enemy is
\* that of its two nodes: each behaviour of the composition is one of
\* SentryTree.
THEOREM EngagementImplementsTree == EngagementSpec => Spec
<1>1. EngagementInit => Init
  BY DEF EngagementInit
<1>2. EngagementInv /\ [EngagementNext]_engagementVars => [Next]_vars
  BY EngagementStep DEF EngagementInv, EngagementTypeOK
<1> QED
  BY <1>1, <1>2, EngagementInvariant, PTL DEF EngagementSpec, Spec

\* For every timeout and number of frames required: the chassis starts to
\* spin only where the IsDetectEnemy node of that place has counted them all.
THEOREM SpinsCounted == EngagementSpec => SpinsOnFullCount
<1>1. ASSUME EngagementInv, [EngagementNext]_engagementVars,
             chassis # Spin, chassis' = Spin
      PROVE  at \in DetectPlaces /\ count[at] = StableRequired
  <2>1. CASE TreeStep
    <3>1. at \in DetectPlaces /\ enemy
      BY <1>1, <2>1
      DEF TreeStep, TickStep, Initialize, CheckStart, CheckSurvival, MaintainSurvival,
          SurvivalAction, CombatMode, NoCombat, DefaultModeEntry, DefaultModeRefused,
          HoldDone, ExecuteSurvive, ExecuteCombat, ExecuteDefault, CombatActions,
          RmulSupply, RetrySupplied, SetChassisMode, SetChassisModeFrom, chassisVars,
          Follow, Spin, DetectPlaces
    <3>2. reading.at = "success"
      BY <1>1, <2>1, <3>1 DEF TreeStep, Judged, EngagementInv
    <3> QED
      BY <1>1, <3>1, <3>2 DEF EngagementInv
  <2>2. CASE CancelTree /\ UNCHANGED viewVars
    BY <1>1, <2>2 DEF CancelTree, HaltSetChassisMode, chassisVars, Stopped, Spin
  <2>3. ASSUME UNCHANGED chassis
        PROVE  FALSE
    BY <1>1, <2>3
  <2>4. CASE GoalAccepted /\ NewDetectNodes
    BY <2>3, <2>4 DEF GoalAccepted, NewTreeBlackboard
  <2>5. CASE DetectEnemyStable
    BY <2>3, <2>5 DEF DetectEnemyStable, chassisVars
  <2>6. CASE RefereeCallback /\ UNCHANGED viewVars
    BY <2>3, <2>6
    DEF RefereeCallback, RobotStatusCallback, RfidStatusCallback, RefereeGameStatus,
        chassisVars
  <2>7. CASE (Receive /\ UNCHANGED vars) \/ UNCHANGED engagementVars
    BY <2>3, <2>7 DEF vars, chassisVars, engagementVars
  <2>8. CASE Elapse /\ GrowOlder
    BY <2>3, <2>8 DEF Elapse, ElapseCooldown
  <2> QED
    BY <1>1, <2>1, <2>2, <2>4, <2>5, <2>6, <2>7, <2>8 DEF EngagementNext
<1>2. EngagementInv /\ [EngagementNext]_engagementVars
        => [chassis # Spin /\ chassis' = Spin
              => at \in DetectPlaces /\ count[at] = StableRequired]_engagementVars
  BY <1>1
<1> QED
  BY <1>2, EngagementInvariant, PTL DEF EngagementSpec, SpinsOnFullCount
=============================================================================
