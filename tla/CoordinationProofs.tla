------------------------- MODULE CoordinationProofs -------------------------
(***************************************************************************)
(* Theorems about Coordination, for any team, workflow definitions, number *)
(* of callers and requests.                                                *)
(***************************************************************************)
EXTENDS Coordination, TLAPS

Planned == plans > 0 /\ coordinators > 0

Begun == {"ready", "running", "completed", "failed"}

\* What a call that works on a step has read.
StepCallInv ==
    \A c \in Callers : at[c] \in {"dependency", "save", "awaiting"} =>
        LET s == ask[c].step
        IN  /\ ask[c].op \in {"advance", "assign"} /\ s[1] <= plans
            /\ at[c] # "save" => ask[c].op = "advance"
            /\ ask[c].op = "advance" => copy[c].status \in {"pending", "ready", "running"}
            /\ copy[c].status # "none"
            /\ copy[c].status = "completed" => s \in finished
            /\ s[2] > 1 /\ copy[c].status \in Begun => Predecessor(s) \in finished
            /\ s[2] > 1 /\ ask[c].op = "advance" /\ at[c] # "dependency" =>
                   Predecessor(s) \in finished

\* What a call that starts, moves or judges the mission relies on.
MoveCallInv ==
    \A c \in Callers :
        /\ at[c] \in {"planned", "add", "replace"} => ask[c].op = "start" /\ plans > 0
        /\ at[c] = "replace" => coordinators > 0
        /\ at[c] = "lifecycle" => ask[c].op \in {"start", "begin"}
        /\ at[c] = "lifecycle" /\ ask[c].op = "start" => Planned
        /\ at[c] = "record" =>
              /\ ask[c].op = "complete" /\ target[c] \in {"completed", "failed"}
              /\ target[c] = "completed" => \A i \in 1..Size : <<1, i>> \in finished
        /\ at[c] \in {"transition", "moving"} =>
              /\ ask[c].op \in {"start", "complete", "begin", "move"}
              /\ ask[c].op = "start" => Planned
              /\ ask[c].op \in {"start", "begin"} => target[c] \in {"planning", "active"}
              /\ ask[c].op = "complete" => target[c] \in {"completed", "failed"} \cap executions
        /\ at[c] = "moving" /\ seen[c] \notin {"draft", "cancelled"} /\ "planning" \notin direct =>
              Planned

StoreInv ==
    /\ \A s \in Steps : s[1] > plans => steps[s].status = "none" /\ started[s] = 0
    /\ \A s \in Steps : steps[s].status = "completed" => s \in finished

CoordinationInv ==
    /\ CoordinationTypeOK
    /\ StoreInv
    /\ StepCallInv
    /\ MoveCallInv
    /\ StepsInOrder
    /\ VerdictIsEarned
    /\ ActiveHasPlan

LEMMA NewStepType == \A status \in {"none", "ready", "pending"} : NewStep(status) \in Step
  BY CoordinationAssumption DEF NewStep, Step

LEMMA NewStepStatus == \A status : NewStep(status).status = status
  BY DEF NewStep

LEMMA NoRequestType == NoRequest \in Asks
  BY CoordinationAssumption DEF NoRequest

LEMMA InitCoordinationInv == Init => CoordinationInv
  <1> SUFFICES ASSUME Init PROVE CoordinationInv
    OBVIOUS
  <1>1. CoordinationTypeOK
    BY NewStepType, NoRequestType, CoordinationAssumption
       DEF Init, CoordinationTypeOK, MissionStatuses, Points, Noted
  <1>2. StoreInv /\ StepCallInv /\ MoveCallInv /\ StepsInOrder /\ VerdictIsEarned /\ ActiveHasPlan
    BY DEF Init, NewStep, StoreInv, StepCallInv, MoveCallInv, StepsInOrder, VerdictIsEarned,
           ActiveHasPlan
  <1>3. QED
    BY <1>1, <1>2 DEF CoordinationInv

\* What is stored is never taken away.
Monotone ==
    /\ plans <= plans' /\ coordinators <= coordinators'
    /\ executions \subseteq executions' /\ direct \subseteq direct'
    /\ finished \subseteq finished'

\* The calls other than c do not notice such a step.
LEMMA OthersKeepInv ==
    ASSUME CoordinationTypeOK, CoordinationTypeOK', StepCallInv, MoveCallInv, Monotone,
           NEW c \in Callers,
           \A d \in Callers \ {c} : /\ at'[d] = at[d] /\ ask'[d] = ask[d] /\ copy'[d] = copy[d]
                                    /\ seen'[d] = seen[d] /\ target'[d] = target[d],
           StepCallInv!(c)', MoveCallInv!(c)'
    PROVE  StepCallInv' /\ MoveCallInv'
  <1>1. plans \in Nat /\ plans' \in Nat /\ coordinators \in Nat /\ coordinators' \in Nat
    BY CoordinationAssumption DEF CoordinationTypeOK
  <1>2. ASSUME NEW d \in Callers \ {c} PROVE StepCallInv!(d)'
    <2>1. /\ at'[d] = at[d] /\ ask'[d] = ask[d] /\ copy'[d] = copy[d]
          /\ ask[d].step \in Steps
      BY <1>2, CoordinationAssumption DEF CoordinationTypeOK, Requests
    <2>2. ask[d].step[1] <= plans => ask[d].step[1] <= plans'
      BY <1>1, <2>1 DEF Monotone, Steps
    <2>3. QED
      BY <1>2, <2>1, <2>2 DEF Monotone, StepCallInv
  <1>3. ASSUME NEW d \in Callers \ {c} PROVE MoveCallInv!(d)'
    <2>1. /\ at'[d] = at[d] /\ ask'[d] = ask[d] /\ seen'[d] = seen[d] /\ target'[d] = target[d]
      BY <1>3
    <2>2. /\ plans > 0 => plans' > 0
          /\ coordinators > 0 => coordinators' > 0
      BY <1>1 DEF Monotone
    <2>3. QED
      BY <1>3, <2>1, <2>2 DEF Monotone, MoveCallInv, Planned
  <1>4. QED
    BY <1>2, <1>3 DEF StepCallInv, MoveCallInv

LEMMA StartMissionKeepsInv ==
    ASSUME CoordinationInv, NEW c \in Callers, NEW a \in Asks, StartMission(c, a)
    PROVE  CoordinationInv'
  <1> USE DEF CoordinationInv
  <1>1. /\ at[c] = "idle" /\ a.op = "start" /\ plans < MaxPlans /\ plans' = plans + 1
        /\ at' = [at EXCEPT ![c] = "planned"] /\ ask' = [ask EXCEPT ![c] = a]
        /\ UNCHANGED <<missionVars, coordinators, started, finished, overlapped, orphaned,
                       copy, seen, target>>
    BY DEF StartMission, Request
  <1>2. plans \in Nat /\ plans' \in 0..MaxPlans /\ MaxPlans \in Nat
    BY <1>1, CoordinationAssumption DEF CoordinationTypeOK
  <1>3. \A s \in Steps : steps'[s] =
            IF s[1] # plans' THEN steps[s] ELSE NewStep(IF s[2] = 1 THEN "ready" ELSE "pending")
    BY DEF StartMission
  <1>4. steps' \in [Steps -> Step]
    BY <1>3, NewStepType DEF StartMission, CoordinationTypeOK
  <1>5. CoordinationTypeOK'
    BY <1>1, <1>2, <1>4 DEF CoordinationTypeOK, Points, missionVars
  <1>6. StoreInv'
    <2> SUFFICES ASSUME NEW s \in Steps
                 PROVE  /\ s[1] > plans' => steps'[s].status = "none" /\ started[s] = 0
                        /\ steps'[s].status = "completed" => s \in finished
      BY <1>1 DEF StoreInv
    <2>1. s[1] \in Nat /\ (s[1] > plans' => s[1] > plans)
      BY <1>1, <1>2 DEF Steps
    <2>2. CASE s[1] = plans'
      <3>1. steps'[s].status \in {"ready", "pending"}
        BY <1>3, <2>2, NewStepStatus
      <3>2. QED
        BY <1>2, <2>1, <2>2, <3>1
    <2>3. CASE s[1] # plans'
      BY <1>3, <2>1, <2>3 DEF StoreInv
    <2>4. QED
      BY <2>2, <2>3
  <1>7. StepsInOrder'
    <2> SUFFICES ASSUME NEW s \in Steps, s[2] > 1, steps'[s].status \in Begun
                 PROVE  Predecessor(s) \in finished'
      BY DEF StepsInOrder, Begun
    <2>1. steps'[s] = steps[s]
      <3>1. s[2] # 1
        BY DEF Steps
      <3>2. CASE s[1] = plans'
        BY <1>3, <3>1, <3>2, NewStepStatus DEF Begun
      <3>3. QED
        BY <1>3, <3>2
    <2>2. QED
      BY <1>1, <2>1 DEF StepsInOrder, Begun
  <1>8. VerdictIsEarned' /\ ActiveHasPlan'
    BY <1>1, <1>2 DEF VerdictIsEarned, ActiveHasPlan, missionVars
  <1>9. StepCallInv' /\ MoveCallInv'
    <2>1. Monotone
      BY <1>1, <1>2 DEF Monotone, CoordinationTypeOK, missionVars
    <2>2. StepCallInv!(c)' /\ MoveCallInv!(c)'
      BY <1>1, <1>2 DEF CoordinationTypeOK
    <2>3. \A d \in Callers \ {c} : at'[d] = at[d] /\ ask'[d] = ask[d] /\ copy'[d] = copy[d]
                                   /\ seen'[d] = seen[d] /\ target'[d] = target[d]
      BY <1>1 DEF CoordinationTypeOK
    <2>4. QED
      BY <1>5, <2>1, <2>2, <2>3, OthersKeepInv
  <1>10. QED
    BY <1>5, <1>6, <1>7, <1>8, <1>9

\* A step of call c after which c is at a point and holds other values.
Turn(c) ==
    /\ at' = [at EXCEPT ![c] = at'[c]] /\ at'[c] \in Points
    /\ ask' = [ask EXCEPT ![c] = ask'[c]] /\ ask'[c] \in Asks
    /\ copy' = [copy EXCEPT ![c] = copy'[c]] /\ copy'[c] \in Step
    /\ seen' = [seen EXCEPT ![c] = seen'[c]] /\ seen'[c] \in MissionStatuses
    /\ target' = [target EXCEPT ![c] = target'[c]] /\ target'[c] \in MissionStatuses

LEMMA EndIsTurn ==
    ASSUME CoordinationTypeOK, NEW c \in Callers, End(c)
    PROVE  Turn(c) /\ at'[c] = "idle"
  BY NewStepType, NoRequestType DEF End, Turn, CoordinationTypeOK, Points, MissionStatuses

LEMMA GoOnIsTurn ==
    ASSUME CoordinationTypeOK, NEW c \in Callers, NEW point \in Points, GoOn(c, point)
    PROVE  /\ Turn(c) /\ at'[c] = point
           /\ UNCHANGED <<ask, copy, seen, target>>
  BY DEF GoOn, Turn, CoordinationTypeOK

\* Such a step keeps the invariant when its call and what it stores do.
LEMMA TurnKeepsInv ==
    ASSUME CoordinationInv, NEW c \in Callers, Turn(c), Monotone,
           StepCallInv!(c)', MoveCallInv!(c)', CoordinationTypeOK'
    PROVE  StepCallInv' /\ MoveCallInv'
  <1>1. \A d \in Callers \ {c} : at'[d] = at[d] /\ ask'[d] = ask[d] /\ copy'[d] = copy[d]
                                 /\ seen'[d] = seen[d] /\ target'[d] = target[d]
    BY DEF Turn, CoordinationInv, CoordinationTypeOK
  <1>2. QED
    BY <1>1, OthersKeepInv DEF CoordinationInv

LEMMA MissionStepsKeepInv ==
    ASSUME CoordinationInv, NEW c \in Callers,
           \/ ReadCoordinator(c) \/ SaveCoordinator(c) \/ StartLifecycle(c)
           \/ ReadMission(c) \/ SaveMission(c) \/ RefuseMission(c) \/ SaveExecution(c)
           \/ \E a \in Asks : Move(c, a) \/ Begin(c, a) \/ Judge(c, a)
    PROVE  CoordinationInv'
  <1> USE DEF CoordinationInv
  <1>0. /\ plans \in Nat /\ coordinators \in Nat /\ at[c] \in Points /\ target[c] \in MissionStatuses
        /\ seen[c] \in MissionStatuses /\ mission \in MissionStatuses
    BY CoordinationAssumption DEF CoordinationTypeOK
  <1> DEFINE Effect ==
          /\ Turn(c) /\ Monotone
          /\ mission' \in MissionStatuses /\ executions' \subseteq {"completed", "failed"}
          /\ direct' \subseteq Noted
          /\ coordinators' \in Nat
          /\ StepCallInv!(c)' /\ MoveCallInv!(c)' /\ VerdictIsEarned' /\ ActiveHasPlan'
          /\ UNCHANGED <<plans, stepVars>>
  <1>1. ASSUME ReadCoordinator(c) PROVE Effect
    <2>1. /\ at[c] = "planned" /\ UNCHANGED <<missionVars, planVars, stepVars>>
          /\ GoOn(c, IF coordinators = 0 THEN "add" ELSE "replace")
      BY <1>1 DEF ReadCoordinator
    <2>2. /\ Turn(c) /\ at'[c] = (IF coordinators = 0 THEN "add" ELSE "replace")
          /\ UNCHANGED <<ask, copy, seen, target>>
      BY <2>1, GoOnIsTurn DEF Points
    <2>3. StepCallInv!(c)' /\ MoveCallInv!(c)'
      BY <1>0, <2>1, <2>2 DEF MoveCallInv, planVars
    <2>4. QED
      BY <1>0, <2>1, <2>2, <2>3 DEF Monotone, CoordinationTypeOK, VerdictIsEarned, ActiveHasPlan,
                                    missionVars, planVars, stepVars
  <1>2. ASSUME SaveCoordinator(c) PROVE Effect
    <2>1. /\ at[c] \in {"add", "replace"} /\ UNCHANGED <<missionVars, plans, stepVars>>
          /\ coordinators' = (IF at[c] = "add" THEN coordinators + 1 ELSE coordinators)
          /\ GoOn(c, "lifecycle")
      BY <1>2 DEF SaveCoordinator
    <2>2. Turn(c) /\ at'[c] = "lifecycle" /\ UNCHANGED <<ask, copy, seen, target>>
      BY <2>1, GoOnIsTurn DEF Points
    <2>3. StepCallInv!(c)' /\ MoveCallInv!(c)'
      BY <1>0, <2>1, <2>2 DEF MoveCallInv, Planned
    <2>4. QED
      BY <1>0, <2>1, <2>2, <2>3 DEF Monotone, CoordinationTypeOK, VerdictIsEarned, ActiveHasPlan,
                                    missionVars, stepVars
  <1>3. ASSUME StartLifecycle(c) PROVE Effect
    <2>1. /\ at[c] = "lifecycle" /\ UNCHANGED <<missionVars, planVars, stepVars, ask, copy, seen>>
          /\ at' = [at EXCEPT ![c] = "transition"]
          /\ target' = [target EXCEPT ![c] = IF mission = "draft" THEN "planning" ELSE "active"]
      BY <1>3 DEF StartLifecycle
    <2>2. Turn(c) /\ at'[c] = "transition" /\ target'[c] \in {"planning", "active"}
      BY <2>1 DEF Turn, CoordinationTypeOK, Points, MissionStatuses
    <2>3. StepCallInv!(c)' /\ MoveCallInv!(c)'
      BY <1>0, <2>1, <2>2 DEF MoveCallInv, planVars, Planned
    <2>4. QED
      BY <1>0, <2>1, <2>2, <2>3 DEF Monotone, CoordinationTypeOK, VerdictIsEarned, ActiveHasPlan,
                                    missionVars, planVars, stepVars
  <1>4. ASSUME ReadMission(c) PROVE Effect
    <2>1. /\ at[c] = "transition" /\ UNCHANGED <<missionVars, planVars, stepVars, ask, copy, target>>
          /\ at' = [at EXCEPT ![c] = "moving"] /\ seen' = [seen EXCEPT ![c] = mission]
      BY <1>4 DEF ReadMission
    <2>2. Turn(c) /\ at'[c] = "moving" /\ seen'[c] = mission /\ target'[c] = target[c]
      BY <2>1 DEF Turn, CoordinationTypeOK, Points
    <2>3. StepCallInv!(c)' /\ MoveCallInv!(c)'
      BY <1>0, <2>1, <2>2 DEF MoveCallInv, planVars, missionVars, Planned, ActiveHasPlan
    <2>4. QED
      BY <1>0, <2>1, <2>2, <2>3 DEF Monotone, CoordinationTypeOK, VerdictIsEarned, ActiveHasPlan,
                                    missionVars, planVars, stepVars
  <1>5. ASSUME SaveMission(c) PROVE Effect
    <2>1. /\ at[c] = "moving" /\ CanTransitionMission(seen[c], target[c]) /\ mission' = target[c]
          /\ UNCHANGED <<executions, planVars, stepVars>>
      BY <1>5 DEF SaveMission
    <2>2. /\ Turn(c)
          /\ \/ at'[c] = "idle"
             \/ /\ at'[c] = "transition" /\ target'[c] = "active"
                /\ ask' = ask /\ ask[c].op \in {"start", "begin"}
      <3>1. CASE target[c] = "planning" /\ ask[c].op # "move"
        <4>1. /\ target' = [target EXCEPT ![c] = "active"] /\ at' = [at EXCEPT ![c] = "transition"]
              /\ UNCHANGED <<ask, copy, seen>>
          BY <1>5, <3>1 DEF SaveMission
        <4>2. ask[c].op \in {"start", "begin"}
          BY <2>1, <3>1 DEF MoveCallInv
        <4>3. QED
          BY <1>0, <4>1, <4>2 DEF Turn, CoordinationTypeOK, Points, MissionStatuses
      <3>2. CASE ~ (target[c] = "planning" /\ ask[c].op # "move")
        <4>1. End(c)
          BY <1>5, <3>2 DEF SaveMission
        <4>2. QED
          BY <4>1, EndIsTurn
      <3>3. QED
        BY <3>1, <3>2
    <2>3. StepCallInv!(c)' /\ MoveCallInv!(c)'
      BY <2>1, <2>2 DEF MoveCallInv, Planned, planVars
    <2>4. /\ direct' = (IF ask[c].op \in {"begin", "move"} THEN direct \cup ({target[c]} \cap Noted)
                                                          ELSE direct)
          /\ direct \subseteq direct' /\ direct' \subseteq Noted
      BY <1>5 DEF SaveMission, CoordinationTypeOK
    <2>5. VerdictIsEarned'
      <3>1. CASE ask[c].op \in {"begin", "move"}
        BY <2>1, <2>4, <3>1 DEF VerdictIsEarned, Noted, stepVars
      <3>2. CASE ask[c].op \in {"start", "complete"}
        BY <2>1, <3>2 DEF MoveCallInv, VerdictIsEarned, stepVars
      <3>3. QED
        BY <2>1, <3>1, <3>2 DEF MoveCallInv
    <2>6. ActiveHasPlan'
      <3> SUFFICES ASSUME target[c] \notin {"draft", "cancelled"}, "planning" \notin direct'
                   PROVE  Planned
        BY <2>1 DEF ActiveHasPlan, Planned, planVars
      <3>1. CASE seen[c] \in {"draft", "cancelled"}
        <4>1. target[c] = "planning"
          BY <2>1, <3>1 DEF CanTransitionMission, MissionTransitions
        <4>2. ask[c].op = "start"
          BY <2>1, <2>4, <4>1 DEF MoveCallInv, Noted
        <4>3. QED
          BY <2>1, <4>2 DEF MoveCallInv
      <3>2. CASE seen[c] \notin {"draft", "cancelled"}
        BY <2>1, <2>4, <3>2 DEF MoveCallInv
      <3>3. QED
        BY <3>1, <3>2
    <2>7. Monotone
      BY <1>0, <2>1, <2>4 DEF Monotone, planVars, stepVars
    <2>8. QED
      BY <1>0, <2>1, <2>2, <2>3, <2>4, <2>5, <2>6, <2>7 DEF CoordinationTypeOK, planVars, stepVars
  <1>6. ASSUME RefuseMission(c) PROVE Effect
    <2>1. UNCHANGED <<missionVars, planVars, stepVars>> /\ Turn(c) /\ at'[c] = "idle"
      BY <1>6, EndIsTurn DEF RefuseMission
    <2>2. QED
      BY <1>0, <2>1 DEF Monotone, CoordinationTypeOK, VerdictIsEarned, ActiveHasPlan,
                        missionVars, planVars, stepVars
  <1>7. ASSUME SaveExecution(c) PROVE Effect
    <2>1. /\ at[c] = "record" /\ executions' = executions \cup {target[c]}
          /\ UNCHANGED <<mission, direct, planVars, stepVars>> /\ GoOn(c, "transition")
      BY <1>7 DEF SaveExecution
    <2>2. Turn(c) /\ at'[c] = "transition" /\ UNCHANGED <<ask, copy, seen, target>>
      BY <2>1, GoOnIsTurn DEF Points
    <2>3. /\ target[c] \in {"completed", "failed"} /\ ask[c].op = "complete"
          /\ target[c] = "completed" => \A i \in 1..Size : <<1, i>> \in finished
      BY <2>1 DEF MoveCallInv
    <2>4. StepCallInv!(c)' /\ MoveCallInv!(c)'
      BY <2>1, <2>2, <2>3
    <2>5. /\ VerdictIsEarned' /\ executions' \subseteq {"completed", "failed"}
          /\ direct' \subseteq Noted
      BY <2>1, <2>3 DEF VerdictIsEarned, CoordinationTypeOK, stepVars
    <2>6. ActiveHasPlan' /\ coordinators' \in Nat
      BY <1>0, <2>1 DEF ActiveHasPlan, planVars
    <2>7. Monotone
      BY <1>0, <2>1 DEF Monotone, planVars, stepVars
    <2>8. QED
      BY <1>0, <2>1, <2>2, <2>4, <2>5, <2>6, <2>7 DEF planVars
  <1>8. ASSUME NEW a \in Asks, Move(c, a) PROVE Effect
    <2>1. /\ at[c] = "idle" /\ UNCHANGED <<missionVars, planVars, stepVars, copy, seen>>
          /\ at' = [at EXCEPT ![c] = "transition"] /\ ask' = [ask EXCEPT ![c] = a]
          /\ target' = [target EXCEPT ![c] = a.to]
          /\ a.to \in MissionStatuses /\ a.op = "move"
      BY <1>8, CoordinationAssumption DEF Move, Request, Requests
    <2>2. Turn(c) /\ at'[c] = "transition" /\ ask'[c].op = "move"
      BY <2>1 DEF Turn, CoordinationTypeOK, Points
    <2>3. StepCallInv!(c)' /\ MoveCallInv!(c)'
      BY <2>2
    <2>4. QED
      BY <1>0, <2>1, <2>2, <2>3 DEF Monotone, CoordinationTypeOK, VerdictIsEarned, ActiveHasPlan,
                                    missionVars, planVars, stepVars
  <1>9. ASSUME NEW a \in Asks, Judge(c, a) PROVE Effect
    <2>1. /\ at[c] = "idle" /\ UNCHANGED <<missionVars, planVars, stepVars, copy, seen>>
          /\ at' = [at EXCEPT ![c] = "record"] /\ ask' = [ask EXCEPT ![c] = a] /\ a.op = "complete"
          /\ target' = [target EXCEPT ![c] = IF Succeeded THEN "completed" ELSE "failed"]
      BY <1>9 DEF Judge, Request
    <2>2. /\ Turn(c) /\ at'[c] = "record" /\ target'[c] \in {"completed", "failed"}
          /\ ask'[c].op = "complete"
          /\ target'[c] = "completed" => Succeeded
      BY <2>1 DEF Turn, CoordinationTypeOK, Points, MissionStatuses
    <2>3. \A i \in 1..Size : <<1, i>> \in Steps
      BY CoordinationAssumption DEF Steps
    <2>4. Succeeded => \A i \in 1..Size : <<1, i>> \in finished
      BY <2>3 DEF Succeeded, StoreInv
    <2>5. StepCallInv!(c)' /\ MoveCallInv!(c)'
      BY <2>1, <2>2, <2>4 DEF stepVars
    <2>6. QED
      BY <1>0, <2>1, <2>2, <2>5 DEF Monotone, CoordinationTypeOK, VerdictIsEarned, ActiveHasPlan,
                                    missionVars, planVars, stepVars
  <1>10. ASSUME NEW a \in Asks, Begin(c, a) PROVE Effect
    <2>1. /\ at[c] = "idle" /\ UNCHANGED <<missionVars, planVars, stepVars, copy, seen, target>>
          /\ at' = [at EXCEPT ![c] = "lifecycle"] /\ ask' = [ask EXCEPT ![c] = a]
          /\ a.op = "begin"
      BY <1>10 DEF Begin, Request
    <2>2. Turn(c) /\ at'[c] = "lifecycle" /\ ask'[c].op = "begin"
      BY <2>1 DEF Turn, CoordinationTypeOK, Points
    <2>3. StepCallInv!(c)' /\ MoveCallInv!(c)'
      BY <2>2
    <2>4. QED
      BY <1>0, <2>1, <2>2, <2>3 DEF Monotone, CoordinationTypeOK, VerdictIsEarned, ActiveHasPlan,
                                    missionVars, planVars, stepVars
  <1>11. Effect
    BY <1>1, <1>2, <1>3, <1>4, <1>5, <1>6, <1>7, <1>8, <1>9, <1>10
  <1>12. CoordinationTypeOK'
    BY <1>11 DEF CoordinationTypeOK, Turn, stepVars
  <1>13. StepCallInv' /\ MoveCallInv'
    BY <1>11, <1>12, TurnKeepsInv
  <1>14. StoreInv' /\ StepsInOrder'
    BY <1>11 DEF StoreInv, StepsInOrder, stepVars
  <1>15. QED
    BY <1>11, <1>12, <1>13, <1>14

\* The steps of a call on step s: what it goes on to and may save there.
LEMMA ReadStepKeepsInv ==
    ASSUME CoordinationInv, NEW c \in Callers, NEW a \in Asks, ReadStep(c, a)
    PROVE  CoordinationInv'
  <1> USE DEF CoordinationInv
  <1> DEFINE s == a.step
             point == IF a.op = "advance" /\ s[2] > 1 THEN "dependency" ELSE "save"
  <1>1. /\ at[c] = "idle" /\ steps[s].status # "none" /\ a.op \in {"advance", "assign"}
        /\ a.op = "advance" => Advances(s)
        /\ at' = [at EXCEPT ![c] = point] /\ ask' = [ask EXCEPT ![c] = a]
        /\ copy' = [copy EXCEPT ![c] = steps[s]]
        /\ overlapped' \subseteq overlapped \cup {s}
        /\ UNCHANGED <<missionVars, planVars, steps, started, finished, orphaned, seen, target>>
    BY DEF ReadStep, Request
  <1>2. s \in Steps /\ steps[s] \in Step /\ plans \in Nat /\ s[1] \in Nat /\ point \in Points
    BY CoordinationAssumption DEF Requests, Steps, CoordinationTypeOK, Points
  <1>3. Turn(c) /\ at'[c] = point /\ copy'[c] = steps[s] /\ ask'[c] = a
    BY <1>1, <1>2 DEF Turn, CoordinationTypeOK
  <1>4. CoordinationTypeOK'
    BY <1>1, <1>2, <1>3 DEF Turn, CoordinationTypeOK, missionVars, planVars
  <1>5. s[1] <= plans
    BY <1>1, <1>2 DEF StoreInv
  <1>6. StepCallInv!(c)'
    BY <1>1, <1>2, <1>3, <1>5 DEF StoreInv, StepsInOrder, Begun, Advances, planVars
  <1>7. MoveCallInv!(c)' /\ Monotone
    BY <1>1, <1>3 DEF Monotone, CoordinationTypeOK, missionVars, planVars
  <1>8. StepCallInv' /\ MoveCallInv'
    BY <1>3, <1>4, <1>6, <1>7, TurnKeepsInv
  <1>9. StoreInv' /\ StepsInOrder' /\ VerdictIsEarned' /\ ActiveHasPlan'
    BY <1>1 DEF StoreInv, StepsInOrder, VerdictIsEarned, ActiveHasPlan, missionVars, planVars
  <1>10. QED
    BY <1>4, <1>8, <1>9

\* A call saves the copy of its step, with its changes.
LEMMA StepSaved ==
    ASSUME CoordinationInv, NEW c \in Callers, at[c] \in {"save", "awaiting"},
           NEW x \in Step, x.status # "none",
           steps' = [steps EXCEPT ![ask[c].step] = x],
           finished' = IF x.status = "completed" THEN finished \cup {ask[c].step} ELSE finished,
           ask[c].step[2] > 1 /\ x.status \in Begun => Predecessor(ask[c].step) \in finished,
           End(c), UNCHANGED <<missionVars, planVars, started, overlapped, orphaned>>
    PROVE  CoordinationInv'
  <1> USE DEF CoordinationInv
  <1> DEFINE s == ask[c].step
  <1>1. s \in Steps /\ plans \in Nat /\ s[1] <= plans /\ s[1] \in Nat
    BY CoordinationAssumption DEF CoordinationTypeOK, Requests, StepCallInv, Steps
  <1>2. Turn(c) /\ at'[c] = "idle"
    BY EndIsTurn
  <1>3. /\ steps' \in [Steps -> Step] /\ steps'[s] = x
        /\ \A r \in Steps : r # s => steps'[r] = steps[r]
        /\ finished \subseteq finished' /\ finished' \subseteq Steps
        /\ x.status = "completed" => s \in finished'
    BY <1>1 DEF CoordinationTypeOK
  <1>4. CoordinationTypeOK'
    BY <1>2, <1>3 DEF Turn, CoordinationTypeOK, missionVars, planVars
  <1>5. Monotone
    BY <1>3 DEF Monotone, CoordinationTypeOK, missionVars, planVars
  <1>6. StepCallInv' /\ MoveCallInv'
    BY <1>2, <1>4, <1>5, TurnKeepsInv
  <1>7. StoreInv'
    BY <1>1, <1>3 DEF StoreInv, planVars
  <1>8. StepsInOrder'
    <2> SUFFICES ASSUME NEW r \in Steps, r[2] > 1, steps'[r].status \in Begun
                 PROVE  Predecessor(r) \in finished'
      BY DEF StepsInOrder, Begun
    <2>1. CASE r = s
      BY <1>3, <2>1
    <2>2. CASE r # s
      BY <1>3, <2>2 DEF StepsInOrder, Begun
    <2>3. QED
      BY <2>1, <2>2
  <1>9. VerdictIsEarned' /\ ActiveHasPlan'
    BY <1>3 DEF VerdictIsEarned, ActiveHasPlan, missionVars, planVars
  <1>10. QED
    BY <1>4, <1>6, <1>7, <1>8, <1>9

\* Copies are steps, and so is what is saved of them.
LEMMA CopyType ==
    ASSUME CoordinationTypeOK, NEW c \in Callers, NEW w \in Workers,
           NEW status \in {"pending", "ready", "running", "completed", "failed"}
    PROVE  [status |-> status, worker |-> w, instance |-> copy[c].instance] \in Step
  <1>1. copy[c] \in Step
    BY DEF CoordinationTypeOK
  <1>2. QED
    BY <1>1 DEF Step

LEMMA StepStepsKeepInv ==
    ASSUME CoordinationInv, NEW c \in Callers,
           \/ ReadDependency(c) \/ SaveWorker(c) \/ Advance(c) \/ StartWorkflow(c)
           \/ WorkflowRefused(c) \/ WorkflowRejected(c) \/ SaveStarted(c)
    PROVE  CoordinationInv'
  <1> USE DEF CoordinationInv
  <1> DEFINE s == ask[c].step
  <1>0. /\ s \in Steps /\ plans \in Nat /\ ask[c] \in Asks /\ ask[c].worker \in Workers
        /\ copy[c] \in Step /\ copy[c].worker \in Workers
    BY CoordinationAssumption DEF CoordinationTypeOK, Requests, Step
  <1>1. ASSUME ReadDependency(c) PROVE CoordinationInv'
    <2>1. at[c] = "dependency" /\ UNCHANGED <<missionVars, planVars, stepVars>>
      BY <1>1 DEF ReadDependency
    <2>2. Turn(c) /\ StepCallInv!(c)' /\ MoveCallInv!(c)'
      <3>1. CASE MetDependency(s)
        <4>1. Turn(c) /\ at'[c] = "save" /\ UNCHANGED <<ask, copy, seen, target>>
          BY <1>1, <3>1, GoOnIsTurn DEF ReadDependency, Points
        <4>2. s[2] > 1 => Predecessor(s) \in Steps
          BY <1>0, CoordinationAssumption DEF Steps, Predecessor
        <4>3. s[2] > 1 => Predecessor(s) \in finished
          BY <3>1, <4>2 DEF MetDependency, StoreInv
        <4>4. QED
          BY <2>1, <4>1, <4>3 DEF StepCallInv, stepVars, planVars
      <3>2. CASE ~ MetDependency(s)
        <4>1. End(c)
          BY <1>1, <3>2 DEF ReadDependency
        <4>2. QED
          BY <4>1, EndIsTurn
      <3>3. QED
        BY <3>1, <3>2
    <2>3. CoordinationTypeOK'
      BY <2>1, <2>2 DEF CoordinationTypeOK, Turn, missionVars, planVars, stepVars
    <2>4. Monotone
      BY <2>1 DEF Monotone, CoordinationTypeOK, missionVars, planVars, stepVars
    <2>5. StepCallInv' /\ MoveCallInv'
      BY <2>2, <2>3, <2>4, TurnKeepsInv
    <2>6. StoreInv' /\ StepsInOrder' /\ VerdictIsEarned' /\ ActiveHasPlan'
      BY <2>1 DEF StoreInv, StepsInOrder, VerdictIsEarned, ActiveHasPlan, missionVars, planVars,
                  stepVars
    <2>7. QED
      BY <2>3, <2>5, <2>6
  <1>2. ASSUME SaveWorker(c) PROVE CoordinationInv'
    <2> DEFINE x == [status |-> copy[c].status, worker |-> ask[c].worker,
                     instance |-> copy[c].instance]
    <2>1. /\ at[c] = "save" /\ End(c) /\ steps' = [steps EXCEPT ![s] = x] /\ finished' = finished
          /\ UNCHANGED <<missionVars, planVars, started, overlapped, orphaned>>
      BY <1>2 DEF SaveWorker
    <2>2. /\ copy[c].status # "none" /\ (copy[c].status = "completed" => s \in finished)
          /\ s[2] > 1 /\ copy[c].status \in Begun => Predecessor(s) \in finished
      BY <2>1 DEF StepCallInv
    <2>3. x \in Step /\ x.status = copy[c].status
      BY <1>0, <2>2, CopyType DEF Step
    <2> HIDE DEF x
    <2>4. finished' = IF x.status = "completed" THEN finished \cup {s} ELSE finished
      BY <2>1, <2>2, <2>3
    <2>5. QED
      BY <2>1, <2>2, <2>3, <2>4, StepSaved
  <1>3. ASSUME Advance(c) PROVE CoordinationInv'
    <2> DEFINE status == CASE copy[c].status = "pending" -> "ready"
                           [] copy[c].status = "ready" -> "running"
                           [] OTHER -> "completed"
               x == [status |-> status, worker |-> copy[c].worker, instance |-> copy[c].instance]
    <2>1. /\ at[c] = "save" /\ ask[c].op = "advance" /\ End(c)
          /\ steps' = [steps EXCEPT ![s] = x]
          /\ finished' = (IF status = "completed" THEN finished \cup {s} ELSE finished)
          /\ UNCHANGED <<missionVars, planVars, started, overlapped, orphaned>>
      BY <1>3 DEF Advance, SaveStep
    <2>2. status \in {"ready", "running", "completed"}
      OBVIOUS
    <2>3. x \in Step /\ x.status = status
      BY <1>0, <2>2, CopyType
    <2>4. s[2] > 1 => Predecessor(s) \in finished
      BY <2>1 DEF StepCallInv
    <2> HIDE DEF x, status
    <2>5. QED
      BY <2>1, <2>2, <2>3, <2>4, StepSaved
  <1>4. ASSUME StartWorkflow(c) PROVE CoordinationInv'
    <2>1. /\ at[c] = "save" /\ ask[c].op = "advance" /\ started[s] < MaxStarts
          /\ started' = [started EXCEPT ![s] = started[s] + 1]
          /\ copy' = [copy EXCEPT ![c].instance = TRUE]
          /\ at' = [at EXCEPT ![c] = "awaiting"]
          /\ UNCHANGED <<missionVars, planVars, steps, finished, overlapped, orphaned, ask, seen, target>>
      BY <1>4 DEF StartWorkflow
    <2>2. /\ copy'[c] \in Step /\ copy'[c].status = copy[c].status
          /\ copy' = [copy EXCEPT ![c] = copy'[c]]
      BY <1>0, <2>1 DEF CoordinationTypeOK, Step
    <2>3. Turn(c) /\ at'[c] = "awaiting"
      BY <2>1, <2>2 DEF Turn, CoordinationTypeOK, Points
    <2>4. started' \in [Steps -> 0..MaxStarts]
      BY <1>0, <2>1, CoordinationAssumption DEF CoordinationTypeOK
    <2>5. CoordinationTypeOK'
      BY <2>1, <2>3, <2>4 DEF CoordinationTypeOK, Turn, missionVars, planVars
    <2>6. StepCallInv!(c)' /\ MoveCallInv!(c)'
      BY <2>1, <2>2, <2>3 DEF StepCallInv, planVars
    <2>7. Monotone
      BY <2>1 DEF Monotone, CoordinationTypeOK, missionVars, planVars
    <2>8. StepCallInv' /\ MoveCallInv'
      BY <2>3, <2>5, <2>6, <2>7, TurnKeepsInv
    <2>9. StoreInv'
      <3>1. ~ (s[1] > plans)
        BY <1>0, <2>1, CoordinationAssumption DEF StepCallInv, Steps
      <3>2. \A r \in Steps : r # s => started'[r] = started[r]
        BY <2>1 DEF CoordinationTypeOK
      <3>3. QED
        BY <2>1, <3>1, <3>2 DEF StoreInv, planVars
    <2>10. StepsInOrder' /\ VerdictIsEarned' /\ ActiveHasPlan'
      BY <2>1 DEF StepsInOrder, VerdictIsEarned, ActiveHasPlan, missionVars, planVars
    <2>11. QED
      BY <2>5, <2>8, <2>9, <2>10
  <1>5. ASSUME WorkflowRefused(c) PROVE CoordinationInv'
    <2>1. UNCHANGED <<missionVars, planVars, stepVars>> /\ Turn(c) /\ at'[c] = "idle"
      BY <1>5, EndIsTurn DEF WorkflowRefused
    <2>2. CoordinationTypeOK'
      BY <2>1 DEF CoordinationTypeOK, Turn, missionVars, planVars, stepVars
    <2>3. Monotone
      BY <2>1 DEF Monotone, CoordinationTypeOK, missionVars, planVars, stepVars
    <2>4. StepCallInv' /\ MoveCallInv'
      BY <2>1, <2>2, <2>3, TurnKeepsInv
    <2>5. StoreInv' /\ StepsInOrder' /\ VerdictIsEarned' /\ ActiveHasPlan'
      BY <2>1 DEF StoreInv, StepsInOrder, VerdictIsEarned, ActiveHasPlan, missionVars, planVars,
                  stepVars
    <2>6. QED
      BY <2>2, <2>4, <2>5
  <1>6. ASSUME SaveStarted(c) PROVE CoordinationInv'
    <2>1. PICK status \in {"running", "completed", "failed"} : SaveStep(c, status)
      BY <1>6 DEF SaveStarted, Mirrored
    <2> DEFINE x == [status |-> status, worker |-> copy[c].worker, instance |-> copy[c].instance]
    <2>2. /\ at[c] = "awaiting" /\ End(c) /\ steps' = [steps EXCEPT ![s] = x]
          /\ finished' = (IF status = "completed" THEN finished \cup {s} ELSE finished)
          /\ UNCHANGED <<missionVars, planVars, started, overlapped, orphaned>>
      BY <1>6, <2>1 DEF SaveStarted, SaveStep
    <2>3. x \in Step /\ x.status = status
      BY <1>0, CopyType
    <2>4. s[2] > 1 => Predecessor(s) \in finished
      BY <2>2 DEF StepCallInv
    <2> HIDE DEF x
    <2>5. QED
      BY <2>2, <2>3, <2>4, StepSaved
  <1>7. ASSUME WorkflowRejected(c) PROVE CoordinationInv'
    <2>1. /\ UNCHANGED <<missionVars, planVars, steps, started, finished, overlapped>>
          /\ orphaned' = [orphaned EXCEPT ![s] = orphaned[s] + 1]
          /\ Turn(c) /\ at'[c] = "idle"
      BY <1>7, EndIsTurn DEF WorkflowRejected
    <2>2. CoordinationTypeOK'
      BY <1>0, <2>1 DEF CoordinationTypeOK, Turn, missionVars, planVars
    <2>3. Monotone
      BY <2>1 DEF Monotone, CoordinationTypeOK, missionVars, planVars
    <2>4. StepCallInv' /\ MoveCallInv'
      BY <2>1, <2>2, <2>3, TurnKeepsInv
    <2>5. StoreInv' /\ StepsInOrder' /\ VerdictIsEarned' /\ ActiveHasPlan'
      BY <2>1 DEF StoreInv, StepsInOrder, VerdictIsEarned, ActiveHasPlan, missionVars, planVars
    <2>6. QED
      BY <2>2, <2>4, <2>5
  <1>8. QED
    BY <1>1, <1>2, <1>3, <1>4, <1>5, <1>6, <1>7

LEMMA StepKeepsCoordinationInv == CoordinationInv /\ [Next]_vars => CoordinationInv'
  <1> SUFFICES ASSUME CoordinationInv, [Next]_vars PROVE CoordinationInv'
    OBVIOUS
  <1>1. ASSUME NEW c \in Callers, Proceed(c) PROVE CoordinationInv'
    BY <1>1, MissionStepsKeepInv, StepStepsKeepInv DEF Proceed
  <1>2. ASSUME NEW c \in Callers, NEW a \in Asks, Ask(c, a) PROVE CoordinationInv'
    BY <1>2, StartMissionKeepsInv, MissionStepsKeepInv, ReadStepKeepsInv DEF Ask
  <1>3. CASE UNCHANGED vars
    BY <1>3 DEF vars, missionVars, planVars, stepVars, callVars, CoordinationInv, CoordinationTypeOK,
                StoreInv, StepCallInv, MoveCallInv, Planned, StepsInOrder, VerdictIsEarned,
                ActiveHasPlan
  <1>4. QED
    BY <1>1, <1>2, <1>3 DEF Next

\* The inductive invariant: what calls have read still holds of what is stored.
THEOREM CoordinationInvariant == Spec => []CoordinationInv
  BY InitCoordinationInv, StepKeepsCoordinationInv, PTL DEF Spec

\* The mission, its steps and the calls are always well typed.
THEOREM CoordinationTypes == Spec => []CoordinationTypeOK
  BY CoordinationInvariant, PTL DEF CoordinationInv

\* No step is begun before the step it depends on was completed.
THEOREM StepsAwaitPredecessors == Spec => []StepsInOrder
  BY CoordinationInvariant, PTL DEF CoordinationInv

\* Success is recorded only of a plan whose steps were all completed, and a
\* mission that callers did not end themselves ends only with that verdict.
THEOREM VerdictsAreEarned == Spec => []VerdictIsEarned
  BY CoordinationInvariant, PTL DEF CoordinationInv

\* A mission under way has a plan and a coordinator, unless a caller began it
\* by the lifecycle alone.
THEOREM ActiveMissionsArePlanned == Spec => []ActiveHasPlan
  BY CoordinationInvariant, PTL DEF CoordinationInv

\* Only a call that read a mission before it was over takes it up again.
THEOREM OnlyStaleMovesReopen == Spec => OverLeftByStaleMove
  <1>1. CoordinationInv /\ [Next]_vars =>
            (mission' # mission /\ mission \in Over =>
                \E c \in Callers : at[c] = "moving" /\ seen[c] # mission /\ mission' = target[c])
    <2> SUFFICES ASSUME [Next]_vars, mission' # mission, mission \in Over
                 PROVE  \E c \in Callers :
                            at[c] = "moving" /\ seen[c] # mission /\ mission' = target[c]
      OBVIOUS
    <2>1. PICK c \in Callers : SaveMission(c)
      BY DEF Next, Proceed, Ask, vars, missionVars, ReadCoordinator, SaveCoordinator,
             StartLifecycle, ReadMission, RefuseMission, ReadDependency, SaveWorker, Advance,
             StartWorkflow, WorkflowRefused, WorkflowRejected, SaveStarted, SaveExecution,
             StartMission, Move, Begin,
             ReadStep, Judge
    <2>2. QED
      BY <2>1 DEF SaveMission, CanTransitionMission, MissionTransitions, Over
  <1>2. QED
    BY <1>1, CoordinationInvariant, PTL DEF Spec, OverLeftByStaleMove

Awaits(c, s) == at[c] = "awaiting" /\ ask[c].step = s

\* What holds of a step that no two calls worked on at once: the call that
\* works on it holds it as it is stored.
Solo(s) ==
    /\ \A c, d \in Callers : WorksOn(c, s) /\ WorksOn(d, s) => c = d
    /\ \A c \in Callers : WorksOn(c, s) /\ at[c] # "awaiting" => copy[c] = steps[s]
    /\ \A c \in Callers : Awaits(c, s) =>
           /\ started[s] = orphaned[s] + 1 /\ steps[s].status = "ready" /\ ~ steps[s].instance
           /\ copy[c].worker = steps[s].worker /\ copy[c].instance
    /\ started[s] \in {orphaned[s], orphaned[s] + 1}
    /\ started[s] = orphaned[s] => ~ steps[s].instance
    /\ started[s] = orphaned[s] + 1 => steps[s].instance \/ \E c \in Callers : Awaits(c, s)

SoloInv == \A s \in Steps \ overlapped : Solo(s)

LEMMA InitSoloInv == Init => SoloInv
  BY DEF Init, SoloInv, Solo, WorksOn, Awaits, NewStep

\* Calls that do not begin to work on the step or save it do not matter to it.
LEMMA SoloFrame ==
    ASSUME NEW s \in Steps, Solo(s), steps'[s] = steps[s], started'[s] = started[s],
           orphaned'[s] = orphaned[s],
           \A c \in Callers : /\ WorksOn(c, s)' => WorksOn(c, s) /\ copy'[c] = copy[c]
                              /\ Awaits(c, s)' <=> Awaits(c, s)
    PROVE  Solo(s)'
  <1>1. \A c \in Callers : WorksOn(c, s) /\ at[c] = "awaiting" <=> Awaits(c, s)
    BY DEF WorksOn, Awaits
  <1>2. \A c \in Callers : WorksOn(c, s)' /\ at'[c] = "awaiting" <=> Awaits(c, s)'
    BY DEF WorksOn, Awaits
  <1>3. \A c, d \in Callers : WorksOn(c, s)' /\ WorksOn(d, s)' => c = d
    BY DEF Solo
  <1>4. \A c \in Callers : WorksOn(c, s)' /\ at'[c] # "awaiting" => copy'[c] = steps'[s]
    BY <1>1, <1>2 DEF Solo
  <1>5. \A c \in Callers : Awaits(c, s)' =>
            /\ started'[s] = orphaned'[s] + 1 /\ steps'[s].status = "ready" /\ ~ steps'[s].instance
            /\ copy'[c].worker = steps'[s].worker /\ copy'[c].instance
    BY <1>2 DEF Solo
  <1>6. QED
    BY <1>3, <1>4, <1>5 DEF Solo

\* A step that only one call works on, and that call has saved it.
LEMMA SoloSaved ==
    ASSUME CoordinationInv, NEW c \in Callers, NEW s \in Steps, Solo(s), WorksOn(c, s),
           End(c), started' = started, orphaned' = orphaned, steps'[s].instance = copy[c].instance
    PROVE  Solo(s)'
  <1>1. at' = [at EXCEPT ![c] = "idle"] /\ at \in [Callers -> Points]
        /\ ask' = [ask EXCEPT ![c] = NoRequest] /\ ask \in [Callers -> Asks]
    BY DEF End, CoordinationInv, CoordinationTypeOK
  <1>2. \A d \in Callers : ~ WorksOn(d, s)'
    BY <1>1 DEF Solo, WorksOn
  <1>3. \A d \in Callers : ~ Awaits(d, s)'
    BY <1>2 DEF WorksOn, Awaits
  <1>0. started[s] \in Nat /\ orphaned[s] \in Nat
    BY CoordinationAssumption DEF CoordinationInv, CoordinationTypeOK
  <1>4. started'[s] = orphaned'[s] + 1 => steps'[s].instance
    <2>1. CASE at[c] = "awaiting"
      BY <2>1 DEF Solo, WorksOn, Awaits
    <2>2. CASE at[c] # "awaiting"
      <3>1. \A d \in Callers : ~ Awaits(d, s)
        BY <2>2 DEF Solo, WorksOn, Awaits
      <3>2. QED
        BY <1>0, <2>2, <3>1 DEF Solo, WorksOn
    <2>3. QED
      BY <2>1, <2>2
  <1>5. started'[s] = orphaned'[s] => ~ steps'[s].instance
    BY <1>0 DEF Solo, WorksOn, Awaits
  <1>6. QED
    BY <1>2, <1>3, <1>4, <1>5 DEF Solo

LEMMA StartMissionKeepsSolo ==
    ASSUME CoordinationInv, NEW c \in Callers, NEW a \in Asks, StartMission(c, a),
           NEW s \in Steps, Solo(s)
    PROVE  Solo(s)'
  <1>1. /\ at[c] = "idle" /\ at' = [at EXCEPT ![c] = "planned"] /\ ask' = [ask EXCEPT ![c] = a]
        /\ at \in [Callers -> Points] /\ ask \in [Callers -> Asks] /\ plans' = plans + 1
        /\ UNCHANGED <<started, orphaned, copy>> /\ plans \in Nat /\ s[1] \in Nat
        /\ orphaned[s] \in Nat /\ started[s] \in Nat
        /\ steps'[s] = IF s[1] # plans' THEN steps[s]
                       ELSE NewStep(IF s[2] = 1 THEN "ready" ELSE "pending")
    BY CoordinationAssumption DEF StartMission, Request, CoordinationInv, CoordinationTypeOK, Steps
  <1>2. \A d \in Callers : /\ WorksOn(d, s)' <=> WorksOn(d, s)
                           /\ Awaits(d, s)' <=> Awaits(d, s)
    BY <1>1 DEF WorksOn, Awaits
  <1>3. CASE s[1] # plans'
    BY <1>1, <1>2, <1>3, SoloFrame
  <1>4. CASE s[1] = plans'
    <2>1. started[s] = 0 /\ orphaned[s] = 0
      BY <1>1, <1>4 DEF CoordinationInv, StoreInv, Solo
    <2>2. \A d \in Callers : ~ WorksOn(d, s)
      BY <1>1, <1>4 DEF CoordinationInv, StepCallInv, WorksOn
    <2>3. \A d \in Callers : ~ WorksOn(d, s)' /\ ~ Awaits(d, s)'
      BY <1>2, <2>2 DEF WorksOn, Awaits
    <2>4. ~ steps'[s].instance
      BY <1>1, <1>4 DEF NewStep
    <2>5. QED
      BY <1>1, <2>1, <2>3, <2>4 DEF Solo
  <1>5. QED
    BY <1>3, <1>4

LEMMA MissionStepsKeepSolo ==
    ASSUME CoordinationInv, NEW c \in Callers,
           \/ ReadCoordinator(c) \/ SaveCoordinator(c) \/ StartLifecycle(c)
           \/ ReadMission(c) \/ SaveMission(c) \/ RefuseMission(c) \/ SaveExecution(c)
           \/ \E a \in Asks : Move(c, a) \/ Begin(c, a) \/ Judge(c, a),
           NEW s \in Steps, Solo(s)
    PROVE  Solo(s)'
  <1> DEFINE Working == {"dependency", "save", "awaiting"}
  <1>1. /\ at[c] \notin Working /\ UNCHANGED stepVars
        /\ at' = [at EXCEPT ![c] = at'[c]] /\ at'[c] \notin Working
    <2>1. at \in [Callers -> Points]
      BY DEF CoordinationInv, CoordinationTypeOK
    <2>2. QED
      BY <2>1 DEF ReadCoordinator, SaveCoordinator, StartLifecycle, ReadMission, SaveMission,
                  RefuseMission, SaveExecution, Move, Begin, Judge, GoOn, End, Request
  <1>2. \A d \in Callers \ {c} : at'[d] = at[d] /\ ask'[d] = ask[d] /\ copy'[d] = copy[d]
    <2>1. /\ at \in [Callers -> Points] /\ ask \in [Callers -> Asks] /\ copy \in [Callers -> Step]
      BY DEF CoordinationInv, CoordinationTypeOK
    <2>2. QED
      BY <2>1 DEF ReadCoordinator, SaveCoordinator, StartLifecycle, ReadMission, SaveMission,
                  RefuseMission, SaveExecution, Move, Begin, Judge, GoOn, End, Request
  <1>3. \A d \in Callers : /\ WorksOn(d, s)' => WorksOn(d, s) /\ copy'[d] = copy[d]
                           /\ Awaits(d, s)' <=> Awaits(d, s)
    BY <1>1, <1>2 DEF WorksOn, Awaits
  <1>4. QED
    BY <1>1, <1>3, SoloFrame DEF stepVars

LEMMA ReadStepKeepsSolo ==
    ASSUME CoordinationInv, NEW c \in Callers, NEW a \in Asks, ReadStep(c, a),
           NEW s \in Steps \ overlapped', Solo(s)
    PROVE  Solo(s)'
  <1> DEFINE point == IF a.op = "advance" /\ a.step[2] > 1 THEN "dependency" ELSE "save"
  <1>1. /\ at[c] = "idle" /\ at' = [at EXCEPT ![c] = point] /\ ask' = [ask EXCEPT ![c] = a]
        /\ copy' = [copy EXCEPT ![c] = steps[a.step]] /\ UNCHANGED <<steps, started, orphaned>>
        /\ at \in [Callers -> Points] /\ ask \in [Callers -> Asks] /\ copy \in [Callers -> Step]
        /\ overlapped' = IF \E d \in Callers : WorksOn(d, a.step)
                         THEN overlapped \cup {a.step} ELSE overlapped
    BY DEF ReadStep, Request, CoordinationInv, CoordinationTypeOK
  <1>2. point \in {"dependency", "save"}
    OBVIOUS
  <1> HIDE DEF point
  <1>3. \A d \in Callers : Awaits(d, s)' <=> Awaits(d, s)
    BY <1>1, <1>2 DEF Awaits
  <1>4. CASE s # a.step
    BY <1>1, <1>2, <1>3, <1>4, SoloFrame DEF WorksOn
  <1>5. CASE s = a.step
    <2>1. \A d \in Callers : ~ WorksOn(d, s)
      BY <1>1, <1>5
    <2>2. \A d \in Callers : WorksOn(d, s)' => d = c
      BY <1>1, <2>1 DEF WorksOn
    <2>3. \A d \in Callers : ~ Awaits(d, s)'
      BY <1>3, <2>1 DEF WorksOn, Awaits
    <2>4. copy'[c] = steps'[s]
      BY <1>1, <1>5
    <2>5. /\ \A d, e \in Callers : WorksOn(d, s)' /\ WorksOn(e, s)' => d = e
          /\ \A d \in Callers : WorksOn(d, s)' => copy'[d] = steps'[s]
      BY <2>2, <2>4
    <2>6. QED
      BY <1>1, <1>3, <2>3, <2>5 DEF Solo
  <1>6. QED
    BY <1>4, <1>5

LEMMA StepStepsKeepSolo ==
    ASSUME CoordinationInv, NEW c \in Callers,
           \/ ReadDependency(c) \/ SaveWorker(c) \/ Advance(c) \/ StartWorkflow(c)
           \/ WorkflowRefused(c) \/ WorkflowRejected(c) \/ SaveStarted(c),
           NEW s \in Steps, Solo(s)
    PROVE  Solo(s)'
  <1>0. /\ at \in [Callers -> Points] /\ ask \in [Callers -> Asks] /\ copy \in [Callers -> Step]
        /\ steps \in [Steps -> Step] /\ started \in [Steps -> 0..MaxStarts]
        /\ orphaned \in [Steps -> Nat] /\ ask[c].step \in Steps
    BY CoordinationAssumption DEF CoordinationInv, CoordinationTypeOK, Requests
  <1>1. CASE ReadDependency(c) \/ WorkflowRefused(c)
    <2>1. /\ at[c] \in {"dependency", "save"} /\ UNCHANGED stepVars
          /\ \/ at' = [at EXCEPT ![c] = "save"] /\ UNCHANGED <<ask, copy>>
             \/ End(c)
      BY <1>1 DEF ReadDependency, WorkflowRefused, GoOn
    <2>2. \A d \in Callers : /\ WorksOn(d, s)' => WorksOn(d, s) /\ copy'[d] = copy[d]
                             /\ Awaits(d, s)' <=> Awaits(d, s)
      BY <1>0, <2>1 DEF End, WorksOn, Awaits
    <2>3. QED
      BY <2>1, <2>2, SoloFrame DEF stepVars
  <1>2. CASE SaveWorker(c) \/ Advance(c) \/ SaveStarted(c)
    <2>1. /\ at[c] \in {"save", "awaiting"} /\ End(c) /\ started' = started /\ orphaned' = orphaned
          /\ \E x : x.instance = copy[c].instance /\ steps' = [steps EXCEPT ![ask[c].step] = x]
      BY <1>2 DEF SaveWorker, Advance, SaveStarted, SaveStep
    <2>2. CASE s = ask[c].step
      BY <1>0, <2>1, <2>2, SoloSaved DEF WorksOn
    <2>3. CASE s # ask[c].step
      <3>1. steps'[s] = steps[s]
        BY <1>0, <2>1, <2>3
      <3>2. \A d \in Callers : /\ WorksOn(d, s)' => WorksOn(d, s) /\ copy'[d] = copy[d]
                               /\ Awaits(d, s)' <=> Awaits(d, s)
        BY <1>0, <2>1, <2>3 DEF End, WorksOn, Awaits
      <3>3. QED
        BY <2>1, <3>1, <3>2, SoloFrame
    <2>4. QED
      BY <2>2, <2>3
  <1>3. CASE StartWorkflow(c)
    <2>1. /\ at[c] = "save" /\ StartsWorkflow(c) /\ at' = [at EXCEPT ![c] = "awaiting"]
          /\ started' = [started EXCEPT ![ask[c].step] = started[ask[c].step] + 1]
          /\ copy' = [copy EXCEPT ![c].instance = TRUE]
          /\ UNCHANGED <<steps, ask, orphaned>>
      BY <1>3 DEF StartWorkflow
    <2>2. CASE s # ask[c].step
      <3>1. started'[s] = started[s]
        BY <1>0, <2>1, <2>2
      <3>2. \A d \in Callers : /\ WorksOn(d, s)' => WorksOn(d, s) /\ copy'[d] = copy[d]
                               /\ Awaits(d, s)' <=> Awaits(d, s)
        BY <1>0, <2>1, <2>2 DEF WorksOn, Awaits
      <3>3. QED
        BY <2>1, <3>1, <3>2, SoloFrame
    <2>3. CASE s = ask[c].step
      <3>1. \A d \in Callers : WorksOn(d, s) => d = c
        BY <2>1, <2>3 DEF Solo, WorksOn
      <3>2. \A d \in Callers : ~ Awaits(d, s)
        BY <2>1, <3>1 DEF WorksOn, Awaits
      <3>3. copy[c] = steps[s] /\ steps[s].status = "ready" /\ ~ steps[s].instance
        BY <2>1, <2>3 DEF Solo, WorksOn, StartsWorkflow
      <3>4. started[s] = orphaned[s] /\ started'[s] = orphaned'[s] + 1
        BY <1>0, <2>1, <2>3, <3>2, <3>3 DEF Solo
      <3>5. copy'[c].worker = steps[s].worker /\ copy'[c].instance
        BY <1>0, <2>1, <3>3 DEF Step
      <3>6. \A d \in Callers : WorksOn(d, s)' => d = c
        BY <1>0, <2>1, <3>1 DEF WorksOn
      <3>7. Awaits(c, s)' /\ at'[c] = "awaiting" /\ \A d \in Callers : Awaits(d, s)' => d = c
        BY <1>0, <2>1, <2>3, <3>2 DEF Awaits
      <3>8. QED
        BY <2>1, <3>3, <3>4, <3>5, <3>6, <3>7 DEF Solo
    <2>4. QED
      BY <2>2, <2>3
  <1>4. CASE WorkflowRejected(c)
    <2>1. /\ at[c] = "awaiting" /\ End(c) /\ UNCHANGED <<steps, started>>
          /\ orphaned' = [orphaned EXCEPT ![ask[c].step] = orphaned[ask[c].step] + 1]
          /\ at' = [at EXCEPT ![c] = "idle"] /\ ask' = [ask EXCEPT ![c] = NoRequest]
      BY <1>4 DEF WorkflowRejected, End
    <2>2. CASE s # ask[c].step
      <3>1. orphaned'[s] = orphaned[s]
        BY <1>0, <2>1, <2>2
      <3>2. \A d \in Callers : /\ WorksOn(d, s)' => WorksOn(d, s) /\ copy'[d] = copy[d]
                               /\ Awaits(d, s)' <=> Awaits(d, s)
        BY <1>0, <2>1, <2>2 DEF End, WorksOn, Awaits
      <3>3. QED
        BY <2>1, <3>1, <3>2, SoloFrame
    <2>3. CASE s = ask[c].step
      <3>1. started[s] = orphaned[s] + 1 /\ ~ steps[s].instance
        BY <2>1, <2>3 DEF Solo, Awaits
      <3>2. \A d \in Callers : WorksOn(d, s) => d = c
        BY <2>1, <2>3 DEF Solo, WorksOn
      <3>3. \A d \in Callers : ~ WorksOn(d, s)' /\ ~ Awaits(d, s)'
        BY <1>0, <2>1, <3>2 DEF WorksOn, Awaits
      <3>4. started'[s] = orphaned'[s] /\ ~ steps'[s].instance /\ orphaned'[s] \in Nat
        BY <1>0, <2>1, <2>3, <3>1
      <3>5. QED
        BY <3>3, <3>4 DEF Solo
    <2>4. QED
      BY <2>2, <2>3
  <1>5. QED
    BY <1>1, <1>2, <1>3, <1>4

\* Steps once overlapped stay so.
LEMMA OverlapsStay == [Next]_vars => overlapped \subseteq overlapped'
  <1> SUFFICES ASSUME [Next]_vars PROVE overlapped \subseteq overlapped'
    OBVIOUS
  <1>1. ASSUME NEW c \in Callers, Proceed(c) PROVE overlapped' = overlapped
    <2>1. CASE \/ ReadCoordinator(c) \/ SaveCoordinator(c) \/ StartLifecycle(c) \/ ReadMission(c)
               \/ SaveMission(c) \/ RefuseMission(c) \/ SaveExecution(c)
      BY <2>1 DEF stepVars, ReadCoordinator, SaveCoordinator, StartLifecycle, ReadMission,
                  SaveMission, RefuseMission, SaveExecution
    <2>2. CASE \/ ReadDependency(c) \/ SaveWorker(c) \/ Advance(c) \/ StartWorkflow(c)
               \/ WorkflowRefused(c) \/ WorkflowRejected(c) \/ SaveStarted(c)
      BY <2>2 DEF stepVars, ReadDependency, SaveWorker, Advance, StartWorkflow, WorkflowRefused,
                  WorkflowRejected, SaveStarted
    <2>3. QED
      BY <1>1, <2>1, <2>2 DEF Proceed
  <1>2. ASSUME NEW c \in Callers, NEW a \in Asks, Ask(c, a) PROVE overlapped \subseteq overlapped'
    BY <1>2 DEF Ask, StartMission, Begin, Move, ReadStep, Judge, stepVars
  <1>3. CASE UNCHANGED vars
    BY <1>3 DEF vars, stepVars
  <1>4. QED
    BY <1>1, <1>2, <1>3 DEF Next

LEMMA SoloStep == CoordinationInv /\ SoloInv /\ [Next]_vars => SoloInv'
  <1> SUFFICES ASSUME CoordinationInv, SoloInv, [Next]_vars, NEW s \in Steps \ overlapped'
               PROVE  Solo(s)'
    BY DEF SoloInv
  <1>1. overlapped \subseteq overlapped'
    BY OverlapsStay
  <1>2. s \in Steps /\ Solo(s)
    BY <1>1 DEF SoloInv
  <1>3. ASSUME NEW c \in Callers, Proceed(c) PROVE Solo(s)'
    BY <1>2, <1>3, MissionStepsKeepSolo, StepStepsKeepSolo DEF Proceed
  <1>4. ASSUME NEW c \in Callers, NEW a \in Asks, Ask(c, a) PROVE Solo(s)'
    BY <1>2, <1>4, StartMissionKeepsSolo, MissionStepsKeepSolo, ReadStepKeepsSolo DEF Ask
  <1>5. CASE UNCHANGED vars
    BY <1>2, <1>5 DEF vars, stepVars, callVars, Solo, WorksOn, Awaits
  <1>6. QED
    BY <1>3, <1>4, <1>5 DEF Next

\* A step that one call at a time works on starts one instance, which it
\* names, beside those whose start was rejected after they were stored.
THEOREM SoloStepsStartOnce == Spec => []StartedOnce
  <1>1. CoordinationInv /\ SoloInv => StartedOnce
    <2> SUFFICES ASSUME CoordinationInv, SoloInv, NEW s \in Steps \ overlapped
                 PROVE  /\ started[s] <= orphaned[s] + 1
                        /\ started[s] > orphaned[s] =>
                               \/ steps[s].instance
                               \/ \E c \in Callers : at[c] = "awaiting" /\ ask[c].step = s
      BY DEF StartedOnce
    <2>1. started[s] \in Nat /\ orphaned[s] \in Nat /\ Solo(s)
      BY CoordinationAssumption DEF SoloInv, CoordinationInv, CoordinationTypeOK
    <2>2. QED
      BY <2>1 DEF Solo, Awaits
  <1>2. QED
    BY <1>1, InitSoloInv, SoloStep, CoordinationInvariant, PTL DEF Spec

\* What a step may not do unless two calls work on it at once.
Kept(s) ==
    /\ steps[s].status \in {"completed", "failed"} => steps'[s].status = steps[s].status
    /\ steps[s].instance => steps'[s].instance
    /\ steps[s].status # "none" /\ steps'[s].worker # steps[s].worker =>
           \E c \in Callers : ask[c].step = s /\ SaveWorker(c)

\* A step that is over stays so, and keeps its instance and its worker, unless
\* two calls work on it at once.
THEOREM OverlapIsNeededToUndo == Spec => OnlyOverlapUndoes
  <1>1. CoordinationInv /\ SoloInv /\ [Next]_vars => \A s \in Steps \ overlapped' : Kept(s)
    <2> SUFFICES ASSUME CoordinationInv, SoloInv, [Next]_vars, NEW s \in Steps \ overlapped'
                 PROVE  Kept(s)
      OBVIOUS
    <2>1. overlapped \subseteq overlapped'
    BY OverlapsStay
    <2>2. /\ s \in Steps /\ Solo(s) /\ steps \in [Steps -> Step]
          /\ orphaned[s] \in Nat
      BY <2>1 DEF SoloInv, CoordinationInv, CoordinationTypeOK
    <2>3. CASE steps'[s] = steps[s]
      BY <2>3 DEF Kept
    <2>4. ASSUME NEW c \in Callers, SaveWorker(c), steps'[s] # steps[s] PROVE Kept(s)
      <3>1. ask[c].step = s /\ WorksOn(c, s) /\ at[c] = "save"
        BY <2>2, <2>4 DEF SaveWorker, WorksOn
      <3>2. steps'[s].status = copy[c].status /\ steps'[s].instance = copy[c].instance
        BY <2>2, <2>4, <3>1 DEF SaveWorker
      <3>3. QED
        BY <2>2, <2>4, <3>1, <3>2 DEF Kept, Solo
    <2>5. ASSUME NEW c \in Callers, Advance(c) \/ SaveStarted(c), steps'[s] # steps[s] PROVE Kept(s)
      <3>1. ask[c].step = s /\ WorksOn(c, s) /\ ask[c].op = "advance"
        BY <2>2, <2>5 DEF Advance, SaveStarted, SaveStep, WorksOn, CoordinationInv, StepCallInv
      <3>2. steps'[s].worker = copy[c].worker /\ steps'[s].instance = copy[c].instance
        BY <2>2, <2>5, <3>1 DEF Advance, SaveStarted, SaveStep
      <3>3. steps[s].status \in {"pending", "ready", "running"} /\ copy[c].worker = steps[s].worker
            /\ (steps[s].instance => copy[c].instance)
        BY <2>2, <3>1 DEF Solo, WorksOn, Awaits, CoordinationInv, StepCallInv
      <3>4. QED
        BY <3>2, <3>3 DEF Kept
    <2>6. ASSUME NEW c \in Callers, NEW a \in Asks, StartMission(c, a), steps'[s] # steps[s]
          PROVE  Kept(s)
      <3>1. s[1] = plans' /\ plans' = plans + 1 /\ plans \in Nat
        BY <2>2, <2>6, CoordinationAssumption DEF StartMission, CoordinationInv, CoordinationTypeOK
      <3>2. steps[s].status = "none" /\ started[s] = 0
        BY <2>2, <3>1 DEF CoordinationInv, StoreInv
      <3>3. QED
        BY <2>2, <3>2 DEF Kept, Solo
    <2>7. \/ steps' = steps
          \/ \E c \in Callers : \/ SaveWorker(c) \/ Advance(c) \/ SaveStarted(c)
                                \/ \E a \in Asks : StartMission(c, a)
      BY DEF Next, Proceed, Ask, vars, stepVars, ReadCoordinator, SaveCoordinator, StartLifecycle,
             ReadMission, SaveMission, RefuseMission, ReadDependency,
             StartWorkflow, WorkflowRefused, WorkflowRejected, SaveExecution, Move, Begin,
             ReadStep, Judge
    <2>8. QED
      BY <2>3, <2>4, <2>5, <2>6, <2>7
  <1>2. Spec => [](CoordinationInv /\ SoloInv)
    BY InitSoloInv, SoloStep, CoordinationInvariant, PTL DEF Spec
  <1>3. Spec => [][\A s \in Steps \ overlapped' : Kept(s)]_vars
    BY <1>1, <1>2, PTL DEF Spec
  <1>4. QED
    BY <1>3 DEF OnlyOverlapUndoes, Kept
=============================================================================
