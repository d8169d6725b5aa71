------------------------ MODULE ContainerUpdateProofs ------------------------
(***************************************************************************)
(* Proofs about ContainerUpdate, for any number of containers and images   *)
(* and any number of updates and interferences: type correctness,          *)
(* LossReported, AppliedIsPulled, StateRestored, and that every step of an *)
(* update counts a bound on its remaining steps down (UpdateAdvances).     *)
(*                                                                         *)
(* The invariant says what the update in hand may rely on: generations     *)
(* only grow, so that a container is never mistaken for its successor      *)
(* (Generations); a container that is missing between two calls was        *)
(* removed by the user, except where the update itself has just removed it *)
(* (OursOrRemoved); what was decided after the pull stays decided          *)
(* (Decided); and what the new container is (Made).                        *)
(***************************************************************************)
EXTENDS ContainerUpdate, FiniteSetTheorems, TLAPS

Generations ==
    /\ \A n \in Names : box[n] # Gone => box[n].gen <= gens[n]
    /\ target.gen <= gens[target.name]
    /\ outcome.gen <= gens[outcome.name]
    /\ \A id \in todo : id.gen <= gens[id.name]

OursOrRemoved ==
    pc \in {"pull", "image", "stop", "remove", "start", "verify", "finish"} /\ box[target.name] = Gone =>
        target.name \in removed

Decided ==
    /\ pc \in {"stop", "remove", "create", "start", "verify", "finish"} =>
          new # seen.image /\ start = WantsStart
    /\ pc = "start" => start
    /\ pc \in CallPc => ~applied

Made ==
    /\ pc = "start" /\ Present(target) /\ target.name \notin touched =>
          box[target.name].state = "stopped"
    /\ pc \in {"verify", "finish"} /\ Present(target) /\ target.name \notin touched =>
          box[target.name].state = IF start THEN "running" ELSE "stopped"
    /\ pc = "finish" /\ applied /\ Present(target) => box[target.name].image = new

HandInv == Generations /\ OursOrRemoved /\ Decided /\ Made

-----------------------------------------------------------------------------
(* What the engine makes is a container. *)
LEMMA Fresh ==
    ASSUME NEW n \in Names, NEW i, NEW p \in BOOLEAN, NEW st \in {"running", "paused", "stopped"},
           TypeOK, MakeContainer(n, i, p, st)
    PROVE  box'[n] \in Containers
BY DEF MakeContainer, TypeOK, Containers

(* Every step of an update, of the user and of the registry keeps the types. *)
LEMMA TypeStep ==
    ASSUME TypeOK, [Next]_vars
    PROVE  TypeOK'
<1>1. ASSUME NEW S \in SUBSET Names, NEW c \in Configs, ScanTargets(S, c) PROVE TypeOK'
  <2>1. \A n \in S : [name |-> n, gen |-> box[n].gen] \in Ids
    BY <1>1, UpdateConstants, GoneIsNoContainer DEF ScanTargets, Outdated, TypeOK, Containers, Ids
  <2>2. todo' \in SUBSET Ids
    BY <2>1, <1>1 DEF ScanTargets
  <2>3. pc' = "next" /\ force' = FALSE /\ cfg' \in Configs /\ updates' \in 0..MaxUpdates
    BY <1>1, UpdateConstants, GoneIsNoContainer DEF ScanTargets, TypeOK
  <2>4. UNCHANGED <<box, gens, images, tag, failed, outcome, registry, removed, touched, uses,
                    target, seen, new, start, retry, applied, cancelled>>
    BY <1>1 DEF ScanTargets, engine, report, world
  <2> QED
    BY <2>2, <2>3, <2>4 DEF TypeOK
<1>2. ASSUME NEW n \in Names, NEW f \in BOOLEAN, NEW c \in Configs, NEW g \in 0..gens[n], UpdateRequest([name |-> n, gen |-> g], f, c) PROVE TypeOK'
  BY <1>2, UpdateConstants, GoneIsNoContainer DEF UpdateRequest, TypeOK, Containers, Configs, Ids, Outcomes, CallPc, engine, update, report, world, Present
<1>3. ASSUME Cancel PROVE TypeOK'
  BY <1>3, UpdateConstants, GoneIsNoContainer DEF Cancel, TypeOK, Containers, Configs, Ids, Outcomes, CallPc, engine, update, report, world, Present
<1>4. ASSUME NEW id \in todo, NextTarget(id) PROVE TypeOK'
  BY <1>4, UpdateConstants, GoneIsNoContainer DEF NextTarget, TypeOK, Containers, Configs, Ids, Outcomes, CallPc, engine, update, report, world, Present
<1>5. ASSUME UpdatesEnd PROVE TypeOK'
  BY <1>5, UpdateConstants, GoneIsNoContainer DEF UpdatesEnd, TypeOK, Containers, Configs, Ids, Outcomes, CallPc, engine, update, report, world, Present
<1>6. ASSUME CallFails PROVE TypeOK'
  BY <1>6, UpdateConstants, GoneIsNoContainer DEF CallFails, TypeOK, Containers, Configs, Ids, Outcomes, CallPc, engine, update, report, world, Present
<1>7. ASSUME InspectPaused PROVE TypeOK'
  BY <1>7, UpdateConstants, GoneIsNoContainer DEF InspectPaused, Ends, TypeOK, Containers, Configs, Ids, Outcomes, CallPc, engine, update, report, world, Present
<1>8. ASSUME Inspect PROVE TypeOK'
  BY <1>8, UpdateConstants, GoneIsNoContainer DEF Inspect, TypeOK, Containers, Configs, Ids, Outcomes, CallPc, engine, update, report, world, Present
<1>9. ASSUME PullImage PROVE TypeOK'
  BY <1>9, UpdateConstants, GoneIsNoContainer DEF PullImage, TypeOK, Containers, Configs, Ids, Outcomes, CallPc, engine, update, report, world, Present
<1>10. ASSUME InspectImageKeeps PROVE TypeOK'
  BY <1>10, UpdateConstants, GoneIsNoContainer DEF InspectImageKeeps, Ends, Resolved, TypeOK, Containers, Configs, Ids, Outcomes, CallPc, engine, update, report, world, Present
<1>11. ASSUME InspectImage PROVE TypeOK'
  <2>1. Resolved \in Images
    BY <1>11 DEF InspectImage, Resolved, TypeOK, Containers
  <2>2. WantsStart \in BOOLEAN
    BY DEF WantsStart, TypeOK
  <2> QED
    BY <2>1, <2>2, <1>11, UpdateConstants, GoneIsNoContainer DEF InspectImage, TypeOK, CallPc, engine, report, world
<1>12. ASSUME NEW o \in {"ok", "lost"}, Stop(o) PROVE TypeOK'
  BY <1>12, UpdateConstants, GoneIsNoContainer DEF Stop, Answer, SetState, TypeOK, Containers, Configs, Ids, Outcomes, CallPc, engine, update, report, world, Present
<1>13. ASSUME NEW o \in {"ok", "lost"}, Remove(o) PROVE TypeOK'
  BY <1>13, UpdateConstants, GoneIsNoContainer DEF Remove, Answer, TypeOK, Containers, Configs, Ids, Outcomes, CallPc, engine, update, report, world, Present
<1>14. ASSUME NEW o \in {"ok", "lost"}, Create(o) PROVE TypeOK'
  BY <1>14, UpdateConstants, GoneIsNoContainer DEF Create, Answer, MakeContainer, CreateFrom, TypeOK, Containers, Configs, Ids, Outcomes, CallPc, engine, update, report, world, Present
<1>15. ASSUME NEW o \in {"ok", "lost"}, Start(o) PROVE TypeOK'
  BY <1>15, UpdateConstants, GoneIsNoContainer DEF Start, Answer, SetState, TypeOK, Containers, Configs, Ids, Outcomes, CallPc, engine, update, report, world, Present
<1>16. ASSUME VerifyGood PROVE TypeOK'
  BY <1>16, UpdateConstants, GoneIsNoContainer DEF VerifyGood, TypeOK, Containers, Configs, Ids, Outcomes, CallPc, engine, update, report, world, Present
<1>17. ASSUME VerifyOther PROVE TypeOK'
  BY <1>17, UpdateConstants, GoneIsNoContainer DEF VerifyOther, TypeOK, Containers, Configs, Ids, Outcomes, CallPc, engine, update, report, world, Present
<1>18. ASSUME VerifySkipped PROVE TypeOK'
  BY <1>18, UpdateConstants, GoneIsNoContainer DEF VerifySkipped, TypeOK, Containers, Configs, Ids, Outcomes, CallPc, engine, update, report, world, Present
<1>19. ASSUME Finish PROVE TypeOK'
  BY <1>19, UpdateConstants, GoneIsNoContainer DEF Finish, Ends, Dangling, TypeOK, Containers, Configs, Ids, Outcomes, CallPc, engine, update, report, world, Present
<1>20. ASSUME NEW n \in Names, NEW a \in {"start", "stop", "restart", "pause", "unpause", "kill"}, ContainerAction(n, a) PROVE TypeOK'
  BY <1>20, UpdateConstants, GoneIsNoContainer DEF ContainerAction, ActionEffect, SetState, Use, Meanwhile, TypeOK, Containers, Configs, Ids, Outcomes, CallPc, engine, update, report, world, Present
<1>21. ASSUME NEW n \in Names, RemoveContainer(n) PROVE TypeOK'
  BY <1>21, UpdateConstants, GoneIsNoContainer DEF RemoveContainer, Use, Meanwhile, TypeOK, Containers, Configs, Ids, Outcomes, CallPc, engine, update, report, world, Present
<1>22. ASSUME NEW n \in Names, ComposeUp(n) PROVE TypeOK'
  BY <1>22, UpdateConstants, GoneIsNoContainer DEF ComposeUp, MakeContainer, Use, Meanwhile, TypeOK, Containers, Configs, Ids, Outcomes, CallPc, engine, update, report, world, Present
<1>23. ASSUME ImagesPull PROVE TypeOK'
  BY <1>23, UpdateConstants, GoneIsNoContainer DEF ImagesPull, Use, Meanwhile, TypeOK, Containers, Configs, Ids, Outcomes, CallPc, engine, update, report, world, Present
<1>24. ASSUME NEW mode \in {"dangling", "unused"}, ImagesPrune(mode) PROVE TypeOK'
  BY <1>24, UpdateConstants, GoneIsNoContainer DEF ImagesPrune, Use, Meanwhile, Dangling, TypeOK, Containers, Configs, Ids, Outcomes, CallPc, engine, update, report, world, Present
<1>25. ASSUME NEW i \in Images, ImagesRemove(i) PROVE TypeOK'
  BY <1>25, UpdateConstants, GoneIsNoContainer DEF ImagesRemove, Use, Meanwhile, TypeOK, Containers, Configs, Ids, Outcomes, CallPc, engine, update, report, world, Present
<1>26. ASSUME NEW i \in Images, Push(i) PROVE TypeOK'
  BY <1>26, UpdateConstants, GoneIsNoContainer DEF Push, Use, Meanwhile, TypeOK, Containers, Configs, Ids, Outcomes, CallPc, engine, update, report, world, Present
<1>27. ASSUME UNCHANGED vars PROVE TypeOK'
  BY <1>27 DEF vars, TypeOK, Containers, Configs, Ids, Outcomes, CallPc, engine, update, report, world, Present
<1> QED
  BY <1>1, <1>2, <1>3, <1>4, <1>5, <1>6, <1>7, <1>8, <1>9, <1>10, <1>11, <1>12, <1>13, <1>14, <1>15, <1>16, <1>17, <1>18, <1>19, <1>20, <1>21, <1>22, <1>23, <1>24, <1>25, <1>26, <1>27 DEF Next, UpdateStep, HostStep

(* No step makes a generation smaller or gives one away twice. *)
LEMMA GenerationsStep ==
    ASSUME TypeOK, Generations, [Next]_vars
    PROVE  Generations'
<1>1. ASSUME NEW S \in SUBSET Names, NEW c \in Configs, ScanTargets(S, c) PROVE Generations'
  BY <1>1, UpdateConstants, GoneIsNoContainer DEF ScanTargets, Outdated, TypeOK, Containers, Configs, Ids, Outcomes, CallPc, engine, update, report, world, Generations, Present
<1>2. ASSUME NEW n \in Names, NEW f \in BOOLEAN, NEW c \in Configs, NEW g \in 0..gens[n], UpdateRequest([name |-> n, gen |-> g], f, c) PROVE Generations'
  BY <1>2, UpdateConstants, GoneIsNoContainer DEF UpdateRequest, TypeOK, Containers, Configs, Ids, Outcomes, CallPc, engine, update, report, world, Generations, Present
<1>3. ASSUME Cancel PROVE Generations'
  BY <1>3, UpdateConstants, GoneIsNoContainer DEF Cancel, TypeOK, Containers, Configs, Ids, Outcomes, CallPc, engine, update, report, world, Generations, Present
<1>4. ASSUME NEW id \in todo, NextTarget(id) PROVE Generations'
  BY <1>4, UpdateConstants, GoneIsNoContainer DEF NextTarget, TypeOK, Containers, Configs, Ids, Outcomes, CallPc, engine, update, report, world, Generations, Present
<1>5. ASSUME UpdatesEnd PROVE Generations'
  BY <1>5, UpdateConstants, GoneIsNoContainer DEF UpdatesEnd, TypeOK, Containers, Configs, Ids, Outcomes, CallPc, engine, update, report, world, Generations, Present
<1>6. ASSUME CallFails PROVE Generations'
  BY <1>6, UpdateConstants, GoneIsNoContainer DEF CallFails, TypeOK, Containers, Configs, Ids, Outcomes, CallPc, engine, update, report, world, Generations, Present
<1>7. ASSUME InspectPaused PROVE Generations'
  BY <1>7, UpdateConstants, GoneIsNoContainer DEF InspectPaused, Ends, TypeOK, Containers, Configs, Ids, Outcomes, CallPc, engine, update, report, world, Generations, Present
<1>8. ASSUME Inspect PROVE Generations'
  BY <1>8, UpdateConstants, GoneIsNoContainer DEF Inspect, TypeOK, Containers, Configs, Ids, Outcomes, CallPc, engine, update, report, world, Generations, Present
<1>9. ASSUME PullImage PROVE Generations'
  BY <1>9, UpdateConstants, GoneIsNoContainer DEF PullImage, TypeOK, Containers, Configs, Ids, Outcomes, CallPc, engine, update, report, world, Generations, Present
<1>10. ASSUME InspectImageKeeps PROVE Generations'
  BY <1>10, UpdateConstants, GoneIsNoContainer DEF InspectImageKeeps, Ends, Resolved, TypeOK, Containers, Configs, Ids, Outcomes, CallPc, engine, update, report, world, Generations, Present
<1>11. ASSUME InspectImage PROVE Generations'
  BY <1>11, UpdateConstants, GoneIsNoContainer DEF InspectImage, Resolved, TypeOK, Containers, Configs, Ids, Outcomes, CallPc, engine, update, report, world, Generations, Present
<1>12. ASSUME NEW o \in {"ok", "lost"}, Stop(o) PROVE Generations'
  BY <1>12, UpdateConstants, GoneIsNoContainer DEF Stop, Answer, SetState, TypeOK, Containers, Configs, Ids, Outcomes, CallPc, engine, update, report, world, Generations, Present
<1>13. ASSUME NEW o \in {"ok", "lost"}, Remove(o) PROVE Generations'
  BY <1>13, UpdateConstants, GoneIsNoContainer DEF Remove, Answer, TypeOK, Containers, Configs, Ids, Outcomes, CallPc, engine, update, report, world, Generations, Present
<1>14. ASSUME NEW o \in {"ok", "lost"}, Create(o) PROVE Generations'
  BY <1>14, UpdateConstants, GoneIsNoContainer DEF Create, Answer, MakeContainer, CreateFrom, TypeOK, Containers, Configs, Ids, Outcomes, CallPc, engine, update, report, world, Generations, Present
<1>15. ASSUME NEW o \in {"ok", "lost"}, Start(o) PROVE Generations'
  BY <1>15, UpdateConstants, GoneIsNoContainer DEF Start, Answer, SetState, TypeOK, Containers, Configs, Ids, Outcomes, CallPc, engine, update, report, world, Generations, Present
<1>16. ASSUME VerifyGood PROVE Generations'
  BY <1>16, UpdateConstants, GoneIsNoContainer DEF VerifyGood, TypeOK, Containers, Configs, Ids, Outcomes, CallPc, engine, update, report, world, Generations, Present
<1>17. ASSUME VerifyOther PROVE Generations'
  BY <1>17, UpdateConstants, GoneIsNoContainer DEF VerifyOther, TypeOK, Containers, Configs, Ids, Outcomes, CallPc, engine, update, report, world, Generations, Present
<1>18. ASSUME VerifySkipped PROVE Generations'
  BY <1>18, UpdateConstants, GoneIsNoContainer DEF VerifySkipped, TypeOK, Containers, Configs, Ids, Outcomes, CallPc, engine, update, report, world, Generations, Present
<1>19. ASSUME Finish PROVE Generations'
  BY <1>19, UpdateConstants, GoneIsNoContainer DEF Finish, Ends, Dangling, TypeOK, Containers, Configs, Ids, Outcomes, CallPc, engine, update, report, world, Generations, Present
<1>20. ASSUME NEW n \in Names, NEW a \in {"start", "stop", "restart", "pause", "unpause", "kill"}, ContainerAction(n, a) PROVE Generations'
  BY <1>20, UpdateConstants, GoneIsNoContainer DEF ContainerAction, ActionEffect, SetState, Use, Meanwhile, TypeOK, Containers, Configs, Ids, Outcomes, CallPc, engine, update, report, world, Generations, Present
<1>21. ASSUME NEW n \in Names, RemoveContainer(n) PROVE Generations'
  BY <1>21, UpdateConstants, GoneIsNoContainer DEF RemoveContainer, Use, Meanwhile, TypeOK, Containers, Configs, Ids, Outcomes, CallPc, engine, update, report, world, Generations, Present
<1>22. ASSUME NEW n \in Names, ComposeUp(n) PROVE Generations'
  BY <1>22, UpdateConstants, GoneIsNoContainer DEF ComposeUp, MakeContainer, Use, Meanwhile, TypeOK, Containers, Configs, Ids, Outcomes, CallPc, engine, update, report, world, Generations, Present
<1>23. ASSUME ImagesPull PROVE Generations'
  BY <1>23, UpdateConstants, GoneIsNoContainer DEF ImagesPull, Use, Meanwhile, TypeOK, Containers, Configs, Ids, Outcomes, CallPc, engine, update, report, world, Generations, Present
<1>24. ASSUME NEW mode \in {"dangling", "unused"}, ImagesPrune(mode) PROVE Generations'
  BY <1>24, UpdateConstants, GoneIsNoContainer DEF ImagesPrune, Use, Meanwhile, Dangling, TypeOK, Containers, Configs, Ids, Outcomes, CallPc, engine, update, report, world, Generations, Present
<1>25. ASSUME NEW i \in Images, ImagesRemove(i) PROVE Generations'
  BY <1>25, UpdateConstants, GoneIsNoContainer DEF ImagesRemove, Use, Meanwhile, TypeOK, Containers, Configs, Ids, Outcomes, CallPc, engine, update, report, world, Generations, Present
<1>26. ASSUME NEW i \in Images, Push(i) PROVE Generations'
  BY <1>26, UpdateConstants, GoneIsNoContainer DEF Push, Use, Meanwhile, TypeOK, Containers, Configs, Ids, Outcomes, CallPc, engine, update, report, world, Generations, Present
<1>27. ASSUME UNCHANGED vars PROVE Generations'
  BY <1>27 DEF vars, TypeOK, Containers, Configs, Ids, Outcomes, CallPc, engine, update, report, world, Generations, Present
<1> QED
  BY <1>1, <1>2, <1>3, <1>4, <1>5, <1>6, <1>7, <1>8, <1>9, <1>10, <1>11, <1>12, <1>13, <1>14, <1>15, <1>16, <1>17, <1>18, <1>19, <1>20, <1>21, <1>22, <1>23, <1>24, <1>25, <1>26, <1>27 DEF Next, UpdateStep, HostStep

(* Only the user removes a container between two calls of an update. *)
LEMMA OursOrRemovedStep ==
    ASSUME TypeOK, OursOrRemoved, [Next]_vars
    PROVE  OursOrRemoved'
<1>1. ASSUME NEW S \in SUBSET Names, NEW c \in Configs, ScanTargets(S, c) PROVE OursOrRemoved'
  BY <1>1, UpdateConstants, GoneIsNoContainer DEF ScanTargets, Outdated, TypeOK, Containers, Configs, Ids, Outcomes, CallPc, engine, update, report, world, OursOrRemoved, Present
<1>2. ASSUME NEW n \in Names, NEW f \in BOOLEAN, NEW c \in Configs, NEW g \in 0..gens[n], UpdateRequest([name |-> n, gen |-> g], f, c) PROVE OursOrRemoved'
  BY <1>2, UpdateConstants, GoneIsNoContainer DEF UpdateRequest, TypeOK, Containers, Configs, Ids, Outcomes, CallPc, engine, update, report, world, OursOrRemoved, Present
<1>3. ASSUME Cancel PROVE OursOrRemoved'
  BY <1>3, UpdateConstants, GoneIsNoContainer DEF Cancel, TypeOK, Containers, Configs, Ids, Outcomes, CallPc, engine, update, report, world, OursOrRemoved, Present
<1>4. ASSUME NEW id \in todo, NextTarget(id) PROVE OursOrRemoved'
  BY <1>4, UpdateConstants, GoneIsNoContainer DEF NextTarget, TypeOK, Containers, Configs, Ids, Outcomes, CallPc, engine, update, report, world, OursOrRemoved, Present
<1>5. ASSUME UpdatesEnd PROVE OursOrRemoved'
  BY <1>5, UpdateConstants, GoneIsNoContainer DEF UpdatesEnd, TypeOK, Containers, Configs, Ids, Outcomes, CallPc, engine, update, report, world, OursOrRemoved, Present
<1>6. ASSUME CallFails PROVE OursOrRemoved'
  BY <1>6, UpdateConstants, GoneIsNoContainer DEF CallFails, TypeOK, Containers, Configs, Ids, Outcomes, CallPc, engine, update, report, world, OursOrRemoved, Present
<1>7. ASSUME InspectPaused PROVE OursOrRemoved'
  BY <1>7, UpdateConstants, GoneIsNoContainer DEF InspectPaused, Ends, TypeOK, Containers, Configs, Ids, Outcomes, CallPc, engine, update, report, world, OursOrRemoved, Present
<1>8. ASSUME Inspect PROVE OursOrRemoved'
  BY <1>8, UpdateConstants, GoneIsNoContainer DEF Inspect, TypeOK, Containers, Configs, Ids, Outcomes, CallPc, engine, update, report, world, OursOrRemoved, Present
<1>9. ASSUME PullImage PROVE OursOrRemoved'
  BY <1>9, UpdateConstants, GoneIsNoContainer DEF PullImage, TypeOK, Containers, Configs, Ids, Outcomes, CallPc, engine, update, report, world, OursOrRemoved, Present
<1>10. ASSUME InspectImageKeeps PROVE OursOrRemoved'
  BY <1>10, UpdateConstants, GoneIsNoContainer DEF InspectImageKeeps, Ends, Resolved, TypeOK, Containers, Configs, Ids, Outcomes, CallPc, engine, update, report, world, OursOrRemoved, Present
<1>11. ASSUME InspectImage PROVE OursOrRemoved'
  BY <1>11, UpdateConstants, GoneIsNoContainer DEF InspectImage, Resolved, TypeOK, Containers, Configs, Ids, Outcomes, CallPc, engine, update, report, world, OursOrRemoved, Present
<1>12. ASSUME NEW o \in {"ok", "lost"}, Stop(o) PROVE OursOrRemoved'
  BY <1>12, UpdateConstants, GoneIsNoContainer DEF Stop, Answer, SetState, TypeOK, Containers, Configs, Ids, Outcomes, CallPc, engine, update, report, world, OursOrRemoved, Present
<1>13. ASSUME NEW o \in {"ok", "lost"}, Remove(o) PROVE OursOrRemoved'
  BY <1>13, UpdateConstants, GoneIsNoContainer DEF Remove, Answer, TypeOK, Containers, Configs, Ids, Outcomes, CallPc, engine, update, report, world, OursOrRemoved, Present
<1>14. ASSUME NEW o \in {"ok", "lost"}, Create(o) PROVE OursOrRemoved'
  BY <1>14, UpdateConstants, GoneIsNoContainer DEF Create, Answer, MakeContainer, CreateFrom, TypeOK, Containers, Configs, Ids, Outcomes, CallPc, engine, update, report, world, OursOrRemoved, Present
<1>15. ASSUME NEW o \in {"ok", "lost"}, Start(o) PROVE OursOrRemoved'
  BY <1>15, UpdateConstants, GoneIsNoContainer DEF Start, Answer, SetState, TypeOK, Containers, Configs, Ids, Outcomes, CallPc, engine, update, report, world, OursOrRemoved, Present
<1>16. ASSUME VerifyGood PROVE OursOrRemoved'
  BY <1>16, UpdateConstants, GoneIsNoContainer DEF VerifyGood, TypeOK, Containers, Configs, Ids, Outcomes, CallPc, engine, update, report, world, OursOrRemoved, Present
<1>17. ASSUME VerifyOther PROVE OursOrRemoved'
  BY <1>17, UpdateConstants, GoneIsNoContainer DEF VerifyOther, TypeOK, Containers, Configs, Ids, Outcomes, CallPc, engine, update, report, world, OursOrRemoved, Present
<1>18. ASSUME VerifySkipped PROVE OursOrRemoved'
  BY <1>18, UpdateConstants, GoneIsNoContainer DEF VerifySkipped, TypeOK, Containers, Configs, Ids, Outcomes, CallPc, engine, update, report, world, OursOrRemoved, Present
<1>19. ASSUME Finish PROVE OursOrRemoved'
  BY <1>19, UpdateConstants, GoneIsNoContainer DEF Finish, Ends, Dangling, TypeOK, Containers, Configs, Ids, Outcomes, CallPc, engine, update, report, world, OursOrRemoved, Present
<1>20. ASSUME NEW n \in Names, NEW a \in {"start", "stop", "restart", "pause", "unpause", "kill"}, ContainerAction(n, a) PROVE OursOrRemoved'
  BY <1>20, UpdateConstants, GoneIsNoContainer DEF ContainerAction, ActionEffect, SetState, Use, Meanwhile, TypeOK, Containers, Configs, Ids, Outcomes, CallPc, engine, update, report, world, OursOrRemoved, Present
<1>21. ASSUME NEW n \in Names, RemoveContainer(n) PROVE OursOrRemoved'
  BY <1>21, UpdateConstants, GoneIsNoContainer DEF RemoveContainer, Use, Meanwhile, TypeOK, Containers, Configs, Ids, Outcomes, CallPc, engine, update, report, world, OursOrRemoved, Present
<1>22. ASSUME NEW n \in Names, ComposeUp(n) PROVE OursOrRemoved'
  <2>1. box'[n] \in Containers
    BY <1>22, Fresh DEF ComposeUp, MakeContainer, TypeOK
  <2> QED
    BY <2>1, <1>22, UpdateConstants, GoneIsNoContainer DEF ComposeUp, MakeContainer, Use, Meanwhile, TypeOK, Containers, Configs, Ids, Outcomes, CallPc, engine, update, report, world, OursOrRemoved, Present
<1>23. ASSUME ImagesPull PROVE OursOrRemoved'
  BY <1>23, UpdateConstants, GoneIsNoContainer DEF ImagesPull, Use, Meanwhile, TypeOK, Containers, Configs, Ids, Outcomes, CallPc, engine, update, report, world, OursOrRemoved, Present
<1>24. ASSUME NEW mode \in {"dangling", "unused"}, ImagesPrune(mode) PROVE OursOrRemoved'
  BY <1>24, UpdateConstants, GoneIsNoContainer DEF ImagesPrune, Use, Meanwhile, Dangling, TypeOK, Containers, Configs, Ids, Outcomes, CallPc, engine, update, report, world, OursOrRemoved, Present
<1>25. ASSUME NEW i \in Images, ImagesRemove(i) PROVE OursOrRemoved'
  BY <1>25, UpdateConstants, GoneIsNoContainer DEF ImagesRemove, Use, Meanwhile, TypeOK, Containers, Configs, Ids, Outcomes, CallPc, engine, update, report, world, OursOrRemoved, Present
<1>26. ASSUME NEW i \in Images, Push(i) PROVE OursOrRemoved'
  BY <1>26, UpdateConstants, GoneIsNoContainer DEF Push, Use, Meanwhile, TypeOK, Containers, Configs, Ids, Outcomes, CallPc, engine, update, report, world, OursOrRemoved, Present
<1>27. ASSUME UNCHANGED vars PROVE OursOrRemoved'
  BY <1>27 DEF vars, TypeOK, Containers, Configs, Ids, Outcomes, CallPc, engine, update, report, world, OursOrRemoved, Present
<1> QED
  BY <1>1, <1>2, <1>3, <1>4, <1>5, <1>6, <1>7, <1>8, <1>9, <1>10, <1>11, <1>12, <1>13, <1>14, <1>15, <1>16, <1>17, <1>18, <1>19, <1>20, <1>21, <1>22, <1>23, <1>24, <1>25, <1>26, <1>27 DEF Next, UpdateStep, HostStep

(* What an update has decided after the pull is not changed until it ends. *)
LEMMA DecidedStep ==
    ASSUME TypeOK, Decided, [Next]_vars
    PROVE  Decided'
<1>1. ASSUME NEW S \in SUBSET Names, NEW c \in Configs, ScanTargets(S, c) PROVE Decided'
  BY <1>1, UpdateConstants, GoneIsNoContainer DEF ScanTargets, Outdated, TypeOK, Containers, Configs, Ids, Outcomes, CallPc, engine, update, report, world, Decided, WantsStart, Present
<1>2. ASSUME NEW n \in Names, NEW f \in BOOLEAN, NEW c \in Configs, NEW g \in 0..gens[n], UpdateRequest([name |-> n, gen |-> g], f, c) PROVE Decided'
  BY <1>2, UpdateConstants, GoneIsNoContainer DEF UpdateRequest, TypeOK, Containers, Configs, Ids, Outcomes, CallPc, engine, update, report, world, Decided, WantsStart, Present
<1>3. ASSUME Cancel PROVE Decided'
  BY <1>3, UpdateConstants, GoneIsNoContainer DEF Cancel, TypeOK, Containers, Configs, Ids, Outcomes, CallPc, engine, update, report, world, Decided, WantsStart, Present
<1>4. ASSUME NEW id \in todo, NextTarget(id) PROVE Decided'
  BY <1>4, UpdateConstants, GoneIsNoContainer DEF NextTarget, TypeOK, Containers, Configs, Ids, Outcomes, CallPc, engine, update, report, world, Decided, WantsStart, Present
<1>5. ASSUME UpdatesEnd PROVE Decided'
  BY <1>5, UpdateConstants, GoneIsNoContainer DEF UpdatesEnd, TypeOK, Containers, Configs, Ids, Outcomes, CallPc, engine, update, report, world, Decided, WantsStart, Present
<1>6. ASSUME CallFails PROVE Decided'
  BY <1>6, UpdateConstants, GoneIsNoContainer DEF CallFails, TypeOK, Containers, Configs, Ids, Outcomes, CallPc, engine, update, report, world, Decided, WantsStart, Present
<1>7. ASSUME InspectPaused PROVE Decided'
  BY <1>7, UpdateConstants, GoneIsNoContainer DEF InspectPaused, Ends, TypeOK, Containers, Configs, Ids, Outcomes, CallPc, engine, update, report, world, Decided, WantsStart, Present
<1>8. ASSUME Inspect PROVE Decided'
  BY <1>8, UpdateConstants, GoneIsNoContainer DEF Inspect, TypeOK, Containers, Configs, Ids, Outcomes, CallPc, engine, update, report, world, Decided, WantsStart, Present
<1>9. ASSUME PullImage PROVE Decided'
  BY <1>9, UpdateConstants, GoneIsNoContainer DEF PullImage, TypeOK, Containers, Configs, Ids, Outcomes, CallPc, engine, update, report, world, Decided, WantsStart, Present
<1>10. ASSUME InspectImageKeeps PROVE Decided'
  BY <1>10, UpdateConstants, GoneIsNoContainer DEF InspectImageKeeps, Ends, Resolved, TypeOK, Containers, Configs, Ids, Outcomes, CallPc, engine, update, report, world, Decided, WantsStart, Present
<1>11. ASSUME InspectImage PROVE Decided'
  BY <1>11, UpdateConstants, GoneIsNoContainer DEF InspectImage, Resolved, TypeOK, Containers, Configs, Ids, Outcomes, CallPc, engine, update, report, world, Decided, WantsStart, Present
<1>12. ASSUME NEW o \in {"ok", "lost"}, Stop(o) PROVE Decided'
  BY <1>12, UpdateConstants, GoneIsNoContainer DEF Stop, Answer, SetState, TypeOK, Containers, Configs, Ids, Outcomes, CallPc, engine, update, report, world, Decided, WantsStart, Present
<1>13. ASSUME NEW o \in {"ok", "lost"}, Remove(o) PROVE Decided'
  BY <1>13, UpdateConstants, GoneIsNoContainer DEF Remove, Answer, TypeOK, Containers, Configs, Ids, Outcomes, CallPc, engine, update, report, world, Decided, WantsStart, Present
<1>14. ASSUME NEW o \in {"ok", "lost"}, Create(o) PROVE Decided'
  BY <1>14, UpdateConstants, GoneIsNoContainer DEF Create, Answer, MakeContainer, CreateFrom, TypeOK, Containers, Configs, Ids, Outcomes, CallPc, engine, update, report, world, Decided, WantsStart, Present
<1>15. ASSUME NEW o \in {"ok", "lost"}, Start(o) PROVE Decided'
  BY <1>15, UpdateConstants, GoneIsNoContainer DEF Start, Answer, SetState, TypeOK, Containers, Configs, Ids, Outcomes, CallPc, engine, update, report, world, Decided, WantsStart, Present
<1>16. ASSUME VerifyGood PROVE Decided'
  BY <1>16, UpdateConstants, GoneIsNoContainer DEF VerifyGood, TypeOK, Containers, Configs, Ids, Outcomes, CallPc, engine, update, report, world, Decided, WantsStart, Present
<1>17. ASSUME VerifyOther PROVE Decided'
  BY <1>17, UpdateConstants, GoneIsNoContainer DEF VerifyOther, TypeOK, Containers, Configs, Ids, Outcomes, CallPc, engine, update, report, world, Decided, WantsStart, Present
<1>18. ASSUME VerifySkipped PROVE Decided'
  BY <1>18, UpdateConstants, GoneIsNoContainer DEF VerifySkipped, TypeOK, Containers, Configs, Ids, Outcomes, CallPc, engine, update, report, world, Decided, WantsStart, Present
<1>19. ASSUME Finish PROVE Decided'
  BY <1>19, UpdateConstants, GoneIsNoContainer DEF Finish, Ends, Dangling, TypeOK, Containers, Configs, Ids, Outcomes, CallPc, engine, update, report, world, Decided, WantsStart, Present
<1>20. ASSUME NEW n \in Names, NEW a \in {"start", "stop", "restart", "pause", "unpause", "kill"}, ContainerAction(n, a) PROVE Decided'
  BY <1>20, UpdateConstants, GoneIsNoContainer DEF ContainerAction, ActionEffect, SetState, Use, Meanwhile, TypeOK, Containers, Configs, Ids, Outcomes, CallPc, engine, update, report, world, Decided, WantsStart, Present
<1>21. ASSUME NEW n \in Names, RemoveContainer(n) PROVE Decided'
  BY <1>21, UpdateConstants, GoneIsNoContainer DEF RemoveContainer, Use, Meanwhile, TypeOK, Containers, Configs, Ids, Outcomes, CallPc, engine, update, report, world, Decided, WantsStart, Present
<1>22. ASSUME NEW n \in Names, ComposeUp(n) PROVE Decided'
  BY <1>22, UpdateConstants, GoneIsNoContainer DEF ComposeUp, MakeContainer, Use, Meanwhile, TypeOK, Containers, Configs, Ids, Outcomes, CallPc, engine, update, report, world, Decided, WantsStart, Present
<1>23. ASSUME ImagesPull PROVE Decided'
  BY <1>23, UpdateConstants, GoneIsNoContainer DEF ImagesPull, Use, Meanwhile, TypeOK, Containers, Configs, Ids, Outcomes, CallPc, engine, update, report, world, Decided, WantsStart, Present
<1>24. ASSUME NEW mode \in {"dangling", "unused"}, ImagesPrune(mode) PROVE Decided'
  BY <1>24, UpdateConstants, GoneIsNoContainer DEF ImagesPrune, Use, Meanwhile, Dangling, TypeOK, Containers, Configs, Ids, Outcomes, CallPc, engine, update, report, world, Decided, WantsStart, Present
<1>25. ASSUME NEW i \in Images, ImagesRemove(i) PROVE Decided'
  BY <1>25, UpdateConstants, GoneIsNoContainer DEF ImagesRemove, Use, Meanwhile, TypeOK, Containers, Configs, Ids, Outcomes, CallPc, engine, update, report, world, Decided, WantsStart, Present
<1>26. ASSUME NEW i \in Images, Push(i) PROVE Decided'
  BY <1>26, UpdateConstants, GoneIsNoContainer DEF Push, Use, Meanwhile, TypeOK, Containers, Configs, Ids, Outcomes, CallPc, engine, update, report, world, Decided, WantsStart, Present
<1>27. ASSUME UNCHANGED vars PROVE Decided'
  BY <1>27 DEF vars, TypeOK, Containers, Configs, Ids, Outcomes, CallPc, engine, update, report, world, Decided, WantsStart, Present
<1> QED
  BY <1>1, <1>2, <1>3, <1>4, <1>5, <1>6, <1>7, <1>8, <1>9, <1>10, <1>11, <1>12, <1>13, <1>14, <1>15, <1>16, <1>17, <1>18, <1>19, <1>20, <1>21, <1>22, <1>23, <1>24, <1>25, <1>26, <1>27 DEF Next, UpdateStep, HostStep

(* The new container stays as the update has made it unless somebody acts on it. *)
LEMMA MadeStep ==
    ASSUME TypeOK, Generations, Decided, Made, [Next]_vars
    PROVE  Made'
<1>1. ASSUME NEW S \in SUBSET Names, NEW c \in Configs, ScanTargets(S, c) PROVE Made'
  BY <1>1, UpdateConstants, GoneIsNoContainer DEF ScanTargets, Outdated, TypeOK, Containers, Configs, Ids, Outcomes, CallPc, engine, update, report, world, Generations, Decided, Made, Present
<1>2. ASSUME NEW n \in Names, NEW f \in BOOLEAN, NEW c \in Configs, NEW g \in 0..gens[n], UpdateRequest([name |-> n, gen |-> g], f, c) PROVE Made'
  BY <1>2, UpdateConstants, GoneIsNoContainer DEF UpdateRequest, TypeOK, Containers, Configs, Ids, Outcomes, CallPc, engine, update, report, world, Generations, Decided, Made, Present
<1>3. ASSUME Cancel PROVE Made'
  BY <1>3, UpdateConstants, GoneIsNoContainer DEF Cancel, TypeOK, Containers, Configs, Ids, Outcomes, CallPc, engine, update, report, world, Generations, Decided, Made, Present
<1>4. ASSUME NEW id \in todo, NextTarget(id) PROVE Made'
  BY <1>4, UpdateConstants, GoneIsNoContainer DEF NextTarget, TypeOK, Containers, Configs, Ids, Outcomes, CallPc, engine, update, report, world, Generations, Decided, Made, Present
<1>5. ASSUME UpdatesEnd PROVE Made'
  BY <1>5, UpdateConstants, GoneIsNoContainer DEF UpdatesEnd, TypeOK, Containers, Configs, Ids, Outcomes, CallPc, engine, update, report, world, Generations, Decided, Made, Present
<1>6. ASSUME CallFails PROVE Made'
  BY <1>6, UpdateConstants, GoneIsNoContainer DEF CallFails, TypeOK, Containers, Configs, Ids, Outcomes, CallPc, engine, update, report, world, Generations, Decided, Made, Present
<1>7. ASSUME InspectPaused PROVE Made'
  BY <1>7, UpdateConstants, GoneIsNoContainer DEF InspectPaused, Ends, TypeOK, Containers, Configs, Ids, Outcomes, CallPc, engine, update, report, world, Generations, Decided, Made, Present
<1>8. ASSUME Inspect PROVE Made'
  BY <1>8, UpdateConstants, GoneIsNoContainer DEF Inspect, TypeOK, Containers, Configs, Ids, Outcomes, CallPc, engine, update, report, world, Generations, Decided, Made, Present
<1>9. ASSUME PullImage PROVE Made'
  BY <1>9, UpdateConstants, GoneIsNoContainer DEF PullImage, TypeOK, Containers, Configs, Ids, Outcomes, CallPc, engine, update, report, world, Generations, Decided, Made, Present
<1>10. ASSUME InspectImageKeeps PROVE Made'
  BY <1>10, UpdateConstants, GoneIsNoContainer DEF InspectImageKeeps, Ends, Resolved, TypeOK, Containers, Configs, Ids, Outcomes, CallPc, engine, update, report, world, Generations, Decided, Made, Present
<1>11. ASSUME InspectImage PROVE Made'
  BY <1>11, UpdateConstants, GoneIsNoContainer DEF InspectImage, Resolved, TypeOK, Containers, Configs, Ids, Outcomes, CallPc, engine, update, report, world, Generations, Decided, Made, Present
<1>12. ASSUME NEW o \in {"ok", "lost"}, Stop(o) PROVE Made'
  BY <1>12, UpdateConstants, GoneIsNoContainer DEF Stop, Answer, SetState, TypeOK, Containers, Configs, Ids, Outcomes, CallPc, engine, update, report, world, Generations, Decided, Made, Present
<1>13. ASSUME NEW o \in {"ok", "lost"}, Remove(o) PROVE Made'
  BY <1>13, UpdateConstants, GoneIsNoContainer DEF Remove, Answer, TypeOK, Containers, Configs, Ids, Outcomes, CallPc, engine, update, report, world, Generations, Decided, Made, Present
<1>14. ASSUME NEW o \in {"ok", "lost"}, Create(o) PROVE Made'
  BY <1>14, UpdateConstants, GoneIsNoContainer DEF Create, Answer, MakeContainer, CreateFrom, TypeOK, Containers, Configs, Ids, Outcomes, CallPc, engine, update, report, world, Generations, Decided, Made, Present
<1>15. ASSUME NEW o \in {"ok", "lost"}, Start(o) PROVE Made'
  <2>1. box' = [box EXCEPT ![target.name].state = "running"] /\ box[target.name] \in Containers
    BY <1>15 DEF Start, SetState, TypeOK, Present, Ids
  <2>2. box'[target.name].state = "running"
    BY <2>1 DEF TypeOK, Containers, Ids
  <2>3. start /\ pc' # "start" /\ pc' # "finish" /\ UNCHANGED <<start, target>>
    BY <1>15 DEF Start, Answer, update, Decided, Made, TypeOK
  <2> QED
    BY <2>2, <2>3 DEF Made
<1>16. ASSUME VerifyGood PROVE Made'
  BY <1>16, UpdateConstants, GoneIsNoContainer DEF VerifyGood, TypeOK, Containers, Configs, Ids, Outcomes, CallPc, engine, update, report, world, Generations, Decided, Made, Present
<1>17. ASSUME VerifyOther PROVE Made'
  BY <1>17, UpdateConstants, GoneIsNoContainer DEF VerifyOther, TypeOK, Containers, Configs, Ids, Outcomes, CallPc, engine, update, report, world, Generations, Decided, Made, Present
<1>18. ASSUME VerifySkipped PROVE Made'
  BY <1>18, UpdateConstants, GoneIsNoContainer DEF VerifySkipped, TypeOK, Containers, Configs, Ids, Outcomes, CallPc, engine, update, report, world, Generations, Decided, Made, Present
<1>19. ASSUME Finish PROVE Made'
  BY <1>19, UpdateConstants, GoneIsNoContainer DEF Finish, Ends, Dangling, TypeOK, Containers, Configs, Ids, Outcomes, CallPc, engine, update, report, world, Generations, Decided, Made, Present
<1>20. ASSUME NEW n \in Names, NEW a \in {"start", "stop", "restart", "pause", "unpause", "kill"}, ContainerAction(n, a) PROVE Made'
  BY <1>20, UpdateConstants, GoneIsNoContainer DEF ContainerAction, ActionEffect, SetState, Use, Meanwhile, TypeOK, Containers, Configs, Ids, Outcomes, CallPc, engine, update, report, world, Generations, Decided, Made, Present
<1>21. ASSUME NEW n \in Names, RemoveContainer(n) PROVE Made'
  BY <1>21, UpdateConstants, GoneIsNoContainer DEF RemoveContainer, Use, Meanwhile, TypeOK, Containers, Configs, Ids, Outcomes, CallPc, engine, update, report, world, Generations, Decided, Made, Present
<1>22. ASSUME NEW n \in Names, ComposeUp(n) PROVE Made'
  BY <1>22, UpdateConstants, GoneIsNoContainer DEF ComposeUp, MakeContainer, Use, Meanwhile, TypeOK, Containers, Configs, Ids, Outcomes, CallPc, engine, update, report, world, Generations, Decided, Made, Present
<1>23. ASSUME ImagesPull PROVE Made'
  BY <1>23, UpdateConstants, GoneIsNoContainer DEF ImagesPull, Use, Meanwhile, TypeOK, Containers, Configs, Ids, Outcomes, CallPc, engine, update, report, world, Generations, Decided, Made, Present
<1>24. ASSUME NEW mode \in {"dangling", "unused"}, ImagesPrune(mode) PROVE Made'
  BY <1>24, UpdateConstants, GoneIsNoContainer DEF ImagesPrune, Use, Meanwhile, Dangling, TypeOK, Containers, Configs, Ids, Outcomes, CallPc, engine, update, report, world, Generations, Decided, Made, Present
<1>25. ASSUME NEW i \in Images, ImagesRemove(i) PROVE Made'
  BY <1>25, UpdateConstants, GoneIsNoContainer DEF ImagesRemove, Use, Meanwhile, TypeOK, Containers, Configs, Ids, Outcomes, CallPc, engine, update, report, world, Generations, Decided, Made, Present
<1>26. ASSUME NEW i \in Images, Push(i) PROVE Made'
  BY <1>26, UpdateConstants, GoneIsNoContainer DEF Push, Use, Meanwhile, TypeOK, Containers, Configs, Ids, Outcomes, CallPc, engine, update, report, world, Generations, Decided, Made, Present
<1>27. ASSUME UNCHANGED vars PROVE Made'
  BY <1>27 DEF vars, TypeOK, Containers, Configs, Ids, Outcomes, CallPc, engine, update, report, world, Generations, Decided, Made, Present
<1> QED
  BY <1>1, <1>2, <1>3, <1>4, <1>5, <1>6, <1>7, <1>8, <1>9, <1>10, <1>11, <1>12, <1>13, <1>14, <1>15, <1>16, <1>17, <1>18, <1>19, <1>20, <1>21, <1>22, <1>23, <1>24, <1>25, <1>26, <1>27 DEF Next, UpdateStep, HostStep

(* No step loses a container without an error. *)
LEMMA LossStep ==
    ASSUME TypeOK, OursOrRemoved, LossReported, [Next]_vars
    PROVE  LossReported'
<1>1. ASSUME NEW S \in SUBSET Names, NEW c \in Configs, ScanTargets(S, c) PROVE LossReported'
  BY <1>1, UpdateConstants, GoneIsNoContainer DEF ScanTargets, Outdated, TypeOK, Containers, Configs, Ids, Outcomes, CallPc, engine, update, report, world, OursOrRemoved, LossReported, InHand, Present
<1>2. ASSUME NEW n \in Names, NEW f \in BOOLEAN, NEW c \in Configs, NEW g \in 0..gens[n], UpdateRequest([name |-> n, gen |-> g], f, c) PROVE LossReported'
  BY <1>2, UpdateConstants, GoneIsNoContainer DEF UpdateRequest, TypeOK, Containers, Configs, Ids, Outcomes, CallPc, engine, update, report, world, OursOrRemoved, LossReported, InHand, Present
<1>3. ASSUME Cancel PROVE LossReported'
  BY <1>3, UpdateConstants, GoneIsNoContainer DEF Cancel, TypeOK, Containers, Configs, Ids, Outcomes, CallPc, engine, update, report, world, OursOrRemoved, LossReported, InHand, Present
<1>4. ASSUME NEW id \in todo, NextTarget(id) PROVE LossReported'
  BY <1>4, UpdateConstants, GoneIsNoContainer DEF NextTarget, TypeOK, Containers, Configs, Ids, Outcomes, CallPc, engine, update, report, world, OursOrRemoved, LossReported, InHand, Present
<1>5. ASSUME UpdatesEnd PROVE LossReported'
  BY <1>5, UpdateConstants, GoneIsNoContainer DEF UpdatesEnd, TypeOK, Containers, Configs, Ids, Outcomes, CallPc, engine, update, report, world, OursOrRemoved, LossReported, InHand, Present
<1>6. ASSUME CallFails PROVE LossReported'
  BY <1>6, UpdateConstants, GoneIsNoContainer DEF CallFails, TypeOK, Containers, Configs, Ids, Outcomes, CallPc, engine, update, report, world, OursOrRemoved, LossReported, InHand, Present
<1>7. ASSUME InspectPaused PROVE LossReported'
  BY <1>7, UpdateConstants, GoneIsNoContainer DEF InspectPaused, Ends, TypeOK, Containers, Configs, Ids, Outcomes, CallPc, engine, update, report, world, OursOrRemoved, LossReported, InHand, Present
<1>8. ASSUME Inspect PROVE LossReported'
  BY <1>8, UpdateConstants, GoneIsNoContainer DEF Inspect, TypeOK, Containers, Configs, Ids, Outcomes, CallPc, engine, update, report, world, OursOrRemoved, LossReported, InHand, Present
<1>9. ASSUME PullImage PROVE LossReported'
  BY <1>9, UpdateConstants, GoneIsNoContainer DEF PullImage, TypeOK, Containers, Configs, Ids, Outcomes, CallPc, engine, update, report, world, OursOrRemoved, LossReported, InHand, Present
<1>10. ASSUME InspectImageKeeps PROVE LossReported'
  BY <1>10, UpdateConstants, GoneIsNoContainer DEF InspectImageKeeps, Ends, Resolved, TypeOK, Containers, Configs, Ids, Outcomes, CallPc, engine, update, report, world, OursOrRemoved, LossReported, InHand, Present
<1>11. ASSUME InspectImage PROVE LossReported'
  BY <1>11, UpdateConstants, GoneIsNoContainer DEF InspectImage, Resolved, TypeOK, Containers, Configs, Ids, Outcomes, CallPc, engine, update, report, world, OursOrRemoved, LossReported, InHand, Present
<1>12. ASSUME NEW o \in {"ok", "lost"}, Stop(o) PROVE LossReported'
  BY <1>12, UpdateConstants, GoneIsNoContainer DEF Stop, Answer, SetState, TypeOK, Containers, Configs, Ids, Outcomes, CallPc, engine, update, report, world, OursOrRemoved, LossReported, InHand, Present
<1>13. ASSUME NEW o \in {"ok", "lost"}, Remove(o) PROVE LossReported'
  BY <1>13, UpdateConstants, GoneIsNoContainer DEF Remove, Answer, TypeOK, Containers, Configs, Ids, Outcomes, CallPc, engine, update, report, world, OursOrRemoved, LossReported, InHand, Present
<1>14. ASSUME NEW o \in {"ok", "lost"}, Create(o) PROVE LossReported'
  BY <1>14, UpdateConstants, GoneIsNoContainer DEF Create, Answer, MakeContainer, CreateFrom, TypeOK, Containers, Configs, Ids, Outcomes, CallPc, engine, update, report, world, OursOrRemoved, LossReported, InHand, Present
<1>15. ASSUME NEW o \in {"ok", "lost"}, Start(o) PROVE LossReported'
  BY <1>15, UpdateConstants, GoneIsNoContainer DEF Start, Answer, SetState, TypeOK, Containers, Configs, Ids, Outcomes, CallPc, engine, update, report, world, OursOrRemoved, LossReported, InHand, Present
<1>16. ASSUME VerifyGood PROVE LossReported'
  BY <1>16, UpdateConstants, GoneIsNoContainer DEF VerifyGood, TypeOK, Containers, Configs, Ids, Outcomes, CallPc, engine, update, report, world, OursOrRemoved, LossReported, InHand, Present
<1>17. ASSUME VerifyOther PROVE LossReported'
  BY <1>17, UpdateConstants, GoneIsNoContainer DEF VerifyOther, TypeOK, Containers, Configs, Ids, Outcomes, CallPc, engine, update, report, world, OursOrRemoved, LossReported, InHand, Present
<1>18. ASSUME VerifySkipped PROVE LossReported'
  BY <1>18, UpdateConstants, GoneIsNoContainer DEF VerifySkipped, TypeOK, Containers, Configs, Ids, Outcomes, CallPc, engine, update, report, world, OursOrRemoved, LossReported, InHand, Present
<1>19. ASSUME Finish PROVE LossReported'
  BY <1>19, UpdateConstants, GoneIsNoContainer DEF Finish, Ends, Dangling, TypeOK, Containers, Configs, Ids, Outcomes, CallPc, engine, update, report, world, OursOrRemoved, LossReported, InHand, Present
<1>20. ASSUME NEW n \in Names, NEW a \in {"start", "stop", "restart", "pause", "unpause", "kill"}, ContainerAction(n, a) PROVE LossReported'
  BY <1>20, UpdateConstants, GoneIsNoContainer DEF ContainerAction, ActionEffect, SetState, Use, Meanwhile, TypeOK, Containers, Configs, Ids, Outcomes, CallPc, engine, update, report, world, OursOrRemoved, LossReported, InHand, Present
<1>21. ASSUME NEW n \in Names, RemoveContainer(n) PROVE LossReported'
  BY <1>21, UpdateConstants, GoneIsNoContainer DEF RemoveContainer, Use, Meanwhile, TypeOK, Containers, Configs, Ids, Outcomes, CallPc, engine, update, report, world, OursOrRemoved, LossReported, InHand, Present
<1>22. ASSUME NEW n \in Names, ComposeUp(n) PROVE LossReported'
  <2>1. box'[n] \in Containers
    BY <1>22, Fresh DEF ComposeUp, MakeContainer, TypeOK
  <2> QED
    BY <2>1, <1>22, UpdateConstants, GoneIsNoContainer DEF ComposeUp, MakeContainer, Use, Meanwhile, TypeOK, Containers, Configs, Ids, Outcomes, CallPc, engine, update, report, world, OursOrRemoved, LossReported, InHand, Present
<1>23. ASSUME ImagesPull PROVE LossReported'
  BY <1>23, UpdateConstants, GoneIsNoContainer DEF ImagesPull, Use, Meanwhile, TypeOK, Containers, Configs, Ids, Outcomes, CallPc, engine, update, report, world, OursOrRemoved, LossReported, InHand, Present
<1>24. ASSUME NEW mode \in {"dangling", "unused"}, ImagesPrune(mode) PROVE LossReported'
  BY <1>24, UpdateConstants, GoneIsNoContainer DEF ImagesPrune, Use, Meanwhile, Dangling, TypeOK, Containers, Configs, Ids, Outcomes, CallPc, engine, update, report, world, OursOrRemoved, LossReported, InHand, Present
<1>25. ASSUME NEW i \in Images, ImagesRemove(i) PROVE LossReported'
  BY <1>25, UpdateConstants, GoneIsNoContainer DEF ImagesRemove, Use, Meanwhile, TypeOK, Containers, Configs, Ids, Outcomes, CallPc, engine, update, report, world, OursOrRemoved, LossReported, InHand, Present
<1>26. ASSUME NEW i \in Images, Push(i) PROVE LossReported'
  BY <1>26, UpdateConstants, GoneIsNoContainer DEF Push, Use, Meanwhile, TypeOK, Containers, Configs, Ids, Outcomes, CallPc, engine, update, report, world, OursOrRemoved, LossReported, InHand, Present
<1>27. ASSUME UNCHANGED vars PROVE LossReported'
  BY <1>27 DEF vars, TypeOK, Containers, Configs, Ids, Outcomes, CallPc, engine, update, report, world, OursOrRemoved, LossReported, InHand, Present
<1> QED
  BY <1>1, <1>2, <1>3, <1>4, <1>5, <1>6, <1>7, <1>8, <1>9, <1>10, <1>11, <1>12, <1>13, <1>14, <1>15, <1>16, <1>17, <1>18, <1>19, <1>20, <1>21, <1>22, <1>23, <1>24, <1>25, <1>26, <1>27 DEF Next, UpdateStep, HostStep

(* No step makes a reported image wrong. *)
LEMMA AppliedStep ==
    ASSUME TypeOK, HandInv, AppliedIsPulled, [Next]_vars
    PROVE  AppliedIsPulled'
<1>1. ASSUME NEW S \in SUBSET Names, NEW c \in Configs, ScanTargets(S, c) PROVE AppliedIsPulled'
  BY <1>1, UpdateConstants, GoneIsNoContainer DEF ScanTargets, Outdated, TypeOK, Containers, Configs, Ids, Outcomes, CallPc, engine, update, report, world, HandInv, Generations, Decided, Made, AppliedIsPulled, Current, Present
<1>2. ASSUME NEW n \in Names, NEW f \in BOOLEAN, NEW c \in Configs, NEW g \in 0..gens[n], UpdateRequest([name |-> n, gen |-> g], f, c) PROVE AppliedIsPulled'
  BY <1>2, UpdateConstants, GoneIsNoContainer DEF UpdateRequest, TypeOK, Containers, Configs, Ids, Outcomes, CallPc, engine, update, report, world, HandInv, Generations, Decided, Made, AppliedIsPulled, Current, Present
<1>3. ASSUME Cancel PROVE AppliedIsPulled'
  BY <1>3, UpdateConstants, GoneIsNoContainer DEF Cancel, TypeOK, Containers, Configs, Ids, Outcomes, CallPc, engine, update, report, world, HandInv, Generations, Decided, Made, AppliedIsPulled, Current, Present
<1>4. ASSUME NEW id \in todo, NextTarget(id) PROVE AppliedIsPulled'
  BY <1>4, UpdateConstants, GoneIsNoContainer DEF NextTarget, TypeOK, Containers, Configs, Ids, Outcomes, CallPc, engine, update, report, world, HandInv, Generations, Decided, Made, AppliedIsPulled, Current, Present
<1>5. ASSUME UpdatesEnd PROVE AppliedIsPulled'
  BY <1>5, UpdateConstants, GoneIsNoContainer DEF UpdatesEnd, TypeOK, Containers, Configs, Ids, Outcomes, CallPc, engine, update, report, world, HandInv, Generations, Decided, Made, AppliedIsPulled, Current, Present
<1>6. ASSUME CallFails PROVE AppliedIsPulled'
  BY <1>6, UpdateConstants, GoneIsNoContainer DEF CallFails, TypeOK, Containers, Configs, Ids, Outcomes, CallPc, engine, update, report, world, HandInv, Generations, Decided, Made, AppliedIsPulled, Current, Present
<1>7. ASSUME InspectPaused PROVE AppliedIsPulled'
  BY <1>7, UpdateConstants, GoneIsNoContainer DEF InspectPaused, Ends, TypeOK, Containers, Configs, Ids, Outcomes, CallPc, engine, update, report, world, HandInv, Generations, Decided, Made, AppliedIsPulled, Current, Present
<1>8. ASSUME Inspect PROVE AppliedIsPulled'
  BY <1>8, UpdateConstants, GoneIsNoContainer DEF Inspect, TypeOK, Containers, Configs, Ids, Outcomes, CallPc, engine, update, report, world, HandInv, Generations, Decided, Made, AppliedIsPulled, Current, Present
<1>9. ASSUME PullImage PROVE AppliedIsPulled'
  BY <1>9, UpdateConstants, GoneIsNoContainer DEF PullImage, TypeOK, Containers, Configs, Ids, Outcomes, CallPc, engine, update, report, world, HandInv, Generations, Decided, Made, AppliedIsPulled, Current, Present
<1>10. ASSUME InspectImageKeeps PROVE AppliedIsPulled'
  BY <1>10, UpdateConstants, GoneIsNoContainer DEF InspectImageKeeps, Ends, Resolved, TypeOK, Containers, Configs, Ids, Outcomes, CallPc, engine, update, report, world, HandInv, Generations, Decided, Made, AppliedIsPulled, Current, Present
<1>11. ASSUME InspectImage PROVE AppliedIsPulled'
  BY <1>11, UpdateConstants, GoneIsNoContainer DEF InspectImage, Resolved, TypeOK, Containers, Configs, Ids, Outcomes, CallPc, engine, update, report, world, HandInv, Generations, Decided, Made, AppliedIsPulled, Current, Present
<1>12. ASSUME NEW o \in {"ok", "lost"}, Stop(o) PROVE AppliedIsPulled'
  BY <1>12, UpdateConstants, GoneIsNoContainer DEF Stop, Answer, SetState, TypeOK, Containers, Configs, Ids, Outcomes, CallPc, engine, update, report, world, HandInv, Generations, Decided, Made, AppliedIsPulled, Current, Present
<1>13. ASSUME NEW o \in {"ok", "lost"}, Remove(o) PROVE AppliedIsPulled'
  BY <1>13, UpdateConstants, GoneIsNoContainer DEF Remove, Answer, TypeOK, Containers, Configs, Ids, Outcomes, CallPc, engine, update, report, world, HandInv, Generations, Decided, Made, AppliedIsPulled, Current, Present
<1>14. ASSUME NEW o \in {"ok", "lost"}, Create(o) PROVE AppliedIsPulled'
  BY <1>14, UpdateConstants, GoneIsNoContainer DEF Create, Answer, MakeContainer, CreateFrom, TypeOK, Containers, Configs, Ids, Outcomes, CallPc, engine, update, report, world, HandInv, Generations, Decided, Made, AppliedIsPulled, Current, Present
<1>15. ASSUME NEW o \in {"ok", "lost"}, Start(o) PROVE AppliedIsPulled'
  BY <1>15, UpdateConstants, GoneIsNoContainer DEF Start, Answer, SetState, TypeOK, Containers, Configs, Ids, Outcomes, CallPc, engine, update, report, world, HandInv, Generations, Decided, Made, AppliedIsPulled, Current, Present
<1>16. ASSUME VerifyGood PROVE AppliedIsPulled'
  BY <1>16, UpdateConstants, GoneIsNoContainer DEF VerifyGood, TypeOK, Containers, Configs, Ids, Outcomes, CallPc, engine, update, report, world, HandInv, Generations, Decided, Made, AppliedIsPulled, Current, Present
<1>17. ASSUME VerifyOther PROVE AppliedIsPulled'
  BY <1>17, UpdateConstants, GoneIsNoContainer DEF VerifyOther, TypeOK, Containers, Configs, Ids, Outcomes, CallPc, engine, update, report, world, HandInv, Generations, Decided, Made, AppliedIsPulled, Current, Present
<1>18. ASSUME VerifySkipped PROVE AppliedIsPulled'
  BY <1>18, UpdateConstants, GoneIsNoContainer DEF VerifySkipped, TypeOK, Containers, Configs, Ids, Outcomes, CallPc, engine, update, report, world, HandInv, Generations, Decided, Made, AppliedIsPulled, Current, Present
<1>19. ASSUME Finish PROVE AppliedIsPulled'
  BY <1>19, UpdateConstants, GoneIsNoContainer DEF Finish, Ends, Dangling, TypeOK, Containers, Configs, Ids, Outcomes, CallPc, engine, update, report, world, HandInv, Generations, Decided, Made, AppliedIsPulled, Current, Present
<1>20. ASSUME NEW n \in Names, NEW a \in {"start", "stop", "restart", "pause", "unpause", "kill"}, ContainerAction(n, a) PROVE AppliedIsPulled'
  BY <1>20, UpdateConstants, GoneIsNoContainer DEF ContainerAction, ActionEffect, SetState, Use, Meanwhile, TypeOK, Containers, Configs, Ids, Outcomes, CallPc, engine, update, report, world, HandInv, Generations, Decided, Made, AppliedIsPulled, Current, Present
<1>21. ASSUME NEW n \in Names, RemoveContainer(n) PROVE AppliedIsPulled'
  BY <1>21, UpdateConstants, GoneIsNoContainer DEF RemoveContainer, Use, Meanwhile, TypeOK, Containers, Configs, Ids, Outcomes, CallPc, engine, update, report, world, HandInv, Generations, Decided, Made, AppliedIsPulled, Current, Present
<1>22. ASSUME NEW n \in Names, ComposeUp(n) PROVE AppliedIsPulled'
  BY <1>22, UpdateConstants, GoneIsNoContainer DEF ComposeUp, MakeContainer, Use, Meanwhile, TypeOK, Containers, Configs, Ids, Outcomes, CallPc, engine, update, report, world, HandInv, Generations, Decided, Made, AppliedIsPulled, Current, Present
<1>23. ASSUME ImagesPull PROVE AppliedIsPulled'
  BY <1>23, UpdateConstants, GoneIsNoContainer DEF ImagesPull, Use, Meanwhile, TypeOK, Containers, Configs, Ids, Outcomes, CallPc, engine, update, report, world, HandInv, Generations, Decided, Made, AppliedIsPulled, Current, Present
<1>24. ASSUME NEW mode \in {"dangling", "unused"}, ImagesPrune(mode) PROVE AppliedIsPulled'
  BY <1>24, UpdateConstants, GoneIsNoContainer DEF ImagesPrune, Use, Meanwhile, Dangling, TypeOK, Containers, Configs, Ids, Outcomes, CallPc, engine, update, report, world, HandInv, Generations, Decided, Made, AppliedIsPulled, Current, Present
<1>25. ASSUME NEW i \in Images, ImagesRemove(i) PROVE AppliedIsPulled'
  BY <1>25, UpdateConstants, GoneIsNoContainer DEF ImagesRemove, Use, Meanwhile, TypeOK, Containers, Configs, Ids, Outcomes, CallPc, engine, update, report, world, HandInv, Generations, Decided, Made, AppliedIsPulled, Current, Present
<1>26. ASSUME NEW i \in Images, Push(i) PROVE AppliedIsPulled'
  BY <1>26, UpdateConstants, GoneIsNoContainer DEF Push, Use, Meanwhile, TypeOK, Containers, Configs, Ids, Outcomes, CallPc, engine, update, report, world, HandInv, Generations, Decided, Made, AppliedIsPulled, Current, Present
<1>27. ASSUME UNCHANGED vars PROVE AppliedIsPulled'
  BY <1>27 DEF vars, TypeOK, Containers, Configs, Ids, Outcomes, CallPc, engine, update, report, world, HandInv, Generations, Decided, Made, AppliedIsPulled, Current, Present
<1> QED
  BY <1>1, <1>2, <1>3, <1>4, <1>5, <1>6, <1>7, <1>8, <1>9, <1>10, <1>11, <1>12, <1>13, <1>14, <1>15, <1>16, <1>17, <1>18, <1>19, <1>20, <1>21, <1>22, <1>23, <1>24, <1>25, <1>26, <1>27 DEF Next, UpdateStep, HostStep

(* No step but a user's leaves an updated container in another state. *)
LEMMA RestoredStep ==
    ASSUME TypeOK, HandInv, StateRestored, [Next]_vars
    PROVE  StateRestored'
<1>1. ASSUME NEW S \in SUBSET Names, NEW c \in Configs, ScanTargets(S, c) PROVE StateRestored'
  BY <1>1, UpdateConstants, GoneIsNoContainer DEF ScanTargets, Outdated, TypeOK, Containers, Configs, Ids, Outcomes, CallPc, engine, update, report, world, HandInv, Generations, Decided, Made, StateRestored, WantsStart, InHand, Current, Present
<1>2. ASSUME NEW n \in Names, NEW f \in BOOLEAN, NEW c \in Configs, NEW g \in 0..gens[n], UpdateRequest([name |-> n, gen |-> g], f, c) PROVE StateRestored'
  BY <1>2, UpdateConstants, GoneIsNoContainer DEF UpdateRequest, TypeOK, Containers, Configs, Ids, Outcomes, CallPc, engine, update, report, world, HandInv, Generations, Decided, Made, StateRestored, WantsStart, InHand, Current, Present
<1>3. ASSUME Cancel PROVE StateRestored'
  BY <1>3, UpdateConstants, GoneIsNoContainer DEF Cancel, TypeOK, Containers, Configs, Ids, Outcomes, CallPc, engine, update, report, world, HandInv, Generations, Decided, Made, StateRestored, WantsStart, InHand, Current, Present
<1>4. ASSUME NEW id \in todo, NextTarget(id) PROVE StateRestored'
  BY <1>4, UpdateConstants, GoneIsNoContainer DEF NextTarget, TypeOK, Containers, Configs, Ids, Outcomes, CallPc, engine, update, report, world, HandInv, Generations, Decided, Made, StateRestored, WantsStart, InHand, Current, Present
<1>5. ASSUME UpdatesEnd PROVE StateRestored'
  BY <1>5, UpdateConstants, GoneIsNoContainer DEF UpdatesEnd, TypeOK, Containers, Configs, Ids, Outcomes, CallPc, engine, update, report, world, HandInv, Generations, Decided, Made, StateRestored, WantsStart, InHand, Current, Present
<1>6. ASSUME CallFails PROVE StateRestored'
  BY <1>6, UpdateConstants, GoneIsNoContainer DEF CallFails, TypeOK, Containers, Configs, Ids, Outcomes, CallPc, engine, update, report, world, HandInv, Generations, Decided, Made, StateRestored, WantsStart, InHand, Current, Present
<1>7. ASSUME InspectPaused PROVE StateRestored'
  BY <1>7, UpdateConstants, GoneIsNoContainer DEF InspectPaused, Ends, TypeOK, Containers, Configs, Ids, Outcomes, CallPc, engine, update, report, world, HandInv, Generations, Decided, Made, StateRestored, WantsStart, InHand, Current, Present
<1>8. ASSUME Inspect PROVE StateRestored'
  BY <1>8, UpdateConstants, GoneIsNoContainer DEF Inspect, TypeOK, Containers, Configs, Ids, Outcomes, CallPc, engine, update, report, world, HandInv, Generations, Decided, Made, StateRestored, WantsStart, InHand, Current, Present
<1>9. ASSUME PullImage PROVE StateRestored'
  BY <1>9, UpdateConstants, GoneIsNoContainer DEF PullImage, TypeOK, Containers, Configs, Ids, Outcomes, CallPc, engine, update, report, world, HandInv, Generations, Decided, Made, StateRestored, WantsStart, InHand, Current, Present
<1>10. ASSUME InspectImageKeeps PROVE StateRestored'
  BY <1>10, UpdateConstants, GoneIsNoContainer DEF InspectImageKeeps, Ends, Resolved, TypeOK, Containers, Configs, Ids, Outcomes, CallPc, engine, update, report, world, HandInv, Generations, Decided, Made, StateRestored, WantsStart, InHand, Current, Present
<1>11. ASSUME InspectImage PROVE StateRestored'
  BY <1>11, UpdateConstants, GoneIsNoContainer DEF InspectImage, Resolved, TypeOK, Containers, Configs, Ids, Outcomes, CallPc, engine, update, report, world, HandInv, Generations, Decided, Made, StateRestored, WantsStart, InHand, Current, Present
<1>12. ASSUME NEW o \in {"ok", "lost"}, Stop(o) PROVE StateRestored'
  BY <1>12, UpdateConstants, GoneIsNoContainer DEF Stop, Answer, SetState, TypeOK, Containers, Configs, Ids, Outcomes, CallPc, engine, update, report, world, HandInv, Generations, Decided, Made, StateRestored, WantsStart, InHand, Current, Present
<1>13. ASSUME NEW o \in {"ok", "lost"}, Remove(o) PROVE StateRestored'
  BY <1>13, UpdateConstants, GoneIsNoContainer DEF Remove, Answer, TypeOK, Containers, Configs, Ids, Outcomes, CallPc, engine, update, report, world, HandInv, Generations, Decided, Made, StateRestored, WantsStart, InHand, Current, Present
<1>14. ASSUME NEW o \in {"ok", "lost"}, Create(o) PROVE StateRestored'
  BY <1>14, UpdateConstants, GoneIsNoContainer DEF Create, Answer, MakeContainer, CreateFrom, TypeOK, Containers, Configs, Ids, Outcomes, CallPc, engine, update, report, world, HandInv, Generations, Decided, Made, StateRestored, WantsStart, InHand, Current, Present
<1>15. ASSUME NEW o \in {"ok", "lost"}, Start(o) PROVE StateRestored'
  BY <1>15, UpdateConstants, GoneIsNoContainer DEF Start, Answer, SetState, TypeOK, Containers, Configs, Ids, Outcomes, CallPc, engine, update, report, world, HandInv, Generations, Decided, Made, StateRestored, WantsStart, InHand, Current, Present
<1>16. ASSUME VerifyGood PROVE StateRestored'
  BY <1>16, UpdateConstants, GoneIsNoContainer DEF VerifyGood, TypeOK, Containers, Configs, Ids, Outcomes, CallPc, engine, update, report, world, HandInv, Generations, Decided, Made, StateRestored, WantsStart, InHand, Current, Present
<1>17. ASSUME VerifyOther PROVE StateRestored'
  BY <1>17, UpdateConstants, GoneIsNoContainer DEF VerifyOther, TypeOK, Containers, Configs, Ids, Outcomes, CallPc, engine, update, report, world, HandInv, Generations, Decided, Made, StateRestored, WantsStart, InHand, Current, Present
<1>18. ASSUME VerifySkipped PROVE StateRestored'
  BY <1>18, UpdateConstants, GoneIsNoContainer DEF VerifySkipped, TypeOK, Containers, Configs, Ids, Outcomes, CallPc, engine, update, report, world, HandInv, Generations, Decided, Made, StateRestored, WantsStart, InHand, Current, Present
<1>19. ASSUME Finish PROVE StateRestored'
  BY <1>19, UpdateConstants, GoneIsNoContainer DEF Finish, Ends, Dangling, TypeOK, Containers, Configs, Ids, Outcomes, CallPc, engine, update, report, world, HandInv, Generations, Decided, Made, StateRestored, WantsStart, InHand, Current, Present
<1>20. ASSUME NEW n \in Names, NEW a \in {"start", "stop", "restart", "pause", "unpause", "kill"}, ContainerAction(n, a) PROVE StateRestored'
  BY <1>20, UpdateConstants, GoneIsNoContainer DEF ContainerAction, ActionEffect, SetState, Use, Meanwhile, TypeOK, Containers, Configs, Ids, Outcomes, CallPc, engine, update, report, world, HandInv, Generations, Decided, Made, StateRestored, WantsStart, InHand, Current, Present
<1>21. ASSUME NEW n \in Names, RemoveContainer(n) PROVE StateRestored'
  BY <1>21, UpdateConstants, GoneIsNoContainer DEF RemoveContainer, Use, Meanwhile, TypeOK, Containers, Configs, Ids, Outcomes, CallPc, engine, update, report, world, HandInv, Generations, Decided, Made, StateRestored, WantsStart, InHand, Current, Present
<1>22. ASSUME NEW n \in Names, ComposeUp(n) PROVE StateRestored'
  BY <1>22, UpdateConstants, GoneIsNoContainer DEF ComposeUp, MakeContainer, Use, Meanwhile, TypeOK, Containers, Configs, Ids, Outcomes, CallPc, engine, update, report, world, HandInv, Generations, Decided, Made, StateRestored, WantsStart, InHand, Current, Present
<1>23. ASSUME ImagesPull PROVE StateRestored'
  BY <1>23, UpdateConstants, GoneIsNoContainer DEF ImagesPull, Use, Meanwhile, TypeOK, Containers, Configs, Ids, Outcomes, CallPc, engine, update, report, world, HandInv, Generations, Decided, Made, StateRestored, WantsStart, InHand, Current, Present
<1>24. ASSUME NEW mode \in {"dangling", "unused"}, ImagesPrune(mode) PROVE StateRestored'
  BY <1>24, UpdateConstants, GoneIsNoContainer DEF ImagesPrune, Use, Meanwhile, Dangling, TypeOK, Containers, Configs, Ids, Outcomes, CallPc, engine, update, report, world, HandInv, Generations, Decided, Made, StateRestored, WantsStart, InHand, Current, Present
<1>25. ASSUME NEW i \in Images, ImagesRemove(i) PROVE StateRestored'
  BY <1>25, UpdateConstants, GoneIsNoContainer DEF ImagesRemove, Use, Meanwhile, TypeOK, Containers, Configs, Ids, Outcomes, CallPc, engine, update, report, world, HandInv, Generations, Decided, Made, StateRestored, WantsStart, InHand, Current, Present
<1>26. ASSUME NEW i \in Images, Push(i) PROVE StateRestored'
  BY <1>26, UpdateConstants, GoneIsNoContainer DEF Push, Use, Meanwhile, TypeOK, Containers, Configs, Ids, Outcomes, CallPc, engine, update, report, world, HandInv, Generations, Decided, Made, StateRestored, WantsStart, InHand, Current, Present
<1>27. ASSUME UNCHANGED vars PROVE StateRestored'
  BY <1>27 DEF vars, TypeOK, Containers, Configs, Ids, Outcomes, CallPc, engine, update, report, world, HandInv, Generations, Decided, Made, StateRestored, WantsStart, InHand, Current, Present
<1> QED
  BY <1>1, <1>2, <1>3, <1>4, <1>5, <1>6, <1>7, <1>8, <1>9, <1>10, <1>11, <1>12, <1>13, <1>14, <1>15, <1>16, <1>17, <1>18, <1>19, <1>20, <1>21, <1>22, <1>23, <1>24, <1>25, <1>26, <1>27 DEF Next, UpdateStep, HostStep

IndInv == TypeOK /\ HandInv /\ LossReported /\ AppliedIsPulled /\ StateRestored

(* The first state has containers of generation 0 and no update. *)
LEMMA InitInv == Init => IndInv
<1> SUFFICES ASSUME Init PROVE IndInv
  OBVIOUS
<1>1. \A n \in Names : box[n] \in Containers /\ box[n].gen = 0
  <2> TAKE n \in Names
  <2>1. PICK st \in {"running", "stopped"} : box[n] = Container(tag, st)
    BY DEF Init
  <2> QED
    BY <2>1, UpdateConstants DEF Init, Container, Containers
<1>2. \A n \in Names : box[n] # Gone /\ box[n].gen = 0
  BY <1>1, GoneIsNoContainer
<1>a. box \in [Names -> Containers \cup {Gone}]
  BY <1>1 DEF Init
<1>b. seen \in Containers /\ target \in Ids /\ outcome \in Outcomes /\ cfg \in Configs
  BY UpdateConstants DEF Init, Container, Containers, Ids, Outcomes, Configs
<1>d. /\ gens \in [Names -> Nat] /\ images \in SUBSET Images /\ tag \in Images /\ registry \in Images
      /\ removed = {} /\ touched = {} /\ pc = "idle" /\ todo = {} /\ failed = {} /\ new \in Images
  BY UpdateConstants DEF Init
<1>e. updates \in 0..MaxUpdates /\ uses \in 0..MaxUses
  BY UpdateConstants DEF Init
<1>f. force = FALSE /\ start = FALSE /\ retry = FALSE /\ applied = FALSE /\ cancelled = FALSE
  BY DEF Init
<1>c. TypeOK
  BY <1>a, <1>b, <1>d, <1>e, <1>f DEF TypeOK
<1>3. HandInv
  BY <1>b, <1>2 DEF Init, Ids, HandInv, Generations, OursOrRemoved, Decided, Made, CallPc
<1>4. LossReported /\ AppliedIsPulled /\ StateRestored
  BY <1>2 DEF Init, LossReported, AppliedIsPulled, StateRestored
<1> QED
  BY <1>c, <1>3, <1>4 DEF IndInv

(* The invariant is inductive. *)
LEMMA StepInv == IndInv /\ [Next]_vars => IndInv'
<1> SUFFICES ASSUME IndInv, [Next]_vars PROVE IndInv'
  OBVIOUS
<1>1. TypeOK'
  BY TypeStep DEF IndInv
<1>2. HandInv'
  BY GenerationsStep, OursOrRemovedStep, DecidedStep, MadeStep DEF IndInv, HandInv
<1>3. LossReported' /\ AppliedIsPulled' /\ StateRestored'
  BY LossStep, AppliedStep, RestoredStep DEF IndInv, HandInv
<1> QED
  BY <1>1, <1>2, <1>3 DEF IndInv

(* Engine, registry and update keep their types, whatever happens in        *)
(* between: in particular an update never goes on with an image that the    *)
(* engine did not resolve.                                                  *)
THEOREM UpdateTypeCorrect == Spec => []TypeOK
<1>1. IndInv => TypeOK
  BY DEF IndInv
<1> QED
  BY <1>1, InitInv, StepInv, PTL DEF Spec

(* No container disappears without an error, for any number of containers,  *)
(* updates, failed calls and lost answers.                                  *)
THEOREM LossCorrect == Spec => []LossReported
<1>1. IndInv => LossReported
  BY DEF IndInv
<1> QED
  BY <1>1, InitInv, StepInv, PTL DEF Spec

(* An image reported as applied is the pulled one, however often the tag    *)
(* moves.                                                                   *)
THEOREM AppliedCorrect == Spec => []AppliedIsPulled
<1>1. IndInv => AppliedIsPulled
  BY DEF IndInv
<1> QED
  BY <1>1, InitInv, StepInv, PTL DEF Spec

(* An update leaves the container running or stopped as it found it.        *)
THEOREM RestoredCorrect == Spec => []StateRestored
<1>1. IndInv => StateRestored
  BY DEF IndInv
<1> QED
  BY <1>1, InitInv, StepInv, PTL DEF Spec

-----------------------------------------------------------------------------
(* The measure of UpdateAdvances. *)

(* A scan or a request asks for finitely many updates.                      *)
TodoFinite == IsFiniteSet(todo)

(* No step of an update makes the list of its targets infinite.             *)
LEMMA TargetsFinite == Spec => []TodoFinite
<1>1. Init => TodoFinite
  BY FS_EmptySet DEF Init, TodoFinite
<1>2. ASSUME TodoFinite, [Next]_vars PROVE TodoFinite'
  <2> USE DEF TodoFinite
  <2>1. ASSUME NEW S \in SUBSET Names, NEW c \in Configs, ScanTargets(S, c)
        PROVE  IsFiniteSet(todo')
    <3> DEFINE f == [n \in S |-> [name |-> n, gen |-> box[n].gen]]
    <3>1. IsFiniteSet(S)
      BY UpdateConstants, FS_Subset
    <3>2. f \in Surjection(S, todo')
      BY <2>1 DEF ScanTargets, Surjection
    <3> QED
      BY <3>1, <3>2, FS_Surjection
  <2>2. ASSUME NEW id, NEW f, NEW c, UpdateRequest(id, f, c) PROVE IsFiniteSet(todo')
    BY <2>2, FS_Singleton DEF UpdateRequest
  <2>3. ASSUME NEW id, NextTarget(id) PROVE IsFiniteSet(todo')
    BY <1>2, <2>3, FS_RemoveElement DEF NextTarget
  <2>4. CASE UpdatesEnd
    BY <2>4, FS_EmptySet DEF UpdatesEnd
  <2>5. CASE todo' = todo
    BY <1>2, <2>5
  <2>6. \/ \E S \in SUBSET Names, c \in Configs : ScanTargets(S, c)
        \/ \E id, f, c : UpdateRequest(id, f, c)
        \/ \E id : NextTarget(id)
        \/ UpdatesEnd
        \/ todo' = todo
    <3>1. CASE Cancel \/ CallFails \/ InspectPaused \/ Inspect \/ PullImage
               \/ InspectImageKeeps \/ InspectImage
      BY <3>1 DEF Cancel, CallFails, InspectPaused, Inspect, PullImage, InspectImageKeeps,
                  InspectImage, update
    <3>2. CASE \E o \in {"ok", "lost"} : Stop(o) \/ Remove(o) \/ Create(o) \/ Start(o)
      BY <3>2 DEF Stop, Remove, Create, Start, update
    <3>3. CASE VerifyGood \/ VerifyOther \/ VerifySkipped \/ Finish
      BY <3>3 DEF VerifyGood, VerifyOther, VerifySkipped, Finish, update
    <3>4. CASE HostStep
      BY <3>4 DEF HostStep, ContainerAction, RemoveContainer, ComposeUp, ImagesPull, ImagesPrune,
                  ImagesRemove, Push, Meanwhile, update
    <3>5. CASE UNCHANGED vars
      BY <3>5 DEF vars, update
    <3> QED
      BY <1>2, <3>1, <3>2, <3>3, <3>4, <3>5 DEF Next, UpdateStep
  <2> QED
    BY <2>1, <2>2, <2>3, <2>4, <2>5, <2>6
<1> QED
  BY <1>1, <1>2, PTL DEF Spec

(* Every call counts down; the second recreation is paid for by the flag    *)
(* that it sets.                                                            *)
LEMMA CallCountsDown ==
    ASSUME TypeOK, TodoFinite, UpdateStep
    PROVE  CallsLeft \in Nat /\ CallsLeft' \in Nat /\ CallsLeft' < CallsLeft
<1> DEFINE Down == CallsLeft \in Nat /\ CallsLeft' \in Nat /\ CallsLeft' < CallsLeft
<1> SUFFICES Down
  OBVIOUS
<1>1. /\ Cardinality(todo) \in Nat /\ Cardinality({}) = 0
      /\ \A id \in todo : Cardinality(todo \ {id}) = Cardinality(todo) - 1
                          /\ Cardinality(todo \ {id}) \in Nat
  <2> USE DEF TodoFinite
  <2>1. Cardinality(todo) \in Nat
    BY FS_CardinalityType
  <2>2. \A id \in todo : /\ IsFiniteSet(todo \ {id})
                         /\ Cardinality(todo \ {id}) = Cardinality(todo) - 1
    BY FS_RemoveElement
  <2>3. \A id \in todo : Cardinality(todo \ {id}) \in Nat
    BY <2>2, FS_CardinalityType
  <2> QED
    BY <2>1, <2>2, <2>3, FS_EmptySet
<1> USE <1>1 DEF CallsLeft, update
<1>2. ASSUME NEW id \in todo, NextTarget(id) PROVE Down
  BY <1>2 DEF NextTarget
<1>3. CASE UpdatesEnd
  BY <1>3 DEF UpdatesEnd
<1>4. CASE CallFails
  BY <1>4 DEF CallFails, CallPc
<1>5. CASE InspectPaused \/ Inspect
  BY <1>5 DEF InspectPaused, Inspect, Ends
<1>6. CASE PullImage
  BY <1>6 DEF PullImage
<1>7. CASE InspectImageKeeps \/ InspectImage
  BY <1>7 DEF InspectImageKeeps, InspectImage, Ends
<1>8. ASSUME NEW o \in {"ok", "lost"}, Stop(o) \/ Remove(o) PROVE Down
  BY <1>8 DEF Stop, Remove, Answer
<1>9. ASSUME NEW o \in {"ok", "lost"}, Create(o) \/ Start(o) PROVE Down
  BY <1>9 DEF Create, Start, Answer
<1>10. CASE VerifyGood \/ VerifySkipped
  BY <1>10 DEF VerifyGood, VerifySkipped
<1>11. CASE VerifyOther
  BY <1>11 DEF VerifyOther
<1>12. CASE Finish
  BY <1>12 DEF Finish, Ends
<1> HIDE DEF Down
<1> QED
  BY <1>2, <1>3, <1>4, <1>5, <1>6, <1>7, <1>8, <1>9, <1>10, <1>11, <1>12 DEF UpdateStep

(* Nothing that happens meanwhile reaches into an update.                   *)
LEMMA MeanwhileKeeps ==
    ASSUME TypeOK, TodoFinite, [Next]_vars, pc # "idle", ~UpdateStep
    PROVE  CallsLeft \in Nat /\ CallsLeft' = CallsLeft
<1>1. Cardinality(todo) \in Nat
  BY FS_CardinalityType DEF TodoFinite
<1>2. CallsLeft \in Nat
  BY <1>1 DEF CallsLeft, TypeOK, CallPc
<1>3. UNCHANGED <<pc, todo, retry>>
  <2>1. CASE Cancel \/ UNCHANGED vars
    BY <2>1 DEF Cancel, vars, update
  <2>2. CASE HostStep
    BY <2>2 DEF HostStep, ContainerAction, RemoveContainer, ComposeUp, ImagesPull, ImagesPrune,
                ImagesRemove, Push, Meanwhile, update
  <2> QED
    BY <2>1, <2>2 DEF Next, ScanTargets, UpdateRequest
<1> QED
  BY <1>2, <1>3 DEF CallsLeft

(* Every update counts down to its end, for any number of containers and    *)
(* whatever else happens on the host: the safety half of UpdatesTerminate,  *)
(* without any fairness.                                                    *)
THEOREM UpdateAdvanceCorrect == Spec => UpdateAdvances
<1> DEFINE Advance == /\ UpdateStep => CallsLeft' < CallsLeft
                      /\ pc # "idle" => CallsLeft' <= CallsLeft
<1>1. ASSUME TypeOK, TodoFinite, [Next]_vars PROVE Advance
  <2>1. CASE UpdateStep
    <3>1. CallsLeft \in Nat /\ CallsLeft' \in Nat /\ CallsLeft' < CallsLeft
      BY <1>1, <2>1, CallCountsDown
    <3> QED
      BY <3>1
  <2>2. CASE ~UpdateStep
    <3>1. pc # "idle" => CallsLeft \in Nat /\ CallsLeft' = CallsLeft
      BY <1>1, <2>2, MeanwhileKeeps
    <3> QED
      BY <2>2, <3>1
  <2> QED
    BY <2>1, <2>2
<1>2. TypeOK /\ TodoFinite /\ [Next]_vars => [Advance]_vars
  BY <1>1
<1> QED
  BY <1>2, UpdateTypeCorrect, TargetsFinite, PTL DEF Spec, UpdateAdvances

=============================================================================
