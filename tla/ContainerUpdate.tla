--------------------------- MODULE ContainerUpdate ---------------------------
(***************************************************************************)
(* Container updates of internal/dockerwatcher/watcher.go: updateContainer *)
(* pulls the image, stops and removes the container and creates it again   *)
(* from the new image, with one retry by image ID if the tag has moved     *)
(* meanwhile.  autoUpdateLocal and handleUpdateContainer call it, one at a *)
(* time per host; the actions of the containers and images views go to the *)
(* same Docker engine at any moment, without that lock.                    *)
(*                                                                         *)
(* The engine is external: a call fails, takes effect, or takes effect     *)
(* without the caller learning of it (its context was cancelled, or the    *)
(* connection broke).  All containers here follow one image tag; a         *)
(* container is known by its name and by its generation, which stands for  *)
(* the container ID.                                                       *)
(***************************************************************************)
EXTENDS Naturals, FiniteSets

CONSTANTS
    Names,     \* container names
    Images,    \* image IDs
    FirstImage,\* the one the tag stands for at the beginning
    NoImage,   \* the tag does not exist
    Gone,      \* no container of that name
    MaxUpdates,\* bound on scans and update requests
    MaxUses    \* bound on everything else that happens on the host

ASSUME UpdateConstants ==
    /\ IsFiniteSet(Names)
    /\ FirstImage \in Images /\ NoImage \notin Images
    /\ MaxUpdates \in Nat /\ MaxUses \in Nat

Containers == [gen : Nat, image : Images, pinned : BOOLEAN, state : {"running", "paused", "stopped"}]
ASSUME GoneIsNoContainer == Gone \notin Containers

VARIABLES
    box, gens,      \* the container of every name, and how many there were
    images, tag,    \* images on the host, and the one the tag stands for
    registry,       \* the image the registry offers under the tag
    removed,        \* names whose container the user removed
    touched,        \* names whose container somebody else started, stopped or paused
    cfg,            \* UpdateStoppedContainers and PruneDanglingImages, as the update got them
    pc,             \* where updateContainer is
    todo, target,   \* containers (name, ID) still to be updated, and the one in hand
    force,          \* forceStart
    seen, new,      \* what the first inspections of container and image said
    start, retry,   \* startAfter; the second recreation is under way
    applied,        \* the image of the new container was verified
    cancelled,      \* the context of the scan or of the request is done
    failed,         \* names whose last update ended in an error, logged or answered
    outcome,        \* the UpdateResult of the last update that went through
    updates, uses

engine == <<box, gens, images, tag>>
update == <<todo, target, force, seen, new, start, retry, applied>>
report == <<failed, outcome>>
world == <<registry, removed, touched, uses>>
vars == <<engine, update, report, world, cfg, pc, cancelled, updates>>

Configs == [stopped : BOOLEAN, prune : BOOLEAN]
Ids == [name : Names, gen : Nat]
Outcomes == [name : Names, gen : Nat, kind : {"kept", "updated"}, old : Images, image : Images,
             applied : BOOLEAN, start : BOOLEAN]
CallPc == {"inspect", "pull", "image", "stop", "remove", "create", "start", "verify"}

TypeOK ==
    /\ box \in [Names -> Containers \cup {Gone}] /\ gens \in [Names -> Nat]
    /\ images \in SUBSET Images /\ tag \in Images \cup {NoImage} /\ registry \in Images
    /\ removed \in SUBSET Names /\ touched \in SUBSET Names
    /\ cfg \in Configs
    /\ pc \in CallPc \cup {"idle", "next", "finish"}
    /\ todo \in SUBSET Ids /\ target \in Ids /\ force \in BOOLEAN
    /\ seen \in Containers /\ new \in Images
    /\ start \in BOOLEAN /\ retry \in BOOLEAN /\ applied \in BOOLEAN
    /\ cancelled \in BOOLEAN /\ failed \in SUBSET Names
    /\ outcome \in Outcomes
    /\ updates \in 0..MaxUpdates /\ uses \in 0..MaxUses

Container(i, state) == [gen |-> 0, image |-> i, pinned |-> FALSE, state |-> state]

(* Containers of the image that the tag stands for; the registry may have   *)
(* moved on.  The locals of updateContainer have no value before its first  *)
(* call.                                                                    *)
Init ==
    /\ tag = FirstImage /\ registry \in Images /\ images = {tag}
    /\ box \in [Names -> {Container(tag, st) : st \in {"running", "stopped"}}]
    /\ gens = [n \in Names |-> 0]
    /\ removed = {} /\ touched = {} /\ cfg = [stopped |-> FALSE, prune |-> FALSE]
    /\ pc = "idle" /\ todo = {} /\ target \in [name : Names, gen : {0}] /\ force = FALSE
    /\ seen = Container(tag, "running") /\ new = tag
    /\ start = FALSE /\ retry = FALSE /\ applied = FALSE
    /\ cancelled = FALSE /\ failed = {}
    /\ outcome = [name |-> target.name, gen |-> 0, kind |-> "kept", old |-> tag, image |-> tag,
                  applied |-> FALSE, start |-> FALSE]
    /\ updates = 0 /\ uses = 0

Present(id) == box[id.name] # Gone /\ box[id.name].gen = id.gen
SetState(n, st) == box' = [box EXCEPT ![n].state = st]
Used == {box[n].image : n \in {m \in Names : box[m] # Gone}}

-----------------------------------------------------------------------------
(* Who asks for updates *)

(* scanContainer: an update is available if the registry has another digest *)
(* than the image of the container; a container created from an image ID    *)
(* has no registry to ask.                                                  *)
Outdated == {n \in Names : box[n] # Gone /\ ~box[n].pinned /\ box[n].image # registry}

(* A scan has found containers with the policy "update"; autoUpdateLocal    *)
(* goes through them with the configuration the scan began with.            *)
ScanTargets(S, c) ==
    /\ pc = "idle" /\ updates < MaxUpdates
    /\ S # {} /\ S \subseteq Outdated
    /\ todo' = {[name |-> n, gen |-> box[n].gen] : n \in S}
    /\ force' = FALSE /\ cfg' = c
    /\ pc' = "next" /\ updates' = updates + 1
    /\ UNCHANGED <<engine, report, world, target, seen, new, start, retry, applied, cancelled>>

(* POST /api/update, which may override the pruning, or the self-update     *)
(* helper with forceStart, for the container a page shows, which may no     *)
(* longer exist.                                                            *)
UpdateRequest(id, f, c) ==
    /\ pc = "idle" /\ updates < MaxUpdates
    /\ id.gen <= gens[id.name]
    /\ todo' = {id} /\ force' = f /\ cfg' = c
    /\ pc' = "next" /\ updates' = updates + 1
    /\ UNCHANGED <<engine, report, world, target, seen, new, start, retry, applied, cancelled>>

(* Mutant: a container stays on the list. *)
NextTargetAgain(id) ==
    /\ pc = "next" /\ id \in todo /\ ~cancelled
    /\ target' = id
    /\ retry' = FALSE /\ applied' = FALSE /\ failed' = failed \ {id.name}
    /\ pc' = "inspect"
    /\ UNCHANGED <<engine, outcome, world, cfg, todo, force, seen, new, start, cancelled, updates>>

NextTarget(id) ==
    /\ pc = "next" /\ id \in todo /\ ~cancelled
    /\ target' = id /\ todo' = todo \ {id}
    /\ retry' = FALSE /\ applied' = FALSE /\ failed' = failed \ {id.name}
    /\ pc' = "inspect"
    /\ UNCHANGED <<engine, outcome, world, cfg, force, seen, new, start, cancelled, updates>>

(* No target is left, or the context is done before the next one. *)
UpdatesEnd ==
    /\ pc = "next" /\ (todo = {} \/ cancelled)
    /\ todo' = {} /\ force' = FALSE /\ start' = FALSE /\ retry' = FALSE /\ applied' = FALSE
    /\ pc' = "idle" /\ cancelled' = FALSE
    /\ UNCHANGED <<engine, report, world, cfg, target, seen, new, updates>>

(* The stop button, or the client of the request goes away. *)
Cancel ==
    /\ pc # "idle" /\ ~cancelled
    /\ cancelled' = TRUE
    /\ UNCHANGED <<engine, update, report, world, cfg, pc, updates>>

-----------------------------------------------------------------------------
(* updateContainer *)

(* Mutant: the error is dropped on the way. *)
CallFailsSilently ==
    /\ pc \in CallPc /\ (pc = "verify" => retry)
    /\ pc' = "next"
    /\ UNCHANGED <<engine, update, report, world, cfg, cancelled, updates>>

(* Every call to the engine may fail, and the error is logged or answered;  *)
(* only the inspection of the first new container is not needed.            *)
CallFails ==
    /\ pc \in CallPc /\ (pc = "verify" => retry)
    /\ failed' = failed \cup {target.name}
    /\ pc' = "next"
    /\ UNCHANGED <<engine, update, outcome, world, cfg, cancelled, updates>>

(* The end of a call that took effect: the caller is told, or sees an error. *)
Answer(o, label) ==
    \/ /\ o = "ok" /\ ~cancelled
       /\ pc' = label /\ UNCHANGED failed
    \/ /\ o = "lost"
       /\ pc' = "next" /\ failed' = failed \cup {target.name}

Ends(kind) ==
    /\ outcome' = [name |-> target.name, gen |-> target.gen, kind |-> kind, old |-> seen'.image,
                   image |-> new', applied |-> applied',
                   start |-> seen'.state = "running" \/ force]
    /\ pc' = "next"

(* A paused container is left alone. *)
InspectPaused ==
    /\ pc = "inspect" /\ ~cancelled
    /\ Present(target) /\ box[target.name].state = "paused"
    /\ seen' = box[target.name]
    /\ UNCHANGED <<new, applied, start>>
    /\ Ends("kept")
    /\ UNCHANGED <<engine, todo, target, force, retry, failed, world, cfg, cancelled, updates>>

Inspect ==
    /\ pc = "inspect" /\ ~cancelled
    /\ Present(target) /\ box[target.name].state # "paused"
    /\ seen' = box[target.name]
    /\ pc' = "pull"
    /\ UNCHANGED <<engine, todo, target, force, new, start, retry, applied, report, world, cfg,
                   cancelled, updates>>

(* pullImage reads the progress of the pull and ignores what it says, so a  *)
(* pull that failed half way looks like one without news.  There is nothing *)
(* to pull for an image ID.                                                 *)
PullImage ==
    /\ pc = "pull" /\ ~cancelled
    /\ \/ ~seen.pinned /\ tag' = registry /\ images' = images \cup {registry}
       \/ UNCHANGED <<tag, images>>
    /\ pc' = "image"
    /\ UNCHANGED <<box, gens, update, report, world, cfg, cancelled, updates>>

(* What the image reference of the container, a tag or an image ID, stands  *)
(* for now.                                                                 *)
Resolved == IF ~seen.pinned THEN tag ELSE IF seen.image \in images THEN seen.image ELSE NoImage
WantsStart == seen.state = "running" \/ force

(* Nothing new, or a stopped container that is not to be updated. *)
InspectImageKeeps ==
    /\ pc = "image" /\ ~cancelled /\ Resolved # NoImage
    /\ Resolved = seen.image \/ (~WantsStart /\ ~cfg.stopped)
    /\ new' = Resolved
    /\ UNCHANGED <<seen, start, applied>>
    /\ Ends("kept")
    /\ UNCHANGED <<engine, todo, target, force, retry, failed, world, cfg, cancelled, updates>>

(* Mutant: whatever was updated is started. *)
InspectImageStarts ==
    /\ pc = "image" /\ ~cancelled /\ Resolved # NoImage
    /\ Resolved # seen.image /\ (WantsStart \/ cfg.stopped)
    /\ new' = Resolved
    /\ start' = TRUE
    /\ pc' = "stop"
    /\ UNCHANGED <<engine, todo, target, force, seen, retry, applied, report, world, cfg,
                   cancelled, updates>>

InspectImage ==
    /\ pc = "image" /\ ~cancelled /\ Resolved # NoImage
    /\ Resolved # seen.image /\ (WantsStart \/ cfg.stopped)
    /\ new' = Resolved
    /\ start' = WantsStart
    /\ pc' = IF WantsStart THEN "stop" ELSE "remove"
    /\ UNCHANGED <<engine, todo, target, force, seen, retry, applied, report, world, cfg,
                   cancelled, updates>>

-----------------------------------------------------------------------------
(* recreateContainer *)

Stop(o) ==
    /\ pc = "stop" /\ Present(target)
    /\ SetState(target.name, "stopped")
    /\ Answer(o, "remove")
    /\ UNCHANGED <<gens, images, tag, update, outcome, world, cfg, cancelled, updates>>

Remove(o) ==
    /\ pc = "remove" /\ Present(target)
    /\ box' = [box EXCEPT ![target.name] = Gone]
    /\ Answer(o, "create")
    /\ UNCHANGED <<gens, images, tag, update, outcome, world, cfg, cancelled, updates>>

(* The first recreation names the tag, the second the image ID.             *)
CreateFrom == IF retry THEN new ELSE tag

(* What ContainerCreate does to the host: the name must be free and the     *)
(* image present.                                                           *)
MakeContainer(n, i, pinned, state) ==
    /\ box[n] = Gone /\ i \in images
    /\ box' = [box EXCEPT ![n] = [gen |-> gens[n] + 1, image |-> i, pinned |-> pinned, state |-> state]]
    /\ gens' = [gens EXCEPT ![n] = @ + 1]
    /\ removed' = removed \ {n}

Create(o) ==
    /\ pc = "create"
    /\ MakeContainer(target.name, CreateFrom, retry, "stopped")
    /\ touched' = touched \ {target.name}
    /\ target' = [target EXCEPT !.gen = gens[target.name] + 1]
    /\ Answer(o, IF start THEN "start" ELSE "verify")
    /\ UNCHANGED <<images, tag, todo, force, seen, new, start, retry, applied, outcome,
                   registry, uses, cfg, cancelled, updates>>

Start(o) ==
    /\ pc = "start" /\ Present(target)
    /\ SetState(target.name, "running")
    /\ Answer(o, "verify")
    /\ UNCHANGED <<gens, images, tag, update, outcome, world, cfg, cancelled, updates>>

(* The new container is of the image that was pulled. *)
VerifyGood ==
    /\ pc = "verify" /\ ~cancelled
    /\ Present(target) /\ box[target.name].image = new
    /\ applied' = TRUE
    /\ pc' = "finish"
    /\ UNCHANGED <<engine, todo, target, force, seen, new, start, retry, report, world, cfg,
                   cancelled, updates>>

(* Mutant: the image of the new container is not compared. *)
VerifyOtherTrusts ==
    /\ pc = "verify" /\ ~cancelled /\ ~retry
    /\ Present(target) /\ box[target.name].image # new
    /\ applied' = TRUE
    /\ pc' = "finish"
    /\ UNCHANGED <<engine, todo, target, force, seen, new, start, retry, report, world, cfg,
                   cancelled, updates>>

(* Mutant: the second recreation is not remembered as the last one. *)
VerifyOtherForever ==
    /\ pc = "verify" /\ ~cancelled /\ ~retry
    /\ Present(target) /\ box[target.name].image # new
    /\ pc' = IF start THEN "stop" ELSE "remove"
    /\ UNCHANGED <<engine, update, report, world, cfg, cancelled, updates>>

(* It is of another image: the new container is recreated, by image ID. *)
VerifyOther ==
    /\ pc = "verify" /\ ~cancelled /\ ~retry
    /\ Present(target) /\ box[target.name].image # new
    /\ retry' = TRUE
    /\ pc' = IF start THEN "stop" ELSE "remove"
    /\ UNCHANGED <<engine, todo, target, force, seen, new, start, applied, report, world, cfg,
                   cancelled, updates>>

(* The first inspection of the new container failed: it is taken as it is. *)
VerifySkipped ==
    /\ pc = "verify" /\ ~retry
    /\ pc' = "finish"
    /\ UNCHANGED <<engine, update, report, world, cfg, cancelled, updates>>

Dangling == images \ (Used \cup {tag})

(* The images are pruned if that is configured; a failure only changes the  *)
(* message.                                                                 *)
Finish ==
    /\ pc = "finish"
    /\ \/ cfg.prune /\ ~cancelled /\ images' = images \ Dangling
       \/ UNCHANGED images
    /\ UNCHANGED <<seen, new, applied, start>>
    /\ Ends("updated")
    /\ UNCHANGED <<box, gens, tag, todo, target, force, retry, failed, world, cfg, cancelled, updates>>

-----------------------------------------------------------------------------
(* The containers and images views, and the world *)

Use == uses < MaxUses /\ uses' = uses + 1
Meanwhile == UNCHANGED <<update, report, cfg, pc, cancelled, updates>>

(* applyContainerActionWithWatcher, and what the engine makes of it. *)
ActionEffect(action, st) ==
    CASE action \in {"start", "restart"} /\ st # "paused" -> "running"
      [] action \in {"stop", "kill"} -> "stopped"
      [] action = "pause" /\ st = "running" -> "paused"
      [] action = "unpause" /\ st = "paused" -> "running"
      [] OTHER -> st

(* A container that exits by itself counts as stopped here. *)
ContainerAction(n, action) ==
    /\ Use
    /\ box[n] # Gone
    /\ ActionEffect(action, box[n].state) # box[n].state
    /\ SetState(n, ActionEffect(action, box[n].state))
    /\ touched' = touched \cup {n}
    /\ UNCHANGED <<gens, images, tag, registry, removed>> /\ Meanwhile

(* docker rm without force: the container must not be running. *)
RemoveContainer(n) ==
    /\ Use
    /\ box[n] # Gone /\ box[n].state = "stopped"
    /\ box' = [box EXCEPT ![n] = Gone]
    /\ removed' = removed \cup {n}
    /\ UNCHANGED <<gens, images, tag, registry, touched>> /\ Meanwhile

(* docker compose up creates a container that is missing. *)
ComposeUp(n) ==
    /\ Use
    /\ tag # NoImage /\ MakeContainer(n, tag, FALSE, "running")
    /\ touched' = touched \cup {n}
    /\ UNCHANGED <<images, tag, registry>> /\ Meanwhile

ImagesPull ==
    /\ Use
    /\ tag # registry
    /\ tag' = registry /\ images' = images \cup {registry}
    /\ UNCHANGED <<box, gens, registry, removed, touched>> /\ Meanwhile

(* mode "dangling" keeps the tagged image, mode "unused" only what          *)
(* containers use.                                                          *)
ImagesPrune(mode) ==
    /\ Use
    /\ images' = IF mode = "dangling" THEN images \ Dangling ELSE images \cap Used
    /\ images' # images
    /\ tag' = IF tag \in images' THEN tag ELSE NoImage
    /\ UNCHANGED <<box, gens, registry, removed, touched>> /\ Meanwhile

(* Without force an image that a container uses cannot be removed. *)
ImagesRemove(i) ==
    /\ Use
    /\ i \in images \ Used
    /\ images' = images \ {i}
    /\ tag' = IF tag = i THEN NoImage ELSE tag
    /\ UNCHANGED <<box, gens, registry, removed, touched>> /\ Meanwhile

(* Somebody publishes another image under the tag. *)
Push(i) ==
    /\ Use
    /\ i # registry /\ registry' = i
    /\ UNCHANGED <<engine, removed, touched>> /\ Meanwhile

-----------------------------------------------------------------------------
UpdateStep ==
    \/ \E id \in todo : NextTarget(id)
    \/ UpdatesEnd \/ CallFails
    \/ InspectPaused \/ Inspect \/ PullImage \/ InspectImageKeeps \/ InspectImage
    \/ \E o \in {"ok", "lost"} : Stop(o) \/ Remove(o) \/ Create(o) \/ Start(o)
    \/ VerifyGood \/ VerifyOther \/ VerifySkipped \/ Finish

HostStep ==
    \/ \E n \in Names : \/ \E a \in {"start", "stop", "restart", "pause", "unpause", "kill"} : ContainerAction(n, a)
                        \/ RemoveContainer(n) \/ ComposeUp(n)
    \/ ImagesPull \/ \E mode \in {"dangling", "unused"} : ImagesPrune(mode)
    \/ \E i \in Images : ImagesRemove(i) \/ Push(i)

Next ==
    \/ \E S \in SUBSET Names, c \in Configs : ScanTargets(S, c)
    \/ \E n \in Names, f \in BOOLEAN, c \in Configs :
          \E g \in 0..gens[n] : UpdateRequest([name |-> n, gen |-> g], f, c)
    \/ Cancel \/ UpdateStep \/ HostStep

Spec == Init /\ [][Next]_vars

(* Calls to the engine return: requests and scans are served by goroutines  *)
(* that the runtime schedules.                                              *)
FairSpec == Spec /\ WF_vars(UpdateStep)

-----------------------------------------------------------------------------
(* Properties *)

(* The update in hand works on this name. *)
InHand(n) == pc \in CallPc \cup {"finish"} /\ target.name = n

(* A container that neither the user removed nor an update is working on is *)
(* there, or an error was reported for it: none disappears silently, in     *)
(* whatever call recreateContainer was interrupted.                         *)
LossReported ==
    \A n \in Names : box[n] = Gone /\ n \notin removed /\ ~InHand(n) => n \in failed

Current == box[outcome.name] # Gone /\ box[outcome.name].gen = outcome.gen

(* A result that says "updated" and names an applied image is about a       *)
(* container of the pulled image, and not of the one it had before, even if *)
(* the tag was moved between the pull and the creation.                     *)
AppliedIsPulled ==
    outcome.kind = "updated" /\ outcome.applied /\ Current =>
        box[outcome.name].image = outcome.image /\ outcome.image # outcome.old

(* The state of the container is restored (user-guide.md:8): unless somebody  *)
(* else has touched it or a later update has begun, an updated container    *)
(* runs exactly if the old one was found running, or the update was to      *)
(* start it.                                                                *)
StateRestored ==
    /\ outcome.kind = "updated" /\ Current
    /\ outcome.name \notin touched \cup failed /\ ~InHand(outcome.name)
    => box[outcome.name].state = IF outcome.start THEN "running" ELSE "stopped"

(* How many steps an update has at most before it: three calls up to the    *)
(* decision, five to recreate the container, once more by image ID, and as  *)
(* much for every container that waits.                                     *)
CallsLeft ==
    LET waiting == 15 * Cardinality(todo) + 1
        again == IF retry THEN 0 ELSE 5
    IN  CASE pc = "idle" -> 0
          [] pc = "next" -> waiting
          [] pc = "finish" -> waiting + 1
          [] pc = "verify" -> waiting + 2 + again
          [] pc = "start" -> waiting + 3 + again
          [] pc = "create" -> waiting + 4 + again
          [] pc = "remove" -> waiting + 5 + again
          [] pc = "stop" -> waiting + 6 + again
          [] pc = "image" -> waiting + 12
          [] pc = "pull" -> waiting + 13
          [] pc = "inspect" -> waiting + 14

(* Every call brings the update nearer to its end, and nothing that happens *)
(* on the host meanwhile takes it further away: a tag that keeps moving     *)
(* makes updateContainer recreate the container a second time and never a   *)
(* third, and no failed call is tried again.                                *)
UpdateAdvances ==
    [][/\ UpdateStep => CallsLeft' < CallsLeft
       /\ pc # "idle" => CallsLeft' <= CallsLeft]_vars

(* Every scan and every request comes to its end. *)
UpdatesTerminate == pc # "idle" ~> pc = "idle"

=============================================================================
