-------------------------------- MODULE Storage --------------------------------
(***************************************************************************)
(* Images, which Docker knows by names the code derives from those of      *)
(* services, and names of services are unique only within an environment.  *)
(* Deployments build or pull images (deployment strategies),               *)
(* restarts reuse them (DeploymentController), the daily clean-up removes  *)
(* old ones (imageCleanup) and those of services it erases (cleanup).      *)
(***************************************************************************)
EXTENDS Naturals, FiniteSets

CONSTANTS
  Services,   \* services, homonyms among them
  TagsOf,     \* TagsOf[s]: tags deployments of s may use
  BuiltTags,  \* tags that are built here; the others are pulled
  MaxImages   \* bound: images ever made

ASSUME StorageAssumption ==
  /\ IsFiniteSet(Services) /\ MaxImages \in Nat

VARIABLES
  named,   \* named[t]: the image tag t names, NoImage when there is none
  disk,    \* images on disk
  images,  \* images made so far
  box,     \* box[s]: the container of s
  fresh,   \* fresh[s]: the container a deployment of s has started
  deploy,  \* deploy[s]: the deployment of s in flight
  rows,    \* <<s, t>>: a successful deployment row of s has image tag t
  last,    \* last[s]: the tag of the newest of them
  sweep,   \* the clean-up of images
  erased,  \* services deleted for good
  taken    \* history: tags removed although a container was made from them

storageVars == <<named, disk, images, box, fresh, deploy, rows, last, sweep, erased, taken>>

NoImage == 0
NoTag == "no-tag"
Tags == UNION {TagsOf[s] : s \in Services}
Image == 1 .. MaxImages
NoBox == [on |-> NoImage, tag |-> NoTag, runs |-> FALSE]
NoDeploy == [at |-> "idle", tag |-> NoTag]
NoSweep == [at |-> "idle", dangling |-> {}, old |-> {}, active |-> {}]

StorageInit ==
  /\ named = [t \in Tags |-> NoImage] /\ disk = {} /\ images = 0
  /\ box = [s \in Services |-> NoBox] /\ fresh = [s \in Services |-> NoBox]
  /\ deploy = [s \in Services |-> NoDeploy]
  /\ rows = {} /\ last = [s \in Services |-> NoTag]
  /\ sweep = NoSweep /\ erased = {} /\ taken = {}

StorageTypeOK ==
  /\ named \in [Tags -> 0 .. MaxImages] /\ disk \subseteq Image /\ images \in 0 .. MaxImages
  /\ \A s \in Services : \A b \in {box[s], fresh[s]} :
       /\ b.on \in 0 .. MaxImages /\ b.tag \in Tags \cup {NoTag}
       /\ b.runs \in BOOLEAN
  /\ \A s \in Services : deploy[s].at \in {"idle", "built", "started"}
  /\ rows \subseteq Services \X Tags /\ last \in [Services -> Tags \cup {NoTag}]
  /\ sweep.at \in {"idle", "dangling", "old", "remove"} /\ sweep.old \subseteq rows
  /\ erased \subseteq Services /\ taken \subseteq Tags

-------------------------------------------------------------------------------
Boxes == {b \in {box[s] : s \in Services} \cup {fresh[s] : s \in Services} : b.on # NoImage}
InUse(i) == \E b \in Boxes : b.on = i
Runs(i) == \E b \in Boxes : b.on = i /\ b.runs
Docker == <<named, disk, images>>
OnlyBoxes == UNCHANGED <<named, disk, images, sweep, erased, taken>>

(* The image is built under the service's bare name, or pulled; the image  *)
(* the tag named before stays without one.                                 *)
MakeImage(s, t) ==
  /\ deploy[s].at = "idle" /\ s \notin erased
  /\ IF t \notin BuiltTags /\ named[t] # NoImage
     THEN UNCHANGED Docker
     ELSE /\ images < MaxImages /\ images' = images + 1
          /\ named' = [named EXCEPT ![t] = images + 1]
          /\ disk' = disk \cup {images + 1}
  /\ deploy' = [deploy EXCEPT ![s] = [at |-> "built", tag |-> t]]
  /\ taken' = taken \ {t}
  /\ UNCHANGED <<box, fresh, rows, last, sweep, erased>>

(* startContainer: the container is made from what the tag names now.      *)
StartFresh(s) ==
  /\ deploy[s].at = "built" /\ named[deploy[s].tag] # NoImage
  /\ fresh' = [fresh EXCEPT ![s] =
       [on |-> named[deploy[s].tag], tag |-> deploy[s].tag, runs |-> TRUE]]
  /\ deploy' = [deploy EXCEPT ![s].at = "started"]
  /\ UNCHANGED <<box, rows, last>> /\ OnlyBoxes

(* The old container goes and the row says SUCCESS with the tag, or the    *)
(* deployment fails at any step and the old container stays.               *)
DeploySucceeds(s) ==
  /\ deploy[s].at = "started"
  /\ box' = [box EXCEPT ![s] = fresh[s]] /\ fresh' = [fresh EXCEPT ![s] = NoBox]
  /\ rows' = rows \cup {<<s, deploy[s].tag>>}
  /\ last' = [last EXCEPT ![s] = deploy[s].tag]
  /\ deploy' = [deploy EXCEPT ![s] = NoDeploy]
  /\ OnlyBoxes

DeployFails(s) ==
  /\ deploy[s].at # "idle"
  /\ fresh' = [fresh EXCEPT ![s] = NoBox]
  /\ deploy' = [deploy EXCEPT ![s] = NoDeploy]
  /\ UNCHANGED <<box, rows, last>> /\ OnlyBoxes

(* restartService: a container from the tag the old one was made from.     *)
Restart(s) ==
  /\ box[s].on # NoImage /\ named[box[s].tag] # NoImage
  /\ box' = [box EXCEPT ![s] =
       [on |-> named[box[s].tag], tag |-> box[s].tag, runs |-> TRUE]]
  /\ UNCHANGED <<fresh, deploy, rows, last>> /\ OnlyBoxes

StopBox(s) ==
  /\ box[s].runs /\ box' = [box EXCEPT ![s].runs = FALSE]
  /\ UNCHANGED <<fresh, deploy, rows, last>> /\ OnlyBoxes

RemoveBox(s) ==
  /\ box[s].on # NoImage /\ box' = [box EXCEPT ![s] = NoBox]
  /\ UNCHANGED <<fresh, deploy, rows, last>> /\ OnlyBoxes

-------------------------------------------------------------------------------
(* permanentlyDeleteService: every tag of the service's rows is removed by *)
(* force.  Docker keeps an image only while a container of it runs.        *)
Erase(s) ==
  /\ s \notin erased /\ deploy[s].at = "idle"
  /\ LET tags == {t \in Tags : <<s, t>> \in rows}
         gone == {i \in disk : \E t \in tags : named[t] = i}
         boxes == {b \in {box[u] : u \in Services \ {s}} \cup {fresh[u] : u \in Services} :
                     b.on # NoImage}
     IN /\ named' = [t \in Tags |-> IF t \in tags THEN NoImage ELSE named[t]]
        /\ disk' = disk \ {i \in gone : ~\E b \in boxes : b.on = i /\ b.runs}
        /\ taken' = taken \cup {t \in tags : \E b \in boxes : b.tag = t}
        /\ box' = [box EXCEPT ![s] = NoBox]
        /\ rows' = {r \in rows : r[1] # s}
        /\ sweep' = [sweep EXCEPT !.old = {r \in @ : r[1] # s}]
  /\ last' = [last EXCEPT ![s] = NoTag]
  /\ erased' = erased \cup {s}
  /\ UNCHANGED <<images, fresh, deploy>>

(* removeDanglingImages: images without a tag, one after the other, not by *)
(* force.                                                                  *)
ListDangling ==
  /\ sweep.at = "idle"
  /\ sweep' = [NoSweep EXCEPT !.at = "dangling",
                              !.dangling = {i \in disk : \A t \in Tags : named[t] # i}]
  /\ UNCHANGED <<named, disk, images, box, fresh, deploy, rows, last, erased, taken>>

RemoveDangling(i) ==
  /\ sweep.at = "dangling" /\ i \in sweep.dangling
  /\ disk' = IF InUse(i) THEN disk ELSE disk \ {i}
  /\ sweep' = [sweep EXCEPT !.dangling = @ \ {i}]
  /\ UNCHANGED <<named, images, box, fresh, deploy, rows, last, erased, taken>>

(* removeOldImages reads the rows past retention (any set of rows here),   *)
(* then the images of containers that run.                                 *)
ListOld ==
  /\ sweep.at = "dangling" /\ sweep.dangling = {}
  /\ \E S \in SUBSET rows : sweep' = [sweep EXCEPT !.at = "old", !.old = S]
  /\ UNCHANGED <<named, disk, images, box, fresh, deploy, rows, last, erased, taken>>

ListActive ==
  /\ sweep.at = "old"
  /\ sweep' = [sweep EXCEPT !.at = "remove", !.active = {i \in disk : Runs(i)}]
  /\ UNCHANGED <<named, disk, images, box, fresh, deploy, rows, last, erased, taken>>

(* A tag is looked at once, by the first row that has it; it stays when it *)
(* is that service's newest, or when its image is in the list.  Docker     *)
(* refuses when any container uses the image.  Tags go one by one; what is *)
(* asked about one tag and its removal are taken together.                 *)
Removable(s, t) ==
  last[s] # t /\ named[t] # NoImage /\ named[t] \notin sweep.active

(* Mutant: by force, so that only containers that run protect an image.    *)
RemoveOld_Forced(s, t) ==
  /\ sweep.at = "remove" /\ <<s, t>> \in sweep.old
  /\ IF Removable(s, t) /\ ~Runs(named[t])
     THEN /\ disk' = disk \ {named[t]} /\ named' = [named EXCEPT ![t] = NoImage]
          /\ taken' = taken \cup {u \in {t} : \E b \in Boxes : b.tag = t /\ b.on # named[t]}
     ELSE UNCHANGED <<disk, named, taken>>
  /\ sweep' = [sweep EXCEPT !.old = {r \in @ : r[2] # t}]
  /\ UNCHANGED <<images, box, fresh, deploy, rows, last, erased>>

RemoveOld(s, t) ==
  /\ sweep.at = "remove" /\ <<s, t>> \in sweep.old
  /\ IF Removable(s, t) /\ ~InUse(named[t])
     THEN /\ disk' = disk \ {named[t]} /\ named' = [named EXCEPT ![t] = NoImage]
          /\ taken' = taken \cup {u \in {t} : \E b \in Boxes : b.tag = t}
     ELSE UNCHANGED <<disk, named, taken>>
  /\ sweep' = [sweep EXCEPT !.old = {r \in @ : r[2] # t}]
  /\ UNCHANGED <<images, box, fresh, deploy, rows, last, erased>>

SweepEnds ==
  /\ sweep.at = "remove" /\ sweep.old = {} /\ sweep' = NoSweep
  /\ UNCHANGED <<named, disk, images, box, fresh, deploy, rows, last, erased, taken>>

StorageNext ==
  \/ \E s \in Services :
       \/ \E t \in TagsOf[s] : MakeImage(s, t) \/ RemoveOld(s, t)
       \/ StartFresh(s) \/ DeploySucceeds(s) \/ DeployFails(s)
       \/ Restart(s) \/ StopBox(s) \/ RemoveBox(s) \/ Erase(s)
  \/ \E i \in Image : RemoveDangling(i)
  \/ ListDangling \/ ListOld \/ ListActive \/ SweepEnds

StorageSpec == StorageInit /\ [][StorageNext]_storageVars

-------------------------------------------------------------------------------
(* A service that has a container can be restarted: its tag names an image *)
(* although images are listed, protected and removed in separate steps.    *)
(* The exceptions are a homonym that was erased, and a tag that was built  *)
(* again by a deployment that did not end, and is old for another row.     *)
Restartable == \A s \in Services :
  box[s].on # NoImage => named[box[s].tag] # NoImage \/ box[s].tag \in taken
===============================================================================
