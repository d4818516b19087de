-------------------------------- MODULE Previews --------------------------------
(***************************************************************************)
(* The preview of one pull request: WebhookController handles GitHub's     *)
(* events 'opened', 'synchronize' and 'closed', each in a request of its   *)
(* own, while users add, remove and recover services.  GitHub sends an     *)
(* event once and does not look at the answer.  Only the life of the rows  *)
(* is here; what a deployment and the removal of the containers do is in   *)
(* ServiceApi and BuildWorker.                                             *)
(***************************************************************************)
EXTENDS Integers, Sequences, FiniteSets

CONSTANTS
  Sites,        \* names of services of the repository, each in its environment
  PreviewRows,  \* bound: service rows that may ever have a preview's name
  Handlers,     \* webhook requests handled at once
  MaxPushes     \* bound: pushes to the pull request

ASSUME PreviewsAssumption ==
  IsFiniteSet(PreviewRows) /\ PreviewRows \subseteq Nat \ {0} /\ MaxPushes \in Nat

VARIABLES
  bases,     \* sites whose service, the base of a preview, is not deleted
  preview,   \* preview[i]: a row whose name is <site>-pr-<number>
  events,    \* what happened to the pull request, in order
  begun,     \* events whose request has reached the API
  handler,   \* handler[h]: where a request is, with its event, site and row
  calm       \* 'closed' came alone and last, and one base was there all along

previewsVars == <<bases, preview, events, begun, handler, calm>>

Numbers == 1 .. (MaxPushes + 4)
NoSite == "no-site"
PreviewRow(is, site, ours) == [is |-> is, site |-> site, ours |-> ours]
Blank == PreviewRow("unused", NoSite, FALSE)
Handling(at, n, site, r) == [at |-> at, n |-> n, site |-> site, row |-> r]
Ready == Handling("ready", 0, NoSite, 0)
HandlerPlaces ==
  {"ready", "base", "existing", "update", "create", "deploy", "preview", "resources", "rows"}

PreviewsInit ==
  /\ bases \in {{s} : s \in Sites}
  /\ preview = [i \in PreviewRows |-> Blank]
  /\ events = <<>> /\ begun = {}
  /\ handler = [h \in Handlers |-> Ready]
  /\ calm = TRUE

PreviewsTypeOK ==
  /\ bases \subseteq Sites
  /\ preview \in [PreviewRows -> [is : {"unused", "live", "deleted", "gone"},
                                  site : Sites \cup {NoSite}, ours : BOOLEAN]]
  /\ events \in Seq({"opened", "synchronize", "closed", "reopened"})
  /\ begun \subseteq 1 .. Len(events)
  /\ handler \in [Handlers -> [at : HandlerPlaces, n : Numbers \cup {0},
                               site : Sites \cup {NoSite}, row : PreviewRows \cup {0}]]
  /\ calm \in BOOLEAN

-------------------------------------------------------------------------------
InRow(i) == preview[i].is \in {"live", "deleted"}
LivePreviews == {i \in PreviewRows : preview[i].is = "live" /\ preview[i].ours}
Resting == \A h \in Handlers : handler[h] = Ready
OnlyHandler == UNCHANGED <<bases, preview, events, begun, calm>>
Awaits(h, place) == handler[h].at = place
ToPlace(h, place) == handler' = [handler EXCEPT ![h].at = place]
Responds(h) == handler' = [handler EXCEPT ![h] = Ready]

(* Service has the unique index (environmentId, name), which counts        *)
(* deleted rows too.                                                       *)
NameIsFree(s) == \A i \in PreviewRows : InRow(i) => preview[i].site # s
FirstBlank(i) == preview[i] = Blank /\ \A j \in PreviewRows : preview[j] = Blank => i <= j
Inserts(i, s, ours) ==
  /\ FirstBlank(i)
  /\ preview' = [preview EXCEPT ![i] = PreviewRow("live", s, ours)]

(* What GitHub sends, and whether the pull request is open.                *)
IsOpen == events # <<>> /\ events[Len(events)] # "closed"
PullRequest ==
  /\ \/ events = <<>> /\ events' = <<"opened">>
     \/ /\ IsOpen
        /\ Cardinality({n \in DOMAIN events : events[n] = "synchronize"}) < MaxPushes
        /\ events' = Append(events, "synchronize")
     \/ IsOpen /\ events' = Append(events, "closed")
     \/ /\ events # <<>> /\ ~IsOpen
        /\ \A n \in DOMAIN events : events[n] # "reopened"
        /\ events' = Append(events, "reopened")
  /\ UNCHANGED <<bases, preview, begun, handler, calm>>

(* One event is handled in order with respect to 'closed'.                 *)
InTurn(n) ==
  IF events[n] = "closed" THEN begun = 1 .. (n - 1) /\ Resting
  ELSE \A m \in begun : events[m] = "closed" =>
         m < n /\ \A h \in Handlers : handler[h].n # m

(* A request is refused: no secret in the environment, no signature, no    *)
(* raw body, another digest.                                               *)
RefuseEvent(n) ==
  /\ n \in DOMAIN events \ begun
  /\ begun' = begun \cup {n}
  /\ calm' = (calm /\ events[n] # "closed")
  /\ UNCHANGED <<bases, preview, events, handler>>

(* handleGitHubWebhook and the action of a pull request.  'reopened' is    *)
(* not handled.                                                            *)
HandleGitHubWebhook(h, n) ==
  /\ Awaits(h, "ready")
  /\ n \in DOMAIN events \ begun
  /\ begun' = begun \cup {n}
  /\ handler' =
       [handler EXCEPT ![h] =
          CASE events[n] = "closed" -> Handling("preview", n, NoSite, 0)
            [] events[n] = "reopened" -> Ready
            [] OTHER -> Handling("base", n, NoSite, 0)]
  /\ calm' = (calm /\ InTurn(n))
  /\ UNCHANGED <<bases, preview, events>>

(* The first service of the repository that is neither a preview nor       *)
(* deleted, in no order: of two, any.                                      *)
FindBaseService(h) ==
  /\ Awaits(h, "base")
  /\ \/ \E s \in bases : handler' = [handler EXCEPT ![h].at = "existing", ![h].site = s]
     \/ bases = {} /\ Responds(h)
  /\ OnlyHandler

(* By name, environment and user: a deleted row, or one that the user made, *)
(* too; not the one that another member of the organization made.          *)
FindExisting(h) ==
  /\ Awaits(h, "existing")
  /\ LET found == {i \in PreviewRows : InRow(i) /\ preview[i].site = handler[h].site} IN
       \/ \E i \in found : handler' = [handler EXCEPT ![h].at = "update", ![h].row = i]
       \/ (\A i \in found : ~preview[i].ours) /\ ToPlace(h, "create")
  /\ OnlyHandler

(* Branch and status are written, not deletedAt; a row that is gone throws.*)
UpdatePreview(h) ==
  /\ Awaits(h, "update")
  /\ IF InRow(handler[h].row) THEN ToPlace(h, "deploy") ELSE Responds(h)
  /\ OnlyHandler

(* Of two requests that found no row, the second one throws.               *)
CreatePreview(h) ==
  /\ Awaits(h, "create")
  /\ \/ /\ NameIsFree(handler[h].site)
        /\ \E i \in PreviewRows : Inserts(i, handler[h].site, TRUE)
        /\ ToPlace(h, "deploy")
     \/ ~NameIsFree(handler[h].site) /\ Responds(h) /\ UNCHANGED preview
  /\ UNCHANGED <<bases, events, begun, calm>>

(* createAndQueueDeployment: two more awaits, of other state.              *)
QueuePreview(h) == Awaits(h, "deploy") /\ Responds(h) /\ OnlyHandler

-------------------------------------------------------------------------------
(* Mutant: the preview is looked for among those of the base services.     *)
FindPreview_OfBase(h) ==
  LET found == {i \in LivePreviews : preview[i].site \in bases} IN
  /\ Awaits(h, "preview")
  /\ \/ \E i \in found : handler' = [handler EXCEPT ![h].at = "resources", ![h].row = i]
     \/ found = {} /\ Responds(h)
  /\ OnlyHandler

(* 'closed': one live preview of the number, of whatever base.             *)
FindPreview(h) ==
  /\ Awaits(h, "preview")
  /\ \/ \E i \in LivePreviews : handler' = [handler EXCEPT ![h].at = "resources", ![h].row = i]
     \/ LivePreviews = {} /\ Responds(h)
  /\ OnlyHandler

(* deleteService: containers, volumes and images, if the row is still      *)
(* there; the errors that are not dropped end the request.                 *)
RemoveResources(h) ==
  /\ Awaits(h, "resources")
  /\ \/ InRow(handler[h].row) /\ ToPlace(h, "rows") /\ UNCHANGED calm
     \/ Responds(h) /\ calm' = (calm /\ ~InRow(handler[h].row))
  /\ UNCHANGED <<bases, preview, events, begun>>

RemoveRows(h) ==
  /\ Awaits(h, "rows")
  /\ preview' = [preview EXCEPT ![handler[h].row].is = "gone"]
  /\ Responds(h)
  /\ UNCHANGED <<bases, events, begun, calm>>

(* The process dies, or a query fails.                                     *)
HandlerDies(h) ==
  /\ ~Awaits(h, "ready")
  /\ Responds(h)
  /\ calm' = (calm /\ events[handler[h].n] # "closed")
  /\ UNCHANGED <<bases, preview, events, begun>>

-------------------------------------------------------------------------------
(* Users: the base is deleted, or there is another one, or the same under  *)
(* another name; a service gets the preview's name by hand; previews are   *)
(* deleted, recovered, and purged after thirty days.  Nobody moves a        *)
(* preview to another repository.                                          *)
BaseAppears(s) ==
  /\ s \notin bases
  /\ bases' = bases \cup {s}
  /\ calm' = (calm /\ events = <<>> /\ bases = {})
  /\ UNCHANGED <<preview, events, begun, handler>>

BaseDisappears(s) ==
  /\ s \in bases
  /\ bases' = bases \ {s}
  /\ UNCHANGED <<preview, events, begun, handler, calm>>

MakeNamesake(s) ==
  /\ NameIsFree(s)
  /\ \E i \in PreviewRows : Inserts(i, s, FALSE)
  /\ UNCHANGED <<bases, events, begun, handler, calm>>

RowMoves(i, from, to) ==
  /\ preview[i].is = from
  /\ preview' = [preview EXCEPT ![i].is = to]
  /\ UNCHANGED <<bases, events, begun, handler>>

DeletePreview(i) == RowMoves(i, "live", "deleted") /\ UNCHANGED calm
PurgePreview(i) == RowMoves(i, "deleted", "gone") /\ UNCHANGED calm
RecoverPreview(i) ==
  /\ RowMoves(i, "deleted", "live")
  /\ calm' = (calm /\ \A n \in begun : events[n] # "closed")

PreviewsNext ==
  \/ PullRequest
  \/ \E n \in Numbers : RefuseEvent(n) \/ \E h \in Handlers : HandleGitHubWebhook(h, n)
  \/ \E h \in Handlers :
       \/ FindBaseService(h) \/ FindExisting(h) \/ UpdatePreview(h) \/ CreatePreview(h)
       \/ QueuePreview(h) \/ FindPreview(h) \/ RemoveResources(h) \/ RemoveRows(h)
       \/ HandlerDies(h)
  \/ \E s \in Sites : BaseAppears(s) \/ BaseDisappears(s) \/ MakeNamesake(s)
  \/ \E i \in PreviewRows : DeletePreview(i) \/ PurgePreview(i) \/ RecoverPreview(i)

PreviewsSpec == PreviewsInit /\ [][PreviewsNext]_previewsVars

-------------------------------------------------------------------------------
(* A pull request that is closed has no preview that is still live, if     *)
(* 'closed' is handled after all other events, its handler is not cut      *)
(* short, and the repository had one base: also when 'opened' and          *)
(* 'synchronize' were handled at once, were lost or failed half-way        *)
(* (handlePullRequestEvent removes one preview at most).                   *)
ClosedLeavesNone ==
  calm /\ ~IsOpen /\ begun = DOMAIN events /\ Resting => LivePreviews = {}
===============================================================================
