--------------------------------- MODULE Wizard ---------------------------------
(***************************************************************************)
(* Adding a service in the dashboard: three steps (new/page.tsx), of which *)
(* the second offers the repositories and images GitHub lists, fetched     *)
(* page by page through the API (GitHubController, GitHubService), and the *)
(* third creates the service and deploys it.                               *)
(***************************************************************************)
EXTENDS Integers, FiniteSets, Functions

CONSTANTS
  Repos,       \* repositories; an image has the name of its repository
  OwnerOf,     \* OwnerOf[x]: of HubOwners
  Loops,       \* fetches of a list under way at once
  PageSize,    \* repositories asked for at once
  HubPage,     \* what GitHub answers when no size is asked for
  MaxChanges   \* bound: changes at GitHub

HubOwners == {"user", "org"}

ASSUME WizardAssumption ==
  /\ IsFiniteSet(Repos) /\ OwnerOf \in [Repos -> HubOwners]
  /\ PageSize \in Nat \ {0} /\ HubPage \in Nat \ {0} /\ MaxChanges \in Nat

VARIABLES
  hub,         \* hub[x]: when a repository at GitHub was last updated
  changes,     \* changes at GitHub so far
  step,        \* of the wizard, 0 once it is left
  source,      \* importType
  wanted,      \* the organization chosen in the picker, "user" for all
  loop,        \* loop[f]: a fetch of the list
  offered,     \* what the picker offers, and the fetch it came with
  loading,     \* the picker shows no list, until a fetch, whichever, ends
  filled,      \* the form has a repoUrl and a projectName
  submit       \* handleCreateService

wizardVars == <<hub, changes, step, source, wanted, loop, offered, loading, filled, submit>>

ImportTypes == {"github", "github-image", "manual", "database"}
(* calm and shrunk are history: the repositories that stayed and were not  *)
(* updated since the fetch began, and whether one was deleted.             *)
NoLoop == [at |-> "idle", owner |-> "user", page |-> 1, got |-> {}, calm |-> {},
           shrunk |-> FALSE]

WizardInit ==
  /\ hub \in {h \in [Repos -> (1 - Cardinality(Repos)) .. 0] : IsInjective(h)} /\ changes = 0
  /\ step = 1 /\ source = "github" /\ wanted = "user"
  /\ loop = [f \in Loops |-> NoLoop] /\ offered = NoLoop
  /\ loading = FALSE /\ filled = FALSE /\ submit = "idle"

WizardTypeOK ==
  LET fetch == [at : {"idle", "asked"}, owner : HubOwners, page : Nat \ {0}, got : SUBSET Repos,
                calm : SUBSET Repos, shrunk : BOOLEAN] IN
  /\ DOMAIN hub \subseteq Repos /\ (\A x \in DOMAIN hub : hub[x] \in Int /\ hub[x] <= changes)
  /\ IsInjective(hub) /\ changes \in 0 .. MaxChanges
  /\ step \in 0 .. 3 /\ source \in ImportTypes /\ wanted \in HubOwners
  /\ loop \in [Loops -> fetch] /\ offered \in fetch
  /\ {loading, filled} \subseteq BOOLEAN
  /\ submit \in {"idle", "create", "deploy"}

-------------------------------------------------------------------------------
(* getRepositories of GitHubService: what the user has access to, or what  *)
(* an organization owns, the latest update first; a page of it.            *)
Listing(owner) == {x \in DOMAIN hub : owner = "user" \/ OwnerOf[x] = owner}
Ahead(S, x) == {y \in S : hub[y] > hub[x]}
Slice(S, n, size) ==
  {x \in S : (n - 1) * size <= Cardinality(Ahead(S, x)) /\ Cardinality(Ahead(S, x)) < n * size}

(* getContainerImages: what GitHub answers first, of the organization, or   *)
(* of the user and all organizations together, without those that failed.  *)
Answering(owner) == IF owner = "user" THEN SUBSET HubOwners ELSE {{owner}}
Images(owners) ==
  UNION {Slice({x \in DOMAIN hub : OwnerOf[x] = o}, 1, HubPage) : o \in owners}

Picking == step = 2 /\ source \in {"github", "github-image"}
Beginning(owner) ==
  [NoLoop EXCEPT !.at = "asked", !.owner = owner, !.calm = Listing(owner)]

(* A picker that appears fetches all; one that goes forgets its fetches.   *)
Shows(n, s) ==
  /\ step' = n /\ source' = s /\ wanted' = "user" /\ offered' = NoLoop
  /\ loading' = (n = 2 /\ s \in {"github", "github-image"})
  /\ IF loading'
     THEN \E f \in Loops :
            loop' = [g \in Loops |-> IF g = f THEN Beginning("user") ELSE NoLoop]
     ELSE loop' = [g \in Loops |-> NoLoop]

OnlyWizard == UNCHANGED <<hub, changes>>

(* The steps passed can be returned to, while the service is created too.  *)
ClickStep(n) ==
  /\ n < step /\ Shows(n, source)
  /\ UNCHANGED <<filled, submit>> /\ OnlyWizard

ProjectChosen ==
  /\ step = 1 /\ Shows(2, source)
  /\ UNCHANGED <<filled, submit>> /\ OnlyWizard

(* setImportType: what was picked before stays in the form.                *)
ChooseSource(s) ==
  /\ step = 2 /\ s # source /\ Shows(2, s)
  /\ UNCHANGED <<filled, submit>> /\ OnlyWizard

(* setSelectedOrg: one more fetch; those under way go on.                  *)
ChooseOwner(o) ==
  /\ Picking /\ o # wanted /\ wanted' = o /\ loading' = TRUE
  /\ \E f \in Loops : loop[f].at = "idle" /\ loop' = [loop EXCEPT ![f] = Beginning(o)]
  /\ UNCHANGED <<step, source, offered, filled, submit>> /\ OnlyWizard

(* Mutant: a full page is taken for the last one.                          *)
LastPage_Full(page) == Cardinality(page) <= PageSize

(* The loop of fetchRepos ends with a page that is not full.               *)
LastPage(page) == Cardinality(page) < PageSize

PageComes(f) ==
  /\ loop[f].at = "asked" /\ source = "github"
  /\ LET page == Slice(Listing(loop[f].owner), loop[f].page, PageSize)
         next == [loop[f] EXCEPT !.got = @ \cup page, !.page = @ + 1] IN
     IF LastPage(page)
     THEN /\ offered' = [next EXCEPT !.at = "idle", !.page = 1]
          /\ loop' = [loop EXCEPT ![f] = NoLoop] /\ loading' = FALSE
     ELSE UNCHANGED <<offered, loading>> /\ loop' = [loop EXCEPT ![f] = next]
  /\ UNCHANGED <<step, source, wanted, filled, submit>> /\ OnlyWizard

ImagesCome(f) ==
  /\ loop[f].at = "asked" /\ source = "github-image"
  /\ \E owners \in Answering(loop[f].owner) :
       offered' = [loop[f] EXCEPT !.at = "idle", !.got = Images(owners)]
  /\ loop' = [loop EXCEPT ![f] = NoLoop] /\ loading' = FALSE
  /\ UNCHANGED <<step, source, wanted, filled, submit>> /\ OnlyWizard

(* A page that fails, GitHub's refusal of the token too: the old list stays. *)
FetchFails(f) ==
  /\ loop[f].at = "asked" /\ loop' = [loop EXCEPT ![f] = NoLoop] /\ loading' = FALSE
  /\ UNCHANGED <<step, source, wanted, offered, filled, submit>> /\ OnlyWizard

(* The list of buttons.                                                     *)
Listed(x) == ~loading /\ x \in offered.got

(* onSelect takes what is picked into the form, and to the next step; the   *)
(* choice of a branch is gone with the picker before it shows.              *)
PickRepo(x) ==
  /\ Picking /\ source = "github" /\ Listed(x)
  /\ filled' = TRUE /\ Shows(3, source)
  /\ UNCHANGED submit /\ OnlyWizard

PickImage(x) ==
  /\ Picking /\ source = "github-image" /\ Listed(x)
  /\ filled' = TRUE /\ Shows(3, source)
  /\ UNCHANGED submit /\ OnlyWizard

TypeIn ==
  /\ step = 2 /\ ~Picking
  /\ filled' = TRUE /\ Shows(3, source)
  /\ UNCHANGED submit /\ OnlyWizard

-------------------------------------------------------------------------------
(* handleCreateService: the button is disabled while it runs.              *)
Submit ==
  /\ step = 3 /\ submit = "idle" /\ filled /\ submit' = "create"
  /\ UNCHANGED <<step, source, wanted, loop, offered, loading, filled>> /\ OnlyWizard

(* The service is created or, when one has the name, updated.  An error or *)
(* a lost answer shows step 3 again, wherever the user went meanwhile.     *)
CreateAnswered ==
  /\ submit = "create"
  /\ \/ submit' = "deploy" /\ UNCHANGED <<step, source, wanted, loop, offered, loading>>
     \/ submit' = "idle" /\ Shows(3, source)
  /\ UNCHANGED filled /\ OnlyWizard

(* Deployed or refused, the wizard is left; only a lost answer keeps it.   *)
DeployAnswered ==
  /\ submit = "deploy" /\ submit' = "idle"
  /\ Shows(0, source) \/ Shows(3, source)
  /\ UNCHANGED filled /\ OnlyWizard

-------------------------------------------------------------------------------
HubChanges(rest) ==
  /\ changes < MaxChanges /\ changes' = changes + 1
  /\ hub' = rest
  /\ UNCHANGED <<step, source, wanted, offered, loading, filled, submit>>

Pushed(x) ==
  /\ x \in DOMAIN hub /\ HubChanges([hub EXCEPT ![x] = changes + 1])
  /\ loop' = [f \in Loops |-> [loop[f] EXCEPT !.calm = @ \ {x}]]

Withdrawn(x) ==
  /\ x \in DOMAIN hub /\ HubChanges(Restrict(hub, DOMAIN hub \ {x}))
  /\ loop' = [f \in Loops |-> [loop[f] EXCEPT !.calm = @ \ {x}, !.shrunk = loop[f].at # "idle"]]

WizardNext ==
  \/ \E n \in 1 .. 3 : ClickStep(n)
  \/ ProjectChosen
  \/ \E s \in ImportTypes : ChooseSource(s)
  \/ \E o \in HubOwners : ChooseOwner(o)
  \/ \E f \in Loops : PageComes(f) \/ ImagesCome(f) \/ FetchFails(f)
  \/ \E x \in Repos : PickRepo(x) \/ PickImage(x) \/ Pushed(x) \/ Withdrawn(x)
  \/ TypeIn \/ Submit \/ CreateAnswered \/ DeployAnswered

WizardSpec == WizardInit /\ [][WizardNext]_wizardVars

-------------------------------------------------------------------------------
(* The list of repositories, put together page by page while GitHub moves  *)
(* what is updated to its front, misses none that was there and was left   *)
(* alone all the time, unless one was deleted meanwhile.                   *)
NoneMissed ==
  source = "github" /\ ~offered.shrunk => offered.calm \subseteq offered.got
===============================================================================
