-------------------------------- MODULE Configs --------------------------------
(***************************************************************************)
(* How a service gets its type and its port: the last step of the wizard   *)
(* (ConfigurationStep, new/page.tsx) creates it or writes over it, the     *)
(* edit form (EditServiceModal) changes what the page has listed, and each *)
(* layer below has defaults of its own (service.schema.ts,                 *)
(* ServiceController, ServiceManagementService).  A request is one step:   *)
(* it writes the row once, whole, and what it reads before only decides    *)
(* who may.  The forms of the dashboard are the only clients.              *)
(***************************************************************************)
EXTENDS Naturals

CONSTANTS
  Editors,      \* browser windows
  Engines,      \* databases on offer
  Typed,        \* ports a user types in
  MaxSaves      \* bound: requests that write

DefaultPorts == [DOCKER |-> 3000, STATIC |-> 80, COMPOSE |-> 3000,
                 POSTGRES |-> 5444, REDIS |-> 6379, MYSQL |-> 3306]

LastPort == 65535

ASSUME ConfigsAssumption ==
  /\ Engines \subseteq {"POSTGRES", "REDIS", "MYSQL"}
  /\ Typed \subseteq 1 .. LastPort /\ MaxSaves \in Nat

VARIABLES
  config,       \* the service's row
  listed,       \* listed[e]: the row as the page of e has it
  form,         \* form[e]: what e has open, and the port it was opened with
  saves,        \* requests that wrote so far
  lastShown,    \* history: the port that the form which wrote last showed
  lastWanted,   \* history: the one of the last form in which it was changed
  writtenBack   \* history: a form in which it was not changed, opened from an
                \* older list, wrote over it since

configsVars == <<config, listed, form, saves, lastShown, lastWanted, writtenBack>>

Chosen == {"DOCKER", "STATIC", "COMPOSE"}   \* the types a form lets one choose
Origins == {"repository", "image", "database"}
Unset == 65537       \* a port left out of the request: undefined
Unread == 65536      \* an emptied or impossible port: the schema refuses it

(* What the port's field shows of a port that is not set, and of a site     *)
(* always; and what emptying the field of an image makes of the port.       *)
DockerShows == 3000
ComposeShows == 8080
StaticShows == 80
ImageEmptied == Unset

(* source is importType; of the edit form, what repoUrl is the address of.  *)
Closed == [at |-> "page", source |-> "repository", type |-> "DOCKER", port |-> Unset,
           from |-> Unset]
NewForm == [Closed EXCEPT !.at = "wizard"]
NoConfig == [live |-> FALSE, type |-> "DOCKER", port |-> 3000, image |-> FALSE]

ConfigsInit ==
  /\ config = NoConfig
  /\ listed = [e \in Editors |-> NoConfig]
  /\ form = [e \in Editors |-> Closed]
  /\ saves = 0
  /\ lastShown = Unset /\ lastWanted = Unset /\ writtenBack = FALSE

ConfigsTypeOK ==
  LET types == Chosen \cup Engines
      asked == Typed \cup {DefaultPorts[t] : t \in types}
      forms == [at : {"page", "wizard", "edit"}, source : Origins, type : types,
                port : asked \cup {Unset, Unread}, from : asked \cup {Unset}]
      rows == [live : BOOLEAN, type : types, port : asked, image : BOOLEAN] IN
  /\ config \in rows
  /\ listed \in [Editors -> rows] /\ form \in [Editors -> forms]
  /\ saves \in 0 .. MaxSaves
  /\ {lastShown, lastWanted} \subseteq asked \cup {Unset, ComposeShows}
  /\ writtenBack \in BOOLEAN

-------------------------------------------------------------------------------
IsImage(f) == f.source = "image"

(* Which fields a form shows: the wizard goes by the source, then the type, *)
(* the edit form by the type, then the source.                              *)
WizardFields(f) ==
  IF IsImage(f) THEN "image" ELSE IF f.type \in {"COMPOSE", "STATIC"} THEN f.type ELSE "DOCKER"
EditFields(f) ==
  IF f.type \in {"COMPOSE", "STATIC"} THEN f.type ELSE IF IsImage(f) THEN "image" ELSE "DOCKER"
Fields(f) == IF f.at = "wizard" THEN WizardFields(f) ELSE EditFields(f)

PortShown(f) ==
  LET fields == Fields(f) IN
  IF fields = "STATIC" THEN StaticShows
  ELSE IF fields = "image" \/ f.port \notin {Unset, Unread} THEN f.port
  ELSE IF fields = "COMPOSE" THEN ComposeShows ELSE DockerShows

-------------------------------------------------------------------------------
ShowList(e) ==
  /\ form[e].at = "page" /\ listed' = [listed EXCEPT ![e] = config]
  /\ UNCHANGED <<config, form, saves, lastShown, lastWanted, writtenBack>>

Fill(e, f) ==
  /\ form' = [form EXCEPT ![e] = f]
  /\ UNCHANGED <<config, listed, saves, lastShown, lastWanted, writtenBack>>

(* The steps before the last choose the source; what the user chose of the  *)
(* type earlier stays when they go back.                                    *)
ChooseOrigin(e) ==
  /\ form[e].at \in {"page", "wizard"}
  /\ \E s \in Origins :
       Fill(e, IF form[e].at = "page" THEN [NewForm EXCEPT !.source = s]
              ELSE [form[e] EXCEPT !.source = s])

(* EditServiceModal begins with what the page has listed.                   *)
OpenEdit(e) ==
  /\ form[e].at = "page" /\ listed[e].live
  /\ Fill(e, [Closed EXCEPT !.at = "edit", !.type = listed[e].type,
              !.port = listed[e].port, !.from = listed[e].port,
              !.source = IF listed[e].image THEN "image" ELSE "repository"])

CloseForm(e) == form[e].at # "page" /\ Fill(e, Closed)

(* Mutant: only the type changes.                                           *)
EditType_Only(f, t) == [f EXCEPT !.type = t]

(* The type select of the edit form.                                        *)
EditType(f, t) == [f EXCEPT !.type = t, !.port = IF t = "STATIC" THEN 80 ELSE @]

(* The wizard's buttons, which an image and a database do not have.         *)
WizardType(f, t) == [f EXCEPT !.type = t]

(* What the select shows of a type it does not offer: its first option.     *)
Selected(f) == IF f.type \in Chosen THEN f.type ELSE "DOCKER"

ChooseType(e) == \E t \in Chosen \ {Selected(form[e])} :
  \/ form[e].at = "edit" /\ Fill(e, EditType(form[e], t))
  \/ form[e].at = "wizard" /\ form[e].source = "repository" /\ Fill(e, WizardType(form[e], t))

(* The repository's address is a text of the edit form: an image's or not.  *)
ChangeSource(e) ==
  /\ form[e].at = "edit"
  /\ Fill(e, [form[e] EXCEPT !.source = IF IsImage(form[e]) THEN "repository" ELSE "image"])

TypePort(e) ==
  /\ form[e].at # "page" /\ Fields(form[e]) # "STATIC"
  /\ \E p \in Typed \cup {IF Fields(form[e]) = "image" THEN ImageEmptied ELSE Unread} :
       Fill(e, [form[e] EXCEPT !.port = p])

-------------------------------------------------------------------------------
(* What the schema takes: a port that is no number is null, and refused.    *)
Valid(port) == port # Unread

(* handleCreateService: a database is its engine; only some types have the  *)
(* port sent.                                                               *)
FinalType(f, engine) == IF f.source = "database" THEN engine ELSE f.type
PayloadPort(f) == IF f.type \in {"DOCKER", "COMPOSE"} \/ IsImage(f) THEN f.port ELSE Unset

(* getServiceDefaults: a port asked for counts where containers listen on   *)
(* what their service says.                                                 *)
FinalPort(type, port) ==
  IF type \in {"DOCKER", "COMPOSE"} /\ port # Unset THEN port ELSE DefaultPorts[type]

(* Where a port is known to be asked for in vain: of a database, of an image *)
(* after "static" was chosen, of a stack whose port was left unset.          *)
InVain(f) ==
  \/ f.at = "wizard" /\ f.source = "database"
  \/ f.at = "wizard" /\ IsImage(f) /\ f.type = "STATIC"
  \/ f.type \notin {"DOCKER", "STATIC"} /\ f.port = Unset

(* What the history keeps of a form.                                       *)
PortAsked(f) == IF InVain(f) THEN Unset ELSE PortShown(f)
Untouched(f) == f.at = "edit" /\ f.port = f.from

Write(e, live, type, port) ==
  /\ saves < MaxSaves /\ saves' = saves + 1
  /\ config' = [live |-> live, type |-> type, port |-> port, image |-> IsImage(form[e])]
  /\ form' = [form EXCEPT ![e] = Closed]
  /\ lastShown' = PortAsked(form[e])
  /\ IF Untouched(form[e])
     THEN UNCHANGED lastWanted /\ writtenBack' = (writtenBack \/ config.port # form[e].from)
     ELSE lastWanted' = PortAsked(form[e]) /\ writtenBack' = FALSE

(* POST /services: a service of that name is written over, a deleted one    *)
(* comes back.                                                              *)
SubmitNew(e) ==
  /\ form[e].at = "wizard" /\ Valid(PayloadPort(form[e]))
  /\ \E engine \in IF form[e].source = "database" THEN Engines ELSE {"none"} :
       LET type == FinalType(form[e], engine) IN
       Write(e, TRUE, type, FinalPort(type, PayloadPort(form[e])))
  /\ UNCHANGED listed

(* PATCH /services/:id, which is sent every field of the form: a port left  *)
(* out is the type's.                                                       *)
UpdatedPort(f) == IF f.port = Unset THEN DefaultPorts[f.type] ELSE f.port

(* A deleted service is written to as well; the answer replaces the service *)
(* in the list.  A request refused leaves the form as it is.                *)
SubmitEdit(e) ==
  /\ form[e].at = "edit" /\ Valid(form[e].port)
  /\ Write(e, config.live, form[e].type, UpdatedPort(form[e]))
  /\ listed' = [listed EXCEPT ![e] = config']

DeleteConfig ==
  /\ config.live /\ config' = [config EXCEPT !.live = FALSE]
  /\ UNCHANGED <<listed, form, saves, lastShown, lastWanted, writtenBack>>

ConfigsNext ==
  \/ \E e \in Editors :
       \/ ShowList(e) \/ ChooseOrigin(e) \/ OpenEdit(e) \/ CloseForm(e) \/ ChooseType(e)
       \/ ChangeSource(e) \/ TypePort(e) \/ SubmitNew(e) \/ SubmitEdit(e)
  \/ DeleteConfig

ConfigsSpec == ConfigsInit /\ [][ConfigsNext]_configsVars

-------------------------------------------------------------------------------
(* The port a service is served at is the one the form showed that wrote it  *)
(* last, whatever its type was changed from and to, whichever older list the *)
(* form was opened from and whichever default filled in.  It is also the one *)
(* of the last form in which somebody changed it: a later form in which the  *)
(* port was not touched keeps it, through all the layers.  What breaks the    *)
(* second is named writtenBack: every field of a form is sent, so that one   *)
(* opened from an older list puts the older port back.  The emptied port of  *)
(* an image, and what InVain names, are excepted.                            *)
ServedAsShown ==
  /\ lastShown # Unset => config.port = lastShown
  /\ lastWanted # Unset => config.port = lastWanted \/ writtenBack
===============================================================================
