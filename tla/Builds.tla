--------------------------------- MODULE Builds ---------------------------------
(***************************************************************************)
(* How an image is built.  The strategy for the type of the service pulls  *)
(* an image, or starts a builder, a container named after the deployment   *)
(* that sleeps for an hour, and runs a script in it: clone, generate a     *)
(* Dockerfile, docker build, or compose up.  All tries are of one          *)
(* deployment: BullMQ delivers its job again after a failure, or when it   *)
(* takes the worker for dead, also while the first try still runs.         *)
(***************************************************************************)
EXTENDS Integers, Sequences

CONSTANTS
  Tries,        \* workers that may have the job at once
  MaxTries,     \* bound: deliveries
  MaxMishaps    \* bound: calls of Docker that fail

ASSUME BuildsAssumption == MaxTries \in Nat /\ MaxMishaps \in Nat

VARIABLES
  order,     \* what the job says of the service
  attempt,   \* attempt[t]: where a try is, its builder, how its last ended
  builders,  \* builders[n]: the n-th container named builder-<deploymentId>
  networks,  \* networks of Docker
  tries,     \* deliveries
  mishaps,   \* calls that failed
  leftovers  \* history: builders whose try died or could not remove them

buildsVars == <<order, attempt, builders, networks, tries, mishaps, leftovers>>

SharedNet == "helvetia-net"
OwnNet == "project-net"
LongerNet == "project-net-of-an-environment-whose-name-begins-like-this-one's"
Networks == {SharedNet, OwnNet, LongerNet}
InBuilder == {"DOCKER", "STATIC", "COMPOSE"}

(* What the API accepts: names and values of variables are any strings, a  *)
(* command may have several lines.  One variable stands for all.           *)
Orders ==
  [type : InBuilder \cup {"POSTGRES"}, prebuilt : BOOLEAN,
   text : {"no-variable", "word", "spaced", "lines", "bad-name", "long-command"}]

Idle(end) == [at |-> "idle", builder |-> 0, end |-> end]
BuildPlaces ==
  {"idle", "validate", "pull", "list-shared", "make-shared", "list-own", "make-own",
   "image", "create", "start", "exec", "script", "inspect", "stop", "remove"}
Ends == {"none", "built", "killed", "refused", "docker", "pull", "name-taken", "no-network",
         "parse-error", "its-own", "hour-over"}
BuilderIds == 1 .. MaxTries
Builder(is, auto) == [is |-> is, auto |-> auto]

BuildsInit ==
  /\ order \in {o \in Orders : o.prebuilt => o.type = "DOCKER"}
  /\ attempt = [t \in Tries |-> Idle("none")]
  /\ builders = [n \in BuilderIds |-> Builder("unused", FALSE)]
  /\ networks \in SUBSET Networks
  /\ tries = 0 /\ mishaps = 0 /\ leftovers = {}

BuildsTypeOK ==
  /\ order \in Orders
  /\ attempt \in [Tries -> [at : BuildPlaces, builder : BuilderIds \cup {0}, end : Ends]]
  /\ builders \in [BuilderIds ->
       [is : {"unused", "created", "running", "exited", "over", "removed"}, auto : BOOLEAN]]
  /\ networks \subseteq Networks
  /\ tries \in 0 .. MaxTries /\ mishaps \in 0 .. MaxMishaps /\ leftovers \subseteq BuilderIds

-------------------------------------------------------------------------------
(* Dockerfiles, as lines of an instruction and its arguments.              *)
Instructions == {"FROM", "RUN", "CMD", "EXPOSE", "ENV", "COPY", "WORKDIR", "ARG"}
Line(instruction, args) == [instruction |-> instruction, args |-> args]
Plain(instruction) == Line(instruction, "ok")
SecondLine(text) ==
  IF order.text = text THEN <<Line("the-rest-of-it", "ok")>> ELSE <<>>

HasVariable == order.text # "no-variable"
ArgLines == IF HasVariable THEN <<Plain("ARG")>> ELSE <<>>
EnvLines ==
  IF HasVariable
  THEN <<Line("ENV", IF order.text \in {"spaced", "bad-name"} THEN "spaced" ELSE "ok")>>
       \o SecondLine("lines")
  ELSE <<>>
BuildLines == <<Plain("RUN")>> \o SecondLine("long-command")

BuildNodeService ==
  <<Plain("FROM"), Plain("RUN"), Plain("RUN"), Plain("WORKDIR")>> \o ArgLines
  \o <<Plain("COPY"), Plain("RUN"), Plain("COPY")>> \o EnvLines \o BuildLines
  \o <<Plain("EXPOSE"), Plain("CMD")>>

BuildStaticSite ==
  <<Plain("FROM"), Plain("RUN"), Plain("RUN"), Plain("WORKDIR")>> \o ArgLines
  \o <<Plain("COPY"), Plain("RUN"), Plain("COPY")>> \o EnvLines \o BuildLines
  \o <<Plain("RUN"), Plain("FROM"), Plain("RUN"), Plain("COPY"), Plain("COPY"),
       Plain("EXPOSE"), Plain("CMD")>>

ValidSyntax(file) ==
  /\ file # <<>> /\ file[1].instruction = "FROM"
  /\ \A n \in DOMAIN file : file[n].instruction \in Instructions /\ file[n].args # "none"

(* Docker wants name=value in every word of ENV.                           *)
DockerParses(file) ==
  ValidSyntax(file) /\ \A n \in DOMAIN file : file[n].args # "spaced"

ValidEnv(text) == text \notin {"bad-name", "lines"}

(* The worker validates variables together with a file of one line; it     *)
(* does not validate what it generates.                                    *)
ValidGenerated(file, text) == ValidSyntax(file) /\ ValidEnv(text)

-------------------------------------------------------------------------------
Located(t, place) == attempt[t].at = place
StepsTo(t, place) == attempt' = [attempt EXCEPT ![t].at = place]
Ended(t, end) == attempt' = [attempt EXCEPT ![t] = Idle(end)]
(* Errors after the builder is there pass through its removal.             *)
CleansUp(t, end) == attempt' = [attempt EXCEPT ![t].at = "inspect", ![t].end = end]
Mishap == mishaps < MaxMishaps /\ mishaps' = mishaps + 1
JobOnly == UNCHANGED <<order, builders, networks, tries, leftovers>>
Mine(t) == builders[attempt[t].builder]
BuilderIs(n, is) == builders' = [builders EXCEPT ![n].is = is]

Deliver(t) ==
  /\ Located(t, "idle") /\ tries < MaxTries
  /\ tries' = tries + 1
  /\ attempt' = [attempt EXCEPT ![t] = [Idle("none") EXCEPT !.at = "validate"]]
  /\ UNCHANGED <<order, builders, networks, mishaps, leftovers>>

(* The variables, outside of the try block; then the strategy for the type. *)
ValidateAndChoose(t) ==
  /\ Located(t, "validate")
  /\ IF HasVariable /\ ~ValidGenerated(<<Line("FROM", "ok")>>, order.text)
     THEN Ended(t, "refused")
     ELSE StepsTo(t, IF order.type \in InBuilder /\ ~order.prebuilt THEN "list-shared" ELSE "pull")
  /\ JobOnly /\ UNCHANGED mishaps

Pulls(t) ==
  /\ Located(t, "pull")
  /\ \/ Ended(t, "built") /\ UNCHANGED mishaps
     \/ Ended(t, "pull") /\ Mishap
  /\ JobOnly
PullImage(t) == order.prebuilt /\ Pulls(t)
PullDatabase(t) == order.type \notin InBuilder /\ Pulls(t)

(* ensureNetworkExists, twice: Docker lists every network whose name       *)
(* contains the one asked for; creating one that another try has created   *)
(* meanwhile, and every error of either call, is passed over.              *)
ListedAs(net) == IF net = OwnNet THEN {OwnNet, LongerNet} ELSE {net}
EnsureNetworkExists(t, list, make, net, then) ==
  \/ /\ Located(t, list)
     /\ \/ /\ StepsTo(t, IF networks \cap ListedAs(net) = {} THEN make ELSE then)
           /\ UNCHANGED mishaps
        \/ StepsTo(t, then) /\ Mishap
     /\ JobOnly
  \/ /\ Located(t, make)
     /\ StepsTo(t, then)
     /\ \/ networks' = networks \cup {net} /\ UNCHANGED mishaps
        \/ Mishap /\ UNCHANGED networks
     /\ UNCHANGED <<order, builders, tries, leftovers>>

EnsureNetworks(t) ==
  \/ EnsureNetworkExists(t, "list-shared", "make-shared", SharedNet, "list-own")
  \/ EnsureNetworkExists(t, "list-own", "make-own", OwnNet, "image")

EnsureImageExists(t) ==
  /\ Located(t, "image")
  /\ \/ StepsTo(t, "create") /\ UNCHANGED mishaps
     \/ Ended(t, "docker") /\ Mishap
  /\ JobOnly

(* Docker refuses a name that a container has, whatever its state.         *)
Present(n) == builders[n].is \in {"created", "running", "exited"}
NameTaken == \E n \in BuilderIds : Present(n)
NextBuilder(n) == builders[n].is = "unused" /\ \A m \in 1 .. (n - 1) : builders[m].is # "unused"
CreatesNew(t) ==
  \E n \in BuilderIds :
    /\ NextBuilder(n)
    /\ builders' = [builders EXCEPT ![n] = Builder("created", order.type = "COMPOSE")]
    /\ attempt' = [attempt EXCEPT ![t].at = "start", ![t].builder = n]

CreateBuilder(t) ==
  /\ Located(t, "create")
  /\ \/ ~NameTaken /\ CreatesNew(t) /\ UNCHANGED mishaps
     \/ NameTaken /\ Ended(t, "name-taken") /\ UNCHANGED <<builders, mishaps>>
     \/ Mishap /\ Ended(t, "docker") /\ UNCHANGED builders
  /\ UNCHANGED <<order, networks, tries, leftovers>>

(* From here on the builder is removed whatever happens.  It sleeps in the *)
(* network it is built for.                                                *)
BuilderNet == IF order.type = "COMPOSE" THEN OwnNet ELSE SharedNet
StartBuilder(t) ==
  /\ Located(t, "start")
  /\ \/ /\ BuilderNet \in networks
        /\ BuilderIs(attempt[t].builder, "running")
        /\ StepsTo(t, "exec") /\ UNCHANGED mishaps
     \/ /\ BuilderNet \notin networks
        /\ CleansUp(t, "no-network") /\ UNCHANGED <<builders, mishaps>>
     \/ Mishap /\ CleansUp(t, "docker") /\ UNCHANGED builders
  /\ UNCHANGED <<order, networks, tries, leftovers>>

WithoutBuilder(t) == Mine(t).is # "running" /\ CleansUp(t, "hour-over") /\ UNCHANGED mishaps

ExecScript(t) ==
  /\ Located(t, "exec")
  /\ \/ Mine(t).is = "running" /\ StepsTo(t, "script") /\ UNCHANGED mishaps
     \/ WithoutBuilder(t)
     \/ Mishap /\ CleansUp(t, "docker")
  /\ JobOnly

(* The script: the clone, the user's build and the user's own Dockerfile   *)
(* may fail; what is generated when there is none must parse.              *)
DockerBuild(t, file) ==
  CleansUp(t, "built") \/ (~DockerParses(file) /\ CleansUp(t, "parse-error"))
BuildService(t) == order.type = "DOCKER" /\ DockerBuild(t, BuildNodeService)
BuildSite(t) == order.type = "STATIC" /\ DockerBuild(t, BuildStaticSite)

(* The override file names its networks as external ones.                  *)
OverrideNetworks == {SharedNet, OwnNet}
ComposeUp(t) ==
  /\ order.type = "COMPOSE"
  /\ CleansUp(t, IF OverrideNetworks \subseteq networks THEN "built" ELSE "no-network")

RunScript(t) ==
  /\ Located(t, "script")
  /\ \/ /\ Mine(t).is = "running"
        /\ BuildService(t) \/ BuildSite(t) \/ ComposeUp(t) \/ CleansUp(t, "its-own")
        /\ UNCHANGED mishaps
     \/ WithoutBuilder(t)
     \/ Mishap /\ CleansUp(t, "docker")
  /\ JobOnly

(* The finally block, whose own errors are logged: the builder stays.      *)
Finished(t) == Ended(t, attempt[t].end)
StaysBehind(t) == leftovers' = leftovers \cup {attempt[t].builder}
GivesUp(t) == Finished(t) /\ Mishap /\ StaysBehind(t)

(* Mutant: a builder that does not run is not removed.                     *)
InspectBuilder_OnlyRunning(t) ==
  /\ Located(t, "inspect")
  /\ \/ Mine(t).is = "running" /\ StepsTo(t, "stop") /\ UNCHANGED <<mishaps, leftovers>>
     \/ Mine(t).is # "running" /\ Finished(t) /\ UNCHANGED <<mishaps, leftovers>>
     \/ GivesUp(t)
  /\ UNCHANGED <<order, builders, networks, tries>>

InspectBuilder(t) ==
  /\ Located(t, "inspect")
  /\ \/ Mine(t).is = "running" /\ StepsTo(t, "stop") /\ UNCHANGED <<mishaps, leftovers>>
     \/ /\ Mine(t).is \in {"created", "exited"}
        /\ StepsTo(t, "remove") /\ UNCHANGED <<mishaps, leftovers>>
     \/ Mine(t).is \in {"over", "removed"} /\ Finished(t) /\ UNCHANGED <<mishaps, leftovers>>
     \/ GivesUp(t)
  /\ UNCHANGED <<order, builders, networks, tries>>

StopBuilder(t) ==
  /\ Located(t, "stop")
  /\ \/ /\ Mine(t).is = "running" /\ UNCHANGED <<mishaps, leftovers>>
        /\ BuilderIs(attempt[t].builder, IF Mine(t).auto THEN "removed" ELSE "exited")
        /\ StepsTo(t, "remove")
     \/ /\ Mine(t).is = "exited"
        /\ StepsTo(t, "remove") /\ UNCHANGED <<builders, mishaps, leftovers>>
     \/ /\ Mine(t).is \in {"over", "removed"}
        /\ Finished(t) /\ UNCHANGED <<builders, mishaps, leftovers>>
     \/ GivesUp(t) /\ UNCHANGED builders
  /\ UNCHANGED <<order, networks, tries>>

RemoveBuilder(t) ==
  /\ Located(t, "remove")
  /\ \/ /\ BuilderIs(attempt[t].builder, IF Mine(t).is = "over" THEN "over" ELSE "removed")
        /\ Finished(t) /\ UNCHANGED <<mishaps, leftovers>>
     \/ GivesUp(t) /\ UNCHANGED builders
  /\ UNCHANGED <<order, networks, tries>>

-------------------------------------------------------------------------------
BuildDies(t) ==
  /\ ~Located(t, "idle")
  /\ Ended(t, "killed")
  /\ IF attempt[t].builder = 0 THEN UNCHANGED leftovers ELSE StaysBehind(t)
  /\ UNCHANGED <<order, builders, networks, tries, mishaps>>

HourPasses(n) ==
  /\ builders[n].is = "running"
  /\ BuilderIs(n, IF builders[n].auto THEN "over" ELSE "exited")
  /\ UNCHANGED <<order, attempt, networks, tries, mishaps, leftovers>>

BuildsNext ==
  \/ \E t \in Tries :
       \/ Deliver(t) \/ ValidateAndChoose(t) \/ PullImage(t) \/ PullDatabase(t)
       \/ EnsureNetworks(t)
       \/ EnsureImageExists(t) \/ CreateBuilder(t) \/ StartBuilder(t) \/ ExecScript(t)
       \/ RunScript(t) \/ InspectBuilder(t) \/ StopBuilder(t) \/ RemoveBuilder(t)
       \/ BuildDies(t)
  \/ \E n \in BuilderIds : HourPasses(n)

BuildsSpec == BuildsInit /\ [][BuildsNext]_buildsVars

-------------------------------------------------------------------------------
(* A container that has the name of the builder, at which every try of the *)
(* deployment fails, is that of a try at work on the same job, or was left *)
(* by a try whose worker died or whose removal of it failed: those stay,   *)
(* and only such ones.  A network that a try finds missing is one that     *)
(* Docker failed to list or to make, or that a longer name hid.  A         *)
(* generated Dockerfile parses once the variables were validated, unless a *)
(* value has blanks or a command several lines, which nothing looks at.    *)
FailuresExplained ==
  /\ \A n \in BuilderIds :
       Present(n) => n \in leftovers \/ \E t \in Tries : attempt[t].builder = n
  /\ \A t \in Tries :
       /\ attempt[t].end = "no-network" => LongerNet \in networks \/ mishaps > 0
       /\ attempt[t].end = "parse-error" => order.text \in {"spaced", "long-command"}
===============================================================================
