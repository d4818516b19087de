-------------------------------- MODULE Streams --------------------------------
(***************************************************************************)
(* Server-sent events: the logs of a deployment, for which the API opens a *)
(* Redis connection (DeploymentController.streamDeploymentLogs), and the   *)
(* metrics of all services (ServiceController.streamMetrics).  What counts *)
(* is which timers and connections a stream holds and who will free them.  *)
(***************************************************************************)
EXTENDS Naturals, FiniteSets

CONSTANTS
  LogStreams,     \* streams of deployment logs
  MetricStreams,  \* streams of metrics
  RedisFaults     \* TRUE when Redis may fail

ASSUME StreamsAssumption ==
  RedisFaults \in BOOLEAN /\ LogStreams \cap MetricStreams = {}

VARIABLES
  stream,   \* stream[c]: what the handler of c has set up, and its client
  cookie,    \* the access cookie all streams were opened with is valid
  missed    \* history: streams whose clean-up was incomplete, and why

streamVars == <<stream, cookie, missed>>

Streams == LogStreams \cup MetricStreams
ErrorLimit == 3
Reasons == {"ended-before-its-timer", "unsubscribe-failed", "subscribe-failed",
            "left-before-it-was-open"}
NewStream ==
  [at |-> "none", valid |-> FALSE, timer |-> FALSE, timeout |-> FALSE, listening |-> FALSE,
   redis |-> "none", errors |-> 0, client |-> FALSE]

StreamsInit ==
  /\ stream = [c \in Streams |-> NewStream]
  /\ cookie = TRUE
  /\ missed = [c \in Streams |-> {}]

StreamsTypeOK ==
  /\ \A c \in Streams :
       /\ stream[c].at \in {"none", "opening", "open", "refused"}
       /\ {stream[c].valid, stream[c].timer, stream[c].timeout, stream[c].listening,
           stream[c].client} \subseteq BOOLEAN
       /\ stream[c].redis \in {"none", "connected", "subscribed", "quit"}
       /\ stream[c].errors \in 0 .. ErrorLimit
  /\ cookie \in BOOLEAN /\ missed \in [Streams -> SUBSET Reasons]

-------------------------------------------------------------------------------
Set(c, s) == stream' = [stream EXCEPT ![c] = s]
Missed(c, why) == missed' = [missed EXCEPT ![c] = @ \cup {why}]

(* cleanup, of a stream that is valid: timers, then the Redis connection,   *)
(* which stays when unsubscribing fails.                                   *)
Cleaned(s) == [s EXCEPT !.valid = FALSE, !.timer = FALSE, !.timeout = FALSE]

CleanUp(c, s) ==
  IF ~s.valid THEN Set(c, s) /\ UNCHANGED missed
  ELSE \/ Set(c, [Cleaned(s) EXCEPT !.redis = IF @ = "none" THEN @ ELSE "quit"])
          /\ UNCHANGED missed
       \/ s.redis = "subscribed" /\ RedisFaults
          /\ Set(c, Cleaned(s)) /\ Missed(c, "unsubscribe-failed")

(* The handler of a log stream: a Redis connection, the timer that         *)
(* validates the cookie, then it waits for the subscription.                *)
OpenLogs(c) ==
  /\ c \in LogStreams /\ stream[c].at = "none" /\ cookie
  /\ Set(c, [NewStream EXCEPT !.at = "opening", !.valid = TRUE, !.timer = TRUE,
                              !.redis = "connected", !.client = TRUE])
  /\ UNCHANGED <<cookie, missed>>

LogsOpen(c) ==
  /\ c \in LogStreams /\ stream[c].at = "opening" /\ stream[c].valid
  /\ Set(c, [stream[c] EXCEPT !.at = "open", !.redis = "subscribed", !.timeout = TRUE,
                              !.listening = TRUE])
  /\ UNCHANGED <<cookie, missed>>

(* It was cleaned up while it waited: only the 60 minutes start.           *)
LogsOpenLate(c) ==
  /\ c \in LogStreams /\ stream[c].at = "opening" /\ ~stream[c].valid
  /\ Set(c, [stream[c] EXCEPT !.at = "open", !.timeout = TRUE, !.listening = TRUE])
  /\ UNCHANGED <<cookie, missed>>

(* The reply is 500 and nothing is freed.                                  *)
LogsRefused(c) ==
  /\ c \in LogStreams /\ stream[c].at = "opening" /\ RedisFaults
  /\ Set(c, [stream[c] EXCEPT !.at = "refused"])
  /\ IF stream[c].valid THEN Missed(c, "subscribe-failed") ELSE UNCHANGED missed
  /\ UNCHANGED cookie

(* The handler of a metrics stream awaits the first metrics before it sets *)
(* any timer; it sets them also when that first attempt ended the stream.  *)
OpenMetrics(c) ==
  /\ c \in MetricStreams /\ stream[c].at = "none" /\ cookie
  /\ Set(c, [NewStream EXCEPT !.at = "opening", !.valid = TRUE, !.client = TRUE])
  /\ UNCHANGED <<cookie, missed>>

MetricsOpen(c) ==
  /\ c \in MetricStreams /\ stream[c].at = "opening"
  /\ \E e \in IF cookie THEN {0, 1} ELSE {0} :
       Set(c, [stream[c] EXCEPT !.at = "open", !.valid = cookie, !.timer = TRUE,
                                !.timeout = TRUE, !.listening = TRUE, !.errors = e])
  /\ IF cookie THEN UNCHANGED missed ELSE Missed(c, "ended-before-its-timer")
  /\ UNCHANGED cookie

-------------------------------------------------------------------------------
(* The timer validates the cookie, or sends metrics, which does so too.     *)
Validate(c) ==
  /\ stream[c].timer /\ stream[c].valid /\ ~cookie
  /\ CleanUp(c, stream[c])
  /\ UNCHANGED cookie

(* An error of validation, of metrics or of a write: the third is the last. *)
StreamError(c) ==
  /\ stream[c].valid /\ stream[c].timer /\ stream[c].errors < ErrorLimit
  /\ LET s == [stream[c] EXCEPT !.errors = @ + 1]
     IN IF s.errors < ErrorLimit THEN Set(c, s) /\ UNCHANGED missed ELSE CleanUp(c, s)
  /\ UNCHANGED cookie

(* Mutant: the stream is marked as over before it is cleaned up.           *)
TimesOut_MarkedFirst(c) ==
  /\ stream[c].timeout
  /\ CleanUp(c, [stream[c] EXCEPT !.timeout = FALSE, !.valid = FALSE])
  /\ UNCHANGED cookie

TimesOut(c) ==
  /\ stream[c].timeout
  /\ CleanUp(c, [stream[c] EXCEPT !.timeout = FALSE])
  /\ UNCHANGED cookie

(* The client goes; before the handler listens nobody hears of it.         *)
Disconnect(c) ==
  /\ stream[c].client
  /\ LET s == [stream[c] EXCEPT !.client = FALSE]
     IN IF s.listening THEN CleanUp(c, s)
        ELSE /\ Set(c, s)
             /\ IF s.at = "opening" THEN Missed(c, "left-before-it-was-open")
                ELSE UNCHANGED missed
  /\ UNCHANGED cookie

TokenIsOver ==
  /\ cookie /\ cookie' = FALSE
  /\ UNCHANGED <<stream, missed>>

StreamsNext ==
  \/ \E c \in Streams :
       \/ OpenLogs(c) \/ LogsOpen(c) \/ LogsOpenLate(c) \/ LogsRefused(c)
       \/ OpenMetrics(c) \/ MetricsOpen(c) \/ Validate(c) \/ StreamError(c)
       \/ TimesOut(c) \/ Disconnect(c)
  \/ TokenIsOver

StreamsSpec == StreamsInit /\ [][StreamsNext]_streamVars

-------------------------------------------------------------------------------
Holds(c) == stream[c].timer \/ stream[c].redis \in {"connected", "subscribed"}

(* What a stream holds, someone will free: its handler still waits, or it  *)
(* is valid and its timer will find the cookie expired.  The exceptions:    *)
(* metrics that ended before their timer was set, and a failed unsubscribe; *)
(* these two are leaks of the code that nothing ends.                       *)
(* A client that has gone leaves nothing behind, except when it went or    *)
(* Redis failed while the handler was setting the stream up.               *)
NothingLeaks == \A c \in Streams :
  /\ Holds(c) => \/ stream[c].at = "opening"
                 \/ stream[c].valid /\ stream[c].timer
                 \/ missed[c] \cap {"ended-before-its-timer", "unsubscribe-failed"} # {}
  /\ stream[c].at # "none" /\ ~stream[c].client /\ missed[c] = {} => ~Holds(c)
===============================================================================
