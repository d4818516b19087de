-------------------------------- MODULE Consent --------------------------------
(***************************************************************************)
(* Terms of service and privacy policy: versions come into force, a user   *)
(* is asked for them in every open page of the dashboard and accepts them  *)
(* (TermsService, PrivacyPolicyService, TermsAcceptanceWrapper).  The two  *)
(* kinds of document have code of the same shape; only one modal shows.    *)
(***************************************************************************)
EXTENDS Naturals, FiniteSetsExt

CONSTANTS
  Policies,     \* documents to accept: terms, which come first, and privacy
  Pages,        \* pages of the dashboard that one user has open
  MaxVersions   \* bound: versions of each document, later ones effective later

ASSUME ConsentAssumption ==
  Policies \subseteq {"terms", "privacy"} /\ IsFiniteSet(Pages) /\ MaxVersions \in [Policies -> Nat]

VARIABLES
  versions,   \* versions[k]: in the database
  consents,   \* consents[k]: versions the user has accepted
  latest,     \* latest[k]: the one accepted last, by acceptedAt
  found,      \* the user is in local storage
  page,       \* page[p]: what p has fetched and what it shows
  late        \* history: kinds of which an older version was accepted after a newer

consentVars == <<versions, consents, latest, found, page, late>>

Version == UNION {1 .. MaxVersions[k] : k \in Policies}
NoVersion == 0
Newest(k) == IF versions[k] = {} THEN NoVersion ELSE Max(versions[k])
Nothing == [need |-> FALSE, version |-> NoVersion, asking |-> "no", open |-> FALSE,
            read |-> FALSE]
NewPage == [k \in Policies |-> Nothing]

ConsentInit ==
  /\ versions = [k \in Policies |-> {}] /\ consents = [k \in Policies |-> {}]
  /\ latest = [k \in Policies |-> NoVersion]
  /\ found = FALSE /\ page = [p \in Pages |-> NewPage]
  /\ late = {}

ConsentTypeOK ==
  /\ versions \in [Policies -> SUBSET Version] /\ consents \in [Policies -> SUBSET Version]
  /\ latest \in [Policies -> Version \cup {NoVersion}]
  /\ found \in BOOLEAN
  /\ \A p \in Pages, k \in Policies :
       /\ page[p][k].version \in Version \cup {NoVersion}
       /\ page[p][k].asking \in {"no", "needed", "not-needed"}
       /\ {page[p][k].need, page[p][k].open, page[p][k].read} \subseteq BOOLEAN
  /\ late \subseteq Policies

-------------------------------------------------------------------------------
(* initializeTermsFromFiles, initializePrivacyPolicyFromFiles: a version,  *)
(* once, in the language pages ask for; it counts as soon as it is there.  *)
Unpublished(k, v) == v \notin versions[k]

Publish(k, v) ==
  /\ Unpublished(k, v)
  /\ versions' = [versions EXCEPT ![k] = @ \cup {v}]
  /\ UNCHANGED <<consents, latest, found, page, late>>

(* Mutant: the acceptance that is looked up is the first.                  *)
Requires_Oldest(k) ==
  versions[k] # {} /\ (consents[k] = {} \/ Newest(k) > Min(consents[k]))

(* getUserAcceptance, and getUserLatestAcceptance by acceptedAt.           *)
HasAccepted(k, v) == v \in consents[k]
LastAccepted(k) == latest[k]

(* requiresAcceptance: the newest version against the one accepted last.   *)
Outdated(k) == Newest(k) > LastAccepted(k)
Requires(k) == versions[k] # {} /\ (consents[k] = {} \/ Outdated(k))

SignInUser ==
  /\ ~found /\ found' = TRUE
  /\ UNCHANGED <<versions, consents, latest, page, late>>

(* checkAcceptance: whether consent is required, then the newest version.  *)
AnswerTo(k) == IF Requires(k) THEN "needed" ELSE "not-needed"

AskRequired(p, k) ==
  /\ found /\ page[p][k].asking = "no"
  /\ page' = [page EXCEPT ![p][k].asking = AnswerTo(k)]
  /\ UNCHANGED <<versions, consents, latest, found, late>>

(* The modal a page wants.                                                 *)
Wants(q, k) ==
  /\ q[k].need /\ q[k].version # NoVersion
  /\ k = "privacy" /\ "terms" \in Policies
       => ~(q["terms"].need /\ q["terms"].version # NoVersion)

(* The effect that opens and closes modals only when that changes.  A      *)
(* modal that opens counts as unread; one that stays open with another     *)
(* text keeps what it was.                                                 *)
Settle(old, new) ==
  IF \A k \in Policies : Wants(old, k) = Wants(new, k) THEN new
  ELSE [k \in Policies |->
         [new[k] EXCEPT !.open = Wants(new, k),
                        !.read = old[k].open /\ Wants(new, k) /\ @]]

(* The hooks: what a page has heard about the kind it asked for.           *)
Heard(q, k) ==
  [q EXCEPT ![k].asking = "no", ![k].need = q[k].asking = "needed", ![k].version = Newest(k)]

TakeAnswer(p, k) ==
  /\ page[p][k].asking # "no"
  /\ page' = [page EXCEPT ![p] = Settle(@, Heard(@, k))]
  /\ UNCHANGED <<versions, consents, latest, found, late>>

ScrollToEnd(p, k) ==
  /\ page[p][k].open /\ ~page[p][k].read
  /\ page' = [page EXCEPT ![p][k].read = TRUE]
  /\ UNCHANGED <<versions, consents, latest, found, late>>

(* createAcceptance: a record more, now the one accepted last.             *)
NewAcceptance(k, v) ==
  /\ consents' = [consents EXCEPT ![k] = @ \cup {v}]
  /\ latest' = [latest EXCEPT ![k] = v]
  /\ late' = IF \E w \in consents[k] : w > v THEN late \cup {k} ELSE late \ {k}

(* acceptTerms, acceptPrivacyPolicy: a record that exists stays as it is.  *)
Consented(k, v) ==
  IF HasAccepted(k, v) THEN UNCHANGED <<consents, latest, late>> ELSE NewAcceptance(k, v)

(* The request of a modal's button, for the version the page knows of.     *)
SendAcceptance(p, k) == Consented(k, page[p][k].version)

MayAccept(p, k) == page[p][k].open /\ page[p][k].read

(* The page closes its modal and asks again; what it knows stays until the *)
(* answer is there.                                                        *)
AcceptVersion(p, k) ==
  /\ MayAccept(p, k) /\ SendAcceptance(p, k)
  /\ page' = [page EXCEPT ![p][k].open = FALSE, ![p][k].read = FALSE]
  /\ UNCHANGED <<versions, found>>

(* Declining signs the user out of every page that shares local storage.   *)
Decline(p) ==
  /\ \E k \in Policies : page[p][k].open
  /\ found' = FALSE
  /\ page' = [q \in Pages |-> NewPage]
  /\ UNCHANGED <<versions, consents, latest, late>>

Reload(p) ==
  /\ page' = [page EXCEPT ![p] = NewPage]
  /\ UNCHANGED <<versions, consents, latest, found, late>>

ConsentNext ==
  \/ \E k \in Policies : \E v \in 1 .. MaxVersions[k] : Publish(k, v)
  \/ SignInUser
  \/ \E p \in Pages :
       \/ Decline(p) \/ Reload(p)
       \/ \E k \in Policies :
            AskRequired(p, k) \/ TakeAnswer(p, k) \/ ScrollToEnd(p, k) \/ AcceptVersion(p, k)

ConsentSpec == ConsentInit /\ [][ConsentNext]_consentVars

-------------------------------------------------------------------------------
(* The API requires nothing of a user who has accepted the newest version, *)
(* whatever order versions are published and accepted in, except when a    *)
(* page that was left open accepts an older version afterwards.  This is   *)
(* what the API answers, not what a page shows: one that still knows an    *)
(* answer from before may open its modal again (Heard, Settle).            *)
NotAgain == \A k \in Policies :
  Newest(k) \in consents[k] /\ k \notin late => ~Requires(k)

(* A page shows one modal at a time, in whatever order its answers come,   *)
(* and none that the last answer it heard does not ask for: for what was   *)
(* accepted since that answer it may ask again, until the next.            *)
AskedOnce ==
  /\ NotAgain
  /\ \A p \in Pages : Cardinality({k \in Policies : page[p][k].open}) <= 1
  /\ \A p \in Pages, k \in Policies : page[p][k].open => page[p][k].need
===============================================================================
