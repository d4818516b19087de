-------------------------------- MODULE Profile --------------------------------
(***************************************************************************)
(* The windows of one browser that sign in and out, show the settings of   *)
(* an account and change its ways in.  The cookies belong to the host of   *)
(* the API and are shared by every window of the dashboard and of the      *)
(* admin console; what a window shows of an account is a copy that nobody  *)
(* tells of a sign-in elsewhere.  Whether a refresh token still rotates is *)
(* the business of module Sessions: here a refresh succeeds or fails.      *)
(***************************************************************************)
EXTENDS Integers, FiniteSets

CONSTANTS
  Folk,       \* people, each with a username, an e-mail and a GitHub login
  Linked,     \* those who have an account with a password and with GitHub
  Chief,      \* the one with the role ADMIN
  Windows,    \* windows of the browser
  MaxSends    \* bound: requests that somebody sends by a click

Apps == {"dashboard", "admin"}
NoOne == "no-one"
ASSUME ProfileAssumption ==
  /\ Linked \subseteq Folk /\ Chief \in Folk /\ NoOne \notin Folk /\ MaxSends \in Nat

VARIABLES
  accounts,   \* accounts[u]: whether u has one, and the ways into it
  session,    \* whom the cookies 'token' and 'refreshToken' name
  stored,     \* stored[p]: whom localStorage 'user' names on the origin of p
  window,     \* window[w]: its page, what it shows, its dialog, its call
  submits     \* submits so far

profileVars == <<accounts, session, stored, window, submits>>

Account(is, password, hub) == [is |-> is, password |-> password, hub |-> hub]
Shown(u) == [who |-> u, password |-> accounts[u].password, hub |-> accounts[u].hub]
ShownNothing == [who |-> NoOne, password |-> FALSE, hub |-> FALSE]
Call(what, as, to) == [what |-> what, as |-> as, to |-> to, try |-> "first"]
NoCall == Call("nothing", NoOne, NoOne)
Loaded(page) ==
  [page |-> page, shows |-> ShownNothing, dialog |-> "none", call |-> NoCall]

Exists(u) == u \in Folk /\ accounts[u].is = "known"
Signs == {"login", "register", "github", "admin-login"}
Guarded == {"me", "disconnect", "link", "delete", "export"}

ProfileInit ==
  /\ accounts = [u \in Folk |-> IF u \in Linked THEN Account("known", TRUE, TRUE)
                                ELSE Account("unused", FALSE, FALSE)]
  /\ session = [token |-> NoOne, refresh |-> NoOne]
  /\ stored = [p \in Apps |-> NoOne]
  /\ window = [w \in Windows |-> Loaded("landing")]
  /\ submits = 0

ProfileTypeOK ==
  /\ accounts \in [Folk -> [is : {"unused", "known", "gone"}, password : BOOLEAN, hub : BOOLEAN]]
  /\ session \in [token : Folk \cup {NoOne}, refresh : Folk \cup {NoOne}]
  /\ stored \in [Apps -> Folk \cup {NoOne}] /\ submits \in 0 .. MaxSends
  /\ \A w \in Windows :
       /\ window[w].page \in {"landing", "home", "login", "settings", "admin-login", "admin"}
       /\ window[w].dialog \in {"none", "disconnect", "delete"}
       /\ window[w].shows.who \in Folk \cup {NoOne}
       /\ window[w].call.what \in Signs \cup Guarded \cup {"nothing", "start", "logout"}
       /\ window[w].call.try \in {"first", "refresh", "again"}
       /\ {window[w].call.as, window[w].call.to} \subseteq Folk \cup {NoOne}

-------------------------------------------------------------------------------
Silent(w) == window[w].call = NoCall
Pending(w, what) == window[w].call.what = what
Turns(w, state) == window' = [window EXCEPT ![w] = state]
Settles(w) == Turns(w, [window[w] EXCEPT !.call = NoCall])
GoesOn(w, call) == Turns(w, [window[w] EXCEPT !.call = call])

(* A call carries the cookies of the moment it is sent.                    *)
AsNow(what, to) == Call(what, session.token, to)
Refreshing(call) == [call EXCEPT !.try = "refresh", !.as = session.refresh]

Click(w, state) ==
  /\ Silent(w) /\ submits < MaxSends /\ submits' = submits + 1
  /\ Turns(w, state) /\ UNCHANGED <<accounts, session, stored>>

(* The start page asks for new tokens when somebody is stored, and is the  *)
(* landing page when nobody is.                                            *)
StartPage(who) ==
  IF who = NoOne THEN Loaded("landing")
  ELSE [Loaded("home") EXCEPT !.call = Refreshing(Call("start", NoOne, NoOne))]

OpenStart(w) ==
  /\ Silent(w) /\ window[w].page \in {"landing", "login", "settings"}
  /\ StartPage(stored["dashboard"]) # window[w]
  /\ Turns(w, StartPage(stored["dashboard"]))
  /\ UNCHANGED <<accounts, session, stored, submits>>

(* The settings ask who is signed in when they are loaded.                 *)
SettingsPage == [Loaded("settings") EXCEPT !.call = AsNow("me", NoOne)]
OpenSettings(w) == window[w].page = "home" /\ Click(w, SettingsPage)

SubmitLogin(w, u) ==
  window[w].page \in {"landing", "login"} /\ Click(w, [Loaded("login") EXCEPT !.call = AsNow("login", u)])

(* Checked in the form: both passwords are equal, and long enough.         *)
SubmitSignup(w, u) ==
  window[w].page \in {"landing", "login"} /\ Click(w, [Loaded("login") EXCEPT !.call = AsNow("register", u)])

(* A GitHub login leads to the account it is linked with, or to a new one; *)
(* bound: not to a second account of one person.                           *)
HubLeads(u) == accounts[u].is = "unused" \/ accounts[u].hub

(* GitHub sends the browser back with a code, which is exchanged once.     *)
ReturnFromGitHub(w, u) ==
  /\ window[w].page \in {"landing", "login"} /\ HubLeads(u)
  /\ Click(w, [Loaded("login") EXCEPT !.call = AsNow("github", u)])

(* The admin console keeps its user on an origin of its own.               *)
OpenAdmin(w) ==
  /\ Silent(w) /\ window[w].page = "landing"
  /\ Turns(w, Loaded(IF stored["admin"] = Chief THEN "admin" ELSE "admin-login"))
  /\ UNCHANGED <<accounts, session, stored, submits>>

SubmitAdminLogin(w, u) ==
  window[w].page = "admin-login" /\ Click(w, [window[w] EXCEPT !.call = AsNow("admin-login", u)])

AppOf(w) == IF window[w].page \in {"admin", "admin-login"} THEN "admin" ELSE "dashboard"
(* The navigation offers it while its own origin names somebody.           *)
LoggedIn(w) == stored[AppOf(w)] # NoOne
Logout(w) ==
  /\ LoggedIn(w)
  /\ Click(w, [window[w] EXCEPT !.call = AsNow("logout", NoOne)])

-------------------------------------------------------------------------------
(* The settings: each button by what the page shows, not by who is signed  *)
(* in by now.                                                              *)
OpenDialog(w, dialog) ==
  /\ Silent(w) /\ window[w].page = "settings" /\ window[w].dialog = "none"
  /\ dialog = "disconnect" => window[w].shows.hub /\ window[w].shows.password
  /\ Turns(w, [window[w] EXCEPT !.dialog = dialog])
  /\ UNCHANGED <<accounts, session, stored, submits>>

CloseDialog(w) ==
  /\ Silent(w) /\ window[w].dialog # "none"
  /\ Turns(w, [window[w] EXCEPT !.dialog = "none"])
  /\ UNCHANGED <<accounts, session, stored, submits>>

DisconnectGitHub(w) ==
  /\ window[w].dialog = "disconnect"
  /\ Click(w, [window[w] EXCEPT !.call = AsNow("disconnect", NoOne)])

(* The username that is typed must be the one that is shown.               *)
ConfirmDeletion(w) ==
  /\ window[w].dialog = "delete" /\ window[w].shows.who # NoOne
  /\ Click(w, [window[w] EXCEPT !.call = AsNow("delete", window[w].shows.who)])

ExportUserData(w) ==
  /\ window[w].page = "settings" /\ window[w].dialog = "none"
  /\ Click(w, [window[w] EXCEPT !.call = AsNow("export", NoOne)])

(* Connect GitHub leaves the page; the callback posts the code.            *)
ConnectGitHub(w) ==
  /\ window[w].page = "settings" /\ window[w].dialog = "none" /\ ~window[w].shows.hub
  /\ Click(w, [Loaded("settings") EXCEPT !.call = AsNow("link", NoOne)])

-------------------------------------------------------------------------------
(* fetchWithAuth: a call whose session is gone asks for new tokens once, if *)
(* somebody is stored, and is sent again; otherwise it throws, and the     *)
(* page shows a message.                                                   *)
Unauthorized(w) ==
  /\ window[w].call.what \in Guarded /\ window[w].call.try = "first"
  /\ window[w].call.as = NoOne
  /\ IF stored["dashboard"] = NoOne THEN Settles(w)
     ELSE GoesOn(w, Refreshing(window[w].call))
  /\ UNCHANGED <<accounts, session, stored, submits>>

RefreshSucceeds(w) ==
  LET u == window[w].call.as IN
  /\ window[w].call.try = "refresh" /\ Exists(u)
  /\ session' = [token |-> u, refresh |-> u]
  /\ IF Pending(w, "start") THEN Settles(w)
     ELSE GoesOn(w, [window[w].call EXCEPT !.try = "again"])
  /\ UNCHANGED <<accounts, stored, submits>>

(* An invalid token answers 401 and clears the cookies; no cookie, a 500    *)
(* or the network leave them.                                              *)
RefreshFails(w) ==
  /\ window[w].call.try = "refresh"
  /\ session' \in {session, [token |-> NoOne, refresh |-> NoOne]}
  /\ window[w].call.as = NoOne => session' = session
  /\ stored' = [stored EXCEPT !["dashboard"] = NoOne]
  /\ IF Pending(w, "start") THEN Turns(w, Loaded("landing")) ELSE Settles(w)
  /\ UNCHANGED <<accounts, submits>>

Arrives(w, what) ==
  Pending(w, what) /\ window[w].call.try # "refresh" /\ window[w].call.as # NoOne

(* GET /auth/me; for an account that is gone it throws, and answers 500.   *)
ShowUser(w) ==
  LET u == window[w].call.as IN
  /\ Arrives(w, "me")
  /\ IF Exists(u)
     THEN /\ Turns(w, [window[w] EXCEPT !.shows = Shown(u), !.call = NoCall])
          /\ stored' = [stored EXCEPT !["dashboard"] = u]
     ELSE Settles(w) /\ UNCHANGED stored
  /\ UNCHANGED <<accounts, session, submits>>

(* Mutant: the check that the page makes is the only one.                  *)
MayDetach_Any(u) == Exists(u)

(* Only who has an e-mail and a password may disconnect GitHub.            *)
MayDetach(u) == Exists(u) /\ accounts[u].password

GitHubDisconnected(w) ==
  LET u == window[w].call.as IN
  /\ Arrives(w, "disconnect") /\ MayDetach(u)
  /\ accounts' = [accounts EXCEPT ![u].hub = FALSE]
  /\ Turns(w, [window[w] EXCEPT !.dialog = "none", !.call = AsNow("me", NoOne)])
  /\ UNCHANGED <<session, stored, submits>>

DisconnectRefused(w) ==
  /\ Arrives(w, "disconnect") /\ ~MayDetach(window[w].call.as) /\ Settles(w)
  /\ UNCHANGED <<accounts, session, stored, submits>>

(* Both pages send a body without a content type, which the browser calls  *)
(* text/plain; the schema of the route wants an object, and answers 400.   *)
DeletionRefused(w) ==
  /\ Arrives(w, "delete") /\ Settles(w)
  /\ UNCHANGED <<accounts, session, stored, submits>>

LinkRefused(w) ==
  /\ Arrives(w, "link") /\ Turns(w, SettingsPage)
  /\ UNCHANGED <<accounts, session, stored, submits>>

Exported(w) ==
  /\ Arrives(w, "export") /\ Settles(w)
  /\ UNCHANGED <<accounts, session, stored, submits>>

(* A failed logout is one all the same for the page, not for the cookies.  *)
LoggedOut(w) ==
  /\ Pending(w, "logout")
  /\ session' \in {session, [token |-> NoOne, refresh |-> NoOne]}
  /\ stored' = [stored EXCEPT ![AppOf(w)] = NoOne]
  /\ Turns(w, Loaded(IF AppOf(w) = "admin" THEN "admin-login" ELSE "login"))
  /\ UNCHANGED <<accounts, submits>>

-------------------------------------------------------------------------------
SignedIn(w, u) ==
  /\ session' = [token |-> u, refresh |-> u]
  /\ stored' = [stored EXCEPT !["dashboard"] = u]
  /\ Turns(w, [Loaded("home") EXCEPT !.call = [Call("start", u, NoOne) EXCEPT !.try = "refresh"]])

LoginAnswered(w) ==
  LET u == window[w].call.to IN
  /\ Pending(w, "login")
  /\ IF Exists(u) /\ accounts[u].password THEN SignedIn(w, u)
     ELSE Settles(w) /\ UNCHANGED <<session, stored>>
  /\ UNCHANGED <<accounts, submits>>

RegisterAnswered(w) ==
  LET u == window[w].call.to IN
  /\ Pending(w, "register")
  /\ IF accounts[u].is = "unused"
     THEN accounts' = [accounts EXCEPT ![u] = Account("known", TRUE, FALSE)] /\ SignedIn(w, u)
     ELSE Settles(w) /\ UNCHANGED <<accounts, session, stored>>
  /\ UNCHANGED submits

GitHubAnswered(w) ==
  LET u == window[w].call.to IN
  /\ Pending(w, "github")
  /\ IF HubLeads(u)
     THEN accounts' = [accounts EXCEPT ![u] = Account("known", @.password, TRUE)] /\ SignedIn(w, u)
     ELSE Settles(w) /\ UNCHANGED <<accounts, session, stored>>
  /\ UNCHANGED submits

(* The API has signed in whoever it is before the console turns away who   *)
(* is not an administrator: the dashboard's windows act for them now.      *)
AdminAnswered(w) ==
  LET u == window[w].call.to IN
  /\ Pending(w, "admin-login")
  /\ IF Exists(u) /\ accounts[u].password
     THEN /\ session' = [token |-> u, refresh |-> u]
          /\ IF u = Chief
             THEN Turns(w, Loaded("admin")) /\ stored' = [stored EXCEPT !["admin"] = u]
             ELSE Settles(w) /\ UNCHANGED stored
     ELSE Settles(w) /\ UNCHANGED <<session, stored>>
  /\ UNCHANGED <<accounts, submits>>

(* The access token lives for fifteen minutes.                             *)
TokenEnds ==
  /\ session.token # NoOne /\ session' = [session EXCEPT !.token = NoOne]
  /\ UNCHANGED <<accounts, stored, window, submits>>

(* Any other client of the API may send the bodies the pages do not.       *)
OtherClient(u) ==
  /\ Exists(u) /\ submits < MaxSends /\ submits' = submits + 1
  /\ \/ accounts' = [accounts EXCEPT ![u] = Account("gone", FALSE, FALSE)]
     \/ ~accounts[u].hub /\ accounts' = [accounts EXCEPT ![u].hub = TRUE]
  /\ UNCHANGED <<session, stored, window>>

ProfileNext ==
  \/ \E w \in Windows :
       \/ OpenStart(w) \/ OpenSettings(w) \/ OpenAdmin(w) \/ Logout(w)
       \/ \E u \in Folk : SubmitLogin(w, u) \/ SubmitSignup(w, u) \/ ReturnFromGitHub(w, u)
                          \/ SubmitAdminLogin(w, u)
       \/ \E d \in {"disconnect", "delete"} : OpenDialog(w, d)
       \/ CloseDialog(w) \/ DisconnectGitHub(w) \/ ConfirmDeletion(w) \/ ExportUserData(w)
       \/ ConnectGitHub(w) \/ Unauthorized(w) \/ RefreshSucceeds(w) \/ RefreshFails(w)
       \/ ShowUser(w) \/ GitHubDisconnected(w) \/ DisconnectRefused(w) \/ DeletionRefused(w)
       \/ LinkRefused(w) \/ Exported(w) \/ LoggedOut(w) \/ LoginAnswered(w) \/ RegisterAnswered(w)
       \/ GitHubAnswered(w) \/ AdminAnswered(w)
  \/ TokenEnds
  \/ \E u \in Folk : OtherClient(u)

ProfileSpec == ProfileInit /\ [][ProfileNext]_profileVars

(* Nobody is locked out: an account that exists keeps a password or its    *)
(* GitHub account, also when a window that shows one account acts, with    *)
(* the cookies of the browser, for another that has signed in since.       *)
LastWayIn ==
  \A u \in Folk : Exists(u) => accounts[u].password \/ accounts[u].hub
===============================================================================
