-------------------------------- MODULE Sessions --------------------------------
(***************************************************************************)
(* The session of one user in one browser: its tabs share cookies and      *)
(* local storage, each refreshes on its own (tokenRefresh), and the API     *)
(* rotates and revokes refresh tokens in Postgres and Redis, one await     *)
(* after the other (refreshToken, AuthController).                         *)
(***************************************************************************)
EXTENDS Naturals, FiniteSets

CONSTANTS
  Tabs,       \* tabs of the browser
  MaxTokens,  \* bound: refresh tokens ever made
  MaxTrouble  \* bound: requests that fail, tokens that expire

ASSUME SessionsAssumption == IsFiniteSet(Tabs) /\ MaxTokens \in Nat /\ MaxTrouble \in Nat

VARIABLES
  token,     \* token[n]: how the n-th refresh token stands
  made,      \* refresh tokens made
  jar,       \* the refresh token in the cookie, NoToken without one
  access,    \* the cookie holds an access token that is valid
  signedIn,  \* the user is in local storage
  tab,       \* tab[t]: the request of t, where it stands, with which token
  trouble,   \* failures so far
  left,      \* history: tokens that were there at a logout that is over
  stray      \* history: requests whose token was revoked before they were sent

sessionsVars == <<token, made, jar, access, signedIn, tab, trouble, left, stray>>

Tokens == 1 .. MaxTokens
NoToken == 0
TokenStates == {"none", "valid", "expired", "revoked-in-row", "revoked"}
TabStates == {"idle", "redis", "row", "revoke", "end", "create", "ok", "refused", "logout",
              "leave"}
NoTab == [at |-> "idle", with |-> NoToken, new |-> NoToken, seen |-> {}]

SessionsInit ==
  /\ token = [n \in Tokens |-> "none"] /\ made = 0
  /\ jar = NoToken /\ access = FALSE /\ signedIn = FALSE
  /\ tab = [t \in Tabs |-> NoTab]
  /\ trouble = 0 /\ left = {} /\ stray = {}

SessionsTypeOK ==
  /\ token \in [Tokens -> TokenStates] /\ made \in 0 .. MaxTokens
  /\ jar \in 0 .. MaxTokens /\ access \in BOOLEAN /\ signedIn \in BOOLEAN
  /\ \A t \in Tabs :
       /\ tab[t].at \in TabStates /\ tab[t].seen \subseteq Tokens
       /\ tab[t].with \in 0 .. MaxTokens /\ tab[t].new \in 0 .. MaxTokens
  /\ trouble \in 0 .. MaxTrouble /\ left \subseteq Tokens /\ stray \subseteq Tabs

-------------------------------------------------------------------------------
Is(t, at) == tab[t].at = at
Goes(t, at) == tab' = [tab EXCEPT ![t].at = at]
Rests(t) == tab' = [tab EXCEPT ![t] = NoTab] /\ stray' = stray \ {t}
Used(t) == token[tab[t].with]
OnlyTab == UNCHANGED <<made, jar, access, signedIn, trouble, left>>

(* createRefreshToken: a new row.                                          *)
MakeToken ==
  /\ made < MaxTokens
  /\ made' = made + 1
  /\ token' = [token EXCEPT ![made + 1] = "valid"]

(* authenticateWithEmail, authenticateLocal, authenticateWithGitHub and     *)
(* registration end alike: a token, two cookies, the user in local storage. *)
SignIn(t) ==
  /\ Is(t, "idle") /\ ~signedIn
  /\ MakeToken
  /\ jar' = made + 1 /\ access' = TRUE /\ signedIn' = TRUE
  /\ UNCHANGED <<tab, trouble, left, stray>>

(* Fifteen minutes pass; thirty days pass.                                 *)
AccessExpires ==
  /\ access /\ access' = FALSE
  /\ UNCHANGED <<token, made, jar, signedIn, tab, trouble, left, stray>>

TokenExpires(n) ==
  /\ token[n] = "valid" /\ trouble < MaxTrouble
  /\ token' = [token EXCEPT ![n] = "expired"]
  /\ trouble' = trouble + 1
  /\ UNCHANGED <<made, jar, access, signedIn, tab, left, stray>>

(* fetchWithAuth after a 401, checkAndRefreshToken when a page loads: one  *)
(* refresh at a time in a tab.  Without a cookie it fails.                 *)
SendRefresh(t) ==
  /\ Is(t, "idle") /\ signedIn
  /\ IF jar = NoToken
     THEN signedIn' = FALSE /\ UNCHANGED <<tab, stray>>
     ELSE /\ tab' = [tab EXCEPT ![t] = [NoTab EXCEPT !.at = "redis", !.with = jar]]
          /\ stray' = IF token[jar] \in {"revoked-in-row", "revoked"}
                      THEN stray \cup {t} ELSE stray
          /\ UNCHANGED signedIn
  /\ UNCHANGED <<token, made, jar, access, trouble, left>>

-------------------------------------------------------------------------------
(* verifyAndRotateRefreshToken.                                            *)
CheckRedis(t) ==
  /\ Is(t, "redis")
  /\ Goes(t, IF Used(t) = "revoked" THEN "refused" ELSE "row")
  /\ UNCHANGED <<token, stray>> /\ OnlyTab

(* Mutant: the row's revocation is not looked at.                          *)
CheckRow_RedisOnly(t) ==
  /\ Is(t, "row")
  /\ Goes(t, IF Used(t) = "expired" THEN "end" ELSE "revoke")
  /\ UNCHANGED <<token, stray>> /\ OnlyTab

(* A token that has expired is revoked and refused.                        *)
CheckRow(t) ==
  /\ Is(t, "row")
  /\ Goes(t, CASE Used(t) = "valid" -> "revoke"
               [] Used(t) = "expired" -> "end"
               [] Used(t) \notin {"valid", "expired"} -> "refused")
  /\ UNCHANGED <<token, stray>> /\ OnlyTab

(* revokeRefreshToken: the row, then Redis.                                *)
RevokeInRow(t) ==
  /\ Is(t, "revoke") \/ Is(t, "end")
  /\ Used(t) # "revoked-in-row"
  /\ token' = [token EXCEPT ![tab[t].with] = IF @ = "revoked" THEN @ ELSE "revoked-in-row"]
  /\ IF Used(t) = "revoked"
     THEN Goes(t, IF Is(t, "end") THEN "refused" ELSE "create")
     ELSE UNCHANGED tab
  /\ UNCHANGED stray /\ OnlyTab

RevokeInRedis(t) ==
  /\ Is(t, "revoke") \/ Is(t, "end")
  /\ Used(t) = "revoked-in-row"
  /\ token' = [token EXCEPT ![tab[t].with] = "revoked"]
  /\ Goes(t, IF Is(t, "end") THEN "refused" ELSE "create")
  /\ UNCHANGED stray /\ OnlyTab

RotateToken(t) ==
  /\ Is(t, "create")
  /\ MakeToken
  /\ tab' = [tab EXCEPT ![t].at = "ok", ![t].new = made + 1]
  /\ UNCHANGED <<jar, access, signedIn, trouble, left, stray>>

(* The reply sets both cookies, or clears them and the page forgets the    *)
(* user: whatever another tab has put there meanwhile.                     *)
ReplyOk(t) ==
  /\ Is(t, "ok")
  /\ jar' = tab[t].new /\ access' = TRUE
  /\ Rests(t)
  /\ UNCHANGED <<token, made, signedIn, trouble, left>>

Reply401(t) ==
  /\ Is(t, "refused")
  /\ jar' = NoToken /\ access' = FALSE /\ signedIn' = FALSE
  /\ Rests(t)
  /\ UNCHANGED <<token, made, trouble, left>>

(* An error, or the API dies: the page forgets the user, cookies stay.     *)
RequestFails(t) ==
  /\ ~Is(t, "idle") /\ trouble < MaxTrouble
  /\ trouble' = trouble + 1
  /\ signedIn' = FALSE
  /\ Rests(t)
  /\ UNCHANGED <<token, made, jar, access, left>>

(* An error while tokens are revoked at a logout is dropped, and the reply  *)
(* clears the cookies all the same.                                        *)
RevokeFails(t) ==
  /\ Is(t, "logout") /\ trouble < MaxTrouble
  /\ trouble' = trouble + 1
  /\ tab' = [tab EXCEPT ![t] = [NoTab EXCEPT !.at = "leave"]]
  /\ UNCHANGED <<token, made, jar, access, signedIn, left, stray>>

-------------------------------------------------------------------------------
(* logout: with an access token that is valid, the tokens that are not     *)
(* revoked are read, then revoked; without one only the cookies go.        *)
ListTokens(t) ==
  /\ Is(t, "idle") /\ signedIn
  /\ tab' = [tab EXCEPT ![t] =
       IF access
       THEN [NoTab EXCEPT !.at = "logout", !.new = made,
                          !.seen = {n \in Tokens : token[n] \in {"valid", "expired"}}]
       ELSE [NoTab EXCEPT !.at = "leave"]]
  /\ UNCHANGED <<token, stray>> /\ OnlyTab

(* revokeRefreshToken for each, one after the other: the row, then Redis.  *)
RevokeListed(t, n) ==
  /\ Is(t, "logout") /\ tab[t].with = NoToken /\ n \in tab[t].seen
  /\ token' = [token EXCEPT ![n] = IF @ = "revoked" THEN @ ELSE "revoked-in-row"]
  /\ tab' = [tab EXCEPT ![t].with = n]
  /\ UNCHANGED stray /\ OnlyTab

RevokeListedInRedis(t) ==
  /\ Is(t, "logout") /\ tab[t].with # NoToken
  /\ token' = [token EXCEPT ![tab[t].with] = "revoked"]
  /\ tab' = [tab EXCEPT ![t].with = NoToken, ![t].seen = @ \ {tab[t].with}]
  /\ UNCHANGED stray /\ OnlyTab

(* Mutant: the reply does not wait for the revocations.                    *)
SignOut_AtOnce(t) ==
  /\ Is(t, "logout") \/ Is(t, "leave")
  /\ jar' = NoToken /\ access' = FALSE /\ signedIn' = FALSE
  /\ left' = IF Is(t, "leave") THEN left ELSE left \cup 1 .. tab[t].new
  /\ Rests(t)
  /\ UNCHANGED <<token, made, trouble>>

SignOut(t) ==
  /\ Is(t, "logout") \/ Is(t, "leave")
  /\ tab[t].seen = {}
  /\ jar' = NoToken /\ access' = FALSE /\ signedIn' = FALSE
  /\ left' = IF Is(t, "leave") THEN left ELSE left \cup 1 .. tab[t].new
  /\ Rests(t)
  /\ UNCHANGED <<token, made, trouble>>

SessionsNext ==
  \/ \E t \in Tabs :
       \/ SignIn(t) \/ SendRefresh(t) \/ CheckRedis(t) \/ CheckRow(t) \/ RevokeInRow(t)
       \/ RevokeInRedis(t) \/ RotateToken(t) \/ ReplyOk(t) \/ Reply401(t) \/ RequestFails(t)
       \/ ListTokens(t) \/ RevokeFails(t) \/ SignOut(t) \/ RevokeListedInRedis(t)
       \/ \E n \in Tokens : RevokeListed(t, n)
  \/ AccessExpires \/ \E n \in Tokens : TokenExpires(n)

SessionsSpec == SessionsInit /\ [][SessionsNext]_sessionsVars

-------------------------------------------------------------------------------
(* A refresh token that was revoked when a request with it was sent never  *)
(* yields another, also when the revocation stopped between Postgres and   *)
(* Redis.  Requests that were sent before may yield one each.              *)
RotatedOnce ==
  \A t \in stray : tab[t].at \notin {"create", "ok"}

(* After a logout that found the session valid, no token that was there    *)
(* when it read them is valid; one that a refresh made meanwhile may be.   *)
LogoutHolds == \A n \in left : token[n] # "valid"
===============================================================================
