----------------------------- MODULE PeopleProofs -----------------------------
(***************************************************************************)
(* What holds of the parts that deal with people, for any number of users, *)
(* sign-ins, tabs, tokens, requests and pages. One section per module,     *)
(* each with its inductive invariant, one lemma per action, and its        *)
(* theorems.                                                               *)
(***************************************************************************)
EXTENDS Tenancy, Sessions, Accounts, Consent, Profile, FiniteSetTheorems,
        WellFoundedInduction, TLAPS

-------------------------------------------------------------------------------
(***************************************************************************)
(* Tenancy: an organization keeps its last owner. Only a request that      *)
(* counted the owners and met others when it wrote can take the last one   *)
(* away.                                                                   *)
(***************************************************************************)

(* A request that is about to write and could take a role away has counted *)
(* other owners than the one it is about alone; an owner is made without   *)
(* counting.                                                               *)
CountedInv ==
  \A k \in Asks : Waits(k, "write") =>
    \/ ask[k].errand = "add"
    \/ ask[k].as = "OWNER"
    \/ ask[k].owners # {ask[k].who}

TenancyInv == TenancyTypeOK /\ CountedInv

(* The action of which LastOwnerKept says that it is all that happens.     *)
KeepsOwner ==
  (Owners # {} /\ \A u \in People : role'[u] # "OWNER") =>
     \/ people' # people
     \/ \E k \in Asks : Writes(k) /\ ask[k].owners # Owners

-------------------------------------------------------------------------------
(* At first nobody asks for anything.                                      *)
LEMMA TenancyBegins == TenancyInit => TenancyInv
BY TenancyAssumption
   DEF TenancyInit, TenancyInv, TenancyTypeOK, CountedInv, Waits, NoAsk, Asked, MemberRoles,
       Errands, Stops

(* A request that comes is typed, and counts before it writes, unless it   *)
(* adds or makes an owner.                                                 *)
LEMMA ComingKeeps ==
  ASSUME TenancyInv, NEW k \in Asks, NEW errand \in Errands, NEW at \in {"count", "write"},
         NEW v \in People, NEW as \in MemberRoles \cup {"none"},
         at = "write" => errand = "add" \/ as = "OWNER",
         Comes(k, Asked(errand, at, v, as)), OnlyAsk
  PROVE  TenancyInv'
<1>1. Asked(errand, at, v, as) \in
        [errand : Errands, at : Stops, who : People \cup {Nobody},
         as : MemberRoles \cup {"none"}, owners : SUBSET People]
  BY DEF Asked, Stops
<1>2. TenancyTypeOK'
  BY <1>1 DEF TenancyInv, TenancyTypeOK, Comes, OnlyAsk
<1>3. CountedInv'
  BY DEF TenancyInv, TenancyTypeOK, CountedInv, Comes, Waits, Asked
<1> QED BY <1>2, <1>3 DEF TenancyInv

(* Each step keeps what requests have counted.                             *)
LEMMA TenancyKept == TenancyInv /\ [TenancyNext]_tenancyVars => TenancyInv'
<1> SUFFICES ASSUME TenancyInv, [TenancyNext]_tenancyVars PROVE TenancyInv'
  OBVIOUS
<1>1. CASE UNCHANGED tenancyVars
  BY <1>1 DEF tenancyVars, TenancyInv, TenancyTypeOK, CountedInv, Waits
<1>2. ASSUME NEW k \in Asks, NEW u \in People, NEW v \in People, NEW r \in MemberRoles,
             AskAdd(k, u, v, r)
      PROVE  TenancyInv'
  BY <1>2, ComingKeeps DEF AskAdd, Errands
<1>3. ASSUME NEW k \in Asks, NEW u \in People, NEW v \in People, NEW r \in MemberRoles,
             AskChange(k, u, v, r)
      PROVE  TenancyInv'
  <2>1. CASE r = "OWNER"
    BY <1>3, <2>1, ComingKeeps DEF AskChange, Errands
  <2>2. CASE r # "OWNER"
    BY <1>3, <2>2, ComingKeeps DEF AskChange, Errands
  <2> QED BY <2>1, <2>2
<1>4. ASSUME NEW k \in Asks, NEW u \in People, NEW v \in People, AskRemove(k, u, v)
      PROVE  TenancyInv'
  BY <1>4, ComingKeeps DEF AskRemove, Errands
<1>5. ASSUME NEW k \in Asks, CountOwners(k)
      PROVE  TenancyInv'
  <2>1. CASE Owners = {ask[k].who}
    BY <1>5, <2>1 DEF CountOwners, Leaves, NoAsk, Asked, OnlyAsk, TenancyInv, TenancyTypeOK,
       CountedInv, Waits, Errands, Stops
  <2>2. CASE Owners # {ask[k].who}
    <3>1. Owners \subseteq People
      BY DEF Owners
    <3>2. ask' = [ask EXCEPT ![k] = [ask[k] EXCEPT !.at = "write", !.owners = Owners]]
      BY <1>5, <2>2 DEF CountOwners, TenancyInv, TenancyTypeOK
    <3>3. TenancyTypeOK'
      BY <1>5, <3>1, <3>2 DEF CountOwners, OnlyAsk, TenancyInv, TenancyTypeOK, Stops
    <3>4. CountedInv'
      BY <2>2, <3>2 DEF TenancyInv, TenancyTypeOK, CountedInv, Waits
    <3> QED BY <3>3, <3>4 DEF TenancyInv
  <2> QED BY <2>1, <2>2
<1>6. ASSUME NEW k \in Asks, WriteMember(k)
      PROVE  TenancyInv'
  <2>1. role' \in [People -> MemberRoles \cup {"none"}]
    BY <1>6 DEF WriteMember, TenancyInv, TenancyTypeOK
  <2> QED BY <1>6, <2>1 DEF WriteMember, Leaves, NoAsk, Asked, TenancyInv, TenancyTypeOK,
       CountedInv, Waits, Errands, Stops
<1>7. ASSUME NEW u \in People, DeleteAccount(u)
      PROVE  TenancyInv'
  BY <1>7 DEF DeleteAccount, TenancyInv, TenancyTypeOK, CountedInv, Waits
<1> QED BY <1>1, <1>2, <1>3, <1>4, <1>5, <1>6, <1>7 DEF TenancyNext

-------------------------------------------------------------------------------
(* The write that takes the last owner away is a change or a removal of    *)
(* that owner, who then was not the only one counted.                      *)
LEMMA WriteKeepsOwner ==
  ASSUME TenancyInv, NEW k \in Asks, WriteMember(k)
  PROVE  KeepsOwner
<1> SUFFICES ASSUME Owners # {}, \A u \in People : role'[u] # "OWNER"
             PROVE  Writes(k) /\ ask[k].owners # Owners
  BY DEF KeepsOwner
<1>1. Writes(k)
  BY DEF WriteMember, Writes, Leaves, TenancyInv, TenancyTypeOK
<1>2. PICK o \in People : role[o] = "OWNER"
  BY DEF Owners
<1>3. /\ ask[k].who \in people
      /\ ask[k].errand = "add" <=> role[ask[k].who] = "none"
      /\ role' = [role EXCEPT ![ask[k].who] = ask[k].as]
  BY <1>2 DEF WriteMember
<1>4. Owners = {ask[k].who}
  BY <1>3 DEF Owners, TenancyInv, TenancyTypeOK
<1>5. ask[k].as # "OWNER" /\ ask[k].errand # "add"
  BY <1>3, <1>4 DEF Owners, TenancyInv, TenancyTypeOK
<1>6. ask[k].owners # {ask[k].who}
  BY <1>5 DEF TenancyInv, CountedInv, WriteMember
<1> QED BY <1>1, <1>4, <1>6

(* No other step takes a role away, except with the account.               *)
LEMMA StepKeepsOwner == TenancyInv /\ [TenancyNext]_tenancyVars => [KeepsOwner]_tenancyVars
<1> SUFFICES ASSUME TenancyInv, TenancyNext PROVE KeepsOwner \/ UNCHANGED tenancyVars
  OBVIOUS
<1>1. CASE UNCHANGED role
  BY <1>1 DEF KeepsOwner, Owners
<1>2. ASSUME NEW u \in People, DeleteAccount(u)
      PROVE  KeepsOwner
  BY <1>2 DEF DeleteAccount, KeepsOwner
<1> QED BY <1>1, <1>2, WriteKeepsOwner
     DEF TenancyNext, AskAdd, AskChange, AskRemove, CountOwners, OnlyAsk

(* An organization does not lose its last owner, unless with the account   *)
(* or by a request that another one overtook (updateMemberRole and         *)
(* removeMember).                                                          *)
THEOREM OwnerStays == TenancySpec => LastOwnerKept
<1>1. TenancyInv /\ [TenancyNext]_tenancyVars => [KeepsOwner]_tenancyVars
  BY StepKeepsOwner
<1> QED BY <1>1, TenancyBegins, TenancyKept, PTL DEF TenancySpec, LastOwnerKept, KeepsOwner

-------------------------------------------------------------------------------
(* Members keep roles of the organization and requests their forms, and   *)
(* a request has counted none but people (OrganizationService).            *)
THEOREM TenancyTypeCorrect == TenancySpec => []TenancyTypeOK
<1>1. TenancyInv => TenancyTypeOK
  BY DEF TenancyInv
<1> QED
  BY <1>1, TenancyBegins, TenancyKept, PTL DEF TenancySpec

-------------------------------------------------------------------------------
(***************************************************************************)
(* Sessions: a token which was revoked stays so, whatever tabs, logouts    *)
(* and failures do to it between Postgres and Redis.                       *)
(***************************************************************************)

Requests == [at : TabStates, with : 0 .. MaxTokens, new : 0 .. MaxTokens, seen : SUBSET Tokens]

(* Tokens are made in order.                                               *)
TokensInv ==
  /\ token \in [Tokens -> TokenStates] /\ made \in 0 .. MaxTokens
  /\ \A n \in Tokens : token[n] # "none" <=> n <= made

Made == {n \in Tokens : token[n] # "none"}
Gone == {n \in Tokens : token[n] \in {"revoked-in-row", "revoked"}}
StillValid == {n \in Tokens : token[n] = "valid"}

(* A request's tokens were made before. One that was sent with a revoked   *)
(* token gets no further than to the row, because the token is revoked for *)
(* good. What was valid when a logout read the tokens is still on its      *)
(* list.                                                                   *)
TabInv(t) ==
  /\ {tab[t].with, tab[t].new} \subseteq Made \cup {NoToken}
  /\ tab[t].seen \subseteq Made
  /\ tab[t].at \in {"redis", "row", "revoke", "end"} => tab[t].with \in Made
  /\ t \in stray => tab[t].at \in {"redis", "row", "refused"}
  /\ t \in stray /\ tab[t].at # "refused" => tab[t].with \in Gone
  /\ Is(t, "logout") => \A n \in StillValid : n <= tab[t].new => n \in tab[t].seen

SessionsInv ==
  /\ TokensInv
  /\ tab \in [Tabs -> Requests] /\ stray \subseteq Tabs
  /\ \A t \in Tabs : TabInv(t)
  /\ jar \in Made \cup {NoToken} /\ left \subseteq Made \ StillValid

(* How the tokens may change: one is made valid only when it is made, and  *)
(* a revoked one stays revoked.                                            *)
Withers ==
  /\ Made \subseteq Made' /\ Gone \subseteq Gone'
  /\ \A n \in Made : n \in StillValid' => n \in StillValid

-------------------------------------------------------------------------------
(* At first there is no token.                                             *)
LEMMA SessionsBegin == SessionsInit => SessionsInv
BY SessionsAssumption
   DEF SessionsInit, SessionsInv, TokensInv, TabInv, Made, Gone, StillValid, Is, NoTab, Requests,
       NoToken, Tokens, TokenStates, TabStates

(* A step that leaves the tokens alone.                                    *)
LEMMA SameWithers ==
  ASSUME TokensInv, UNCHANGED <<token, made>>
  PROVE  TokensInv' /\ Withers
BY DEF TokensInv, Withers, Made, Gone, StillValid

(* The token that is made is a new one.                                    *)
LEMMA MakingWithers ==
  ASSUME TokensInv, MakeToken
  PROVE  TokensInv' /\ Withers /\ made + 1 \in Tokens /\ made + 1 \notin Made
<1>1. made' = made + 1 /\ made + 1 \in Tokens /\ made' \in 0 .. MaxTokens /\ made \in Nat
  BY SessionsAssumption DEF TokensInv, MakeToken, Tokens
<1>2. /\ token \in [Tokens -> TokenStates]
      /\ \A n \in Tokens : token'[n] = IF n = made + 1 THEN "valid" ELSE token[n]
  BY DEF MakeToken, TokensInv
<1>3. token' \in [Tokens -> TokenStates]
  BY DEF MakeToken, TokensInv, TokenStates
<1>4. \A n \in Tokens : token[n] # "none" <=> n <= made
  BY DEF TokensInv
<1>5. \A n \in Tokens : token'[n] # "none" <=> n <= made'
  BY <1>1, <1>2, <1>4 DEF Tokens
<1>6. made + 1 \notin Made
  BY <1>1, <1>4 DEF Made
<1>7. Withers
  BY <1>2, <1>6 DEF Withers, Made, Gone, StillValid
<1> QED BY <1>1, <1>3, <1>5, <1>6, <1>7 DEF TokensInv

(* A token that was made and is written to without becoming valid.         *)
LEMMA WritingWithers ==
  ASSUME TokensInv, NEW k \in Made, NEW s \in {"expired", "revoked-in-row", "revoked"},
         token' = [token EXCEPT ![k] = s], made' = made,
         s = "expired" => token[k] = "valid"
  PROVE  TokensInv' /\ Withers
<1>1. /\ k \in Tokens /\ token \in [Tokens -> TokenStates]
      /\ \A m \in Tokens : token'[m] = IF m = k THEN s ELSE token[m]
  BY DEF TokensInv, Made
<1>2. token' \in [Tokens -> TokenStates]
  BY <1>1 DEF TokenStates
<1>3. \A m \in Tokens : token'[m] # "none" <=> token[m] # "none"
  BY <1>1 DEF Made
<1>4. TokensInv'
  BY <1>2, <1>3 DEF TokensInv
<1>5. Withers
  BY <1>1 DEF Withers, Made, Gone, StillValid
<1> QED BY <1>4, <1>5

(* Each step lets the tokens wither.                                       *)
LEMMA StepWithers ==
  ASSUME SessionsInv, SessionsNext
  PROVE  TokensInv' /\ Withers
<1>1. CASE UNCHANGED <<token, made>>
  BY <1>1, SameWithers DEF SessionsInv
<1>2. ASSUME NEW t \in Tabs, SignIn(t) \/ RotateToken(t)
      PROVE  TokensInv' /\ Withers
  BY <1>2, MakingWithers DEF SignIn, RotateToken, SessionsInv
<1>3. ASSUME NEW t \in Tabs, RevokeInRow(t) \/ RevokeInRedis(t) \/ RevokeListedInRedis(t)
      PROVE  TokensInv' /\ Withers
  <2>1. tab[t].with \in Made
    BY <1>3 DEF SessionsInv, TabInv, RevokeInRow, RevokeInRedis, RevokeListedInRedis, Is
  <2>2. PICK s \in {"revoked-in-row", "revoked"} : token' = [token EXCEPT ![tab[t].with] = s]
    BY <1>3 DEF RevokeInRow, RevokeInRedis, RevokeListedInRedis
  <2>3. made' = made
    BY <1>3 DEF RevokeInRow, RevokeInRedis, RevokeListedInRedis, OnlyTab
  <2> QED BY <2>1, <2>2, <2>3, WritingWithers DEF SessionsInv
<1>4. ASSUME NEW t \in Tabs, NEW n \in Tokens, RevokeListed(t, n)
      PROVE  TokensInv' /\ Withers
  <2>1. n \in Made
    BY <1>4 DEF RevokeListed, SessionsInv, TabInv
  <2>2. PICK s \in {"revoked-in-row", "revoked"} : token' = [token EXCEPT ![n] = s]
    BY <1>4 DEF RevokeListed
  <2> QED BY <1>4, <2>1, <2>2, WritingWithers DEF RevokeListed, OnlyTab, SessionsInv
<1>5. ASSUME NEW n \in Tokens, TokenExpires(n)
      PROVE  TokensInv' /\ Withers
  <2>1. n \in Made
    BY <1>5 DEF TokenExpires, Made
  <2> QED BY <1>5, <2>1, WritingWithers DEF TokenExpires, SessionsInv
<1> QED BY <1>1, <1>2, <1>3, <1>4, <1>5, SessionsNext
     DEF SessionsNext, SendRefresh, CheckRedis, CheckRow, ReplyOk, Reply401, RequestFails,
         ListTokens, RevokeFails, SignOut, AccessExpires, OnlyTab

-------------------------------------------------------------------------------
(* A token that is not younger than one that was made was made.            *)
LEMMA OlderMade ==
  ASSUME TokensInv, NEW m \in Made \cup {NoToken}, NEW n \in Tokens, n <= m
  PROVE  n \in Made
BY SessionsAssumption DEF TokensInv, Made, NoToken, Tokens

(* A tab that does nothing stays as it should, whatever others do to the   *)
(* tokens.                                                                 *)
LEMMA OtherTabs ==
  ASSUME SessionsInv, Withers, NEW t \in Tabs, tab'[t] = tab[t], t \in stray' => t \in stray
  PROVE  TabInv(t)'
<1>1. TabInv(t) /\ TokensInv
  BY DEF SessionsInv
<1>2. ASSUME tab[t].at = "logout", NEW n \in StillValid', n <= tab[t].new
      PROVE  n \in tab[t].seen
  <2>1. n \in Made
    BY <1>1, <1>2, OlderMade DEF TabInv, StillValid
  <2> QED BY <1>1, <1>2, <2>1 DEF TabInv, Withers, Is
<1> QED BY <1>1, <1>2 DEF TabInv, Withers, Is

(* What a logout has left behind is never valid again.                     *)
LEMMA LeftStays ==
  ASSUME SessionsInv, Withers
  PROVE  left \subseteq Made' \ StillValid'
BY DEF SessionsInv, Withers

(* One tab moves.                                                          *)
LEMMA OneMoves ==
  ASSUME SessionsInv, TokensInv', Withers, NEW t \in Tabs, NEW new \in Requests,
         tab' = [tab EXCEPT ![t] = new], stray' \subseteq stray \cup {t}, TabInv(t)',
         jar' \in Made' \cup {NoToken}, left' \subseteq Made' \ StillValid'
  PROVE  SessionsInv'
<1>1. tab' \in [Tabs -> Requests] /\ \A u \in Tabs \ {t} : tab'[u] = tab[u]
  BY DEF SessionsInv
<1>2. \A u \in Tabs : TabInv(u)'
  BY <1>1, OtherTabs
<1>3. stray' \subseteq Tabs
  BY DEF SessionsInv
<1> QED BY <1>1, <1>2, <1>3 DEF SessionsInv

(* No tab moves.                                                           *)
LEMMA NoneMoves ==
  ASSUME SessionsInv, TokensInv', Withers, UNCHANGED <<tab, stray, left>>,
         jar' \in Made' \cup {NoToken}
  PROVE  SessionsInv'
<1>1. \A u \in Tabs : TabInv(u)'
  BY OtherTabs
<1> QED BY <1>1, LeftStays DEF SessionsInv

(* The cookie names a token that was made.                                 *)
LEMMA JarStays ==
  ASSUME SessionsInv, Withers
  PROVE  jar \in Made' \cup {NoToken}
BY DEF SessionsInv, Withers

(* The state of a tab that rests is one a tab may have.                    *)
LEMMA EmptyTab == NoTab \in Requests
BY SessionsAssumption DEF NoTab, Requests, NoToken, TabStates

(* A tab that is at rest again.                                            *)
LEMMA RestKeeps ==
  ASSUME SessionsInv, TokensInv', Withers, NEW t \in Tabs, Rests(t),
         jar' \in Made' \cup {NoToken}, left' \subseteq Made' \ StillValid'
  PROVE  SessionsInv'
<1>1. tab' = [tab EXCEPT ![t] = NoTab] /\ stray' = stray \ {t}
  BY DEF Rests
<1>2. tab'[t] = NoTab
  BY <1>1 DEF SessionsInv
<1>3. TabInv(t)'
  BY <1>1, <1>2 DEF TabInv, NoTab, Is
<1> QED BY <1>1, <1>3, EmptyTab, OneMoves

(* A tab that goes on with the same token, to where that token may be.     *)
LEMMA GoingKeeps ==
  ASSUME SessionsInv, TokensInv', Withers, NEW t \in Tabs, NEW at \in TabStates, Goes(t, at),
         UNCHANGED <<jar, left, stray>>, at \notin {"logout"},
         at \in {"redis", "row", "revoke", "end"} => tab[t].with \in Made,
         t \in stray => at \in {"row", "refused"} /\ tab[t].at # "refused"
  PROVE  SessionsInv'
<1> DEFINE new == [tab[t] EXCEPT !.at = at]
<1>1. TabInv(t) /\ tab[t] \in Requests
  BY DEF SessionsInv
<1>2. new \in Requests /\ tab' = [tab EXCEPT ![t] = new] /\ tab'[t] = new
  BY <1>1 DEF Requests, Goes, SessionsInv
<1>3. /\ new.at = at /\ new.with = tab[t].with /\ new.new = tab[t].new
      /\ new.seen = tab[t].seen
  BY <1>1 DEF Requests
<1> HIDE DEF new
<1>4. /\ {tab[t].with, tab[t].new} \subseteq Made \cup {NoToken} /\ tab[t].seen \subseteq Made
      /\ t \in stray /\ tab[t].at # "refused" => tab[t].with \in Gone
  BY <1>1 DEF TabInv
<1>5. TabInv(t)'
  BY <1>2, <1>3, <1>4 DEF TabInv, Withers, Is
<1> QED BY <1>2, <1>5, OneMoves, JarStays, LeftStays

-------------------------------------------------------------------------------
(* One tab's step, action by action: each names the place it goes to.      *)
LEMMA TabSteps ==
  ASSUME SessionsInv, TokensInv', Withers, NEW t \in Tabs
  PROVE  /\ SignIn(t) => SessionsInv'
         /\ SendRefresh(t) => SessionsInv'
         /\ CheckRedis(t) \/ CheckRow(t) => SessionsInv'
         /\ RevokeInRow(t) \/ RevokeInRedis(t) => SessionsInv'
         /\ RotateToken(t) => SessionsInv'
         /\ ReplyOk(t) \/ Reply401(t) \/ RequestFails(t) => SessionsInv'
         /\ ListTokens(t) \/ RevokeFails(t) => SessionsInv'
         /\ SignOut(t) => SessionsInv'
<1>0. TabInv(t) /\ tab[t] \in Requests /\ TokensInv /\ stray \subseteq Tabs
  BY DEF SessionsInv
<1>1. ASSUME SignIn(t) PROVE SessionsInv'
  <2>1. jar' \in Made'
    <3>1. made + 1 \in Tokens /\ jar' = made + 1 /\ token' = [token EXCEPT ![made + 1] = "valid"]
      BY <1>0, <1>1, MakingWithers DEF SignIn, MakeToken
    <3> QED BY <1>0, <3>1 DEF Made, TokensInv
  <2> QED BY <1>1, <2>1, NoneMoves DEF SignIn
<1>2. ASSUME SendRefresh(t) PROVE SessionsInv'
  <2>1. CASE jar = NoToken
    BY <1>2, <2>1, NoneMoves, JarStays DEF SendRefresh
  <2>2. CASE jar # NoToken
    <3> DEFINE new == [NoTab EXCEPT !.at = "redis", !.with = jar]
    <3>1. /\ new \in Requests /\ jar \in Made
          /\ new.at = "redis" /\ new.with = jar /\ new.new = NoToken /\ new.seen = {}
      <4>1. jar \in Made /\ jar \in 0 .. MaxTokens
        BY <2>2, SessionsAssumption DEF SessionsInv, Made, Tokens
      <4> QED BY <4>1, EmptyTab DEF NoTab, Requests, TabStates
    <3> HIDE DEF new
    <3>2. /\ tab' = [tab EXCEPT ![t] = new] /\ UNCHANGED <<token, jar, left>>
          /\ stray' = IF jar \in Gone THEN stray \cup {t} ELSE stray
      BY <1>2, <2>2, <3>1 DEF SendRefresh, new, Gone, Made
    <3>3. tab'[t] = new
      BY <3>2 DEF SessionsInv
    <3>4. t \notin stray
      BY <1>0, <1>2 DEF TabInv, SendRefresh, Is
    <3>5. TabInv(t)'
      BY <3>1, <3>2, <3>3, <3>4 DEF TabInv, Withers, Is
    <3> QED BY <3>1, <3>2, <3>5, OneMoves, JarStays, LeftStays
  <2> QED BY <2>1, <2>2
<1>3. ASSUME CheckRedis(t) \/ CheckRow(t) PROVE SessionsInv'
  <2>1. CASE CheckRedis(t)
    <3>1. PICK at \in {"row", "refused"} : Goes(t, at)
      BY <2>1 DEF CheckRedis
    <3> QED BY <1>0, <2>1, <3>1, GoingKeeps DEF CheckRedis, OnlyTab, TabInv, Is, TabStates
  <2>2. CASE CheckRow(t)
    <3>1. PICK at \in {"revoke", "end", "refused"} :
            Goes(t, at) /\ (Used(t) \notin {"valid", "expired"} => at = "refused")
      BY <2>2 DEF CheckRow
    <3>2. t \in stray => at = "refused"
      BY <1>0, <2>2, <3>1 DEF CheckRow, Is, TabInv, Gone, Used
    <3> QED BY <1>0, <2>2, <3>1, <3>2, GoingKeeps DEF CheckRow, OnlyTab, TabInv, Is, TabStates
  <2> QED BY <1>3, <2>1, <2>2
<1>4. ASSUME RevokeInRow(t) \/ RevokeInRedis(t) PROVE SessionsInv'
  <2>1. UNCHANGED <<jar, left, stray>> /\ tab[t].at \in {"revoke", "end"}
    BY <1>4 DEF RevokeInRow, RevokeInRedis, OnlyTab, Is
  <2>2. t \notin stray
    BY <1>0, <2>1 DEF TabInv
  <2>3. CASE UNCHANGED tab
    BY <2>1, <2>3, NoneMoves, JarStays
  <2>4. CASE \E at \in {"refused", "create"} : Goes(t, at)
    BY <2>1, <2>2, <2>4, GoingKeeps DEF TabStates
  <2> QED BY <1>4, <2>3, <2>4 DEF RevokeInRow, RevokeInRedis
<1>5. ASSUME RotateToken(t) PROVE SessionsInv'
  <2> DEFINE new == [tab[t] EXCEPT !.at = "ok", !.new = made + 1]
  <2>1. made + 1 \in Made' /\ made + 1 \in 0 .. MaxTokens
    <3>1. made + 1 \in Tokens /\ token' = [token EXCEPT ![made + 1] = "valid"]
      BY <1>0, <1>5, MakingWithers DEF RotateToken, MakeToken
    <3> QED BY <1>0, <3>1 DEF Made, TokensInv, Tokens
  <2>2. /\ new \in Requests
        /\ new.at = "ok" /\ new.with = tab[t].with /\ new.new = made + 1 /\ new.seen = tab[t].seen
    BY <1>0, <2>1 DEF Requests, TabStates
  <2>3. tab' = [tab EXCEPT ![t] = new] /\ tab'[t] = new
    BY <1>5 DEF RotateToken, SessionsInv
  <2> HIDE DEF new
  <2>4. UNCHANGED <<jar, left, stray>> /\ t \notin stray
    BY <1>0, <1>5 DEF RotateToken, TabInv, Is
  <2>5. {tab[t].with} \subseteq Made \cup {NoToken} /\ tab[t].seen \subseteq Made
    BY <1>0 DEF TabInv
  <2>6. TabInv(t)'
    BY <2>1, <2>2, <2>3, <2>4, <2>5 DEF TabInv, Withers, Is
  <2> QED BY <2>2, <2>3, <2>4, <2>6, OneMoves, JarStays, LeftStays
<1>6. ASSUME ReplyOk(t) \/ Reply401(t) \/ RequestFails(t) PROVE SessionsInv'
  <2>1. Rests(t) /\ left' = left
    BY <1>6 DEF ReplyOk, Reply401, RequestFails
  <2>2. jar' \in {jar, tab[t].new, NoToken}
    BY <1>6 DEF ReplyOk, Reply401, RequestFails
  <2>3. jar' \in Made' \cup {NoToken}
    BY <1>0, <2>2, JarStays DEF TabInv, Withers
  <2> QED BY <2>1, <2>3, RestKeeps, LeftStays
<1>7. ASSUME ListTokens(t) \/ RevokeFails(t) PROVE SessionsInv'
  <2>1. UNCHANGED <<token, jar, left, stray>> /\ t \notin stray
    BY <1>0, <1>7 DEF ListTokens, RevokeFails, OnlyTab, TabInv, Is
  <2>2. ASSUME NEW new \in Requests, tab' = [tab EXCEPT ![t] = new],
               new.with = NoToken, new.new \in Made \cup {NoToken}, new.seen \subseteq Made,
               new.at \in {"logout", "leave"}, new.at = "logout" => StillValid \subseteq new.seen
        PROVE  SessionsInv'
    <3>1. tab'[t] = new /\ StillValid' = StillValid
      BY <2>1, <2>2 DEF SessionsInv, StillValid
    <3>2. TabInv(t)'
      BY <2>1, <2>2, <3>1 DEF TabInv, Withers, Is
    <3> QED BY <2>1, <2>2, <3>2, OneMoves, JarStays, LeftStays
  <2>3. CASE tab' = [tab EXCEPT ![t] = [NoTab EXCEPT !.at = "leave"]]
    <3>1. [NoTab EXCEPT !.at = "leave"] \in Requests
      BY EmptyTab DEF Requests, TabStates
    <3> QED BY <2>2, <2>3, <3>1 DEF NoTab
  <2>4. CASE ListTokens(t) /\ access
    <3> DEFINE new == [NoTab EXCEPT !.at = "logout", !.new = made,
                         !.seen = {n \in Tokens : token[n] \in {"valid", "expired"}}]
    <3>1. /\ new.at = "logout" /\ new.with = NoToken /\ new.new = made
          /\ new.seen = {n \in Tokens : token[n] \in {"valid", "expired"}}
          /\ new \in Requests
      BY <1>0, EmptyTab DEF NoTab, Requests, TabStates, TokensInv
    <3>2. made \in Made \cup {NoToken}
      BY <1>0, SessionsAssumption DEF TokensInv, Made, NoToken, Tokens
    <3>3. tab' = [tab EXCEPT ![t] = new]
      BY <2>4 DEF ListTokens
    <3> HIDE DEF new
    <3>4. StillValid \subseteq new.seen /\ new.seen \subseteq Made
      BY <3>1 DEF StillValid, Made
    <3> QED BY <2>2, <3>1, <3>2, <3>3, <3>4
  <2> QED BY <1>7, <2>3, <2>4 DEF ListTokens, RevokeFails
<1>8. ASSUME SignOut(t) PROVE SessionsInv'
  <2>1. Rests(t) /\ jar' = NoToken /\ UNCHANGED <<token, made>>
    BY <1>8 DEF SignOut
  <2>2. left' \subseteq Made' \ StillValid'
    <3>1. CASE left' = left
      BY <3>1, LeftStays
    <3>2. CASE Is(t, "logout") /\ left' = left \cup 1 .. tab[t].new
      <4>1. \A n \in 1 .. tab[t].new : n \in Made \ StillValid
        <5> TAKE n \in 1 .. tab[t].new
        <5>1. tab[t].seen = {} /\ tab[t].new \in Made \cup {NoToken}
          BY <1>0, <1>8 DEF TabInv, SignOut
        <5>2. n \in Tokens /\ n <= tab[t].new
          BY <1>0, <5>1, SessionsAssumption DEF Requests, Tokens
        <5>3. n \in Made
          BY <1>0, <5>1, <5>2, OlderMade
        <5> QED BY <1>0, <3>2, <5>1, <5>2, <5>3 DEF TabInv
      <4>2. Made' = Made /\ StillValid' = StillValid
        BY <2>1 DEF Made, StillValid
      <4> QED BY <3>2, <4>1, <4>2 DEF SessionsInv
    <3> QED BY <1>8, <3>1, <3>2 DEF SignOut
  <2> QED BY <2>1, <2>2, RestKeeps
<1> QED BY <1>1, <1>2, <1>3, <1>4, <1>5, <1>6, <1>7, <1>8

(* A logout revokes one of the tokens it has read: in the row,             *)
LEMMA ListedSteps ==
  ASSUME SessionsInv, TokensInv', Withers, NEW t \in Tabs, NEW n \in Tokens, RevokeListed(t, n)
  PROVE  SessionsInv'
<1> DEFINE new == [tab[t] EXCEPT !.with = n]
<1>1. TabInv(t) /\ tab[t] \in Requests /\ n \in tab[t].seen
  BY DEF SessionsInv, RevokeListed
<1>2. /\ new \in Requests /\ new.at = tab[t].at /\ new.with = n
      /\ new.new = tab[t].new /\ new.seen = tab[t].seen
  BY <1>1, SessionsAssumption DEF Requests, Tokens
<1>3. tab' = [tab EXCEPT ![t] = new] /\ tab'[t] = new
  BY DEF RevokeListed, SessionsInv
<1> HIDE DEF new
<1>4. UNCHANGED <<jar, left, stray>> /\ tab[t].at = "logout" /\ t \notin stray
  BY <1>1 DEF RevokeListed, OnlyTab, Is, TabInv
<1>5. \A m \in StillValid' : m \in StillValid
  BY DEF RevokeListed, SessionsInv, TokensInv, StillValid
<1>6. TabInv(t)'
  BY <1>1, <1>2, <1>3, <1>4, <1>5 DEF TabInv, Withers, Is
<1> QED BY <1>2, <1>3, <1>4, <1>6, OneMoves, JarStays, LeftStays

(* then in Redis.                                                          *)
LEMMA ListedEnds ==
  ASSUME SessionsInv, TokensInv', Withers, NEW t \in Tabs, RevokeListedInRedis(t)
  PROVE  SessionsInv'
<1> DEFINE new == [tab[t] EXCEPT !.with = NoToken, !.seen = @ \ {tab[t].with}]
<1>1. TabInv(t) /\ tab[t] \in Requests
  BY DEF SessionsInv
<1>2. /\ new \in Requests /\ new.at = tab[t].at /\ new.with = NoToken
      /\ new.new = tab[t].new /\ new.seen = tab[t].seen \ {tab[t].with}
  <2>1. NoToken \in 0 .. MaxTokens
    BY SessionsAssumption DEF NoToken
  <2>2. tab[t].seen \ {tab[t].with} \in SUBSET Tokens
    BY <1>1 DEF Requests
  <2>3. new \in Requests
    BY <1>1, <2>1, <2>2 DEF Requests
  <2>4. /\ new.at = tab[t].at /\ new.with = NoToken
        /\ new.new = tab[t].new /\ new.seen = tab[t].seen \ {tab[t].with}
    BY <1>1 DEF Requests
  <2> QED
    BY <2>3, <2>4
<1>3. tab' = [tab EXCEPT ![t] = new] /\ tab'[t] = new
  BY DEF RevokeListedInRedis, SessionsInv
<1> HIDE DEF new
<1>4. UNCHANGED <<jar, left, stray>> /\ tab[t].at = "logout" /\ t \notin stray
  BY <1>1 DEF RevokeListedInRedis, OnlyTab, Is, TabInv
<1>5. \A m \in StillValid' : m \in StillValid /\ m # tab[t].with
  BY DEF RevokeListedInRedis, SessionsInv, TokensInv, StillValid
<1>6. TabInv(t)'
  BY <1>1, <1>2, <1>3, <1>4, <1>5 DEF TabInv, Withers, Is
<1> QED BY <1>2, <1>3, <1>4, <1>6, OneMoves, JarStays, LeftStays

(* The invariant is inductive.                                             *)
LEMMA SessionsKept == SessionsInv /\ [SessionsNext]_sessionsVars => SessionsInv'
<1> SUFFICES ASSUME SessionsInv, [SessionsNext]_sessionsVars PROVE SessionsInv'
  OBVIOUS
<1>1. CASE UNCHANGED sessionsVars
  BY <1>1 DEF sessionsVars, SessionsInv, TokensInv, TabInv, Made, Gone, StillValid, Is
<1>2. CASE SessionsNext
  <2>1. TokensInv' /\ Withers
    BY <1>2, StepWithers
  <2>2. ASSUME AccessExpires \/ \E n \in Tokens : TokenExpires(n)
        PROVE  SessionsInv'
    <3>1. UNCHANGED <<tab, stray, left, jar>>
      BY <2>2 DEF AccessExpires, TokenExpires
    <3> QED BY <2>1, <3>1, NoneMoves, JarStays
  <2> QED BY <1>2, <2>1, <2>2, TabSteps, ListedSteps, ListedEnds DEF SessionsNext
<1> QED BY <1>1, <1>2

-------------------------------------------------------------------------------
(* A token that was revoked when a request with it was sent yields no      *)
(* other, for any number of tabs and tokens (verifyAndRotateRefreshToken). *)
THEOREM RevokedYieldsNothing == SessionsSpec => []RotatedOnce
<1>1. SessionsInv => RotatedOnce
  BY DEF SessionsInv, TabInv, RotatedOnce
<1> QED BY <1>1, SessionsBegin, SessionsKept, PTL DEF SessionsSpec

(* No token a logout read is valid once it is over (logout).               *)
THEOREM LogoutLasts == SessionsSpec => []LogoutHolds
<1>1. SessionsInv => LogoutHolds
  BY DEF SessionsInv, Made, StillValid, LogoutHolds
<1> QED BY <1>1, SessionsBegin, SessionsKept, PTL DEF SessionsSpec

-------------------------------------------------------------------------------
(* What the invariant leaves open of the types: what the browser holds.    *)
BrowserTyped == access \in BOOLEAN /\ signedIn \in BOOLEAN /\ trouble \in 0 .. MaxTrouble

LEMMA BrowserKept == BrowserTyped /\ [SessionsNext]_sessionsVars => BrowserTyped'
<1> SUFFICES ASSUME BrowserTyped, [SessionsNext]_sessionsVars  PROVE BrowserTyped'
  OBVIOUS
<1>1. ASSUME trouble < MaxTrouble  PROVE trouble + 1 \in 0 .. MaxTrouble
  BY <1>1, SessionsAssumption DEF BrowserTyped
<1>2. CASE UNCHANGED sessionsVars
  BY <1>2 DEF sessionsVars, BrowserTyped
<1>3. ASSUME NEW t \in Tabs, SignIn(t) \/ SendRefresh(t) \/ ReplyOk(t) \/ Reply401(t) \/ SignOut(t)
      PROVE  BrowserTyped'
  BY <1>3 DEF BrowserTyped, SignIn, SendRefresh, ReplyOk, Reply401, SignOut
<1>4. ASSUME NEW t \in Tabs,
             \/ CheckRedis(t) \/ CheckRow(t) \/ RevokeInRow(t) \/ RevokeInRedis(t) \/ RotateToken(t)
             \/ ListTokens(t) \/ RevokeListedInRedis(t) \/ \E n \in Tokens : RevokeListed(t, n)
      PROVE  BrowserTyped'
  BY <1>4 DEF BrowserTyped, CheckRedis, CheckRow, RevokeInRow, RevokeInRedis, RotateToken,
              ListTokens, RevokeListed, RevokeListedInRedis, OnlyTab
<1>5. ASSUME NEW t \in Tabs, RequestFails(t) \/ RevokeFails(t)  PROVE BrowserTyped'
  BY <1>1, <1>5 DEF BrowserTyped, RequestFails, RevokeFails
<1>6. CASE AccessExpires \/ \E n \in Tokens : TokenExpires(n)
  BY <1>1, <1>6 DEF BrowserTyped, AccessExpires, TokenExpires
<1> QED
  BY <1>2, <1>3, <1>4, <1>5, <1>6, Zenon DEF SessionsNext

(* The tokens, the cookies and the requests of the tabs keep their types,  *)
(* and no more tokens are made than there are numbers for.                 *)
THEOREM SessionsTypeCorrect == SessionsSpec => []SessionsTypeOK
<1>1. SessionsInit => BrowserTyped
  <2>1. 0 \in 0 .. MaxTrouble
    BY SessionsAssumption
  <2> QED
    BY <2>1 DEF SessionsInit, BrowserTyped
<1>2. SessionsInv /\ BrowserTyped => SessionsTypeOK
  <2> SUFFICES ASSUME SessionsInv, BrowserTyped  PROVE SessionsTypeOK
    OBVIOUS
  <2>1. Made \cup {NoToken} \subseteq 0 .. MaxTokens /\ Made \subseteq Tokens
    BY SessionsAssumption DEF Made, Tokens, NoToken
  <2>2. \A t \in Tabs : tab[t] \in Requests
    BY DEF SessionsInv
  <2> QED
    BY <2>1, <2>2 DEF SessionsInv, TokensInv, BrowserTyped, SessionsTypeOK, Requests
<1> QED
  BY <1>1, <1>2, SessionsBegin, SessionsKept, BrowserKept, PTL DEF SessionsSpec

-------------------------------------------------------------------------------
(***************************************************************************)
(* Accounts: a user gets one home, however many sign-ins run at once. Rows *)
(* are never emptied, and an organization is made only in a transaction    *)
(* that saw the user without one.                                          *)
(***************************************************************************)

(* A request in the transaction of ensurePersonalOrganization.             *)
InTransaction(k) == signIn[k].at \in {"look", "first-slug", "other-slug"}

(* What the database looked up is of the kind the request asks for, and a  *)
(* request that has a user had one: a row that is gone does not come back. *)
AskedInv == \A k \in SignIns :
  /\ signIn[k].at = "create" => signIn[k].id \in Mails
  /\ signIn[k].at \in {"upsert", "find", "attach"} => signIn[k].id \in Hubs
  /\ signIn[k].at \in {"attach", "detach", "find"} => signIn[k].row \in Rows
  /\ InTransaction(k) \/ signIn[k].at \in {"lock", "tokens"}
       => signIn[k].row \in Rows /\ users[signIn[k].row].is # "unused"

(* The transaction holds its user's row, and what it found out holds as    *)
(* long.                                                                   *)
HomeInv ==
  /\ \A r \in Rows : homes[r] \in {0, 1}
  /\ \A k \in SignIns : HasRow(k) =>
       /\ InTransaction(k) => rowLock[signIn[k].row] = k
       /\ signIn[k].at \in {"first-slug", "other-slug"} => homes[signIn[k].row] = 0
       /\ signIn[k].at = "tokens" /\ signIn[k].kind \in {"register", "hub"}
            => homes[signIn[k].row] = 1 \/ signIn[k].row \in guests

AccountsInv == AccountsTypeOK /\ AskedInv /\ HomeInv

RequestTyped == signIn' \in [SignIns -> [kind : Kinds, at : Places, row : Rows \cup {0},
                                        id : Hubs \cup Mails \cup {None}, tries : 0 .. 2]]
Others(k) == \A j \in SignIns \ {k} : signIn'[j] = signIn[j]

LEMMA NoneAsks == None \notin SignIns
BY AccountsAssumption

LEMMA NoRequestTyped ==
  /\ NoRequest \in [kind : Kinds, at : Places, row : Rows \cup {0},
                    id : Hubs \cup Mails \cup {None}, tries : 0 .. 2]
  /\ NoRequest.at = "idle" /\ NoRequest.kind = "mail" /\ NoRequest.row = 0
BY DEF NoRequest, Request, Kinds, Places

(* How a request goes on.                                                  *)
LEMMA Went ==
  ASSUME AccountsTypeOK, NEW k \in SignIns
  PROVE  /\ Closes(k) => RequestTyped /\ Others(k) /\ signIn'[k] = NoRequest
         /\ \A place \in Places : Moves(k, place) =>
              /\ RequestTyped /\ Others(k) /\ signIn'[k].at = place
              /\ signIn'[k].kind = signIn[k].kind /\ signIn'[k].row = signIn[k].row
              /\ signIn'[k].id = signIn[k].id
         /\ \A r \in Rows : Signed(k, r) =>
              /\ RequestTyped /\ Others(k) /\ signIn'[k].at = "lock" /\ signIn'[k].row = r
              /\ signIn'[k].kind = signIn[k].kind
<1>1. ASSUME Closes(k)  PROVE RequestTyped /\ Others(k) /\ signIn'[k] = NoRequest
  BY <1>1, NoRequestTyped DEF Closes, RequestTyped, Others, AccountsTypeOK
<1>2. ASSUME NEW place \in Places, Moves(k, place)
      PROVE  /\ RequestTyped /\ Others(k) /\ signIn'[k].at = place
             /\ signIn'[k].kind = signIn[k].kind /\ signIn'[k].row = signIn[k].row
             /\ signIn'[k].id = signIn[k].id
  BY <1>2 DEF Moves, RequestTyped, Others, AccountsTypeOK
<1>3. ASSUME NEW r \in Rows, Signed(k, r)
      PROVE  /\ RequestTyped /\ Others(k) /\ signIn'[k].at = "lock" /\ signIn'[k].row = r
             /\ signIn'[k].kind = signIn[k].kind
  BY <1>3 DEF Signed, RequestTyped, Others, AccountsTypeOK, Places
<1> QED
  BY <1>1, <1>2, <1>3

(* A new request.                                                          *)
LEMMA Came ==
  ASSUME AccountsTypeOK, NEW k \in SignIns, NEW kind \in Kinds, NEW at \in Places,
         NEW row \in Rows \cup {0}, NEW id \in Hubs \cup Mails \cup {None},
         Begins(k, Request(kind, at, row, id))
  PROVE  /\ RequestTyped /\ Others(k) /\ signIn[k].at = "idle"
         /\ signIn'[k].kind = kind /\ signIn'[k].at = at /\ signIn'[k].row = row
         /\ signIn'[k].id = id
BY DEF Begins, Stands, Request, RequestTyped, Others, AccountsTypeOK

LEMMA AccountsBegin == AccountsInit => AccountsInv
<1> SUFFICES ASSUME AccountsInit  PROVE AccountsInv
  OBVIOUS
<1>1. AccountsTypeOK
  <2>1. users \in [Rows -> [is : {"unused", "known", "erased"},
                            hub : Hubs \cup {None}, mail : Mails \cup {None}]]
    BY DEF AccountsInit, Unused, User
  <2>2. homes \in [Rows -> 0 .. 2]
    BY DEF AccountsInit
  <2> QED
    BY <2>1, <2>2, NoRequestTyped, Zenon DEF AccountsInit, AccountsTypeOK
<1>2. AskedInv /\ HomeInv
  BY NoRequestTyped DEF AccountsInit, AskedInv, HomeInv, InTransaction
<1> QED
  BY <1>1, <1>2 DEF AccountsInv

(* Requests that come and read.                                            *)
LEMMA AskingKeeps ==
  ASSUME AccountsInv, NEW k \in SignIns, OnlySignIn,
         \/ \E e \in Mails : AskRegister(k, e)
         \/ \E g \in Hubs : AskGitHub(k, g)
         \/ \E r \in Rows : LoginByMail(k, r) \/ AskDisconnect(k, r)
         \/ \E r \in Rows, g \in Hubs : AskLink(k, r, g)
         \/ IssueTokens(k) \/ FindLinked(k)
  PROVE  AccountsInv'
<1>1. RequestTyped /\ Others(k)
  BY Came, Went DEF AccountsInv, AskRegister, AskGitHub, LoginByMail, AskDisconnect, AskLink, IssueTokens,
     FindLinked, Kinds, Places, Known
<1>2. AccountsTypeOK'
  BY <1>1 DEF AccountsInv, AccountsTypeOK, OnlySignIn, RequestTyped
<1>3. /\ signIn'[k].at = "create" => signIn'[k].id \in Mails
      /\ signIn'[k].at \in {"upsert", "find", "attach"} => signIn'[k].id \in Hubs
      /\ signIn'[k].at \in {"attach", "detach", "find"} => signIn'[k].row \in Rows
      /\ ~InTransaction(k)' /\ signIn'[k].at # "lock"
      /\ signIn'[k].at = "tokens" => signIn'[k].kind = "mail" /\ signIn'[k].row \in Known
  <2>1. ASSUME NEW e \in Mails, AskRegister(k, e)  PROVE signIn'[k].at = "create" /\ signIn'[k].id = e
    BY <2>1, Came DEF AccountsInv, AskRegister, Kinds, Places
  <2>2. ASSUME NEW g \in Hubs, AskGitHub(k, g)  PROVE signIn'[k].at = "upsert" /\ signIn'[k].id = g
    BY <2>2, Came DEF AccountsInv, AskGitHub, Kinds, Places
  <2>3. ASSUME NEW r \in Rows, LoginByMail(k, r)
        PROVE  signIn'[k].at = "tokens" /\ signIn'[k].row \in Known /\ signIn'[k].kind = "mail"
    BY <2>3, Came DEF AccountsInv, LoginByMail, Kinds, Places
  <2>4. ASSUME NEW r \in Rows, AskDisconnect(k, r)  PROVE signIn'[k].at = "detach" /\ signIn'[k].row = r
    BY <2>4, Came DEF AccountsInv, AskDisconnect, Kinds, Places
  <2>5. ASSUME NEW r \in Rows, NEW g \in Hubs, AskLink(k, r, g)
        PROVE  signIn'[k].at = "find" /\ signIn'[k].row = r /\ signIn'[k].id = g
    BY <2>5, Came DEF AccountsInv, AskLink, Kinds, Places
  <2>6. ASSUME IssueTokens(k)  PROVE signIn'[k].at = "idle"
    BY <2>6, Went, NoRequestTyped DEF AccountsInv, IssueTokens
  <2>7. CASE FindLinked(k)
    <3>1. CASE Moves(k, "attach")
      BY <2>7, <3>1, Went DEF FindLinked, Stands, AccountsInv, AskedInv, InTransaction, Places
    <3>2. CASE Closes(k)
      BY <3>2, Went, NoRequestTyped DEF AccountsInv, InTransaction
    <3> QED
      BY <2>7, <3>1, <3>2 DEF FindLinked
  <2> QED
    BY <2>1, <2>2, <2>3, <2>4, <2>5, <2>6, <2>7 DEF InTransaction
<1> QED
  BY <1>1, <1>2, <1>3 DEF AccountsInv, AskedInv, HomeInv, InTransaction, OnlySignIn, Others, HasRow, Known

(* A user comes.                                                           *)
LEMMA UserComes ==
  ASSUME AccountsInv, NEW k \in SignIns, NEW r \in Rows, NextRow(r), Signed(k, r),
         NEW hub \in Hubs \cup {None}, NEW mail \in Mails \cup {None},
         users' = [users EXCEPT ![r] = User("known", hub, mail)],
         UNCHANGED <<homes, guests, slugTaken, rowLock>>
  PROVE  AccountsInv'
<1>1. users[r].is = "unused"
  BY DEF NextRow, Unused, User
<1>2. /\ users' \in [Rows -> [is : {"unused", "known", "erased"},
                               hub : Hubs \cup {None}, mail : Mails \cup {None}]]
      /\ users'[r].is = "known" /\ \A s \in Rows \ {r} : users'[s] = users[s]
  BY DEF User, AccountsInv, AccountsTypeOK
<1>3. RequestTyped /\ Others(k) /\ signIn'[k].at = "lock" /\ signIn'[k].row = r
  BY Went DEF AccountsInv
<1>4. AccountsTypeOK'
  BY <1>2, <1>3 DEF AccountsInv, AccountsTypeOK, RequestTyped
<1> QED
  BY <1>1, <1>2, <1>3, <1>4
  DEF AccountsInv, AskedInv, HomeInv, InTransaction, Others, HasRow, Known

(* Registration and the first step of a sign-in with GitHub.               *)
LEMMA SignInBegins ==
  ASSUME AccountsInv, NEW k \in SignIns, CreateUser(k) \/ UpsertUser(k)
  PROVE  AccountsInv'
<1>1. CASE Closes(k) /\ UNCHANGED users
  <2>1. RequestTyped /\ Others(k) /\ signIn'[k].at = "idle" /\ OnlySignIn
    BY <1>1, Went, NoRequestTyped DEF AccountsInv, CreateUser, UpsertUser, OnlySignIn
  <2> QED
    BY <2>1 DEF AccountsInv, AccountsTypeOK, RequestTyped, AskedInv, HomeInv, InTransaction,
       OnlySignIn, Others, HasRow, Known
<1>2. ASSUME NEW r \in Known, Signed(k, r), UNCHANGED users  PROVE AccountsInv'
  <2>1. /\ RequestTyped /\ Others(k) /\ signIn'[k].at = "lock" /\ signIn'[k].row = r /\ OnlySignIn
        /\ r \in Rows /\ users[r].is = "known"
    BY <1>2, Went DEF AccountsInv, CreateUser, UpsertUser, OnlySignIn, Known
  <2>2. AccountsTypeOK'
    BY <2>1 DEF AccountsInv, AccountsTypeOK, RequestTyped, OnlySignIn
  <2> QED
    BY <2>1, <2>2 DEF AccountsInv, AskedInv, HomeInv, InTransaction, OnlySignIn, Others, HasRow, Known
<1>3. CASE CreateUser(k)
  BY <1>1, <1>3, UserComes DEF CreateUser, Stands, AccountsInv, AskedInv
<1>4. CASE UpsertUser(k)
  BY <1>2, <1>4, UserComes DEF UpsertUser, Stands, AccountsInv, AskedInv, ByHub
<1> QED
  BY <1>3, <1>4

(* A row that is let go is not the row of another transaction.             *)
LEMMA Frees ==
  ASSUME AccountsInv, NEW k \in SignIns, LetsGo(k)
  PROVE  /\ rowLock' \in [Rows -> SignIns \cup {None}]
         /\ \A r \in Rows : rowLock[r] # k => rowLock'[r] = rowLock[r]
BY DEF LetsGo, AccountsInv, AccountsTypeOK

(* The end of a transaction that leaves the organizations alone.           *)
LEMMA LetGoKeeps ==
  ASSUME AccountsInv, NEW k \in SignIns, InTransaction(k), LetsGo(k),
         UNCHANGED <<users, homes, guests, slugTaken>>, RequestTyped, Others(k),
         signIn'[k].at \in {"idle", "lock", "tokens"},
         signIn'[k].at # "idle" => signIn'[k].row = signIn[k].row,
         signIn'[k].at = "tokens" /\ HasRow(k)
           => homes[signIn[k].row] = 1 \/ signIn[k].row \in guests
  PROVE  AccountsInv'
<1>1. AccountsTypeOK'
  BY Frees DEF AccountsInv, AccountsTypeOK, RequestTyped
<1>2. AskedInv'
  BY DEF AccountsInv, AskedInv, InTransaction, Others
<1>3. HomeInv'
  BY Frees DEF AccountsInv, AskedInv, HomeInv, InTransaction, Others, HasRow, Known
<1> QED
  BY <1>1, <1>2, <1>3 DEF AccountsInv

(* The transaction.                                                        *)
LEMMA TransactionKeeps ==
  ASSUME AccountsInv, NEW k \in SignIns, LockUser(k) \/ LookForHome(k) \/ MakeHome(k)
  PROVE  AccountsInv'
<1>1. CASE LockUser(k)
  <2>1. /\ RequestTyped /\ Others(k) /\ signIn'[k].at = "look" /\ signIn'[k].row = signIn[k].row
    BY <1>1, Went DEF LockUser, AccountsInv, Places
  <2>2. signIn[k].row \in Rows /\ users[signIn[k].row].is # "unused" /\ rowLock[signIn[k].row] = None
    BY <1>1 DEF LockUser, Stands, AccountsInv, AskedInv
  <2>3. /\ rowLock' \in [Rows -> SignIns \cup {None}]
        /\ HasRow(k) => rowLock'[signIn[k].row] = k
        /\ \A r \in Rows : rowLock[r] # None => rowLock'[r] = rowLock[r]
    BY <1>1, <2>2 DEF LockUser, Takes, AccountsInv, AccountsTypeOK
  <2>4. UNCHANGED <<users, homes, guests, slugTaken>>
    BY <1>1 DEF LockUser
  <2>5. AccountsTypeOK'
    BY <2>1, <2>3, <2>4 DEF AccountsInv, AccountsTypeOK, RequestTyped
  <2>6. AskedInv'
    BY <2>1, <2>2, <2>4 DEF AccountsInv, AskedInv, InTransaction, Others
  <2>7. HomeInv'
    BY <2>1, <2>2, <2>3, <2>4, NoneAsks
    DEF AccountsInv, AskedInv, HomeInv, InTransaction, Others, HasRow, Known
  <2> QED
    BY <2>5, <2>6, <2>7 DEF AccountsInv
<1>2. CASE LookForHome(k)
  <2>0. Stands(k, "look") /\ InTransaction(k) /\ UNCHANGED <<users, homes, guests, slugTaken>>
    BY <1>2 DEF LookForHome, Stands, InTransaction
  <2>1. CASE /\ homes[signIn[k].row] > 0 \/ signIn[k].row \in guests
             /\ Moves(k, "tokens") /\ LetsGo(k)
    <3>1. /\ RequestTyped /\ Others(k) /\ signIn'[k].at = "tokens"
          /\ signIn'[k].row = signIn[k].row
      BY <2>1, Went DEF AccountsInv, Places
    <3>2. HasRow(k) => homes[signIn[k].row] = 1 \/ signIn[k].row \in guests
      BY <2>1 DEF AccountsInv, HomeInv, HasRow, Known
    <3> QED
      BY <2>0, <2>1, <3>1, <3>2, LetGoKeeps
  <2>2. CASE /\ homes[signIn[k].row] = 0 /\ UNCHANGED rowLock
             /\ Moves(k, IF slugTaken THEN "other-slug" ELSE "first-slug")
    <3>1. /\ RequestTyped /\ Others(k) /\ signIn'[k].at \in {"first-slug", "other-slug"}
          /\ signIn'[k].row = signIn[k].row
      <4>1. CASE slugTaken
        BY <2>2, <4>1, Went DEF AccountsInv, Places
      <4>2. CASE ~slugTaken
        BY <2>2, <4>2, Went DEF AccountsInv, Places
      <4> QED
        BY <4>1, <4>2
    <3>2. AccountsTypeOK'
      BY <2>0, <2>2, <3>1 DEF AccountsInv, AccountsTypeOK, RequestTyped
    <3> QED
      BY <2>0, <2>2, <3>1, <3>2
      DEF AccountsInv, AskedInv, HomeInv, InTransaction, Others, HasRow, Known
  <2> QED
    BY <1>2, <2>1, <2>2 DEF LookForHome
<1>3. CASE MakeHome(k)
  <2>0. /\ signIn[k].at \in {"first-slug", "other-slug"} /\ InTransaction(k)
        /\ LetsGo(k) /\ UNCHANGED <<users, guests>>
    BY <1>3 DEF MakeHome, Stands, InTransaction
  <2>1. CASE Closes(k) /\ UNCHANGED <<homes, slugTaken>>
    <3>1. RequestTyped /\ Others(k) /\ signIn'[k].at = "idle" /\ signIn'[k].row = 0
      BY <2>1, Went, NoRequestTyped DEF AccountsInv
    <3> QED
      BY <2>0, <2>1, <3>1, LetGoKeeps
  <2>2. CASE /\ signIn[k].tries # 2 /\ UNCHANGED <<homes, slugTaken>>
             /\ signIn' = [signIn EXCEPT ![k].at = "lock", ![k].tries = @ + 1]
    <3>1. RequestTyped /\ Others(k) /\ signIn'[k].at = "lock" /\ signIn'[k].row = signIn[k].row
      BY <2>2 DEF AccountsInv, AccountsTypeOK, RequestTyped, Others, Places
    <3> QED
      BY <2>0, <2>2, <3>1, LetGoKeeps
  <2>3. CASE /\ HasRow(k) /\ slugTaken' = TRUE /\ Moves(k, "tokens")
             /\ homes' = [homes EXCEPT ![signIn[k].row] = @ + 1]
    <3>1. /\ RequestTyped /\ Others(k) /\ signIn'[k].at = "tokens"
          /\ signIn'[k].row = signIn[k].row
      BY <2>3, Went DEF AccountsInv, Places
    <3>2. homes[signIn[k].row] = 0 /\ rowLock[signIn[k].row] = k /\ signIn[k].row \in Rows
      BY <2>0, <2>3 DEF AccountsInv, HomeInv, HasRow, Known
    <3>3. /\ homes' \in [Rows -> 0 .. 2] /\ homes'[signIn[k].row] = 1
          /\ \A r \in Rows \ {signIn[k].row} : homes'[r] = homes[r]
      BY <2>3, <3>2 DEF AccountsInv, AccountsTypeOK
    <3>4. AccountsTypeOK'
      BY <2>0, <2>3, <3>1, <3>3, Frees DEF AccountsInv, AccountsTypeOK, RequestTyped
    <3>5. AskedInv'
      BY <2>0, <3>1 DEF AccountsInv, AskedInv, InTransaction, Others
    <3>6. HomeInv'
      BY <2>0, <3>1, <3>2, <3>3, Frees
      DEF AccountsInv, HomeInv, InTransaction, Others, HasRow, Known
    <3> QED
      BY <3>4, <3>5, <3>6 DEF AccountsInv
  <2> QED
    BY <1>3, <2>1, <2>2, <2>3 DEF MakeHome
<1> QED
  BY <1>1, <1>2, <1>3

(* The rest changes users.                                                 *)
LEMMA UserRowsKeep ==
  ASSUME AccountsInv,
         \/ \E k \in SignIns : AttachHub(k) \/ DetachHub(k)
         \/ \E r \in Rows : EraseUser(r) \/ BecomesGuest(r)
  PROVE  AccountsInv'
<1>1. ASSUME NEW k \in SignIns, AttachHub(k) \/ DetachHub(k)  PROVE AccountsInv'
  <2>1. RequestTyped /\ Others(k) /\ signIn'[k].at = "idle"
    BY <1>1, Went, NoRequestTyped DEF AccountsInv, AttachHub, DetachHub
  <2>2. /\ users' \in [Rows -> [is : {"unused", "known", "erased"},
                                 hub : Hubs \cup {None}, mail : Mails \cup {None}]]
        /\ \A r \in Rows : users'[r].is = users[r].is
        /\ UNCHANGED <<homes, guests, slugTaken, rowLock>>
    <3>1. signIn[k].at = "attach" => signIn[k].id \in Hubs
      BY DEF AccountsInv, AskedInv
    <3>2. CASE UNCHANGED users
      BY <1>1, <3>2 DEF AttachHub, DetachHub, AccountsInv, AccountsTypeOK
    <3>3. CASE signIn[k].row \in Rows /\ \E hub \in Hubs \cup {None} :
                 users' = [users EXCEPT ![signIn[k].row].hub = hub]
      <4>1. /\ users' \in [Rows -> [is : {"unused", "known", "erased"},
                                     hub : Hubs \cup {None}, mail : Mails \cup {None}]]
            /\ \A r \in Rows : users'[r].is = users[r].is
        BY <3>3 DEF AccountsInv, AccountsTypeOK
      <4>2. UNCHANGED <<homes, guests, slugTaken, rowLock>>
        BY <1>1 DEF AttachHub, DetachHub
      <4> QED
        BY <4>1, <4>2
    <3> QED
      BY <1>1, <3>1, <3>2, <3>3 DEF AttachHub, DetachHub, Stands, HasRow, Known
  <2>3. AccountsTypeOK'
    BY <2>1, <2>2 DEF AccountsInv, AccountsTypeOK, RequestTyped
  <2> QED
    BY <2>1, <2>2, <2>3 DEF AccountsInv, AskedInv, HomeInv, InTransaction, Others, HasRow, Known
<1>2. ASSUME NEW r \in Rows, EraseUser(r)  PROVE AccountsInv'
  <2>1. /\ users' \in [Rows -> [is : {"unused", "known", "erased"},
                                 hub : Hubs \cup {None}, mail : Mails \cup {None}]]
        /\ users'[r].is = "erased" /\ \A s \in Rows \ {r} : users'[s] = users[s]
    BY <1>2 DEF EraseUser, Erased, User, AccountsInv, AccountsTypeOK
  <2>2. /\ homes' \in [Rows -> 0 .. 2] /\ homes'[r] = 0
        /\ \A s \in Rows \ {r} : homes'[s] = homes[s]
        /\ UNCHANGED <<guests, slugTaken, rowLock, signIn>>
    BY <1>2 DEF EraseUser, AccountsInv, AccountsTypeOK
  <2>3. AccountsTypeOK'
    BY <2>1, <2>2 DEF AccountsInv, AccountsTypeOK
  <2> QED
    BY <2>1, <2>2, <2>3 DEF AccountsInv, AskedInv, HomeInv, InTransaction, HasRow, Known
<1>3. ASSUME NEW r \in Rows, BecomesGuest(r)  PROVE AccountsInv'
  BY <1>3 DEF BecomesGuest, AccountsInv, AccountsTypeOK, AskedInv, HomeInv, InTransaction, HasRow, Known
<1> QED
  BY <1>1, <1>2, <1>3

LEMMA AccountsKept == AccountsInv /\ [AccountsNext]_accountsVars => AccountsInv'
<1> SUFFICES ASSUME AccountsInv, [AccountsNext]_accountsVars  PROVE AccountsInv'
  OBVIOUS
<1>1. CASE UNCHANGED accountsVars
  BY <1>1 DEF accountsVars, AccountsInv, AccountsTypeOK, AskedInv, HomeInv, InTransaction, HasRow, Known
<1>2. ASSUME NEW k \in SignIns,
             \/ \E e \in Mails : AskRegister(k, e)
             \/ \E g \in Hubs : AskGitHub(k, g)
             \/ \E r \in Rows : LoginByMail(k, r) \/ AskDisconnect(k, r)
             \/ \E r \in Rows, g \in Hubs : AskLink(k, r, g)
             \/ IssueTokens(k) \/ FindLinked(k)
      PROVE  AccountsInv'
  <2>1. OnlySignIn
    BY <1>2, Zenon
    DEF AskRegister, AskGitHub, LoginByMail, AskDisconnect, AskLink, IssueTokens, FindLinked
  <2> QED
    BY <1>2, <2>1, AskingKeeps
<1> QED
  BY <1>1, <1>2, SignInBegins, TransactionKeeps, UserRowsKeep DEF AccountsNext

(* Whoever has registered or signed in with GitHub has one personal        *)
(* organization when the tokens are issued, or was added to another one    *)
(* before (ensurePersonalOrganization).                                    *)
THEOREM HomeIsOne == AccountsSpec => []OneHome
<1>1. ASSUME AccountsInv, NEW k \in SignIns, Stands(k, "tokens"),
             signIn[k].kind \in {"register", "hub"}, HasRow(k)
      PROVE  \/ homes[signIn[k].row] = 1
             \/ homes[signIn[k].row] = 0 /\ signIn[k].row \in guests
  <2>1. homes[signIn[k].row] = 1 \/ signIn[k].row \in guests
    BY <1>1 DEF AccountsInv, HomeInv, Stands
  <2>2. homes[signIn[k].row] \in {0, 1}
    BY <1>1 DEF AccountsInv, HomeInv, HasRow, Known
  <2> QED
    BY <2>1, <2>2
<1>2. AccountsInv => OneHome
  BY <1>1 DEF OneHome
<1> QED
  BY <1>2, AccountsBegin, AccountsKept, PTL DEF AccountsSpec

-------------------------------------------------------------------------------
(* The rows of users and organizations, the lock on a user's row and the   *)
(* requests that sign in keep their types (AuthenticationService).         *)
THEOREM AccountsTypeCorrect == AccountsSpec => []AccountsTypeOK
<1>1. AccountsInv => AccountsTypeOK
  BY DEF AccountsInv
<1> QED
  BY <1>1, AccountsBegin, AccountsKept, PTL DEF AccountsSpec

-------------------------------------------------------------------------------
(***************************************************************************)
(* Consent: nobody is asked twice for one version. What a page knows of a  *)
(* document is a version there was, and only one document asks at a time.  *)
(***************************************************************************)

(* What a page knows of a document.                                        *)
PageEntry ==
  [need : BOOLEAN, version : Version \cup {NoVersion}, asking : {"no", "needed", "not-needed"},
   open : BOOLEAN, read : BOOLEAN]

(* Versions are those of their document, and what a page shows is one.     *)
KnownInv ==
  /\ page \in [Pages -> [Policies -> PageEntry]]
  /\ \A k \in Policies : versions[k] \subseteq 1 .. MaxVersions[k]
  /\ \A p \in Pages, k \in Policies :
       /\ page[p][k].version # NoVersion => versions[k] # {}
       /\ page[p][k].open => page[p][k].version # NoVersion

(* The acceptance that counts is of the newest version accepted, unless an *)
(* older one came late.                                                    *)
LatestInv ==
  \A k \in Policies : k \notin late => \A v \in consents[k] : v <= latest[k]

(* One page shows one modal, and only one that it wants by what it heard.  *)
OneModal == \A p \in Pages :
  /\ \A j, k \in Policies : page[p][j].open /\ page[p][k].open => j = k
  /\ \A k \in Policies : page[p][k].open => Wants(page[p], k)

ConsentInv == ConsentTypeOK /\ KnownInv /\ LatestInv /\ OneModal

-------------------------------------------------------------------------------
(* The largest of some numbers.                                            *)
LEMMA Largest ==
  ASSUME NEW n \in Nat, NEW S, S \subseteq 1 .. n, S # {}
  PROVE  Max(S) \in S
<1> DEFINE Back == {n - m : m \in S}
           Less == {p \in Nat \X Nat : p[1] < p[2]}
<1>0. \A m \in S : n - m \in Nat
  OBVIOUS
<1>1. Back \subseteq Nat /\ Back # {}
  BY <1>0
<1>2. IsWellFoundedOn(Less, Nat)
  BY NatLessThanWellFounded DEF OpToRel
<1>3. PICK b \in Back : \A c \in Back : <<c, b>> \notin Less
  <2> HIDE DEF Back, Less
  <2> QED
    BY <1>1, <1>2, WFMin
<1>4. PICK m \in S : b = n - m
  BY <1>3
<1>5. ASSUME NEW l \in S  PROVE m >= l
  <2>1. n - l \in Nat /\ n - m \in Nat /\ <<n - l, n - m>> \notin Less
    BY <1>3, <1>4
  <2> QED
    BY <2>1
<1> QED
  BY <1>5 DEF Max

(* The newest version is one, unless there is none.                        *)
LEMMA NewestKnown ==
  ASSUME ConsentInv, NEW k \in Policies
  PROVE  Newest(k) \in Version \cup {NoVersion}
<1>1. MaxVersions[k] \in Nat /\ versions[k] \subseteq 1 .. MaxVersions[k] /\ versions[k] \subseteq Version
  BY ConsentAssumption DEF ConsentInv, KnownInv, ConsentTypeOK
<1> QED
  BY <1>1, Largest DEF Newest

LEMMA VersionsCount == Version \subseteq Nat
BY ConsentAssumption DEF Version

(* The types follow from what pages know.                                  *)
LEMMA ConsentTyped ==
  ASSUME KnownInv,
         versions \in [Policies -> SUBSET Version], consents \in [Policies -> SUBSET Version],
         latest \in [Policies -> Version \cup {NoVersion}], found \in BOOLEAN, late \subseteq Policies
  PROVE  ConsentTypeOK
BY DEF ConsentTypeOK, KnownInv, PageEntry

LEMMA ConsentBegins == ConsentInit => ConsentInv
<1> SUFFICES ASSUME ConsentInit  PROVE ConsentInv
  OBVIOUS
<1>1. KnownInv
  BY DEF ConsentInit, KnownInv, NewPage, Nothing, PageEntry
<1>2. ConsentTypeOK
  BY <1>1, ConsentTyped DEF ConsentInit
<1>3. LatestInv /\ OneModal
  BY DEF ConsentInit, LatestInv, OneModal, NewPage, Nothing
<1> QED
  BY <1>1, <1>2, <1>3 DEF ConsentInv

(* What becomes of what a page knows.                                      *)
LEMMA EntryStays ==
  ASSUME NEW e \in PageEntry
  PROVE  /\ \A a \in {"no", "needed", "not-needed"} : [e EXCEPT !.asking = a] \in PageEntry
         /\ \A b \in BOOLEAN : [e EXCEPT !.read = b] \in PageEntry
         /\ [e EXCEPT !.open = FALSE, !.read = FALSE] \in PageEntry
         /\ \A b \in BOOLEAN, v \in Version \cup {NoVersion} :
              [e EXCEPT !.asking = "no", !.need = b, !.version = v] \in PageEntry
         /\ \A b, c \in BOOLEAN : [e EXCEPT !.open = b, !.read = c] \in PageEntry
BY DEF PageEntry

LEMMA PageTurns ==
  ASSUME page \in [Pages -> [Policies -> PageEntry]], NEW p \in Pages, NEW k \in Policies,
         NEW e \in PageEntry, page' = [page EXCEPT ![p][k] = e]
  PROVE  /\ page' \in [Pages -> [Policies -> PageEntry]] /\ page'[p][k] = e
         /\ \A q \in Pages, j \in Policies : <<q, j>> # <<p, k>> => page'[q][j] = page[q][j]
OBVIOUS

(* A step of one page that opens no modal and hears of no version.         *)
LEMMA EntryTurns ==
  ASSUME ConsentInv, NEW p \in Pages, NEW k \in Policies, NEW e \in PageEntry,
         page' = [page EXCEPT ![p][k] = e], UNCHANGED versions,
         e.version = page[p][k].version, e.need = page[p][k].need, e.open => page[p][k].open
  PROVE  KnownInv' /\ OneModal'
<1>1. page \in [Pages -> [Policies -> PageEntry]]
  BY DEF ConsentInv, KnownInv
<1>2. /\ page' \in [Pages -> [Policies -> PageEntry]] /\ page'[p][k] = e
      /\ \A q \in Pages, j \in Policies : <<q, j>> # <<p, k>> => page'[q][j] = page[q][j]
  BY <1>1, PageTurns
<1>3. \A q \in Pages, j \in Policies :
        /\ page'[q][j].version = page[q][j].version /\ page'[q][j].need = page[q][j].need
        /\ page'[q][j].open => page[q][j].open
  <2>1. ASSUME NEW q \in Pages, NEW j \in Policies
        PROVE  /\ page'[q][j].version = page[q][j].version /\ page'[q][j].need = page[q][j].need
               /\ page'[q][j].open => page[q][j].open
    <3>1. CASE q = p /\ j = k
      BY <1>2, <3>1
    <3>2. CASE ~(q = p /\ j = k)
      BY <1>2, <3>2
    <3> QED
      BY <3>1, <3>2
  <2> QED
    BY <2>1
<1>4. KnownInv'
  BY <1>2, <1>3 DEF ConsentInv, KnownInv
<1>5. \A q \in Pages, j \in Policies : Wants(page'[q], j) <=> Wants(page[q], j)
  BY <1>3 DEF Wants
<1>6. \A q \in Pages, j \in Policies : page'[q][j].open => Wants(page'[q], j)
  BY <1>3, <1>5 DEF ConsentInv, OneModal
<1>7. \A q \in Pages : \A i, j \in Policies : page'[q][i].open /\ page'[q][j].open => i = j
  BY <1>3 DEF ConsentInv, OneModal
<1>8. OneModal'
  BY <1>6, <1>7 DEF OneModal, Wants
<1> QED
  BY <1>4, <1>8

(* No two modals are wanted at once, so none open at once; and what is     *)
(* wanted, or stays open, is of a version that is known.                   *)
LEMMA SettlesOnOne ==
  ASSUME ConsentInv, NEW p \in Pages, NEW k \in Policies, NEW new,
         new = Settle(page[p], Heard(page[p], k))
  PROVE  /\ new \in [Policies -> PageEntry]
         /\ \A i, j \in Policies : new[i].open /\ new[j].open => i = j
         /\ \A j \in Policies : /\ new[j].version # NoVersion => versions[j] # {}
                                /\ new[j].open => new[j].version # NoVersion
                                /\ new[j].open => Wants(new, j)
<1> DEFINE heard == Heard(page[p], k)
           entry == [page[p][k] EXCEPT !.asking = "no", !.need = page[p][k].asking = "needed",
                                       !.version = Newest(k)]
<1>0. page[p] \in [Policies -> PageEntry]
  BY DEF ConsentInv, KnownInv
<1>1. heard = [page[p] EXCEPT ![k] = entry]
  BY <1>0 DEF Heard
<1>2. /\ entry \in PageEntry /\ entry.open = page[p][k].open /\ entry.version = Newest(k)
  <2>1. page[p][k] \in PageEntry /\ Newest(k) \in Version \cup {NoVersion}
    BY <1>0, NewestKnown
  <2>2. (page[p][k].asking = "needed") \in BOOLEAN
    OBVIOUS
  <2>3. entry \in PageEntry
    BY <2>1, <2>2, EntryStays
  <2> QED
    BY <2>1, <2>3, Zenon DEF PageEntry
<1>3. Newest(k) # NoVersion => versions[k] # {}
  BY DEF Newest
<1> HIDE DEF heard, entry
<1>4. /\ heard \in [Policies -> PageEntry]
      /\ heard[k] = entry /\ \A j \in Policies \ {k} : heard[j] = page[p][j]
  BY <1>0, <1>1, <1>2
<1>5. \A j \in Policies : heard[j].version # NoVersion => versions[j] # {}
  BY <1>2, <1>3, <1>4 DEF ConsentInv, KnownInv
<1>6. CASE \A j \in Policies : Wants(page[p], j) = Wants(heard, j)
  <2>1. new = heard
    BY <1>6 DEF Settle, heard
  <2>2. \A j \in Policies : heard[j].open = page[p][j].open
    BY <1>2, <1>4
  <2>3. versions[k] # {} => Newest(k) # NoVersion
    <3>1. MaxVersions[k] \in Nat /\ versions[k] \subseteq 1 .. MaxVersions[k]
      BY ConsentAssumption DEF ConsentInv, KnownInv
    <3> QED
      BY <3>1, Largest DEF Newest, NoVersion
  <2>4. \A j \in Policies : heard[j].open => heard[j].version # NoVersion
    BY <1>2, <1>4, <2>3 DEF ConsentInv, KnownInv
  <2>5. \A j \in Policies : heard[j].open => Wants(heard, j)
    BY <1>6, <2>2 DEF ConsentInv, OneModal
  <2>6. \A i, j \in Policies : heard[i].open /\ heard[j].open => i = j
    BY <2>2 DEF ConsentInv, OneModal
  <2> QED
    BY <1>4, <1>5, <2>1, <2>4, <2>5, <2>6
<1>7. CASE ~\A j \in Policies : Wants(page[p], j) = Wants(heard, j)
  <2> DEFINE other(j) == [heard[j] EXCEPT !.open = Wants(heard, j),
                                          !.read = page[p][j].open /\ Wants(heard, j) /\ @]
  <2>1. new = [j \in Policies |-> other(j)]
    BY <1>7 DEF Settle, heard
  <2>2. ASSUME NEW j \in Policies
        PROVE  other(j) \in PageEntry /\ other(j).open = Wants(heard, j)
               /\ other(j).version = heard[j].version /\ other(j).need = heard[j].need
    <3>1. Wants(heard, j) \in BOOLEAN
      BY <1>4 DEF Wants
    <3>2. heard[j] \in PageEntry /\ (page[p][j].open /\ Wants(heard, j) /\ heard[j].read) \in BOOLEAN
      BY <1>4
    <3>3. other(j) \in PageEntry
      BY <3>1, <3>2, EntryStays
    <3> QED
      BY <3>2, <3>3, Zenon DEF PageEntry
  <2> HIDE DEF other
  <2>3. new \in [Policies -> PageEntry]
    BY <2>1, <2>2
  <2>4. \A i, j \in Policies : Wants(heard, i) /\ Wants(heard, j) => i = j
    BY ConsentAssumption DEF Wants
  <2>5. \A j \in Policies : Wants(heard, j) => heard[j].version # NoVersion
    BY DEF Wants
  <2>6. \A j \in Policies : Wants(new, j) <=> Wants(heard, j)
    BY <2>1, <2>2, ConsentAssumption DEF Wants
  <2> QED
    BY <1>5, <2>1, <2>2, <2>3, <2>4, <2>5, <2>6
<1> QED
  BY <1>6, <1>7

(* The database and the types of everything.                               *)
LEMMA DatabaseSame ==
  ASSUME ConsentInv, KnownInv', OneModal', UNCHANGED <<versions, consents, latest, late>>,
         found' \in BOOLEAN
  PROVE  ConsentInv'
<1>1. ConsentTypeOK'
  BY DEF ConsentInv, ConsentTypeOK, KnownInv, PageEntry
<1> QED
  BY <1>1 DEF ConsentInv, LatestInv

LEMMA ConsentKept == ConsentInv /\ [ConsentNext]_consentVars => ConsentInv'
<1> SUFFICES ASSUME ConsentInv, [ConsentNext]_consentVars  PROVE ConsentInv'
  OBVIOUS
<1>0. page \in [Pages -> [Policies -> PageEntry]] /\ found \in BOOLEAN
  BY DEF ConsentInv, KnownInv, ConsentTypeOK
<1>1. CASE UNCHANGED consentVars
  BY <1>1 DEF consentVars, ConsentInv, ConsentTypeOK, KnownInv, LatestInv, OneModal
<1>2. ASSUME NEW k \in Policies, NEW v \in 1 .. MaxVersions[k], Publish(k, v)  PROVE ConsentInv'
  <2>1. v \in Version
    BY DEF Version
  <2>2. /\ versions' \in [Policies -> SUBSET Version]
        /\ \A j \in Policies : versions'[j] \subseteq 1 .. MaxVersions[j]
        /\ \A j \in Policies : versions[j] \subseteq versions'[j]
    BY <1>2, <2>1 DEF Publish, ConsentInv, ConsentTypeOK, KnownInv
  <2>3. UNCHANGED <<consents, latest, found, page, late>>
    BY <1>2 DEF Publish
  <2>4. KnownInv'
    BY <2>2, <2>3 DEF ConsentInv, KnownInv
  <2> QED
    BY <2>2, <2>3, <2>4 DEF ConsentInv, ConsentTypeOK, LatestInv, OneModal
<1>3. CASE SignInUser
  BY <1>3, DatabaseSame DEF SignInUser, ConsentInv, KnownInv, OneModal
<1>4. ASSUME NEW p \in Pages, Decline(p) \/ Reload(p)  PROVE ConsentInv'
  <2>1. /\ NewPage \in [Policies -> PageEntry]
        /\ \A k \in Policies : ~NewPage[k].open /\ NewPage[k].version = NoVersion
    BY DEF NewPage, Nothing, PageEntry
  <2>2. \A q \in Pages : page'[q] \in {page[q], NewPage}
    BY <1>0, <1>4 DEF Decline, Reload
  <2>3. page' \in [Pages -> [Policies -> PageEntry]]
    <3>1. CASE Decline(p)
      BY <3>1, <2>1 DEF Decline
    <3>2. CASE Reload(p)
      BY <1>0, <3>2, <2>1 DEF Reload
    <3> QED
      BY <1>4, <3>1, <3>2
  <2>4. found' \in BOOLEAN /\ UNCHANGED <<versions, consents, latest, late>>
    BY <1>0, <1>4 DEF Decline, Reload
  <2>5. KnownInv'
    BY <2>1, <2>2, <2>3, <2>4 DEF ConsentInv, KnownInv
  <2>6. OneModal'
    BY <2>1, <2>2 DEF ConsentInv, OneModal
  <2> QED
    BY <2>4, <2>5, <2>6, DatabaseSame
<1>5. ASSUME NEW p \in Pages, NEW k \in Policies, AskRequired(p, k) \/ ScrollToEnd(p, k)
      PROVE  ConsentInv'
  <2>1. page[p][k] \in PageEntry
    BY <1>0
  <2>2. UNCHANGED <<versions, consents, latest, found, late>>
    BY <1>5 DEF AskRequired, ScrollToEnd
  <2>3. CASE AskRequired(p, k)
    <3> DEFINE e == [page[p][k] EXCEPT !.asking = AnswerTo(k)]
    <3>1. AnswerTo(k) \in {"needed", "not-needed"}
      BY DEF AnswerTo
    <3>e. e \in PageEntry
      BY <2>1, <3>1, EntryStays
    <3>2. e \in PageEntry /\ e.version = page[p][k].version /\ e.need = page[p][k].need
          /\ e.open = page[p][k].open
      BY <2>1, <3>e, Zenon DEF PageEntry
    <3>3. page' = [page EXCEPT ![p][k] = e]
      BY <2>3 DEF AskRequired
    <3> HIDE DEF e
    <3> QED
      BY <1>0, <2>2, <3>2, <3>3, EntryTurns, DatabaseSame
  <2>4. CASE ScrollToEnd(p, k)
    <3> DEFINE e == [page[p][k] EXCEPT !.read = TRUE]
    <3>e. e \in PageEntry
      BY <2>1, EntryStays
    <3>1. e \in PageEntry /\ e.version = page[p][k].version /\ e.need = page[p][k].need
          /\ e.open = page[p][k].open
      BY <2>1, <3>e, Zenon DEF PageEntry
    <3>2. page' = [page EXCEPT ![p][k] = e]
      BY <2>4 DEF ScrollToEnd
    <3> HIDE DEF e
    <3> QED
      BY <1>0, <2>2, <3>1, <3>2, EntryTurns, DatabaseSame
  <2> QED
    BY <1>5, <2>3, <2>4
<1>6. ASSUME NEW p \in Pages, NEW k \in Policies, TakeAnswer(p, k)  PROVE ConsentInv'
  <2> DEFINE new == Settle(page[p], Heard(page[p], k))
  <2>1. /\ new \in [Policies -> PageEntry]
        /\ \A i, j \in Policies : new[i].open /\ new[j].open => i = j
        /\ \A j \in Policies : /\ new[j].version # NoVersion => versions[j] # {}
                               /\ new[j].open => new[j].version # NoVersion
                               /\ new[j].open => Wants(new, j)
    BY SettlesOnOne
  <2>2. /\ page' = [page EXCEPT ![p] = new]
        /\ UNCHANGED <<versions, consents, latest, found, late>>
    BY <1>6 DEF TakeAnswer
  <2> HIDE DEF new
  <2>3. /\ page' \in [Pages -> [Policies -> PageEntry]] /\ page'[p] = new
        /\ \A q \in Pages \ {p} : page'[q] = page[q]
    BY <1>0, <2>1, <2>2
  <2>4. KnownInv'
    BY <2>1, <2>2, <2>3 DEF ConsentInv, KnownInv
  <2>5. OneModal'
    BY <2>1, <2>3 DEF ConsentInv, OneModal
  <2> QED
    BY <1>0, <2>2, <2>4, <2>5, DatabaseSame
<1>7. ASSUME NEW p \in Pages, NEW k \in Policies, AcceptVersion(p, k)  PROVE ConsentInv'
  <2> DEFINE v == page[p][k].version
             e == [page[p][k] EXCEPT !.open = FALSE, !.read = FALSE]
  <2>1. page[p][k] \in PageEntry /\ page[p][k].open
    BY <1>0, <1>7 DEF AcceptVersion, MayAccept
  <2>e. e \in PageEntry
    BY <2>1, EntryStays
  <2>2. e \in PageEntry /\ e.version = v /\ e.need = page[p][k].need /\ ~e.open
    BY <2>1, <2>e, Zenon DEF PageEntry
  <2>3. /\ page' = [page EXCEPT ![p][k] = e] /\ UNCHANGED <<versions, found>>
    BY <1>7 DEF AcceptVersion
  <2>4. v \in Version
    BY <2>1 DEF ConsentInv, KnownInv, PageEntry
  <2> HIDE DEF v, e
  <2>5. KnownInv' /\ OneModal'
    BY <2>2, <2>3, EntryTurns DEF v
  <2>6. CASE UNCHANGED <<consents, latest, late>>
    BY <1>0, <2>3, <2>5, <2>6, DatabaseSame
  <2>7. CASE NewAcceptance(k, v)
    <3>1. /\ consents' \in [Policies -> SUBSET Version] /\ latest' \in [Policies -> Version \cup {NoVersion}]
          /\ late' \subseteq Policies
      BY <2>4, <2>7 DEF NewAcceptance, ConsentInv, ConsentTypeOK
    <3>2. LatestInv'
      <4>1. ASSUME NEW j \in Policies, j \notin late', NEW w \in consents'[j]
            PROVE  w <= latest'[j]
        <5>1. CASE j = k
          <6>1. latest'[k] = v /\ consents'[k] = consents[k] \cup {v} /\ v \in Nat
                /\ consents[k] \subseteq Nat
            BY <2>4, <2>7, VersionsCount DEF NewAcceptance, ConsentInv, ConsentTypeOK
          <6>2. \A u \in consents[k] : ~(u > v)
            BY <4>1, <5>1, <2>7 DEF NewAcceptance
          <6> QED
            BY <4>1, <5>1, <6>1, <6>2
        <5>2. CASE j # k
          BY <4>1, <5>2, <2>7 DEF NewAcceptance, ConsentInv, ConsentTypeOK, LatestInv
        <5> QED
          BY <5>1, <5>2
      <4> QED
        BY <4>1 DEF LatestInv
    <3>3. ConsentTypeOK'
      BY <1>0, <2>3, <2>5, <3>1, ConsentTyped DEF ConsentInv, ConsentTypeOK, KnownInv, PageEntry
    <3> QED
      BY <2>5, <3>2, <3>3 DEF ConsentInv
  <2> QED
    BY <1>7, <2>6, <2>7 DEF AcceptVersion, SendAcceptance, Consented, v
<1> QED
  BY <1>1, <1>2, <1>3, <1>4, <1>5, <1>6, <1>7 DEF ConsentNext

(* The API's answer, and one modal at a time, on what the page heard.      *)
LEMMA AsksOnce == ConsentInv => AskedOnce
<1> SUFFICES ASSUME ConsentInv  PROVE AskedOnce
  OBVIOUS
<1>1. NotAgain
  <2> SUFFICES ASSUME NEW k \in Policies, Newest(k) \in consents[k], k \notin late
               PROVE  ~Requires(k)
    BY DEF NotAgain
  <2>1. Newest(k) <= latest[k]
    BY DEF ConsentInv, LatestInv
  <2>t. /\ consents \in [Policies -> SUBSET Version]
        /\ latest \in [Policies -> Version \cup {NoVersion}]
    BY DEF ConsentInv, ConsentTypeOK
  <2>v. NoVersion \in Nat /\ Version \subseteq Nat
    BY VersionsCount DEF NoVersion
  <2>2. latest[k] \in Nat /\ consents[k] \in SUBSET Nat
    BY <2>t, <2>v
  <2>3. ~(Newest(k) > latest[k])
    BY <2>1, <2>2
  <2> QED
    BY <2>3 DEF Requires, Outdated, LastAccepted
<1>2. ASSUME NEW p \in Pages  PROVE Cardinality({k \in Policies : page[p][k].open}) <= 1
  <2> DEFINE S == {k \in Policies : page[p][k].open}
  <2>0. \A j, k \in S : j = k
    BY DEF ConsentInv, OneModal
  <2>1. S = {} \/ \E k : S = {k}
    <3> HIDE DEF S
    <3>1. ASSUME NEW k \in S  PROVE S = {k}
      BY <2>0, <3>1
    <3> QED
      BY <3>1
  <2> HIDE DEF S
  <2>2. Cardinality(S) \in {0, 1}
    BY <2>1, FS_EmptySet, FS_Singleton
  <2> QED
    BY <2>2 DEF S
<1>3. \A p \in Pages, k \in Policies : page[p][k].open => page[p][k].need
  BY DEF ConsentInv, OneModal, Wants
<1> QED
  BY <1>1, <1>2, <1>3 DEF AskedOnce

(* The API requires nothing of a user who accepted the newest version      *)
(* (requiresAcceptance), unless an older one was accepted late; a page     *)
(* shows one modal at a time, and only while the last answer it heard says *)
(* that consent is missing (TermsAcceptanceWrapper).  So a page may ask     *)
(* again for what was accepted, from an answer of before: until its next.  *)
THEOREM AskedOnceOnly == ConsentSpec => []AskedOnce
BY ConsentBegins, ConsentKept, AsksOnce, PTL DEF ConsentSpec

-------------------------------------------------------------------------------
(* The versions of the documents, what users accepted and what the pages   *)
(* ask keep their types (TermsService, PrivacyPolicyService).              *)
THEOREM ConsentTypeCorrect == ConsentSpec => []ConsentTypeOK
<1>1. ConsentInv => ConsentTypeOK
  BY DEF ConsentInv
<1> QED
  BY <1>1, ConsentBegins, ConsentKept, PTL DEF ConsentSpec

-------------------------------------------------------------------------------
(***************************************************************************)
(* Profile: the last way into an account stays. The invariant is the       *)
(* property itself, with the types of the rows.                            *)
(***************************************************************************)

AccountRow == [is : {"unused", "known", "gone"}, password : BOOLEAN, hub : BOOLEAN]
WayInInv == accounts \in [Folk -> AccountRow] /\ LastWayIn

(* One account changes to one that has a way in, or is gone.               *)
LEMMA OneAccountChanges ==
  ASSUME WayInInv, NEW u \in Folk, NEW a \in AccountRow, accounts' = [accounts EXCEPT ![u] = a],
         a.is = "known" => a.password \/ a.hub
  PROVE  WayInInv'
BY DEF WayInInv, LastWayIn, Exists

(* The accounts that requests leave behind.                                *)
LEMMA AccountForms ==
  ASSUME NEW a \in AccountRow
  PROVE  /\ \A is \in {"unused", "known", "gone"}, p, h \in BOOLEAN :
              /\ Account(is, p, h) \in AccountRow
              /\ Account(is, p, h).is = is
              /\ Account(is, p, h).password = p /\ Account(is, p, h).hub = h
         /\ \A h \in BOOLEAN :
              /\ [a EXCEPT !.hub = h] \in AccountRow
              /\ [a EXCEPT !.hub = h].hub = h
              /\ [a EXCEPT !.hub = h].password = a.password
BY DEF Account, AccountRow

LEMMA ProfileBegins == ProfileInit => WayInInv
BY DEF ProfileInit, WayInInv, AccountRow, Account, LastWayIn, Exists

LEMMA ProfileKept == WayInInv /\ [ProfileNext]_profileVars => WayInInv'
<1> SUFFICES ASSUME WayInInv, [ProfileNext]_profileVars  PROVE WayInInv'
  OBVIOUS
<1>0. \A u \in Folk : accounts[u] \in AccountRow
  BY DEF WayInInv
<1>1. CASE UNCHANGED accounts
  BY <1>1 DEF WayInInv, LastWayIn, Exists
<1>2. ASSUME NEW w \in Windows, GitHubDisconnected(w)  PROVE WayInInv'
  <2> DEFINE u == window[w].call.as
             a == [accounts[u] EXCEPT !.hub = FALSE]
  <2>1. u \in Folk /\ accounts[u].password /\ accounts' = [accounts EXCEPT ![u] = a]
    BY <1>2 DEF GitHubDisconnected, MayDetach, Exists
  <2>2. a \in AccountRow /\ a.password = accounts[u].password
    BY <1>0, <2>1, AccountForms
  <2> HIDE DEF u, a
  <2> QED
    BY <2>1, <2>2, OneAccountChanges
<1>3. ASSUME NEW w \in Windows, RegisterAnswered(w) \/ GitHubAnswered(w)  PROVE WayInInv'
  <2> DEFINE u == window[w].call.to
             a(password, hub) == Account("known", password, hub)
  <2>1. CASE u \notin Folk
    <3>1. \A v : [accounts EXCEPT ![u] = v] = accounts
      <4> HIDE DEF u
      <4> QED
        BY <2>1 DEF WayInInv
    <3>2. \/ UNCHANGED accounts
          \/ accounts' = [accounts EXCEPT ![u] = a(TRUE, FALSE)]
          \/ accounts' = [accounts EXCEPT ![u] = a(accounts[u].password, TRUE)]
      BY <1>3 DEF RegisterAnswered, GitHubAnswered
    <3> HIDE DEF u, a
    <3>3. UNCHANGED accounts
      BY <3>1, <3>2
    <3> QED
      BY <1>1, <3>3
  <2>2. CASE u \in Folk
    <3>1. accounts[u].password \in BOOLEAN
      BY <1>0, <2>2 DEF AccountRow
    <3>2. \A p \in BOOLEAN, h \in BOOLEAN :
            a(p, h) \in AccountRow /\ a(p, h).password = p /\ a(p, h).hub = h
      BY <1>0, <2>2, AccountForms
    <3>3. \/ UNCHANGED accounts
          \/ accounts' = [accounts EXCEPT ![u] = a(TRUE, FALSE)]
          \/ accounts' = [accounts EXCEPT ![u] = a(accounts[u].password, TRUE)]
      BY <1>3 DEF RegisterAnswered, GitHubAnswered
    <3> HIDE DEF u, a
    <3> QED
      BY <1>1, <2>2, <3>1, <3>2, <3>3, OneAccountChanges
  <2> QED
    BY <2>1, <2>2
<1>4. ASSUME NEW u \in Folk, OtherClient(u)  PROVE WayInInv'
  <2> DEFINE a == [accounts[u] EXCEPT !.hub = TRUE]
             g == Account("gone", FALSE, FALSE)
  <2>1. a \in AccountRow /\ a.hub = TRUE /\ g \in AccountRow /\ g.is = "gone"
    BY <1>0, AccountForms
  <2>2. accounts' = [accounts EXCEPT ![u] = a] \/ accounts' = [accounts EXCEPT ![u] = g]
    BY <1>4 DEF OtherClient
  <2> HIDE DEF a, g
  <2> QED
    BY <2>1, <2>2, OneAccountChanges
<1>5. ASSUME NEW w \in Windows,
             \/ OpenStart(w) \/ OpenSettings(w) \/ OpenAdmin(w) \/ Logout(w)
             \/ \E u \in Folk : SubmitLogin(w, u) \/ SubmitSignup(w, u) \/ ReturnFromGitHub(w, u)
                                \/ SubmitAdminLogin(w, u)
             \/ \E d \in {"disconnect", "delete"} : OpenDialog(w, d)
             \/ CloseDialog(w) \/ DisconnectGitHub(w) \/ ConfirmDeletion(w) \/ ExportUserData(w)
             \/ ConnectGitHub(w) \/ Unauthorized(w) \/ RefreshSucceeds(w) \/ RefreshFails(w)
             \/ ShowUser(w) \/ DisconnectRefused(w) \/ DeletionRefused(w)
             \/ LinkRefused(w) \/ Exported(w) \/ LoggedOut(w) \/ LoginAnswered(w)
             \/ AdminAnswered(w)
      PROVE  UNCHANGED accounts
  BY <1>5, Zenon
     DEF OpenStart, OpenSettings, OpenAdmin, Logout, SubmitLogin, SubmitSignup, ReturnFromGitHub,
         SubmitAdminLogin, OpenDialog, CloseDialog, DisconnectGitHub, ConfirmDeletion,
         ExportUserData, ConnectGitHub, Unauthorized, RefreshSucceeds, RefreshFails, ShowUser,
         DisconnectRefused, DeletionRefused, LinkRefused, Exported, LoggedOut, LoginAnswered,
         AdminAnswered, Click
<1>6. TokenEnds \/ UNCHANGED profileVars => UNCHANGED accounts
  BY DEF TokenEnds, profileVars
<1> QED
  BY <1>1, <1>2, <1>3, <1>4, <1>5, <1>6, Zenon DEF ProfileNext

(* Nobody is locked out: an account that exists keeps a password or its    *)
(* GitHub account, whichever window acts with whose cookies.               *)
THEOREM NobodyLockedOut == ProfileSpec => []LastWayIn
<1>1. WayInInv => LastWayIn
  BY DEF WayInInv
<1> QED
  BY <1>1, ProfileBegins, ProfileKept, PTL DEF ProfileSpec

-------------------------------------------------------------------------------
(* The windows: a call asks as somebody or nobody; to sign in, as whom.    *)
Somebody == Folk \cup {NoOne}
Calls == Signs \cup Guarded \cup {"nothing", "start", "logout"}
CallRow ==
  {c \in [what : Calls, as : Somebody, to : Somebody, try : {"first", "refresh", "again"}] :
     c.what \in Signs => c.to \in Folk}
ShownRow == [who : Somebody, password : BOOLEAN, hub : BOOLEAN]
WindowRow ==
  [page : {"landing", "home", "login", "settings", "admin-login", "admin"}, shows : ShownRow,
   dialog : {"none", "disconnect", "delete"}, call : CallRow]

(* Before anybody has logged in an account is asked for by somebody.       *)
SessionTyped ==
  /\ session \in [token : Somebody, refresh : Somebody]
  /\ stored \in [Apps -> Somebody] /\ submits \in 0 .. MaxSends
WindowsTyped == window \in [Windows -> WindowRow]

LEMMA CallsTyped ==
  ASSUME NEW what \in Calls,
         NEW as \in Somebody, NEW to \in Somebody, what \in Signs => to \in Folk
  PROVE  Call(what, as, to) \in CallRow
BY DEF Call, CallRow, Calls

LEMMA NoCallTyped == NoCall \in CallRow
BY DEF NoCall, Call, CallRow, Calls, Signs, Somebody

LEMMA CallGoesOn ==
  ASSUME NEW c \in CallRow, NEW try \in {"first", "refresh", "again"}, NEW as \in Somebody
  PROVE  [c EXCEPT !.try = try] \in CallRow /\ [c EXCEPT !.try = try, !.as = as] \in CallRow
BY DEF CallRow

LEMMA PagesTyped ==
  ASSUME NEW there \in {"landing", "home", "login", "settings", "admin-login", "admin"},
         NEW c \in CallRow
  PROVE  Loaded(there) \in WindowRow /\ [Loaded(there) EXCEPT !.call = c] \in WindowRow
<1>1. ShownNothing \in ShownRow
  BY DEF ShownNothing, ShownRow, Somebody
<1>2. Loaded(there) = [page |-> there, shows |-> ShownNothing, dialog |-> "none", call |-> NoCall]
  BY DEF Loaded
<1> QED
  BY <1>1, <1>2, NoCallTyped DEF WindowRow

LEMMA WindowCalls ==
  ASSUME NEW r \in WindowRow, NEW c \in CallRow
  PROVE  [r EXCEPT !.call = c] \in WindowRow
BY DEF WindowRow

LEMMA WindowForms ==
  ASSUME NEW r \in WindowRow, NEW c \in CallRow, NEW s \in ShownRow,
         NEW d \in {"none", "disconnect", "delete"}
  PROVE  /\ [r EXCEPT !.dialog = d] \in WindowRow
         /\ [r EXCEPT !.shows = s, !.call = c] \in WindowRow
         /\ [r EXCEPT !.dialog = d, !.call = c] \in WindowRow
BY DEF WindowRow

(* A window turns to one of these.                                         *)
LEMMA TurnsTyped ==
  ASSUME WindowsTyped, NEW w \in Windows, NEW r \in WindowRow, Turns(w, r)
  PROVE  WindowsTyped'
BY DEF WindowsTyped, Turns

LEMMA WindowIs ==
  ASSUME WindowsTyped, NEW w \in Windows
  PROVE  /\ window[w] \in WindowRow /\ window[w].call \in CallRow /\ window[w].shows \in ShownRow
         /\ window[w].call.as \in Somebody /\ window[w].call.to \in Somebody
         /\ window[w].shows.who \in Somebody
BY DEF WindowsTyped, WindowRow, CallRow, ShownRow

LEMMA SettlesTyped ==
  ASSUME WindowsTyped, NEW w \in Windows, Settles(w)
  PROVE  WindowsTyped'
<1>1. [window[w] EXCEPT !.call = NoCall] \in WindowRow
  BY WindowIs, NoCallTyped, WindowCalls
<1> QED
  BY <1>1, TurnsTyped DEF Settles

LEMMA GoesOnTyped ==
  ASSUME WindowsTyped, NEW w \in Windows, NEW c \in CallRow, GoesOn(w, c)
  PROVE  WindowsTyped'
<1>1. [window[w] EXCEPT !.call = c] \in WindowRow
  BY WindowIs, WindowCalls
<1> QED
  BY <1>1, TurnsTyped DEF GoesOn

(* What a click makes of a window that was silent.                         *)
LEMMA ClickTyped ==
  ASSUME SessionTyped, WindowsTyped, NEW w \in Windows, NEW r \in WindowRow, Click(w, r)
  PROVE  SessionTyped' /\ WindowsTyped'
<1>1. WindowsTyped'
  BY TurnsTyped DEF Click
<1>2. submits' \in 0 .. MaxSends /\ UNCHANGED <<session, stored>>
  BY ProfileAssumption DEF Click, SessionTyped
<1> QED
  BY <1>1, <1>2 DEF SessionTyped

LEMMA NowTyped ==
  ASSUME SessionTyped, NEW what \in Calls,
         NEW to \in Somebody, what \in Signs => to \in Folk
  PROVE  AsNow(what, to) \in CallRow
BY CallsTyped DEF SessionTyped, AsNow

(* The pages and their clicks.                                             *)
LEMMA OpensTyped ==
  ASSUME SessionTyped, WindowsTyped, NEW w \in Windows,
         \/ OpenStart(w) \/ OpenSettings(w) \/ OpenAdmin(w) \/ Logout(w)
         \/ \E u \in Folk : SubmitLogin(w, u) \/ SubmitSignup(w, u) \/ ReturnFromGitHub(w, u)
                            \/ SubmitAdminLogin(w, u)
  PROVE  SessionTyped' /\ WindowsTyped'
<1>0. NoOne \in Somebody /\ Folk \subseteq Somebody
  BY DEF Somebody
<1>1. CASE OpenStart(w)
  <2>1. StartPage(stored["dashboard"]) \in WindowRow
    <3>1. Call("start", NoOne, NoOne) \in CallRow
      BY <1>0, CallsTyped DEF Calls, Signs
    <3>2. session.refresh \in Somebody
      BY DEF SessionTyped
    <3>3. Refreshing(Call("start", NoOne, NoOne)) \in CallRow
      BY <3>1, <3>2, CallGoesOn DEF Refreshing
    <3> QED
      BY <3>3, NoCallTyped, PagesTyped DEF StartPage
  <2> QED
    BY <1>1, <2>1, TurnsTyped DEF OpenStart, SessionTyped
<1>2. CASE OpenSettings(w)
  <2>1. SettingsPage \in WindowRow
    BY <1>0, NowTyped, PagesTyped DEF SettingsPage, Calls, Guarded, Signs
  <2> QED
    BY <1>2, <2>1, ClickTyped DEF OpenSettings
<1>3. CASE OpenAdmin(w)
  <2>1. Loaded("admin") \in WindowRow /\ Loaded("admin-login") \in WindowRow
    BY NoCallTyped, PagesTyped
  <2> QED
    BY <1>3, <2>1, TurnsTyped DEF OpenAdmin, SessionTyped
<1>4. CASE Logout(w)
  <2>1. AsNow("logout", NoOne) \in CallRow
    BY <1>0, NowTyped DEF Calls, Signs
  <2> QED
    BY <1>4, <2>1, WindowIs, WindowCalls, ClickTyped DEF Logout
<1>5. ASSUME NEW u \in Folk, SubmitLogin(w, u) \/ SubmitSignup(w, u) \/ ReturnFromGitHub(w, u)
      PROVE  SessionTyped' /\ WindowsTyped'
  <2>1. \A what \in Signs : [Loaded("login") EXCEPT !.call = AsNow(what, u)] \in WindowRow
    BY <1>0, NowTyped, PagesTyped DEF Calls
  <2> QED
    BY <1>5, <2>1, ClickTyped DEF SubmitLogin, SubmitSignup, ReturnFromGitHub, Signs
<1>6. ASSUME NEW u \in Folk, SubmitAdminLogin(w, u)
      PROVE  SessionTyped' /\ WindowsTyped'
  <2>1. AsNow("admin-login", u) \in CallRow
    BY <1>0, NowTyped DEF Calls, Signs
  <2> QED
    BY <1>6, <2>1, WindowIs, WindowCalls, ClickTyped DEF SubmitAdminLogin
<1> QED
  BY <1>1, <1>2, <1>3, <1>4, <1>5, <1>6

(* The settings and their dialogs.                                         *)
LEMMA DialogsTyped ==
  ASSUME SessionTyped, WindowsTyped, NEW w \in Windows,
         \/ \E d \in {"disconnect", "delete"} : OpenDialog(w, d)
         \/ CloseDialog(w) \/ DisconnectGitHub(w) \/ ConfirmDeletion(w) \/ ExportUserData(w)
         \/ ConnectGitHub(w)
  PROVE  SessionTyped' /\ WindowsTyped'
<1>0. NoOne \in Somebody /\ window[w] \in WindowRow /\ window[w].shows.who \in Somebody
  BY WindowIs DEF Somebody
<1>1. ASSUME NEW d \in {"none", "disconnect", "delete"},
             Turns(w, [window[w] EXCEPT !.dialog = d]), UNCHANGED <<session, stored, submits>>
      PROVE  SessionTyped' /\ WindowsTyped'
  <2>1. [window[w] EXCEPT !.dialog = d] \in WindowRow
    BY <1>0 DEF WindowRow
  <2> QED
    BY <1>1, <2>1, TurnsTyped DEF SessionTyped
<1>2. CASE (\E d \in {"disconnect", "delete"} : OpenDialog(w, d)) \/ CloseDialog(w)
  BY <1>1, <1>2 DEF OpenDialog, CloseDialog
<1>3. CASE DisconnectGitHub(w) \/ ConfirmDeletion(w) \/ ExportUserData(w)
  <2>1. \A what \in Guarded, to \in {NoOne, window[w].shows.who} :
          [window[w] EXCEPT !.call = AsNow(what, to)] \in WindowRow
    <3>1. \A what \in Guarded : what \in Calls /\ what \notin Signs
      BY DEF Calls, Guarded, Signs
    <3> QED
      BY <1>0, <3>1, NowTyped, WindowCalls
  <2> QED
    BY <1>3, <2>1, ClickTyped DEF DisconnectGitHub, ConfirmDeletion, ExportUserData, Guarded
<1>4. CASE ConnectGitHub(w)
  <2>1. [Loaded("settings") EXCEPT !.call = AsNow("link", NoOne)] \in WindowRow
    BY <1>0, NowTyped, PagesTyped DEF Calls, Guarded, Signs
  <2> QED
    BY <1>4, <2>1, ClickTyped DEF ConnectGitHub
<1> QED
  BY <1>2, <1>3, <1>4

(* What comes back to a window.                                            *)
LEMMA RefreshesTyped ==
  ASSUME SessionTyped, WindowsTyped, NEW w \in Windows,
         Unauthorized(w) \/ RefreshSucceeds(w) \/ RefreshFails(w)
  PROVE  SessionTyped' /\ WindowsTyped'
<1>0. /\ window[w].call \in CallRow /\ NoOne \in Somebody /\ session.refresh \in Somebody
      /\ window[w].call.as \in Somebody
  BY WindowIs DEF SessionTyped, Somebody
<1>1. CASE Unauthorized(w)
  <2>1. Refreshing(window[w].call) \in CallRow
    BY <1>0, CallGoesOn DEF Refreshing
  <2>2. WindowsTyped'
    BY <1>1, <2>1, SettlesTyped, GoesOnTyped DEF Unauthorized
  <2> QED
    BY <1>1, <2>2 DEF Unauthorized, SessionTyped
<1>2. CASE RefreshSucceeds(w)
  <2>1. [window[w].call EXCEPT !.try = "again"] \in CallRow
    BY <1>0, CallGoesOn
  <2>2. WindowsTyped'
    BY <1>2, <2>1, SettlesTyped, GoesOnTyped DEF RefreshSucceeds
  <2> QED
    BY <1>0, <1>2, <2>2 DEF RefreshSucceeds, SessionTyped
<1>3. CASE RefreshFails(w)
  <2>1. Loaded("landing") \in WindowRow
    BY NoCallTyped, PagesTyped
  <2>2. WindowsTyped'
    BY <1>3, <2>1, SettlesTyped, TurnsTyped DEF RefreshFails
  <2>3. session' = session \/ session' = [token |-> NoOne, refresh |-> NoOne]
    BY <1>3 DEF RefreshFails
  <2>4. session' \in [token : Somebody, refresh : Somebody]
    BY <1>0, <2>3 DEF SessionTyped
  <2> QED
    BY <1>0, <1>3, <2>2, <2>4 DEF RefreshFails, SessionTyped
<1> QED
  BY <1>1, <1>2, <1>3

LEMMA SettingsTyped ==
  ASSUME WayInInv, SessionTyped, WindowsTyped, NEW w \in Windows,
         \/ ShowUser(w) \/ GitHubDisconnected(w) \/ DisconnectRefused(w) \/ DeletionRefused(w)
         \/ LinkRefused(w) \/ Exported(w)
  PROVE  SessionTyped' /\ WindowsTyped'
<1>0. NoOne \in Somebody /\ Folk \subseteq Somebody /\ window[w] \in WindowRow
  BY WindowIs DEF Somebody
<1>1. CASE ShowUser(w)
  <2>1. CASE Exists(window[w].call.as)
    <3>1. window[w].call.as \in Folk /\ Shown(window[w].call.as) \in ShownRow
      BY <1>0, <2>1 DEF Exists, Shown, ShownRow, WayInInv, AccountRow
    <3>2. [window[w] EXCEPT !.shows = Shown(window[w].call.as), !.call = NoCall] \in WindowRow
      BY <1>0, <3>1, NoCallTyped, WindowForms
    <3>3. WindowsTyped'
      BY <1>1, <2>1, <3>2, TurnsTyped DEF ShowUser
    <3> QED
      BY <1>0, <1>1, <2>1, <3>1, <3>3 DEF ShowUser, SessionTyped
  <2>2. CASE ~Exists(window[w].call.as)
    BY <1>1, <2>2, SettlesTyped DEF ShowUser, SessionTyped
  <2> QED
    BY <2>1, <2>2
<1>2. CASE GitHubDisconnected(w)
  <2>1. AsNow("me", NoOne) \in CallRow /\ window[w].shows \in ShownRow
    BY <1>0, NowTyped, WindowIs DEF Calls, Guarded, Signs
  <2>2. [window[w] EXCEPT !.dialog = "none", !.call = AsNow("me", NoOne)] \in WindowRow
    BY <1>0, <2>1, WindowForms
  <2> QED
    BY <1>2, <2>2, TurnsTyped DEF GitHubDisconnected, SessionTyped
<1>3. CASE DisconnectRefused(w) \/ DeletionRefused(w) \/ Exported(w)
  BY <1>3, SettlesTyped DEF DisconnectRefused, DeletionRefused, Exported, SessionTyped
<1>4. CASE LinkRefused(w)
  <2>1. SettingsPage \in WindowRow
    BY <1>0, NowTyped, PagesTyped DEF SettingsPage, Calls, Guarded, Signs
  <2> QED
    BY <1>4, <2>1, TurnsTyped DEF LinkRefused, SessionTyped
<1> QED
  BY <1>1, <1>2, <1>3, <1>4

LEMMA SignsTyped ==
  ASSUME SessionTyped, WindowsTyped, NEW w \in Windows, NEW u \in Folk, SignedIn(w, u),
         UNCHANGED submits
  PROVE  SessionTyped' /\ WindowsTyped'
<1>0. NoOne \in Somebody /\ u \in Somebody
  BY DEF Somebody
<1>1. Call("start", u, NoOne) \in CallRow
  BY <1>0, CallsTyped DEF Calls, Signs
<1>2. [Call("start", u, NoOne) EXCEPT !.try = "refresh"] \in CallRow
  BY <1>0, <1>1, CallGoesOn
<1>3. WindowsTyped'
  BY <1>2, PagesTyped, TurnsTyped DEF SignedIn
<1> QED
  BY <1>0, <1>3 DEF SignedIn, SessionTyped

LEMMA AnswersTyped ==
  ASSUME SessionTyped, WindowsTyped, NEW w \in Windows,
         \/ LoginAnswered(w) \/ RegisterAnswered(w) \/ GitHubAnswered(w) \/ AdminAnswered(w)
  PROVE  SessionTyped' /\ WindowsTyped'
<1>0. NoOne \in Somebody /\ Folk \subseteq Somebody
  BY DEF Somebody
<1>4. window[w].call.to \in Folk
  BY WindowIs DEF LoginAnswered, RegisterAnswered, GitHubAnswered, AdminAnswered, Pending, Signs,
                  CallRow
<1>1. ASSUME Settles(w), UNCHANGED <<session, stored, submits>>
      PROVE  SessionTyped' /\ WindowsTyped'
  BY <1>1, SettlesTyped DEF SessionTyped
<1>2. CASE LoginAnswered(w) \/ RegisterAnswered(w) \/ GitHubAnswered(w)
  BY <1>1, <1>2, <1>4, SignsTyped DEF LoginAnswered, RegisterAnswered, GitHubAnswered
<1>3. CASE AdminAnswered(w)
  <2>1. Loaded("admin") \in WindowRow
    BY NoCallTyped, PagesTyped
  <2>2. WindowsTyped'
    BY <1>3, <2>1, SettlesTyped, TurnsTyped DEF AdminAnswered
  <2> QED
    BY <1>0, <1>3, <1>4, <2>2 DEF AdminAnswered, SessionTyped
<1> QED
  BY <1>2, <1>3

(* The windows as a whole.                                                 *)
LEMMA ProfileTypesKept ==
  WayInInv /\ SessionTyped /\ WindowsTyped /\ [ProfileNext]_profileVars
    => SessionTyped' /\ WindowsTyped'
<1> SUFFICES ASSUME WayInInv, SessionTyped, WindowsTyped, [ProfileNext]_profileVars
             PROVE  SessionTyped' /\ WindowsTyped'
  OBVIOUS
<1>0. NoOne \in Somebody /\ Folk \subseteq Somebody
  BY DEF Somebody
<1>1. ASSUME NEW w \in Windows, LoggedOut(w)  PROVE SessionTyped' /\ WindowsTyped'
  <2>1. Loaded("admin-login") \in WindowRow /\ Loaded("login") \in WindowRow
    BY NoCallTyped, PagesTyped
  <2>2. WindowsTyped'
    BY <1>1, <2>1, TurnsTyped DEF LoggedOut
  <2>3. session' = session \/ session' = [token |-> NoOne, refresh |-> NoOne]
    BY <1>1 DEF LoggedOut
  <2>4. session' \in [token : Somebody, refresh : Somebody]
    BY <1>0, <2>3 DEF SessionTyped
  <2> QED
    BY <1>0, <1>1, <2>2, <2>4 DEF LoggedOut, SessionTyped
<1>2. CASE TokenEnds
  BY <1>0, <1>2 DEF TokenEnds, SessionTyped, WindowsTyped
<1>3. ASSUME NEW u \in Folk, OtherClient(u)  PROVE SessionTyped' /\ WindowsTyped'
  <2>1. submits' \in 0 .. MaxSends /\ UNCHANGED <<session, stored, window>>
    BY <1>3, ProfileAssumption DEF OtherClient, SessionTyped
  <2> QED
    BY <2>1 DEF SessionTyped, WindowsTyped
<1>4. CASE UNCHANGED profileVars
  BY <1>4 DEF profileVars, SessionTyped, WindowsTyped
<1> QED
  BY <1>1, <1>2, <1>3, <1>4, OpensTyped, DialogsTyped, RefreshesTyped, SettingsTyped, AnswersTyped,
     Zenon DEF ProfileNext

(* The accounts, the cookies and the windows keep their types: whom a      *)
(* window shows or acts for is a person or nobody (fetchWithAuth, the      *)
(* settings, login and admin pages).                                       *)
THEOREM ProfileTypeCorrect == ProfileSpec => []ProfileTypeOK
<1>1. ProfileInit => SessionTyped /\ WindowsTyped
  <2>1. 0 \in 0 .. MaxSends
    BY ProfileAssumption
  <2>2. Loaded("landing") \in WindowRow /\ NoOne \in Somebody
    BY NoCallTyped, PagesTyped DEF Somebody
  <2> QED
    BY <2>1, <2>2 DEF ProfileInit, SessionTyped, WindowsTyped
<1>2. WayInInv /\ SessionTyped /\ WindowsTyped => ProfileTypeOK
  <2> SUFFICES ASSUME WayInInv, SessionTyped, WindowsTyped  PROVE ProfileTypeOK
    OBVIOUS
  <2>1. \A w \in Windows : window[w] \in WindowRow
    BY DEF WindowsTyped
  <2> QED
    BY <2>1 DEF WayInInv, AccountRow, SessionTyped, ProfileTypeOK, WindowRow, ShownRow, CallRow,
                Calls, Somebody
<1> QED
  BY <1>1, <1>2, ProfileBegins, ProfileKept, ProfileTypesKept, PTL DEF ProfileSpec
===============================================================================
