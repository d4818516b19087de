-------------------------------- MODULE Accounts --------------------------------
(***************************************************************************)
(* Accounts and the ways into them: AuthenticationService registers,       *)
(* signs in by e-mail and by GitHub, links and disconnects a GitHub        *)
(* account, and gives a new user a personal organization in a transaction  *)
(* of its own; DELETE /gdpr/delete-account ends an account.  All usernames *)
(* make the same slug, the worst case for the organization's unique slug.  *)
(***************************************************************************)
EXTENDS Integers, FiniteSets

CONSTANTS
  Rows,      \* ids of users, each used once
  Hubs,      \* GitHub accounts
  Mails,     \* e-mail addresses
  SignIns    \* requests handled at once, each one after the other

None == "none"
ASSUME AccountsAssumption ==
  /\ IsFiniteSet(Rows) /\ Rows \subseteq Nat
  /\ None \notin Hubs \cup Mails \cup SignIns

VARIABLES
  users,      \* users[r]: not used yet, known or erased; its GitHub account and e-mail
  homes,      \* homes[r]: personal organizations of r
  guests,     \* users who were made a member of another organization
  slugTaken,  \* an organization has the slug of the username
  rowLock,    \* rowLock[r]: who holds the row by SELECT ... FOR UPDATE
  signIn      \* signIn[k]: what request k does, for whom, and where it stands

accountsVars == <<users, homes, guests, slugTaken, rowLock, signIn>>

User(is, hub, mail) == [is |-> is, hub |-> hub, mail |-> mail]
Unused == User("unused", None, None)
Erased == User("erased", None, None)
Known == {r \in Rows : users[r].is = "known"}
ByHub(g) == {r \in Known : users[r].hub = g}
ByMail(e) == {r \in Known : users[r].mail = e}

Kinds == {"register", "mail", "hub", "link", "disconnect"}
Places == {"idle", "create", "upsert", "lock", "look", "first-slug", "other-slug",
           "tokens", "find", "attach", "detach"}
Request(kind, at, row, id) == [kind |-> kind, at |-> at, row |-> row, id |-> id, tries |-> 0]
NoRequest == Request("mail", "idle", 0, None)

AccountsInit ==
  /\ users = [r \in Rows |-> Unused]
  /\ homes = [r \in Rows |-> 0] /\ guests = {}
  /\ slugTaken = FALSE
  /\ rowLock = [r \in Rows |-> None]
  /\ signIn = [k \in SignIns |-> NoRequest]

AccountsTypeOK ==
  /\ users \in [Rows -> [is : {"unused", "known", "erased"},
                         hub : Hubs \cup {None}, mail : Mails \cup {None}]]
  /\ homes \in [Rows -> 0 .. 2] /\ guests \subseteq Rows /\ slugTaken \in BOOLEAN
  /\ rowLock \in [Rows -> SignIns \cup {None}]
  /\ signIn \in [SignIns -> [kind : Kinds, at : Places, row : Rows \cup {0},
                             id : Hubs \cup Mails \cup {None}, tries : 0 .. 2]]

-------------------------------------------------------------------------------
Stands(k, place) == signIn[k].at = place
Begins(k, request) == Stands(k, "idle") /\ signIn' = [signIn EXCEPT ![k] = request]
Moves(k, place) == signIn' = [signIn EXCEPT ![k].at = place]
Closes(k) == signIn' = [signIn EXCEPT ![k] = NoRequest]
OnlySignIn == UNCHANGED <<users, homes, guests, slugTaken, rowLock>>

(* The database gives the next id; which one does not matter.              *)
NextRow(r) == users[r] = Unused /\ \A s \in Rows : users[s] = Unused => r <= s
Signed(k, r) == signIn' = [signIn EXCEPT ![k].at = "lock", ![k].row = r]

(* POST /auth/register; e-mail and username are looked up together.        *)
AskRegister(k, e) ==
  /\ ByMail(e) = {}
  /\ Begins(k, Request("register", "create", 0, e)) /\ OnlySignIn

(* The e-mail is unique in the database, so of two registrations that      *)
(* found nothing the second one fails here.                                *)
CreateUser(k) ==
  /\ Stands(k, "create")
  /\ \/ /\ ByMail(signIn[k].id) # {}
        /\ Closes(k) /\ UNCHANGED users
     \/ \E r \in Rows :
          /\ ByMail(signIn[k].id) = {} /\ NextRow(r)
          /\ users' = [users EXCEPT ![r] = User("known", None, signIn[k].id)]
          /\ Signed(k, r)
  /\ UNCHANGED <<homes, guests, slugTaken, rowLock>>

(* POST /auth/login: only who has an e-mail has a password.                *)
LoginByMail(k, r) ==
  /\ r \in Known /\ users[r].mail # None
  /\ Begins(k, Request("mail", "tokens", r, None)) /\ OnlySignIn

(* POST /auth/github after GitHub has exchanged the code for a user.       *)
AskGitHub(k, g) == Begins(k, Request("hub", "upsert", 0, g)) /\ OnlySignIn

UpsertUser(k) ==
  /\ Stands(k, "upsert")
  /\ LET g == signIn[k].id IN
       \/ \E r \in ByHub(g) : Signed(k, r) /\ UNCHANGED users
       \/ \E r \in Rows :
            /\ ByHub(g) = {} /\ NextRow(r)
            /\ users' = [users EXCEPT ![r] = User("known", g, None)]
            /\ Signed(k, r)
  /\ UNCHANGED <<homes, guests, slugTaken, rowLock>>

-------------------------------------------------------------------------------
Takes(k) == rowLock' = [rowLock EXCEPT ![signIn[k].row] = k]
LetsGo(k) == rowLock' = [r \in Rows |-> IF rowLock[r] = k THEN None ELSE rowLock[r]]
HasRow(k) == signIn[k].row \in Known

(* ensurePersonalOrganization: the transaction waits for the user's row;   *)
(* a row that is gone locks nothing.                                       *)
LockUser(k) ==
  /\ Stands(k, "lock")
  /\ rowLock[signIn[k].row] = None
  /\ Moves(k, "look")
  /\ IF HasRow(k) THEN Takes(k) ELSE UNCHANGED rowLock
  /\ UNCHANGED <<users, homes, guests, slugTaken>>

(* Mutant: who has the slug is taken for who has the organization.         *)
LookForHome_BySlug(k) ==
  /\ Stands(k, "look")
  /\ \/ slugTaken /\ Moves(k, "tokens") /\ LetsGo(k)
     \/ ~slugTaken /\ Moves(k, "first-slug") /\ UNCHANGED rowLock
  /\ UNCHANGED <<users, homes, guests, slugTaken>>

(* Any organization will do that the user is a member of, as a guest may    *)
(* still be or no longer; without one the slug decides what is created next. *)
LookForHome(k) ==
  /\ Stands(k, "look")
  /\ \/ /\ homes[signIn[k].row] > 0 \/ signIn[k].row \in guests
        /\ Moves(k, "tokens") /\ LetsGo(k)
     \/ /\ homes[signIn[k].row] = 0
        /\ Moves(k, IF slugTaken THEN "other-slug" ELSE "first-slug")
        /\ UNCHANGED rowLock
  /\ UNCHANGED <<users, homes, guests, slugTaken>>

(* The insertion and the end of the transaction: P2002 starts it again, at *)
(* most three times; a user who is gone fails the member's foreign key.    *)
MakeHome(k) ==
  /\ Stands(k, "first-slug") \/ Stands(k, "other-slug")
  /\ LetsGo(k)
  /\ \/ /\ ~HasRow(k)
        /\ Closes(k) /\ UNCHANGED <<homes, slugTaken>>
     \/ /\ HasRow(k) /\ Stands(k, "first-slug") /\ slugTaken
        /\ IF signIn[k].tries = 2 THEN Closes(k)
           ELSE signIn' = [signIn EXCEPT ![k].at = "lock", ![k].tries = @ + 1]
        /\ UNCHANGED <<homes, slugTaken>>
     \/ /\ HasRow(k) /\ (Stands(k, "first-slug") => ~slugTaken)
        /\ homes' = [homes EXCEPT ![signIn[k].row] = @ + 1]
        /\ slugTaken' = TRUE
        /\ Moves(k, "tokens")
  /\ UNCHANGED <<users, guests>>

(* createRefreshToken fails for a user who is gone; the request ends.      *)
IssueTokens(k) == Stands(k, "tokens") /\ Closes(k) /\ OnlySignIn

-------------------------------------------------------------------------------
(* POST /auth/github/link of a user without a GitHub account.              *)
AskLink(k, r, g) ==
  /\ r \in Known /\ users[r].hub = None
  /\ Begins(k, Request("link", "find", r, g)) /\ OnlySignIn

FindLinked(k) ==
  /\ Stands(k, "find")
  /\ IF ByHub(signIn[k].id) = {} THEN Moves(k, "attach") ELSE Closes(k)
  /\ OnlySignIn

(* The GitHub id is unique in the database.                                *)
AttachHub(k) ==
  /\ Stands(k, "attach") /\ Closes(k)
  /\ IF HasRow(k) /\ ByHub(signIn[k].id) \subseteq {signIn[k].row}
     THEN users' = [users EXCEPT ![signIn[k].row].hub = signIn[k].id]
     ELSE UNCHANGED users
  /\ UNCHANGED <<homes, guests, slugTaken, rowLock>>

(* DELETE /auth/github/disconnect; the constraint user_has_auth_method     *)
(* asks the same of the row once more.                                     *)
AskDisconnect(k, r) ==
  /\ r \in Known /\ users[r].mail # None
  /\ Begins(k, Request("disconnect", "detach", r, None)) /\ OnlySignIn

DetachHub(k) ==
  /\ Stands(k, "detach") /\ Closes(k)
  /\ IF HasRow(k) THEN users' = [users EXCEPT ![signIn[k].row].hub = None]
                  ELSE UNCHANGED users
  /\ UNCHANGED <<homes, guests, slugTaken, rowLock>>

(* The row's deletion waits for its lock; memberships go with it, the      *)
(* organization and its slug stay.                                         *)
EraseUser(r) ==
  /\ r \in Known /\ rowLock[r] = None
  /\ users' = [users EXCEPT ![r] = Erased]
  /\ homes' = [homes EXCEPT ![r] = 0]
  /\ UNCHANGED <<guests, slugTaken, rowLock, signIn>>

(* An owner of another organization adds the user to it (addMember), which  *)
(* refers to the user's row and waits for its lock.                        *)
BecomesGuest(r) ==
  /\ r \in Known \ guests /\ rowLock[r] = None
  /\ guests' = guests \cup {r}
  /\ UNCHANGED <<users, homes, slugTaken, rowLock, signIn>>

AccountsNext ==
  \/ \E k \in SignIns, e \in Mails : AskRegister(k, e)
  \/ \E k \in SignIns, g \in Hubs : AskGitHub(k, g)
  \/ \E k \in SignIns, r \in Rows : LoginByMail(k, r) \/ AskDisconnect(k, r)
  \/ \E k \in SignIns, r \in Rows, g \in Hubs : AskLink(k, r, g)
  \/ \E k \in SignIns :
       \/ CreateUser(k) \/ UpsertUser(k) \/ LockUser(k) \/ LookForHome(k) \/ MakeHome(k)
       \/ IssueTokens(k) \/ FindLinked(k) \/ AttachHub(k) \/ DetachHub(k)
  \/ \E r \in Rows : EraseUser(r) \/ BecomesGuest(r)

AccountsSpec == AccountsInit /\ [][AccountsNext]_accountsVars

-------------------------------------------------------------------------------
(* Whoever has registered or signed in with GitHub has exactly one         *)
(* personal organization when the tokens are issued, however many of his   *)
(* sign-ins run at once (ensurePersonalOrganization); or none, when he was *)
(* added to another organization before he had one.                        *)
OneHome ==
  \A k \in SignIns :
    (Stands(k, "tokens") /\ signIn[k].kind \in {"register", "hub"} /\ HasRow(k))
      => \/ homes[signIn[k].row] = 1
         \/ homes[signIn[k].row] = 0 /\ signIn[k].row \in guests
===============================================================================
