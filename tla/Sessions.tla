------------------------------ MODULE Sessions ------------------------------
(***************************************************************************)
(* Accounts and sessions of the profile service: logging in, exchanging a  *)
(* refresh token for the next one, logging out, and the administration of  *)
(* the accounts whose roles the tokens carry.  Composed with KeyRing, which *)
(* says what the access tokens are signed with and where they are good.    *)
(*                                                                         *)
(* Every statement of a handler is one action, since nothing ties them     *)
(* together: the row of a refresh token is read, judged, revoked and       *)
(* replaced in separate statements, and an account and its roles are saved *)
(* in separate transactions.                                               *)
(*                                                                         *)
(* Abstracted: a refresh token is known by the number of the request that  *)
(* it was issued to, and a time by the requests that had begun (for what   *)
(* is later than what) or by the clock (for what has expired).  Passwords  *)
(* and e-mail addresses are left out: an account is one that logs in with  *)
(* the right ones, and those who do not change nothing.                    *)
(***************************************************************************)
EXTENDS KeyRing

CONSTANTS
  Request,      \* the handlers that may be running at the same time
  Account,      \* the accounts there may be
  Name,         \* user names
  Founder,      \* the account there is to begin with, if any, and its name
  Seed,         \* the account that ADMIN_EMAIL stands for, and its name
  Asked,        \* the sets of roles that are asked for
  RefreshTTL,   \* how long a refresh token lives
  MaxRequests,  \* bound: requests handled
  MaxOverlaps,  \* bound: those that arrive while another is running
  MaxFaults     \* bound: failed statements and stopped handlers

ASSUME AccountAssumption ==
  /\ Founder \in [account : Account, name : Name]
  /\ Seed \in [account : Account, name : Name]
ASSUME AskedAssumption == Asked \subseteq Roles
ASSUME BoundAssumption ==
  /\ RefreshTTL \in Nat
  /\ MaxRequests \in Nat /\ MaxOverlaps \in Nat /\ MaxFaults \in Nat

VARIABLES
  users,     \* end_users: each account's row, or NoUser
  grants,    \* user_roles
  tokens,    \* refresh_tokens, by the number of the request issued to
  req,       \* the running handlers
  started,   \* requests begun so far
  overlaps,  \* how many of them while another was running
  faults,    \* faults so far
  history    \* read by no handler

vars == <<users, grants, tokens, req, started, overlaps, faults, history, ring>>

TokenId == 1..MaxRequests

User   == [name : Name, primary : Role]
NoUser == [name |-> "none", primary |-> "none"]

(* revoked_at is the number of requests that had begun by then, 0 for NULL. *)
Token   == [name : Name, roles : Roles, exp : Nat, revoked : Nat, from : {0} \cup TokenId]
NoToken == [name |-> "none"]

Issued == {t \in TokenId : tokens[t] # NoToken}

PC == {"idle", "roles", "issue", "purge", "spend", "create", "save", "grant"}
NoRoles == [first |-> "none", all |-> {}]

(* A handler: what it acts on, what it has read, and its own number.       *)
Handler == [pc : PC, act : {"none", "login", "refresh", "add", "seed", "edit", "rename"},
            account : Account \cup {"none"}, name : Name \cup {"none"},
            roles : Roles \cup {NoRoles}, from : {0} \cup TokenId, n : Nat]

Idle == [pc |-> "idle", act |-> "none", account |-> "none", name |-> "none",
         roles |-> NoRoles, from |-> 0, n |-> 0]

History == [suspect : [TokenId -> Nat],   \* requests begun when a replay condemned it
            asked : [Account -> Roles \cup {NoRoles}],  \* roles last asked for
            mixed : SUBSET Account]       \* edited by two at a time, or cut short

OrderRoles(primary, stored) == [first |-> primary, all |-> stored \cup {primary}]

(* RolesFor: the primary role and those stored.                             *)
RolesFor(a) == OrderRoles(users[a].primary, grants[a])

Administers(h, a) == h.act \in {"add", "seed", "edit", "rename"} /\ h.account = a
Quiet == \A r \in Request : req[r].pc = "idle"

Init ==
  /\ RingInit
  /\ \E there \in BOOLEAN :
       users = [a \in Account |-> IF there /\ a = Founder.account
                                    THEN [name |-> Founder.name, primary |-> "Admin"]
                                    ELSE NoUser]
  /\ grants = [a \in Account |-> IF users[a] = NoUser THEN {} ELSE {"Admin"}]
  /\ tokens = [t \in TokenId |-> NoToken]
  /\ req = [r \in Request |-> Idle]
  /\ started = 0
  /\ overlaps = 0
  /\ faults = 0
  /\ history = [suspect |-> [t \in TokenId |-> 0],
                asked |-> [a \in Account |-> IF users[a] = NoUser THEN NoRoles ELSE RolesFor(a)],
                mixed |-> {}]

-----------------------------------------------------------------------------
(* A request arrives, except while the administrator's account is being     *)
(* seeded: the service is not listening yet.                                *)

Become(r, h) == req' = [req EXCEPT ![r] = h]

Arrive(r) ==
  /\ req[r].pc = "idle"
  /\ \A s \in Request : req[s].act # "seed"
  /\ started < MaxRequests
  /\ started' = started + 1
  /\ IF Quiet THEN UNCHANGED overlaps
              ELSE overlaps < MaxOverlaps /\ overlaps' = overlaps + 1
  /\ UNCHANGED <<users, grants, faults, ring>>

Begin(r, h) ==
  /\ Arrive(r)
  /\ Become(r, [h EXCEPT !.n = started + 1])
  /\ UNCHANGED tokens

Enter(r, h) == Begin(r, h) /\ UNCHANGED history

Administer(r, h) ==
  /\ Begin(r, h)
  /\ history' = [history EXCEPT !.mixed =
       IF \E s \in Request : Administers(req[s], h.account) THEN @ \cup {h.account} ELSE @]

-----------------------------------------------------------------------------
(* Slips: definitions of this module as a careless change to the code would *)
(* leave them.  None is part of the specification; each breaks a property.  *)

(* only the primary role stored with the refresh token *)
NewTokenOfPrimary(h) ==
  [name |-> h.name, roles |-> OrderRoles(h.roles.first, {}), exp |-> now + RefreshTTL,
   revoked |-> 0, from |-> h.from]

(* an exchange that looks at the expiry alone *)
JudgedByExpiry(t) ==
  IF now < tokens[t].exp
    THEN [Idle EXCEPT !.act = "refresh", !.name = tokens[t].name,
                      !.roles = tokens[t].roles, !.from = t, !.pc = "spend"]
    ELSE Idle

(* a revoked token given a later time by whoever revokes it again *)
RevokedAgain(token) == [token EXCEPT !.revoked = started]

(* the tokens that are revoked already taken for those that are not *)
FamilySpent(name) ==
  {t \in TokenId : tokens[t] # NoToken /\ tokens[t].name = name /\ tokens[t].revoked # 0}

(* an edit that saves the name and forgets the primary role *)
EditedName(user, h) == [user EXCEPT !.name = h.name]

-----------------------------------------------------------------------------
(* Login: the account is found, then its roles, then tokens are issued.     *)

Login(r, a) ==
  /\ users[a] # NoUser
  /\ Enter(r, [Idle EXCEPT !.pc = "roles", !.act = "login", !.account = a,
                           !.name = users[a].name,
                           !.roles = OrderRoles(users[a].primary, {})])

ReadRoles(r) ==
  /\ req[r].pc = "roles"
  /\ Become(r, [req[r] EXCEPT !.pc = "issue",
                              !.roles = OrderRoles(@.first, grants[req[r].account])])
  /\ UNCHANGED <<users, grants, tokens, started, overlaps, faults, history, ring>>

(* issue: an access token, and the refresh token that buys the next one.    *)
NewToken(h) ==
  [name |-> h.name, roles |-> h.roles, exp |-> now + RefreshTTL, revoked |-> 0,
   from |-> h.from]

Issue(r) ==
  /\ req[r].pc = "issue"
  /\ tokens' = [tokens EXCEPT ![req[r].n] = NewToken(req[r])]
  /\ access' = access \cup {GenerateMulti(req[r].n, req[r].name, req[r].roles)}
  /\ Become(r, Idle)
  /\ UNCHANGED <<users, grants, started, overlaps, faults, history, now, accepts, signing, switched>>

-----------------------------------------------------------------------------
(* Refresh: what is done with a token depends on the row as it was read.    *)

Usable(token) == token.revoked = 0 /\ now < token.exp

Judged(t) ==
  LET h == [Idle EXCEPT !.act = "refresh", !.name = tokens[t].name,
                        !.roles = tokens[t].roles, !.from = t]
  IN IF tokens[t].revoked # 0 THEN [h EXCEPT !.pc = "purge"]
     ELSE IF Usable(tokens[t]) THEN [h EXCEPT !.pc = "spend"] ELSE Idle

Refresh(r, t) ==
  /\ t \in Issued
  /\ Enter(r, Judged(t))

(* The time of the first revocation is kept, whoever revokes it again.      *)
Revoked(token) == IF token.revoked = 0 THEN [token EXCEPT !.revoked = started] ELSE token

Spend(r) ==
  /\ req[r].pc = "spend"
  /\ tokens' = [tokens EXCEPT ![req[r].from] = Revoked(@)]
  /\ Become(r, [req[r] EXCEPT !.pc = "issue"])
  /\ UNCHANGED <<users, grants, started, overlaps, faults, history, ring>>

Family(name) == {t \in Issued : tokens[t].name = name}

RevokeAllFor(r) ==
  /\ req[r].pc = "purge"
  /\ tokens' = [t \in TokenId |->
       IF t \in Family(req[r].name) THEN Revoked(tokens[t]) ELSE tokens[t]]
  /\ history' = [history EXCEPT !.suspect = [t \in TokenId |->
       IF t \in Issued /\ tokens[t].name = req[r].name /\ @[t] = 0 THEN started ELSE @[t]]]
  /\ Become(r, Idle)
  /\ UNCHANGED <<users, grants, started, overlaps, faults, ring>>

(* Logout is one statement, silent about a token that is not live.          *)
Logout(r, t) ==
  /\ t \in Issued
  /\ Arrive(r)
  /\ tokens' = [tokens EXCEPT ![t] = Revoked(@)]
  /\ UNCHANGED <<req, history>>

-----------------------------------------------------------------------------
(* AddUser: the account in one transaction, all of its roles in another.    *)
(* resolveRoles has turned away what is no role.                            *)

AddUser(r, a, name, roles) ==
  /\ Admitted("profile", {"Admin"})
  /\ Administer(r, [Idle EXCEPT !.pc = "create", !.act = "add", !.account = a,
                                !.name = name, !.roles = roles])

(* EnsureAdmin does so when the service starts, if the account is missing.  *)
EnsureAdmin(r) ==
  /\ Quiet
  /\ users[Seed.account] = NoUser
  /\ Administer(r, [Idle EXCEPT !.pc = "create", !.act = "seed", !.account = Seed.account,
                                !.name = Seed.name, !.roles = OrderRoles("Admin", {})])

NameFree(h) == \A a \in Account : users[a].name = h.name => a = h.account

Create(r) ==
  /\ req[r].pc = "create"
  /\ LET h == req[r]
     IN IF users[h.account] = NoUser /\ NameFree(h)
          THEN /\ users' = [users EXCEPT ![h.account] = [name |-> h.name, primary |-> h.roles.first]]
               /\ Become(r, [h EXCEPT !.pc = "grant"])
          ELSE Become(r, Idle) /\ UNCHANGED users
  /\ UNCHANGED <<grants, tokens, started, overlaps, faults, history, ring>>

(* The rows stored before are deleted and the new ones inserted.            *)
Replaced(stored, roles) == roles.all

ReplaceRoles(r) ==
  /\ req[r].pc = "grant"
  /\ LET h == req[r]
     IN /\ grants' = [grants EXCEPT ![h.account] = Replaced(@, h.roles)]
        /\ history' = [history EXCEPT !.asked[h.account] = h.roles]
  /\ Become(r, Idle)
  /\ UNCHANGED <<users, tokens, started, overlaps, faults, ring>>

(* UpdateUser: the row is read, changed and saved whole; an edit that names *)
(* roles replaces them afterwards, one that does not leaves them alone.     *)
UpdateUser(r, a, name, act, roles) ==
  /\ Admitted("profile", Role)
  /\ users[a] # NoUser
  /\ Administer(r, [Idle EXCEPT !.pc = "save", !.act = act, !.account = a, !.name = name,
                                !.roles = IF act = "edit" THEN roles
                                          ELSE OrderRoles(users[a].primary, {})])

Edited(user, h) == [user EXCEPT !.name = h.name, !.primary = h.roles.first]

Save(r) ==
  /\ req[r].pc = "save"
  /\ LET h == req[r]
     IN IF NameFree(h)
          THEN /\ users' = [users EXCEPT ![h.account] = Edited(@, h)]
               /\ Become(r, IF h.act = "edit" THEN [h EXCEPT !.pc = "grant"] ELSE Idle)
          ELSE Become(r, Idle) /\ UNCHANGED users
  /\ UNCHANGED <<grants, tokens, started, overlaps, faults, history, ring>>

-----------------------------------------------------------------------------
(* A statement fails or the process stops: the handler ends where it is.    *)
Stop(r) ==
  /\ req[r].pc # "idle"
  /\ faults < MaxFaults
  /\ faults' = faults + 1
  /\ history' = [history EXCEPT !.mixed =
       @ \cup {a \in Account : Administers(req[r], a)}]
  /\ Become(r, Idle)
  /\ UNCHANGED <<users, grants, tokens, started, overlaps, ring>>

(* Another list of keys means another process, which begins when the one    *)
(* before it has drained its requests.                                      *)
Restarted(s) == s = "profile" => Quiet

RotateKeys ==
  /\ \/ \E s \in Service : Restarted(s) /\ AcceptNext(s)
     \/ Quiet /\ SwitchKey
     \/ \E s \in Service, k \in Key : Restarted(s) /\ DropKey(s, k)
  /\ UNCHANGED <<users, grants, tokens, req, started, overlaps, faults, history>>

Time == Tick /\ UNCHANGED <<users, grants, tokens, req, started, overlaps, faults, history>>

Next ==
  \/ \E r \in Request, a \in Account : Login(r, a)
  \/ \E r \in Request, t \in TokenId : Refresh(r, t) \/ Logout(r, t)
  \/ \E r \in Request, a \in Account, name \in Name, roles \in Asked : AddUser(r, a, name, roles)
  \/ \E r \in Request, a \in Account, name \in Name, roles \in Asked :
       UpdateUser(r, a, name, "edit", roles)
  \/ \E r \in Request, a \in Account, name \in Name : UpdateUser(r, a, name, "rename", NoRoles)
  \/ \E r \in Request : EnsureAdmin(r) \/ ReadRoles(r) \/ Issue(r) \/ Spend(r)
                          \/ RevokeAllFor(r) \/ Create(r) \/ ReplaceRoles(r)
                          \/ Save(r) \/ Stop(r)
  \/ RotateKeys
  \/ Time

Spec == Init /\ [][Next]_vars

-----------------------------------------------------------------------------
(* Properties.                                                             *)

TypeOK ==
  /\ RingTypeOK
  /\ users \in [Account -> User \cup {NoUser}]
  /\ grants \in [Account -> SUBSET Role]
  /\ tokens \in [TokenId -> Token \cup {NoToken}]
  /\ req \in [Request -> Handler]
  /\ started \in 0..MaxRequests
  /\ overlaps \in 0..MaxOverlaps
  /\ faults \in 0..MaxFaults
  /\ history \in History

(* Refresh: "each token is single-use".  What a token buys was asked for    *)
(* before it was first revoked, be it by another exchange, by a logout or   *)
(* by a replay: two exchanges of one token must have been under way at the  *)
(* same time.                                                               *)
SingleUse ==
  \A t \in Issued : tokens[t].from # 0 =>
    /\ tokens[tokens[t].from].revoked # 0
    /\ t <= tokens[tokens[t].from].revoked

(* Refresh: "every token the user holds is revoked, which logs out both the *)
(* thief and the victim".  Once a replay has condemned a token, no request  *)
(* that begins afterwards gets anything for it.                             *)
ReplayEndsFamily ==
  \A t \in Issued : LET from == tokens[t].from IN
    from # 0 /\ history.suspect[from] # 0 => t <= history.suspect[from]

(* Refresh: "the roles are the ones captured at login", through any number  *)
(* of exchanges and whatever happens to the account meanwhile; and an       *)
(* access token says what the refresh token it came with says.              *)
RolesOfTheLogin ==
  /\ \A t \in Issued : LET from == tokens[t].from IN
       from # 0 => tokens[t].roles = tokens[from].roles /\ tokens[t].name = tokens[from].name
  /\ \A token \in access : token.roles = tokens[token.id].roles

(* UpdateUserRequest: "Roles replaces the account's whole role set".  When  *)
(* the edits of an account came one after the other and none was cut short, *)
(* a login is given exactly the roles that were asked for last.             *)
RolesAsAsked ==
  \A a \in Account \ history.mixed :
    (\A r \in Request : ~Administers(req[r], a)) /\ users[a] # NoUser
      => RolesFor(a) = history.asked[a]

-----------------------------------------------------------------------------
(* Why: a request that may still exchange a token had read it before it was *)
(* revoked, and what a replay condemned was revoked by then.                *)

TokenInv ==
  /\ \A t \in TokenId \ Issued : history.suspect[t] = 0
  /\ \A t \in Issued :
       /\ t <= started
       /\ tokens[t].revoked <= started
       /\ history.suspect[t] <= started
       /\ history.suspect[t] # 0 => /\ tokens[t].revoked # 0
                                    /\ tokens[t].revoked <= history.suspect[t]
       /\ tokens[t].from # 0 => tokens[t].from \in Issued

(* An exchange of token t by a request numbered n.                          *)
Exchanges(h, t) == h.from = t /\ h.pc \in {"spend", "issue"}

HandlerInv ==
  \A r \in Request : LET h == req[r] IN h.pc # "idle" =>
    /\ h.n \in 1..started
    /\ tokens[h.n] = NoToken
    /\ \A s \in Request \ {r} : req[s].pc # "idle" => req[s].n # h.n
    /\ h.pc # "purge" => h.roles \in Roles /\ h.name \in Name
    /\ h.pc \in {"roles", "create", "grant", "save"} => h.account \in Account
    /\ h.pc = "spend" => h.from # 0
    /\ h.pc = "roles" => h.from = 0
    /\ \A t \in TokenId : Exchanges(h, t) =>
         /\ t \in Issued
         /\ h.roles = tokens[t].roles /\ h.name = tokens[t].name
         /\ IF h.pc = "spend" THEN tokens[t].revoked = 0 \/ h.n <= tokens[t].revoked
                              ELSE tokens[t].revoked # 0 /\ h.n <= tokens[t].revoked

AccessInv == \A token \in access : token.id \in Issued

IInv ==
  /\ TypeOK /\ RingInv
  /\ TokenInv /\ HandlerInv /\ AccessInv
  /\ SingleUse /\ ReplayEndsFamily /\ RolesOfTheLogin

(* And why roles are as asked: whoever administers an account is the only   *)
(* one to, and what its row is to be given are the roles he was asked for.  *)
Administration == {"add", "seed", "edit", "rename"}

Staged(h, user) ==
  /\ h.pc = "grant" => user # NoUser /\ user.primary = h.roles.first
  /\ h.pc = "save" => user # NoUser
  /\ h.pc = "save" /\ h.act # "edit" => user.primary = h.roles.first

AccountOK(a) ==
  /\ \A r, s \in Request : Administers(req[r], a) /\ Administers(req[s], a) => r = s
  /\ \A r \in Request : Administers(req[r], a) => Staged(req[r], users[a])
  /\ users[a] # NoUser /\ (\A r \in Request : Administers(req[r], a) => req[r].pc # "grant")
       => RolesFor(a) = history.asked[a]

AccountInv ==
  /\ \A r \in Request :
       req[r].act \in Administration <=> req[r].pc \in {"create", "save", "grant"}
  /\ \A a \in Account \ history.mixed : AccountOK(a)
=============================================================================
