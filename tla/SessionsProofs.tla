--------------------------- MODULE SessionsProofs ---------------------------
(***************************************************************************)
(* Proofs about Sessions and the KeyRing it is composed with, for any      *)
(* number of requests, accounts, services and keys, any lifetimes and any  *)
(* faults: IInv is inductive.  From it, what a refresh token buys, whom a  *)
(* replay logs out, whose roles a token carries, and that a rotation of    *)
(* the keys cuts nobody off.                                               *)
(***************************************************************************)
EXTENDS Sessions, TLAPS

-----------------------------------------------------------------------------
(* Types.                                                                  *)

LEMMA TokenIsThere == \A token \in Token : token # NoToken
<1>. SUFFICES ASSUME NEW token \in Token PROVE token # NoToken
  OBVIOUS
<1>1. "exp" \in DOMAIN token  BY DEF Token
<1>2. "exp" \notin DOMAIN NoToken  BY DEF NoToken
<1>. QED  BY <1>1, <1>2

LEMMA TokenTypes ==
  ASSUME NEW token \in Token
  PROVE  /\ token.name \in Name /\ token.roles \in Roles /\ token.exp \in Nat
         /\ token.revoked \in Nat /\ token.from \in {0} \cup TokenId
BY DEF Token

LEMMA RolesType ==
  ASSUME NEW primary \in Role, NEW stored \in SUBSET Role
  PROVE  OrderRoles(primary, stored) \in Roles
BY DEF OrderRoles, Roles

LEMMA RolesFields ==
  ASSUME NEW roles \in Roles
  PROVE  roles.first \in Role /\ roles.all \in SUBSET Role
BY DEF Roles

LEMMA IdleType == Idle \in Handler /\ Idle.pc = "idle" /\ Idle.n = 0
BY DEF Idle, Handler, PC

LEMMA BecomeType ==
  ASSUME TypeOK, NEW r \in Request, NEW h \in Handler, Become(r, h)
  PROVE  /\ req' \in [Request -> Handler]
         /\ req'[r] = h
         /\ \A s \in Request \ {r} : req'[s] = req[s]
BY DEF TypeOK, Become

-----------------------------------------------------------------------------
(* The invariant, handler by handler and token by token.                   *)

HandlerOK(h, rows, begun) ==
  h.pc # "idle" =>
    /\ h.n \in 1..begun
    /\ rows[h.n] = NoToken
    /\ h.pc # "purge" => h.roles \in Roles /\ h.name \in Name
    /\ h.pc \in {"roles", "create", "grant", "save"} => h.account \in Account
    /\ h.pc = "spend" => h.from # 0
    /\ h.pc = "roles" => h.from = 0
    /\ \A t \in TokenId : Exchanges(h, t) =>
         /\ rows[t] # NoToken
         /\ h.roles = rows[t].roles /\ h.name = rows[t].name
         /\ IF h.pc = "spend" THEN rows[t].revoked = 0 \/ h.n <= rows[t].revoked
                              ELSE rows[t].revoked # 0 /\ h.n <= rows[t].revoked

TokenOK(t, rows, suspect, begun) ==
  IF rows[t] = NoToken THEN suspect[t] = 0
  ELSE /\ t <= begun
       /\ rows[t].revoked <= begun
       /\ suspect[t] <= begun
       /\ suspect[t] # 0 => rows[t].revoked # 0 /\ rows[t].revoked <= suspect[t]
       /\ LET from == rows[t].from IN from # 0 =>
            /\ rows[from] # NoToken
            /\ rows[from].revoked # 0 /\ t <= rows[from].revoked
            /\ suspect[from] # 0 => t <= suspect[from]
            /\ rows[t].roles = rows[from].roles /\ rows[t].name = rows[from].name

AccessOK(tickets, rows) ==
  \A token \in tickets : /\ token.id \in TokenId /\ rows[token.id] # NoToken
                         /\ token.roles = rows[token.id].roles

Distinct(handlers) ==
  \A r \in Request : \A s \in Request \ {r} :
    handlers[r].pc # "idle" /\ handlers[s].pc # "idle" => handlers[s].n # handlers[r].n

LEMMA InvMeans ==
  IInv <=>
    /\ TypeOK /\ RingInv
    /\ \A r \in Request : HandlerOK(req[r], tokens, started)
    /\ Distinct(req)
    /\ \A t \in TokenId : TokenOK(t, tokens, history.suspect, started)
    /\ AccessOK(access, tokens)
<1>1. HandlerInv <=> (\A r \in Request : HandlerOK(req[r], tokens, started)) /\ Distinct(req)
  BY DEF HandlerInv, HandlerOK, Distinct, Exchanges, Issued
<1>2. ASSUME TypeOK
      PROVE  TokenInv /\ SingleUse /\ ReplayEndsFamily
               /\ (\A t \in Issued : LET from == tokens[t].from IN
                     from # 0 => tokens[t].roles = tokens[from].roles
                                 /\ tokens[t].name = tokens[from].name)
             <=> \A t \in TokenId : TokenOK(t, tokens, history.suspect, started)
  <2>1. \A t \in Issued : tokens[t].from \in {0} \cup TokenId
    BY <1>2, TokenTypes DEF TypeOK, Issued
  <2>. QED  BY <2>1 DEF TokenInv, SingleUse, ReplayEndsFamily, TokenOK, Issued
<1>3. AccessInv /\ (\A token \in access : token.roles = tokens[token.id].roles)
        <=> AccessOK(access, tokens)
  BY DEF AccessInv, AccessOK, Issued
<1>. QED  BY <1>1, <1>2, <1>3 DEF IInv, RolesOfTheLogin

(* TypeOK without the handlers. *)
TablesOK ==
  /\ RingTypeOK
  /\ users \in [Account -> User \cup {NoUser}]
  /\ grants \in [Account -> SUBSET Role]
  /\ tokens \in [TokenId -> Token \cup {NoToken}]
  /\ started \in 0..MaxRequests
  /\ overlaps \in 0..MaxOverlaps
  /\ faults \in 0..MaxFaults
  /\ history \in History

LEMMA Before ==
  ASSUME IInv
  PROVE  /\ TypeOK /\ TablesOK /\ RingInv
         /\ \A r \in Request : req[r] \in Handler /\ HandlerOK(req[r], tokens, started)
         /\ Distinct(req)
         /\ \A t \in TokenId : TokenOK(t, tokens, history.suspect, started)
         /\ AccessOK(access, tokens)
<1>1. TypeOK  BY InvMeans
<1>. QED  BY <1>1, InvMeans DEF TypeOK, TablesOK

LEMMA InvMeansNext ==
  ASSUME TypeOK', RingInv',
         \A r \in Request : HandlerOK(req'[r], tokens', started'),
         Distinct(req'),
         \A t \in TokenId : TokenOK(t, tokens', history'.suspect, started'),
         AccessOK(access', tokens')
  PROVE  IInv'
<1>1. HandlerInv'  BY DEF HandlerInv, HandlerOK, Distinct, Exchanges, Issued
<1>2. \A t \in Issued' : tokens'[t].from \in {0} \cup TokenId
  BY TokenTypes DEF TypeOK, Issued
<1>3. TokenInv' /\ SingleUse' /\ ReplayEndsFamily'
  BY <1>2 DEF TokenInv, SingleUse, ReplayEndsFamily, TokenOK, Issued
<1>4. RolesOfTheLogin' /\ AccessInv'
  BY <1>2 DEF RolesOfTheLogin, AccessInv, AccessOK, TokenOK, Issued
<1>. QED  BY <1>1, <1>3, <1>4 DEF IInv

-----------------------------------------------------------------------------
(* Steps.                                                                  *)

LEMMA After ==
  ASSUME IInv, NEW r \in Request, NEW g \in Handler, Become(r, g), TablesOK', RingInv',
         HandlerOK(g, tokens', started'),
         \A s \in Request \ {r} : HandlerOK(req[s], tokens', started'),
         g.pc = "idle" \/ (req[r].pc # "idle" /\ g.n = req[r].n) \/ g.n = started + 1,
         \A t \in TokenId : TokenOK(t, tokens', history'.suspect, started'),
         AccessOK(access', tokens')
  PROVE  IInv'
<1>0. TypeOK  BY Before
<1>1. /\ req' \in [Request -> Handler] /\ req'[r] = g
      /\ \A s \in Request \ {r} : req'[s] = req[s]
  BY <1>0, BecomeType
<1>2. TypeOK'  BY <1>1 DEF TypeOK, TablesOK
<1>3. \A s \in Request : HandlerOK(req'[s], tokens', started')  BY <1>1
<1>4. Distinct(req')
  <2>1. \A s \in Request : req[s].pc # "idle" => req[s].n \in 1..started
    BY Before DEF HandlerOK
  <2>2. started \in Nat  BY Before, BoundAssumption DEF TablesOK
  <2>3. ASSUME NEW s \in Request \ {r}, g.pc # "idle", req[s].pc # "idle"
        PROVE  req[s].n # g.n
    <3>1. CASE req[r].pc # "idle" /\ g.n = req[r].n  BY <2>3, <3>1, Before DEF Distinct
    <3>2. CASE g.n = started + 1
      <4>1. req[s].n \in 1..started  BY <2>1, <2>3
      <4>. QED  BY <2>2, <3>2, <4>1
    <3>. QED  BY <2>3, <3>1, <3>2
  <2>. QED  BY <1>1, <2>3, Before DEF Distinct
<1>. QED  BY <1>2, <1>3, <1>4, InvMeansNext

LEMMA RingStays ==
  ASSUME RingInv, UNCHANGED ring
  PROVE  RingInv'
BY DEF RingInv, RingTypeOK, ring, Parse

(* A running handler goes on, and leaves tokens and keys alone. *)
LEMMA Quietly ==
  ASSUME IInv, NEW r \in Request, NEW g \in Handler, Become(r, g), TablesOK',
         UNCHANGED <<tokens, started, ring>>, history'.suspect = history.suspect,
         HandlerOK(g, tokens, started), g.pc = "idle" \/ (req[r].pc # "idle" /\ g.n = req[r].n)
  PROVE  IInv'
<1>1. RingInv'  BY Before, RingStays
<1>2. access' = access  BY DEF ring
<1>. QED  BY <1>1, <1>2, Before, After

LEMMA IdleOK == \A rows, begun : HandlerOK(Idle, rows, begun)
BY IdleType DEF HandlerOK

LEMMA OneLater ==
  ASSUME NEW begun \in Nat, NEW rows, NEW suspect
  PROVE  /\ \A h : HandlerOK(h, rows, begun) => HandlerOK(h, rows, begun + 1)
         /\ \A t \in TokenId :
              /\ rows[t] = NoToken \/ rows[t].revoked \in Nat
              /\ suspect[t] \in Nat
              /\ TokenOK(t, rows, suspect, begun)
              => TokenOK(t, rows, suspect, begun + 1)
<1>1. \A h : HandlerOK(h, rows, begun) => HandlerOK(h, rows, begun + 1)
  <2>1. 1..begun \subseteq 1..(begun + 1)  OBVIOUS
  <2>. QED  BY <2>1 DEF HandlerOK
<1>2. ASSUME NEW t \in TokenId, TokenOK(t, rows, suspect, begun),
             rows[t] = NoToken \/ rows[t].revoked \in Nat, suspect[t] \in Nat
      PROVE  TokenOK(t, rows, suspect, begun + 1)
  BY <1>2, BoundAssumption DEF TokenOK, TokenId
<1>. QED  BY <1>1, <1>2

LEMMA RowTypes ==
  ASSUME TablesOK, NEW t \in TokenId
  PROVE  /\ tokens[t] = NoToken \/ tokens[t] \in Token
         /\ tokens[t] # NoToken => /\ tokens[t].revoked \in Nat
                                   /\ tokens[t].from \in {0} \cup TokenId
                                   /\ tokens[t].name \in Name
                                   /\ tokens[t].roles \in Roles
         /\ history.suspect[t] \in Nat
         /\ started \in Nat /\ t \in Nat \ {0}
BY TokenTypes, BoundAssumption DEF TablesOK, TokenId, History

LEMMA ArrivalKeeps ==
  ASSUME IInv, NEW r \in Request, NEW g \in Handler, Arrive(r), Become(r, g), g.n = started + 1,
         UNCHANGED tokens, history' \in History, history'.suspect = history.suspect,
         HandlerOK(g, tokens, started + 1)
  PROVE  IInv'
<1>0. TablesOK  BY Before
<1>1. /\ started' = started + 1 /\ started < MaxRequests
      /\ UNCHANGED <<users, grants, faults, ring>>
      /\ overlaps' = overlaps \/ (overlaps < MaxOverlaps /\ overlaps' = overlaps + 1)
  BY DEF Arrive
<1>2. TablesOK'
  <2>1. started' \in 0..MaxRequests /\ overlaps' \in 0..MaxOverlaps
    BY <1>0, <1>1, BoundAssumption DEF TablesOK
  <2>. QED  BY <1>0, <1>1, <2>1 DEF TablesOK, ring, RingTypeOK
<1>3. RingInv'  BY <1>1, Before, RingStays
<1>4. started \in Nat  BY <1>0, BoundAssumption DEF TablesOK
<1>5. \A s \in Request : HandlerOK(req[s], tokens, started + 1)
  BY <1>4, Before, OneLater
<1>6. \A t \in TokenId : TokenOK(t, tokens, history.suspect, started + 1)
  <2>. SUFFICES ASSUME NEW t \in TokenId PROVE TokenOK(t, tokens, history.suspect, started + 1)
    OBVIOUS
  <2>1. TokenOK(t, tokens, history.suspect, started)  BY Before
  <2>2. PICK suspect : suspect = history.suspect  OBVIOUS
  <2>3. PICK rows : rows = tokens  OBVIOUS
  <2>. QED  BY <1>0, <1>4, <2>1, <2>2, <2>3, RowTypes, OneLater
<1>7. access' = access  BY <1>1 DEF ring
<1>. QED  BY <1>1, <1>2, <1>3, <1>5, <1>6, <1>7, Before, After

-----------------------------------------------------------------------------
(* Requests arrive.                                                        *)

LEMMA NumberIsFree ==
  ASSUME IInv, started < MaxRequests
  PROVE  /\ started \in Nat /\ started + 1 \in TokenId /\ started + 1 \in 1..(started + 1)
         /\ tokens[started + 1] = NoToken
<1>1. started \in Nat  BY Before, BoundAssumption DEF TablesOK
<1>2. started + 1 \in TokenId /\ started + 1 \in 1..(started + 1) /\ ~(started + 1 <= started)
  BY <1>1, BoundAssumption DEF TokenId
<1>3. TokenOK(started + 1, tokens, history.suspect, started)  BY <1>2, Before
<1>. QED  BY <1>1, <1>2, <1>3 DEF TokenOK

(* A request that has no refresh token with it. *)
LEMMA WithoutToken ==
  ASSUME IInv, NEW g \in Handler, started < MaxRequests, g.n = started + 1, g.from = 0,
         g.pc \in {"roles", "create", "save"},
         g.account \in Account, g.name \in Name, g.roles \in Roles
  PROVE  HandlerOK(g, tokens, started + 1)
<1>1. \A t \in TokenId : ~Exchanges(g, t)  BY DEF Exchanges
<1>. QED  BY <1>1, NumberIsFree DEF HandlerOK

LEMMA LoginKeeps ==
  ASSUME IInv, NEW r \in Request, NEW a \in Account, Login(r, a)
  PROVE  IInv'
<1>. DEFINE h == [Idle EXCEPT !.pc = "roles", !.act = "login", !.account = a,
                              !.name = users[a].name,
                              !.roles = OrderRoles(users[a].primary, {})]
            g == [h EXCEPT !.n = started + 1]
<1>1. /\ Arrive(r) /\ Become(r, g) /\ UNCHANGED <<tokens, history>> /\ users[a] # NoUser
      /\ started < MaxRequests
  BY DEF Login, Enter, Begin, Arrive
<1>2. TablesOK /\ users[a] \in User  BY <1>1, Before DEF TablesOK
<1>3. users[a].name \in Name /\ users[a].primary \in Role  BY <1>2 DEF User
<1>4. OrderRoles(users[a].primary, {}) \in Roles  BY <1>3, RolesType
<1>5. started + 1 \in Nat  BY <1>1, NumberIsFree
<1>6. h \in Handler /\ h.pc = "roles" /\ h.account = a /\ h.name = users[a].name
      /\ h.roles = OrderRoles(users[a].primary, {}) /\ h.from = 0
  <2>1. Idle.from = 0  BY DEF Idle
  <2>. QED  BY <1>3, <1>4, <2>1, IdleType DEF Handler, PC
<1>7. g \in Handler /\ g.pc = "roles" /\ g.account = a /\ g.name = users[a].name
      /\ g.roles = OrderRoles(users[a].primary, {}) /\ g.from = 0 /\ g.n = started + 1
  <2>. HIDE DEF h
  <2>. QED  BY <1>5, <1>6 DEF Handler
<1>8. HandlerOK(g, tokens, started + 1)
  <2>. HIDE DEF g
  <2>. QED  BY <1>1, <1>3, <1>4, <1>7, WithoutToken
<1>. QED  BY <1>1, <1>2, <1>7, <1>8, ArrivalKeeps DEF TablesOK

(* The administration of an account begins. *)
LEMMA AdministerKeeps ==
  ASSUME IInv, NEW r \in Request, NEW h \in Handler, Administer(r, h),
         h.pc \in {"create", "save"}, h.from = 0,
         h.account \in Account, h.name \in Name, h.roles \in Roles
  PROVE  IInv'
<1>. DEFINE g == [h EXCEPT !.n = started + 1]
<1>1. Arrive(r) /\ Become(r, g) /\ UNCHANGED tokens /\ started < MaxRequests
  BY DEF Administer, Begin, Arrive
<1>2. history' \in History /\ history'.suspect = history.suspect
  <2>1. history \in History  BY Before DEF TablesOK
  <2>2. PICK mixed \in SUBSET Account : history' = [history EXCEPT !.mixed = mixed]
    BY <2>1 DEF Administer, History
  <2>. QED  BY <2>1, <2>2 DEF History
<1>3. started + 1 \in Nat  BY <1>1, NumberIsFree
<1>4. g \in Handler /\ g.pc = h.pc /\ g.account = h.account /\ g.name = h.name
      /\ g.roles = h.roles /\ g.from = 0 /\ g.n = started + 1
  BY <1>3 DEF Handler
<1>5. HandlerOK(g, tokens, started + 1)
  <2>. HIDE DEF g
  <2>. QED  BY <1>1, <1>4, WithoutToken
<1>. QED  BY <1>1, <1>2, <1>4, <1>5, ArrivalKeeps

LEMMA AddUserKeeps ==
  ASSUME IInv, NEW r \in Request, NEW a \in Account, NEW name \in Name, NEW roles \in Asked,
         AddUser(r, a, name, roles)
  PROVE  IInv'
<1>. DEFINE h == [Idle EXCEPT !.pc = "create", !.act = "add", !.account = a,
                              !.name = name, !.roles = roles]
<1>1. Idle.from = 0  BY DEF Idle
<1>2. h \in Handler /\ h.pc = "create" /\ h.from = 0 /\ h.account = a /\ h.name = name
      /\ h.roles = roles /\ roles \in Roles
  BY <1>1, IdleType, AskedAssumption DEF Handler, PC
<1>. QED  BY <1>2, AdministerKeeps DEF AddUser

LEMMA EnsureAdminKeeps ==
  ASSUME IInv, NEW r \in Request, EnsureAdmin(r)
  PROVE  IInv'
<1>. DEFINE h == [Idle EXCEPT !.pc = "create", !.act = "seed", !.account = Seed.account,
                              !.name = Seed.name, !.roles = OrderRoles("Admin", {})]
<1>1. Idle.from = 0  BY DEF Idle
<1>2. OrderRoles("Admin", {}) \in Roles  BY RolesType DEF Role
<1>3. Seed.account \in Account /\ Seed.name \in Name  BY AccountAssumption
<1>4. h \in Handler /\ h.pc = "create" /\ h.from = 0 /\ h.account = Seed.account
      /\ h.name = Seed.name /\ h.roles = OrderRoles("Admin", {})
  BY <1>1, <1>2, <1>3, IdleType DEF Handler, PC
<1>. QED  BY <1>2, <1>3, <1>4, AdministerKeeps DEF EnsureAdmin

LEMMA UpdateUserKeeps ==
  ASSUME IInv, NEW r \in Request, NEW a \in Account, NEW name \in Name,
         NEW act \in {"edit", "rename"}, NEW roles, act = "edit" => roles \in Asked,
         UpdateUser(r, a, name, act, roles)
  PROVE  IInv'
<1>. DEFINE given == IF act = "edit" THEN roles ELSE OrderRoles(users[a].primary, {})
            h == [Idle EXCEPT !.pc = "save", !.act = act, !.account = a, !.name = name,
                              !.roles = given]
<1>1. Idle.from = 0  BY DEF Idle
<1>2. given \in Roles
  <2>1. users[a] \in User  BY Before DEF TablesOK, UpdateUser
  <2>2. users[a].primary \in Role  BY <2>1 DEF User
  <2>. QED  BY <2>2, RolesType, AskedAssumption
<1>3. h \in Handler /\ h.pc = "save" /\ h.from = 0 /\ h.account = a /\ h.name = name
      /\ h.roles = given
  <2>. HIDE DEF given
  <2>. QED  BY <1>1, <1>2, IdleType DEF Handler, PC
<1>4. Administer(r, h)  BY DEF UpdateUser
<1>. HIDE DEF h, given
<1>. QED  BY <1>2, <1>3, <1>4, AdministerKeeps

LEMMA RefreshKeeps ==
  ASSUME IInv, NEW r \in Request, NEW t \in TokenId, Refresh(r, t)
  PROVE  IInv'
<1>. DEFINE h == [Idle EXCEPT !.act = "refresh", !.name = tokens[t].name,
                              !.roles = tokens[t].roles, !.from = t]
            at(pc) == [h EXCEPT !.pc = pc, !.n = started + 1]
            gone == [Idle EXCEPT !.n = started + 1]
<1>1. /\ Arrive(r) /\ UNCHANGED <<tokens, history>> /\ started < MaxRequests
      /\ Become(r, [Judged(t) EXCEPT !.n = started + 1])
      /\ tokens[t] # NoToken
  BY DEF Refresh, Enter, Begin, Arrive, Issued
<1>2. TablesOK  BY Before
<1>3. tokens[t].name \in Name /\ tokens[t].roles \in Roles  BY <1>1, <1>2, RowTypes
<1>4. started + 1 \in Nat  BY <1>1, NumberIsFree
<1>5. h \in Handler /\ h.name = tokens[t].name /\ h.roles = tokens[t].roles /\ h.from = t
  BY <1>3, IdleType DEF Handler
<1>6. \A pc \in PC : /\ at(pc) \in Handler /\ at(pc).pc = pc /\ at(pc).n = started + 1
                     /\ at(pc).name = h.name /\ at(pc).roles = h.roles /\ at(pc).from = t
  <2>. HIDE DEF h
  <2>. QED  BY <1>4, <1>5 DEF Handler
<1>7. gone \in Handler /\ gone.pc = "idle" /\ gone.n = started + 1
  BY <1>4, IdleType DEF Handler
<1>8. \/ Become(r, at("purge"))
      \/ Become(r, at("spend")) /\ tokens[t].revoked = 0
      \/ Become(r, gone)
  <2>1. \/ Judged(t) = [h EXCEPT !.pc = "purge"]
        \/ Judged(t) = [h EXCEPT !.pc = "spend"] /\ tokens[t].revoked = 0
        \/ Judged(t) = Idle
    BY DEF Judged, Usable
  <2>2. \A pc \in PC : [[h EXCEPT !.pc = pc] EXCEPT !.n = started + 1] = at(pc)
    <3>. HIDE DEF h
    <3>. QED  BY <1>5 DEF Handler
  <2>. QED  BY <1>1, <2>1, <2>2 DEF PC
<1>9. HandlerOK(at("purge"), tokens, started + 1)
  <2>1. at("purge").pc = "purge" /\ at("purge").n = started + 1  BY <1>6 DEF PC
  <2>. HIDE DEF at
  <2>. QED  BY <1>1, <2>1, NumberIsFree DEF HandlerOK, Exchanges
<1>10. tokens[t].revoked = 0 => HandlerOK(at("spend"), tokens, started + 1)
  <2>1. /\ at("spend").pc = "spend" /\ at("spend").n = started + 1 /\ at("spend").from = t
        /\ at("spend").name = tokens[t].name /\ at("spend").roles = tokens[t].roles
    BY <1>5, <1>6 DEF PC
  <2>2. t # 0  BY <1>2, RowTypes
  <2>. HIDE DEF at
  <2>. QED  BY <1>1, <1>3, <2>1, <2>2, NumberIsFree DEF HandlerOK, Exchanges
<1>11. HandlerOK(gone, tokens, started + 1)  BY <1>7 DEF HandlerOK
<1>12. at("purge") \in Handler /\ at("purge").n = started + 1
       /\ at("spend") \in Handler /\ at("spend").n = started + 1
  BY <1>6 DEF PC
<1>. HIDE DEF at, gone
<1>. QED  BY <1>1, <1>2, <1>7, <1>8, <1>9, <1>10, <1>11, <1>12, ArrivalKeeps DEF TablesOK

-----------------------------------------------------------------------------
(* Running requests that leave the tokens alone.                           *)

(* A handler goes to its next statement, with roles that are roles. *)
LEMMA NextStatement ==
  ASSUME IInv, NEW r \in Request, req[r].pc \in {"roles", "create", "save"},
         NEW g \in Handler, g.pc \in {"issue", "grant"},
         g.n = req[r].n, g.from = req[r].from, g.name = req[r].name,
         g.account = req[r].account, g.roles \in Roles,
         g.pc = "issue" => g.from = 0
  PROVE  HandlerOK(g, tokens, started)
<1>1. HandlerOK(req[r], tokens, started)  BY Before
<1>2. \A t \in TokenId : ~Exchanges(g, t)  BY DEF Exchanges, TokenId
<1>. QED  BY <1>1, <1>2 DEF HandlerOK

LEMMA ReadRolesKeeps ==
  ASSUME IInv, NEW r \in Request, ReadRoles(r)
  PROVE  IInv'
<1>. DEFINE h == req[r]
            roles == OrderRoles(h.roles.first, grants[h.account])
            g == [h EXCEPT !.pc = "issue", !.roles = roles]
<1>1. TablesOK /\ h \in Handler /\ HandlerOK(h, tokens, started) /\ h.pc = "roles" /\ h.from = 0
  BY Before DEF ReadRoles, HandlerOK
<1>2. roles \in Roles
  <2>1. h.roles \in Roles /\ h.account \in Account  BY <1>1 DEF HandlerOK
  <2>2. grants[h.account] \in SUBSET Role  BY <1>1, <2>1 DEF TablesOK
  <2>. QED  BY <2>1, <2>2, RolesFields, RolesType
<1>3. Become(r, g) /\ UNCHANGED <<users, grants, tokens, started, overlaps, faults, history, ring>>
  BY DEF ReadRoles
<1>4. g \in Handler /\ g.pc = "issue" /\ g.roles = roles /\ g.n = h.n /\ g.from = h.from
      /\ g.name = h.name /\ g.account = h.account
  <2>. HIDE DEF roles
  <2>. QED  BY <1>1, <1>2 DEF Handler, PC
<1>. HIDE DEF g, roles
<1>5. HandlerOK(g, tokens, started)  BY <1>1, <1>2, <1>4, NextStatement
<1>6. TablesOK'  BY <1>1, <1>3 DEF TablesOK, ring, RingTypeOK
<1>. QED  BY <1>1, <1>3, <1>4, <1>5, <1>6, Quietly

LEMMA CreateKeeps ==
  ASSUME IInv, NEW r \in Request, Create(r)
  PROVE  IInv'
<1>. DEFINE h == req[r]
            row == [name |-> h.name, primary |-> h.roles.first]
            g == [h EXCEPT !.pc = "grant"]
<1>1. TablesOK /\ h \in Handler /\ HandlerOK(h, tokens, started) /\ h.pc = "create"
  BY Before DEF Create
<1>2. h.account \in Account /\ h.roles \in Roles /\ h.name \in Name  BY <1>1 DEF HandlerOK
<1>3. row \in User  BY <1>2, RolesFields DEF User
<1>4. g \in Handler /\ g.pc = "grant" /\ g.roles = h.roles /\ g.n = h.n /\ g.from = h.from
      /\ g.name = h.name /\ g.account = h.account
  BY <1>1 DEF Handler, PC
<1>5. HandlerOK(g, tokens, started)
  <2>. HIDE DEF g
  <2>. QED  BY <1>1, <1>2, <1>4, NextStatement
<1>6. /\ Become(r, g) \/ Become(r, Idle)
      /\ users' = [users EXCEPT ![h.account] = row] \/ UNCHANGED users
      /\ UNCHANGED <<grants, tokens, started, overlaps, faults, history, ring>>
  BY DEF Create
<1>. HIDE DEF g, row
<1>7. users' \in [Account -> User \cup {NoUser}]  BY <1>1, <1>3, <1>6 DEF TablesOK
<1>8. TablesOK'  BY <1>1, <1>6, <1>7 DEF TablesOK, ring, RingTypeOK
<1>. QED  BY <1>1, <1>4, <1>5, <1>6, <1>8, IdleType, IdleOK, Quietly

LEMMA EditedType ==
  ASSUME NEW h, h.name \in Name, h.roles.first \in Role, NEW user \in User \cup {NoUser}
  PROVE  Edited(user, h) \in User
<1>. DEFINE Row == [name : Name \cup {"none"}, primary : Role \cup {"none"}]
<1>1. user \in Row  BY DEF User, NoUser
<1>2. \A row \in Row : Edited(row, h) \in User  BY DEF Edited, User
<1>. QED  BY <1>1, <1>2

LEMMA SaveKeeps ==
  ASSUME IInv, NEW r \in Request, Save(r)
  PROVE  IInv'
<1>. DEFINE h == req[r]
            g == [h EXCEPT !.pc = "grant"]
<1>1. TablesOK /\ h \in Handler /\ HandlerOK(h, tokens, started) /\ h.pc = "save"
  BY Before DEF Save
<1>2. h.account \in Account /\ h.roles \in Roles /\ h.name \in Name /\ h.roles.first \in Role
  BY <1>1, RolesFields DEF HandlerOK
<1>3. Edited(users[h.account], h) \in User
  <2>1. users[h.account] \in User \cup {NoUser}  BY <1>1, <1>2 DEF TablesOK
  <2>2. PICK user : user = users[h.account]  OBVIOUS
  <2>. QED  BY <1>2, <2>1, <2>2, EditedType
<1>4. g \in Handler /\ g.pc = "grant" /\ g.roles = h.roles /\ g.n = h.n /\ g.from = h.from
      /\ g.name = h.name /\ g.account = h.account
  BY <1>1 DEF Handler, PC
<1>5. HandlerOK(g, tokens, started)
  <2>. HIDE DEF g
  <2>. QED  BY <1>1, <1>2, <1>4, NextStatement
<1>6. /\ Become(r, g) \/ Become(r, Idle)
      /\ users' = [users EXCEPT ![h.account] = Edited(users[h.account], h)] \/ UNCHANGED users
      /\ UNCHANGED <<grants, tokens, started, overlaps, faults, history, ring>>
  BY DEF Save
<1>. HIDE DEF g
<1>7. users' \in [Account -> User \cup {NoUser}]  BY <1>1, <1>3, <1>6 DEF TablesOK
<1>8. TablesOK'  BY <1>1, <1>6, <1>7 DEF TablesOK, ring, RingTypeOK
<1>. QED  BY <1>1, <1>4, <1>5, <1>6, <1>8, IdleType, IdleOK, Quietly

LEMMA ReplaceRolesKeeps ==
  ASSUME IInv, NEW r \in Request, ReplaceRoles(r)
  PROVE  IInv'
<1>. DEFINE h == req[r]
<1>1. TablesOK /\ h \in Handler /\ HandlerOK(h, tokens, started) /\ h.pc = "grant"
  BY Before DEF ReplaceRoles
<1>2. h.account \in Account /\ h.roles \in Roles /\ h.roles.all \in SUBSET Role
  BY <1>1, RolesFields DEF HandlerOK
<1>3. /\ Become(r, Idle)
      /\ grants' = [grants EXCEPT ![h.account] = h.roles.all]
      /\ history' = [history EXCEPT !.asked[h.account] = h.roles]
      /\ UNCHANGED <<users, tokens, started, overlaps, faults, ring>>
  BY DEF ReplaceRoles, Replaced
<1>4. grants' \in [Account -> SUBSET Role]  BY <1>1, <1>2, <1>3 DEF TablesOK
<1>5. history' \in History /\ history'.suspect = history.suspect
  <2>. DEFINE asked == [history.asked EXCEPT ![h.account] = h.roles]
  <2>1. history \in History  BY <1>1 DEF TablesOK
  <2>2. asked \in [Account -> Roles \cup {NoRoles}]  BY <1>2, <2>1 DEF History
  <2>3. history' = [history EXCEPT !.asked = asked]  BY <1>3
  <2>. HIDE DEF asked
  <2>. QED  BY <2>1, <2>2, <2>3 DEF History
<1>6. TablesOK'  BY <1>1, <1>3, <1>4, <1>5 DEF TablesOK, ring, RingTypeOK
<1>. QED  BY <1>3, <1>5, <1>6, IdleType, IdleOK, Quietly

LEMMA StopKeeps ==
  ASSUME IInv, NEW r \in Request, Stop(r)
  PROVE  IInv'
<1>1. TablesOK  BY Before
<1>2. /\ Become(r, Idle) /\ faults < MaxFaults /\ faults' = faults + 1
      /\ UNCHANGED <<users, grants, tokens, started, overlaps, ring>>
  BY DEF Stop
<1>3. history' \in History /\ history'.suspect = history.suspect
  <2>1. history \in History  BY <1>1 DEF TablesOK
  <2>2. PICK mixed \in SUBSET Account : history' = [history EXCEPT !.mixed = mixed]
    BY <2>1 DEF Stop, History
  <2>. QED  BY <2>1, <2>2 DEF History
<1>4. faults' \in 0..MaxFaults  BY <1>1, <1>2, BoundAssumption DEF TablesOK
<1>5. TablesOK'  BY <1>1, <1>2, <1>3, <1>4 DEF TablesOK, ring, RingTypeOK
<1>. QED  BY <1>2, <1>3, <1>5, IdleType, IdleOK, Quietly

-----------------------------------------------------------------------------
(* Tokens are revoked: those in a set, at the time the requests begun say.  *)

Later(rows, next, begun) ==
  \A t \in TokenId :
    IF rows[t] = NoToken THEN next[t] = NoToken
    ELSE /\ next[t] # NoToken
         /\ next[t].name = rows[t].name /\ next[t].roles = rows[t].roles
         /\ next[t].from = rows[t].from
         /\ IF rows[t].revoked # 0 THEN next[t].revoked = rows[t].revoked
                                   ELSE next[t].revoked \in {0, begun}

LEMMA LaterHandlers ==
  ASSUME NEW rows, NEW next, NEW begun \in 1..MaxRequests, Later(rows, next, begun),
         NEW h, HandlerOK(h, rows, begun)
  PROVE  HandlerOK(h, next, begun)
<1>. SUFFICES ASSUME h.pc # "idle" PROVE HandlerOK(h, next, begun)
  BY DEF HandlerOK
<1>1. h.n \in 1..begun /\ h.n \in TokenId /\ h.n <= begun
  BY BoundAssumption DEF HandlerOK, TokenId
<1>2. next[h.n] = NoToken  BY <1>1 DEF HandlerOK, Later
<1>3. ASSUME NEW t \in TokenId, Exchanges(h, t)
      PROVE  /\ next[t] # NoToken
             /\ h.roles = next[t].roles /\ h.name = next[t].name
             /\ IF h.pc = "spend" THEN next[t].revoked = 0 \/ h.n <= next[t].revoked
                                  ELSE next[t].revoked # 0 /\ h.n <= next[t].revoked
  BY <1>1, <1>3 DEF HandlerOK, Later
<1>. QED  BY <1>1, <1>2, <1>3 DEF HandlerOK

LEMMA LaterTokens ==
  ASSUME NEW rows, NEW next, NEW begun \in 1..MaxRequests, Later(rows, next, begun),
         NEW suspect, NEW marked,
         \A t \in TokenId :
           /\ rows[t] # NoToken => rows[t].from \in {0} \cup TokenId /\ rows[t].revoked \in Nat
           /\ \/ marked[t] = suspect[t]
              \/ next[t] # NoToken /\ next[t].revoked # 0 /\ marked[t] = begun,
         NEW t \in TokenId, TokenOK(t, rows, suspect, begun)
  PROVE  TokenOK(t, next, marked, begun)
<1>1. CASE rows[t] = NoToken  BY <1>1 DEF TokenOK, Later
<1>2. CASE rows[t] # NoToken
  <2>1. /\ next[t] # NoToken /\ next[t].from = rows[t].from
        /\ next[t].name = rows[t].name /\ next[t].roles = rows[t].roles
        /\ t <= begun /\ next[t].revoked <= begun
    BY <1>2 DEF TokenOK, Later
  <2>2. marked[t] <= begun /\ (marked[t] # 0 => next[t].revoked # 0 /\ next[t].revoked <= marked[t])
    <3>1. CASE marked[t] = suspect[t]  BY <1>2, <3>1 DEF TokenOK, Later
    <3>2. CASE next[t] # NoToken /\ next[t].revoked # 0 /\ marked[t] = begun
      BY <2>1, <3>2
    <3>. QED  BY <3>1, <3>2
  <2>3. ASSUME NEW from, from = next[t].from, from # 0
        PROVE  /\ next[from] # NoToken
               /\ next[from].revoked # 0 /\ t <= next[from].revoked
               /\ marked[from] # 0 => t <= marked[from]
               /\ next[t].roles = next[from].roles /\ next[t].name = next[from].name
    <3>1. from = rows[t].from /\ from \in TokenId  BY <1>2, <2>1, <2>3
    <3>2. /\ rows[from] # NoToken
          /\ rows[from].revoked # 0 /\ t <= rows[from].revoked
          /\ suspect[from] # 0 => t <= suspect[from]
          /\ rows[t].roles = rows[from].roles /\ rows[t].name = rows[from].name
      BY <1>2, <2>3, <3>1 DEF TokenOK
    <3>3. /\ next[from] # NoToken /\ next[from].revoked = rows[from].revoked
          /\ next[from].roles = rows[from].roles /\ next[from].name = rows[from].name
      BY <3>1, <3>2 DEF Later
    <3>4. marked[from] # 0 => t <= marked[from]  BY <2>1, <3>1, <3>2
    <3>. QED  BY <2>1, <3>2, <3>3, <3>4
  <2>. QED  BY <2>1, <2>2, <2>3 DEF TokenOK
<1>. QED  BY <1>1, <1>2

LEMMA LaterAccess ==
  ASSUME NEW rows, NEW next, NEW begun, Later(rows, next, begun),
         NEW tickets, AccessOK(tickets, rows)
  PROVE  AccessOK(tickets, next)
BY DEF AccessOK, Later

LEMMA RevokedFields ==
  ASSUME NEW token \in Token, started \in Nat
  PROVE  /\ Revoked(token) \in Token
         /\ Revoked(token).name = token.name /\ Revoked(token).roles = token.roles
         /\ Revoked(token).from = token.from
         /\ Revoked(token).revoked = IF token.revoked = 0 THEN started ELSE token.revoked
BY DEF Revoked, Token

LEMMA RevokedRows ==
  ASSUME TablesOK, NEW family, \A t \in family : t \in TokenId /\ tokens[t] # NoToken,
         tokens' = [t \in TokenId |-> IF t \in family THEN Revoked(tokens[t]) ELSE tokens[t]]
  PROVE  /\ tokens' \in [TokenId -> Token \cup {NoToken}]
         /\ Later(tokens, tokens', started)
         /\ started # 0 => \A t \in family : tokens'[t] # NoToken /\ tokens'[t].revoked # 0
<1>1. \A t \in TokenId : tokens[t] \in Token \cup {NoToken}  BY DEF TablesOK
<1>2. started \in Nat  BY BoundAssumption DEF TablesOK
<1>3. ASSUME NEW t \in family
      PROVE  /\ tokens'[t] = Revoked(tokens[t]) /\ tokens[t] \in Token /\ Revoked(tokens[t]) \in Token
             /\ tokens'[t] # NoToken
             /\ tokens'[t].name = tokens[t].name /\ tokens'[t].roles = tokens[t].roles
             /\ tokens'[t].from = tokens[t].from /\ tokens[t].revoked \in Nat
             /\ tokens'[t].revoked = IF tokens[t].revoked = 0 THEN started ELSE tokens[t].revoked
  <2>1. t \in TokenId /\ tokens[t] \in Token  BY <1>1, <1>3
  <2>2. tokens'[t] = Revoked(tokens[t])  BY <2>1
  <2>3. PICK token \in Token : token = tokens[t]  BY <2>1
  <2>. QED  BY <1>2, <2>1, <2>2, <2>3, RevokedFields, TokenTypes, TokenIsThere
<1>4. \A t \in TokenId \ family : tokens'[t] = tokens[t]  OBVIOUS
<1>5. \A t \in TokenId : tokens'[t] \in Token \cup {NoToken}  BY <1>1, <1>3, <1>4
<1>6. tokens' \in [TokenId -> Token \cup {NoToken}]  BY <1>5
<1>7. Later(tokens, tokens', started)
  <2>. SUFFICES ASSUME NEW t \in TokenId
                PROVE  IF tokens[t] = NoToken THEN tokens'[t] = NoToken
                       ELSE /\ tokens'[t] # NoToken
                            /\ tokens'[t].name = tokens[t].name
                            /\ tokens'[t].roles = tokens[t].roles
                            /\ tokens'[t].from = tokens[t].from
                            /\ IF tokens[t].revoked # 0 THEN tokens'[t].revoked = tokens[t].revoked
                               ELSE tokens'[t].revoked \in {0, started}
    BY DEF Later
  <2>1. CASE t \in family  BY <1>3, <2>1
  <2>2. CASE t \notin family  BY <1>4, <2>2
  <2>. QED  BY <2>1, <2>2
<1>. QED  BY <1>3, <1>6, <1>7

(* Some tokens are revoked, and some of the revoked ones condemned. *)
LEMMA RevocationKeeps ==
  ASSUME IInv, NEW family, started \in 1..MaxRequests,
         \A t \in family : t \in TokenId /\ tokens[t] # NoToken,
         tokens' = [t \in TokenId |-> IF t \in family THEN Revoked(tokens[t]) ELSE tokens[t]],
         history'.suspect \in [TokenId -> Nat],
         \A t \in TokenId : \/ history'.suspect[t] = history.suspect[t]
                            \/ t \in family /\ history'.suspect[t] = started
  PROVE  /\ tokens' \in [TokenId -> Token \cup {NoToken}]
         /\ \A h : HandlerOK(h, tokens, started) => HandlerOK(h, tokens', started)
         /\ \A t \in TokenId : TokenOK(t, tokens', history'.suspect, started)
         /\ AccessOK(access, tokens')
         /\ started # 0 => \A t \in family : tokens'[t].revoked # 0
<1>0. TablesOK  BY Before
<1>1. /\ tokens' \in [TokenId -> Token \cup {NoToken}]
      /\ Later(tokens, tokens', started)
      /\ \A t \in family : tokens'[t] # NoToken /\ tokens'[t].revoked # 0
  BY <1>0, RevokedRows
<1>2. PICK rows : rows = tokens  OBVIOUS
<1>3. PICK next : next = tokens'  OBVIOUS
<1>4. PICK suspect : suspect = history.suspect  OBVIOUS
<1>5. PICK marked : marked = history'.suspect  OBVIOUS
<1>6. PICK begun \in 1..MaxRequests : begun = started  OBVIOUS
<1>7. PICK tickets : tickets = access  OBVIOUS
<1>8. Later(rows, next, begun)  BY <1>1, <1>2, <1>3, <1>6
<1>9. \A h : HandlerOK(h, rows, begun) => HandlerOK(h, next, begun)  BY <1>8, LaterHandlers
<1>10. \A t \in TokenId : TokenOK(t, next, marked, begun)
  <2>1. \A t \in TokenId : TokenOK(t, rows, suspect, begun)
    BY <1>2, <1>4, <1>6, Before
  <2>2. \A t \in TokenId :
          /\ rows[t] # NoToken => rows[t].from \in {0} \cup TokenId /\ rows[t].revoked \in Nat
          /\ \/ marked[t] = suspect[t]
             \/ next[t] # NoToken /\ next[t].revoked # 0 /\ marked[t] = begun
    BY <1>0, <1>1, <1>2, <1>3, <1>4, <1>5, <1>6, RowTypes
  <2>. QED  BY <1>8, <2>1, <2>2, LaterTokens
<1>11. AccessOK(tickets, next)
  <2>1. AccessOK(tickets, rows)  BY <1>2, <1>7, Before
  <2>. QED  BY <1>8, <2>1, LaterAccess
<1>. QED  BY <1>1, <1>2, <1>3, <1>5, <1>6, <1>7, <1>9, <1>10, <1>11

LEMMA SomeBegun ==
  ASSUME IInv, (\E t \in TokenId : tokens[t] # NoToken) \/ (\E r \in Request : req[r].pc # "idle")
  PROVE  started \in 1..MaxRequests
<1>1. started \in 0..MaxRequests  BY Before DEF TablesOK
<1>2. ASSUME NEW t \in TokenId, tokens[t] # NoToken  PROVE t <= started /\ t >= 1
  BY <1>2, Before, BoundAssumption DEF TokenOK, TokenId
<1>3. ASSUME NEW r \in Request, req[r].pc # "idle"  PROVE req[r].n \in 1..started
  BY <1>3, Before DEF HandlerOK
<1>4. CASE \E t \in TokenId : tokens[t] # NoToken
  BY <1>1, <1>2, <1>4, BoundAssumption DEF TokenId
<1>5. CASE \E r \in Request : req[r].pc # "idle"
  BY <1>1, <1>3, <1>5, BoundAssumption
<1>. QED  BY <1>4, <1>5

LEMMA SpendKeeps ==
  ASSUME IInv, NEW r \in Request, Spend(r)
  PROVE  IInv'
<1>. DEFINE h == req[r]
            from == h.from
            g == [h EXCEPT !.pc = "issue"]
<1>1. TablesOK /\ h \in Handler /\ HandlerOK(h, tokens, started) /\ h.pc = "spend"
  BY Before DEF Spend
<1>2. /\ from \in TokenId /\ tokens[from] # NoToken /\ tokens[from] \in Token
      /\ h.roles = tokens[from].roles /\ h.name = tokens[from].name
      /\ tokens[from].revoked = 0 \/ h.n <= tokens[from].revoked
      /\ h.n \in 1..started /\ tokens[h.n] = NoToken /\ h.roles \in Roles /\ h.name \in Name
  <2>1. from \in TokenId  BY <1>1 DEF HandlerOK, Handler
  <2>2. Exchanges(h, from)  BY <1>1 DEF Exchanges
  <2>3. /\ tokens[from] # NoToken
        /\ h.roles = tokens[from].roles /\ h.name = tokens[from].name
        /\ tokens[from].revoked = 0 \/ h.n <= tokens[from].revoked
        /\ h.n \in 1..started /\ tokens[h.n] = NoToken /\ h.roles \in Roles /\ h.name \in Name
    BY <1>1, <2>1, <2>2 DEF HandlerOK
  <2>. QED  BY <1>1, <2>1, <2>3, RowTypes
<1>3. started \in 1..MaxRequests  BY <1>1, SomeBegun
<1>4. /\ tokens' = [t \in TokenId |-> IF t \in {from} THEN Revoked(tokens[t]) ELSE tokens[t]]
      /\ Become(r, g)
      /\ UNCHANGED <<users, grants, started, overlaps, faults, history, ring>>
  BY <1>1 DEF Spend, TablesOK
<1>5. history'.suspect \in [TokenId -> Nat] /\ history'.suspect = history.suspect
  BY <1>1, <1>4 DEF TablesOK, History
<1>6. /\ tokens' \in [TokenId -> Token \cup {NoToken}]
      /\ \A k : HandlerOK(k, tokens, started) => HandlerOK(k, tokens', started)
      /\ \A t \in TokenId : TokenOK(t, tokens', history'.suspect, started)
      /\ AccessOK(access, tokens')
  <2>. DEFINE family == {from}
  <2>1. \A t \in family : t \in TokenId /\ tokens[t] # NoToken  BY <1>2
  <2>2. tokens' = [t \in TokenId |-> IF t \in family THEN Revoked(tokens[t]) ELSE tokens[t]]
    BY <1>4
  <2>. HIDE DEF family
  <2>. QED  BY <1>3, <1>5, <2>1, <2>2, RevocationKeeps
<1>7. /\ tokens'[from] # NoToken
      /\ h.roles = tokens'[from].roles /\ h.name = tokens'[from].name
      /\ tokens'[from].revoked # 0 /\ h.n <= tokens'[from].revoked
  <2>1. PICK token \in Token : token = tokens[from]  BY <1>2
  <2>2. tokens'[from] = Revoked(token)  BY <1>2, <1>4, <2>1
  <2>3. /\ Revoked(token) \in Token
        /\ Revoked(token).name = token.name /\ Revoked(token).roles = token.roles
        /\ Revoked(token).revoked = IF token.revoked = 0 THEN started ELSE token.revoked
    BY <1>3, BoundAssumption, RevokedFields
  <2>. QED  BY <1>2, <1>3, <2>1, <2>2, <2>3, TokenIsThere
<1>8. /\ g \in Handler /\ g.pc = "issue" /\ g.n = h.n /\ g.from = from
      /\ g.roles = h.roles /\ g.name = h.name
  BY <1>1 DEF Handler, PC
<1>9. HandlerOK(h, tokens', started)  BY <1>1, <1>6
<1>. HIDE DEF g
<1>10. HandlerOK(g, tokens', started)
  BY <1>1, <1>2, <1>7, <1>8, <1>9 DEF HandlerOK, Exchanges
<1>11. TablesOK'  BY <1>1, <1>4, <1>6 DEF TablesOK, ring, RingTypeOK
<1>12. RingInv' /\ started' = started /\ access' = access  BY <1>4, Before, RingStays DEF ring
<1>13. \A s \in Request \ {r} : HandlerOK(req[s], tokens', started')  BY <1>6, <1>12, Before
<1>. QED  BY <1>1, <1>4, <1>6, <1>8, <1>10, <1>11, <1>12, <1>13, After

LEMMA RevokeAllForKeeps ==
  ASSUME IInv, NEW r \in Request, RevokeAllFor(r)
  PROVE  IInv'
<1>. DEFINE family == Family(req[r].name)
            marked == [t \in TokenId |->
              IF t \in Issued /\ tokens[t].name = req[r].name /\ history.suspect[t] = 0
                THEN started ELSE history.suspect[t]]
<1>1. TablesOK /\ req[r].pc = "purge"  BY Before DEF RevokeAllFor
<1>2. started \in 1..MaxRequests  BY <1>1, SomeBegun
<1>3. \A t \in family : t \in TokenId /\ tokens[t] # NoToken  BY DEF Family, Issued
<1>4. /\ tokens' = [t \in TokenId |-> IF t \in family THEN Revoked(tokens[t]) ELSE tokens[t]]
      /\ history' = [history EXCEPT !.suspect = marked]
      /\ Become(r, Idle)
      /\ UNCHANGED <<users, grants, started, overlaps, faults, ring>>
  BY DEF RevokeAllFor
<1>5. history.suspect \in [TokenId -> Nat]  BY <1>1 DEF TablesOK, History
<1>6. marked \in [TokenId -> Nat]  BY <1>2, <1>5, BoundAssumption
<1>7. \A t \in TokenId : \/ marked[t] = history.suspect[t]
                         \/ t \in family /\ marked[t] = started
  BY DEF Family
<1>. HIDE DEF family, marked
<1>8. history' \in History /\ history'.suspect = marked
  <2>1. history \in History  BY <1>1 DEF TablesOK
  <2>. QED  BY <1>4, <1>6, <2>1 DEF History
<1>9. /\ tokens' \in [TokenId -> Token \cup {NoToken}]
      /\ \A k : HandlerOK(k, tokens, started) => HandlerOK(k, tokens', started)
      /\ \A t \in TokenId : TokenOK(t, tokens', history'.suspect, started)
      /\ AccessOK(access, tokens')
  BY <1>2, <1>3, <1>4, <1>6, <1>7, <1>8, RevocationKeeps
<1>10. TablesOK'  BY <1>1, <1>4, <1>8, <1>9 DEF TablesOK, ring, RingTypeOK
<1>11. RingInv' /\ started' = started /\ access' = access  BY <1>4, Before, RingStays DEF ring
<1>12. \A s \in Request : HandlerOK(req[s], tokens', started')  BY <1>9, <1>11, Before
<1>. QED  BY <1>4, <1>9, <1>10, <1>11, <1>12, IdleType, IdleOK, After

LEMMA LogoutKeeps ==
  ASSUME IInv, NEW r \in Request, NEW t \in TokenId, Logout(r, t)
  PROVE  IInv'
<1>1. TablesOK /\ TypeOK /\ tokens[t] # NoToken  BY Before DEF Logout, Issued
<1>2. started \in 1..MaxRequests  BY <1>1, SomeBegun
<1>3. /\ tokens' = [u \in TokenId |-> IF u \in {t} THEN Revoked(tokens[u]) ELSE tokens[u]]
      /\ UNCHANGED <<req, history, users, grants, faults, ring>>
      /\ started < MaxRequests /\ started' = started + 1
      /\ overlaps' = overlaps \/ (overlaps < MaxOverlaps /\ overlaps' = overlaps + 1)
  BY <1>1 DEF Logout, Arrive, TablesOK
<1>4. history.suspect \in [TokenId -> Nat] /\ history'.suspect = history.suspect
  BY <1>1, <1>3 DEF TablesOK, History
<1>5. /\ tokens' \in [TokenId -> Token \cup {NoToken}]
      /\ \A k : HandlerOK(k, tokens, started) => HandlerOK(k, tokens', started)
      /\ \A u \in TokenId : TokenOK(u, tokens', history'.suspect, started)
      /\ AccessOK(access, tokens')
  <2>. DEFINE family == {t}
  <2>1. \A u \in family : u \in TokenId /\ tokens[u] # NoToken  BY <1>1
  <2>2. tokens' = [u \in TokenId |-> IF u \in family THEN Revoked(tokens[u]) ELSE tokens[u]]
    BY <1>3
  <2>. HIDE DEF family
  <2>. QED  BY <1>2, <1>4, <2>1, <2>2, RevocationKeeps
<1>6. PICK rows : rows = tokens'  OBVIOUS
<1>7. PICK suspect : suspect = history'.suspect  OBVIOUS
<1>8. PICK begun \in Nat : begun = started  BY <1>2, BoundAssumption
<1>9. \A s \in Request : HandlerOK(req'[s], tokens', started')
  <2>1. \A s \in Request : HandlerOK(req[s], rows, begun)  BY <1>5, <1>6, <1>8, Before
  <2>. QED  BY <1>3, <1>6, <1>8, <2>1, OneLater
<1>10. \A u \in TokenId : TokenOK(u, tokens', history'.suspect, started')
  <2>1. \A u \in TokenId : /\ TokenOK(u, rows, suspect, begun)
                           /\ rows[u] = NoToken \/ rows[u].revoked \in Nat
                           /\ suspect[u] \in Nat
    <3>1. rows \in [TokenId -> Token \cup {NoToken}] /\ suspect \in [TokenId -> Nat]
      BY <1>4, <1>5, <1>6, <1>7
    <3>2. \A u \in TokenId : rows[u] = NoToken \/ rows[u].revoked \in Nat
      BY <3>1, TokenTypes
    <3>. QED  BY <1>5, <1>6, <1>7, <1>8, <3>1, <3>2
  <2>2. \A u \in TokenId : TokenOK(u, rows, suspect, begun + 1)  BY <2>1, OneLater
  <2>. QED  BY <1>3, <1>6, <1>7, <1>8, <2>2
<1>11. TypeOK'
  <2>1. started' \in 0..MaxRequests /\ overlaps' \in 0..MaxOverlaps
    BY <1>1, <1>3, BoundAssumption DEF TypeOK
  <2>. QED  BY <1>1, <1>3, <1>5, <2>1 DEF TypeOK, ring, RingTypeOK
<1>12. RingInv' /\ access' = access  BY <1>3, Before, RingStays DEF ring
<1>13. Distinct(req')  BY <1>3, Before
<1>. QED  BY <1>5, <1>9, <1>10, <1>11, <1>12, <1>13, InvMeansNext

-----------------------------------------------------------------------------
(* Tokens are issued.                                                      *)

(* A row that was not there takes no other's place. *)
LEMMA OneMore ==
  ASSUME NEW rows, NEW next, NEW n \in TokenId, rows[n] = NoToken, next[n] # NoToken,
         \A t \in TokenId \ {n} : next[t] = rows[t],
         NEW begun \in Nat, begun <= MaxRequests
  PROVE  /\ \A h : HandlerOK(h, rows, begun) /\ (h.pc # "idle" => h.n # n)
                     => HandlerOK(h, next, begun)
         /\ \A suspect : \A t \in TokenId \ {n} :
              /\ rows[t] # NoToken => rows[t].from \in {0} \cup TokenId
              /\ TokenOK(t, rows, suspect, begun)
              => TokenOK(t, next, suspect, begun)
<1>1. ASSUME NEW h, HandlerOK(h, rows, begun), h.pc # "idle" => h.n # n
      PROVE  HandlerOK(h, next, begun)
  <2>1. h.pc # "idle" => h.n \in TokenId \ {n}
    BY <1>1, BoundAssumption DEF HandlerOK, TokenId
  <2>. QED  BY <1>1, <2>1 DEF HandlerOK
<1>2. ASSUME NEW suspect, NEW t \in TokenId \ {n}, TokenOK(t, rows, suspect, begun),
             rows[t] # NoToken => rows[t].from \in {0} \cup TokenId
      PROVE  TokenOK(t, next, suspect, begun)
  <2>1. CASE rows[t] = NoToken  BY <1>2, <2>1 DEF TokenOK
  <2>2. CASE rows[t] # NoToken
    <3>1. rows[t].from = 0 \/ rows[t].from \in TokenId \ {n}
      BY <1>2, <2>2 DEF TokenOK
    <3>. QED  BY <1>2, <2>2, <3>1 DEF TokenOK
  <2>. QED  BY <2>1, <2>2
<1>. QED  BY <1>1, <1>2

LEMMA GenerateKeepsRing ==
  ASSUME RingInv, NEW n, NEW name, NEW roles \in Roles,
         access' = access \cup {GenerateMulti(n, name, roles)},
         UNCHANGED <<now, accepts, signing, switched>>
  PROVE  RingInv'
<1>. DEFINE new == GenerateMulti(n, name, roles)
<1>1. new.key = signing /\ new.exp = now + AccessTTL /\ new.roles = roles
  BY DEF GenerateMulti
<1>2. now \in Nat /\ signing \in Key /\ AccessTTL \in Nat
  BY TimeAssumption DEF RingInv, RingTypeOK
<1>. HIDE DEF new
<1>3. RingTypeOK'
  <2>1. \A token \in access' : token.key \in Key /\ token.exp \in Nat /\ token.roles \in Roles
    <3>1. \A token \in access : token.key \in Key /\ token.exp \in Nat /\ token.roles \in Roles
      BY DEF RingInv, RingTypeOK
    <3>2. new.key \in Key /\ new.exp \in Nat /\ new.roles \in Roles  BY <1>1, <1>2
    <3>. QED  BY <3>1, <3>2 DEF new
  <2>. QED  BY <2>1 DEF RingInv, RingTypeOK
<1>4. \A token \in access' :
        /\ token.key <= signing
        /\ token.exp <= now + AccessTTL
        /\ token.key < signing => token.exp <= switched + AccessTTL
        /\ now < token.exp => \A s \in Service : token.key \in accepts[s]
  <2>1. CASE \A token \in access' : token \in access \/ token = new
    <3>1. /\ new.key <= signing /\ ~(new.key < signing)
          /\ new.exp <= now + AccessTTL
          /\ \A s \in Service : new.key \in accepts[s]
      BY <1>1, <1>2 DEF RingInv, Key
    <3>. QED  BY <2>1, <3>1 DEF RingInv
  <2>. QED  BY <2>1 DEF new
<1>. QED  BY <1>3, <1>4 DEF RingInv

LEMMA IssueKeeps ==
  ASSUME IInv, NEW r \in Request, Issue(r)
  PROVE  IInv'
<1>. DEFINE h == req[r]
            n == h.n
            new == NewToken(h)
            ticket == GenerateMulti(n, h.name, h.roles)
<1>1. TablesOK /\ h \in Handler /\ HandlerOK(h, tokens, started) /\ h.pc = "issue"
  BY Before DEF Issue
<1>2. started \in Nat /\ started <= MaxRequests  BY <1>1, BoundAssumption DEF TablesOK
<1>3. /\ n \in TokenId /\ n <= started /\ tokens[n] = NoToken
      /\ h.roles \in Roles /\ h.name \in Name
  <2>1. n \in 1..started  BY <1>1 DEF HandlerOK
  <2>. QED  BY <1>1, <1>2, <2>1, BoundAssumption DEF HandlerOK, TokenId
<1>4. /\ new \in Token /\ new # NoToken
      /\ new.name = h.name /\ new.roles = h.roles /\ new.revoked = 0 /\ new.from = h.from
  <2>1. now + RefreshTTL \in Nat  BY <1>1, BoundAssumption DEF TablesOK, RingTypeOK
  <2>2. h.from \in {0} \cup TokenId  BY <1>1 DEF Handler
  <2>3. new \in Token  BY <1>3, <2>1, <2>2 DEF NewToken, Token
  <2>. QED  BY <2>3, TokenIsThere DEF NewToken
<1>5. ticket.id = n /\ ticket.roles = h.roles  BY DEF GenerateMulti
<1>6. /\ tokens' = [tokens EXCEPT ![n] = new]
      /\ access' = access \cup {ticket}
      /\ Become(r, Idle)
      /\ UNCHANGED <<users, grants, started, overlaps, faults, history>>
      /\ UNCHANGED <<now, accepts, signing, switched>>
  BY DEF Issue
<1>7. RingInv'  BY <1>3, <1>6, Before, GenerateKeepsRing
<1>. HIDE DEF new, ticket
<1>8. /\ tokens' \in [TokenId -> Token \cup {NoToken}]
      /\ tokens'[n] = new /\ \A t \in TokenId \ {n} : tokens'[t] = tokens[t]
  BY <1>1, <1>3, <1>4, <1>6 DEF TablesOK
<1>9. TablesOK'  BY <1>1, <1>6, <1>7, <1>8 DEF TablesOK, RingInv
<1>10. PICK rows : rows = tokens  OBVIOUS
<1>11. PICK next : next = tokens'  OBVIOUS
<1>12. PICK begun \in Nat : begun = started  BY <1>2
<1>13. PICK m \in TokenId : m = n  BY <1>3
<1>14. /\ rows[m] = NoToken /\ next[m] # NoToken
       /\ \A t \in TokenId \ {m} : next[t] = rows[t]
       /\ begun <= MaxRequests
  BY <1>2, <1>3, <1>4, <1>8, <1>10, <1>11, <1>12, <1>13
<1>15. \A s \in Request \ {r} : HandlerOK(req[s], tokens', started')
  <2>1. \A s \in Request \ {r} : HandlerOK(req[s], rows, begun) /\ (req[s].pc # "idle" => req[s].n # m)
    BY <1>1, <1>10, <1>12, <1>13, Before DEF Distinct
  <2>2. \A k : HandlerOK(k, rows, begun) /\ (k.pc # "idle" => k.n # m) => HandlerOK(k, next, begun)
    BY <1>14, OneMore
  <2>. QED  BY <1>6, <1>11, <1>12, <2>1, <2>2
<1>16. \A t \in TokenId \ {n} : TokenOK(t, tokens', history'.suspect, started')
  <2>1. PICK suspect : suspect = history.suspect  OBVIOUS
  <2>2. \A t \in TokenId : /\ rows[t] # NoToken => rows[t].from \in {0} \cup TokenId
                           /\ TokenOK(t, rows, suspect, begun)
    BY <1>1, <1>10, <1>12, <2>1, RowTypes, Before
  <2>3. \A t \in TokenId \ {m} : TokenOK(t, next, suspect, begun)
    BY <1>14, <2>2, OneMore
  <2>. QED  BY <1>6, <1>11, <1>12, <1>13, <2>1, <2>3
<1>17. TokenOK(n, tokens', history'.suspect, started')
  <2>1. history.suspect[n] = 0  BY <1>3, Before DEF TokenOK
  <2>2. ASSUME NEW from, from = h.from, from # 0
        PROVE  /\ tokens'[from] # NoToken
               /\ tokens'[from].revoked # 0 /\ n <= tokens'[from].revoked
               /\ history.suspect[from] # 0 => n <= history.suspect[from]
               /\ new.roles = tokens'[from].roles /\ new.name = tokens'[from].name
    <3>1. from \in TokenId /\ Exchanges(h, from)  BY <1>1, <2>2 DEF Handler, Exchanges
    <3>2. /\ tokens[from] # NoToken
          /\ h.roles = tokens[from].roles /\ h.name = tokens[from].name
          /\ tokens[from].revoked # 0 /\ n <= tokens[from].revoked
      BY <1>1, <3>1 DEF HandlerOK
    <3>3. tokens'[from] = tokens[from]  BY <1>3, <1>8, <3>1, <3>2
    <3>4. history.suspect[from] # 0 => n <= history.suspect[from]
      <4>1. TokenOK(from, tokens, history.suspect, started)  BY <3>1, Before
      <4>2. history.suspect[from] # 0 => tokens[from].revoked <= history.suspect[from]
        BY <3>2, <4>1 DEF TokenOK
      <4>3. n \in Nat /\ tokens[from].revoked \in Nat /\ history.suspect[from] \in Nat
        BY <1>1, <1>3, <3>1, <3>2, RowTypes
      <4>. QED  BY <3>2, <4>2, <4>3
    <3>. QED  BY <1>4, <3>2, <3>3, <3>4
  <2>. QED  BY <1>2, <1>3, <1>4, <1>6, <1>8, <2>1, <2>2 DEF TokenOK
<1>18. AccessOK(access', tokens')
  <2>1. \A token \in access : token.id \in TokenId /\ tokens'[token.id] # NoToken
                              /\ token.roles = tokens'[token.id].roles
    BY <1>3, <1>8, Before DEF AccessOK
  <2>2. ticket.id \in TokenId /\ tokens'[ticket.id] # NoToken
        /\ ticket.roles = tokens'[ticket.id].roles
    BY <1>3, <1>4, <1>5, <1>8
  <2>. QED  BY <1>6, <2>1, <2>2 DEF AccessOK
<1>19. \A t \in TokenId : TokenOK(t, tokens', history'.suspect, started')
  BY <1>16, <1>17
<1>. QED  BY <1>6, <1>7, <1>9, <1>15, <1>18, <1>19, IdleType, IdleOK, After

-----------------------------------------------------------------------------
(* The keys, and the clock.                                                *)

LEMMA AcceptKeepsRing ==
  ASSUME RingInv, NEW s \in Service, AcceptNext(s)
  PROVE  RingInv'
<1>1. /\ accepts' \in [Service -> SUBSET Key]
      /\ \A t \in Service : accepts[t] \subseteq accepts'[t]
      /\ UNCHANGED <<now, signing, switched, access>>
  BY DEF AcceptNext, RingInv, RingTypeOK
<1>. QED  BY <1>1 DEF RingInv, RingTypeOK

LEMMA SwitchKeepsRing ==
  ASSUME RingInv, SwitchKey
  PROVE  RingInv'
<1>1. /\ signing' = signing + 1 /\ switched' = now /\ UNCHANGED <<now, accepts, access>>
      /\ \A s \in Service : signing + 1 \in accepts[s]
  BY DEF SwitchKey, MaySwitch
<1>2. signing' \in Key
  <2>1. signing + 1 \in accepts["profile"]  BY <1>1, ServiceAssumption
  <2>. QED  BY <1>1, <2>1, ServiceAssumption DEF RingInv, RingTypeOK
<1>3. now \in Nat /\ signing \in Int  BY DEF RingInv, RingTypeOK, Key
<1>4. RingTypeOK'  BY <1>1, <1>2, <1>3 DEF RingInv, RingTypeOK
<1>5. \A token \in access : /\ token.key \in Int /\ token.key <= signing
                            /\ token.exp <= now + AccessTTL
                            /\ now < token.exp => \A s \in Service : token.key \in accepts[s]
  BY DEF RingInv, RingTypeOK, Key
<1>. QED  BY <1>1, <1>3, <1>4, <1>5 DEF RingInv

LEMMA DropKeepsRing ==
  ASSUME RingInv, NEW s \in Service, NEW k \in Key, DropKey(s, k)
  PROVE  RingInv'
<1>1. /\ accepts' = [accepts EXCEPT ![s] = @ \ {k}] /\ k < signing /\ switched + AccessTTL <= now
      /\ UNCHANGED <<now, signing, switched, access>>
  BY DEF DropKey, MayDrop
<1>2. now \in Nat /\ switched \in Nat /\ AccessTTL \in Nat /\ signing \in Int
  BY TimeAssumption DEF RingInv, RingTypeOK, Key
<1>3. accepts' \in [Service -> SUBSET Key]
      /\ \A t \in Service : accepts[t] \ {k} \subseteq accepts'[t]
  BY <1>1 DEF RingInv, RingTypeOK
<1>4. RingTypeOK'  BY <1>1, <1>3 DEF RingInv, RingTypeOK
<1>5. \A t \in Service : signing \in accepts'[t]
  BY <1>1, <1>2, <1>3 DEF RingInv
<1>6. ASSUME NEW token \in access, now < token.exp, NEW t \in Service
      PROVE  token.key \in accepts'[t]
  <2>1. token.key \in accepts[t] /\ token.exp \in Nat
        /\ (token.key < signing => token.exp <= switched + AccessTTL)
    BY <1>6 DEF RingInv, RingTypeOK
  <2>2. token.key # k  BY <1>1, <1>2, <1>6, <2>1
  <2>. QED  BY <1>3, <2>1, <2>2
<1>. QED  BY <1>1, <1>4, <1>5, <1>6 DEF RingInv

LEMMA TickKeepsRing ==
  ASSUME RingInv, Tick
  PROVE  RingInv'
<1>1. now' = now + 1 /\ UNCHANGED <<accepts, signing, switched, access>>  BY DEF Tick
<1>2. now \in Nat /\ switched \in Nat /\ switched <= now /\ AccessTTL \in Nat
  BY TimeAssumption DEF RingInv, RingTypeOK
<1>3. RingTypeOK'  BY <1>1, <1>2 DEF RingInv, RingTypeOK
<1>4. \A token \in access : token.exp \in Nat  BY DEF RingInv, RingTypeOK
<1>5. \A token \in access : /\ token.exp <= now + AccessTTL
                            /\ now < token.exp => \A s \in Service : token.key \in accepts[s]
  BY DEF RingInv
<1>6. \A token \in access : /\ token.exp <= (now + 1) + AccessTTL
                            /\ now + 1 < token.exp => now < token.exp
  BY <1>2, <1>4, <1>5
<1>. QED  BY <1>1, <1>3, <1>5, <1>6 DEF RingInv

(* Nothing but the keys or the clock changes. *)
LEMMA RingAlone ==
  ASSUME IInv, RingInv', access' = access,
         UNCHANGED <<users, grants, tokens, req, started, overlaps, faults, history>>
  PROVE  IInv'
<1>1. TypeOK'  BY Before DEF TypeOK, RingInv
<1>2. /\ \A r \in Request : HandlerOK(req'[r], tokens', started')
      /\ Distinct(req')
      /\ \A t \in TokenId : TokenOK(t, tokens', history'.suspect, started')
      /\ AccessOK(access', tokens')
  BY Before
<1>. QED  BY <1>1, <1>2, InvMeansNext

LEMMA RotateKeysKeeps ==
  ASSUME IInv, RotateKeys
  PROVE  IInv'
<1>1. RingInv  BY Before
<1>2. RingInv' /\ access' = access
  <2>1. CASE \E s \in Service : AcceptNext(s)
    BY <1>1, <2>1, AcceptKeepsRing DEF AcceptNext
  <2>2. CASE SwitchKey  BY <1>1, <2>2, SwitchKeepsRing DEF SwitchKey
  <2>3. CASE \E s \in Service, k \in Key : DropKey(s, k)
    BY <1>1, <2>3, DropKeepsRing DEF DropKey
  <2>. QED  BY <2>1, <2>2, <2>3 DEF RotateKeys
<1>. QED  BY <1>2, RingAlone DEF RotateKeys

LEMMA TimeKeeps ==
  ASSUME IInv, Time
  PROVE  IInv'
<1>1. RingInv' /\ access' = access  BY Before, TickKeepsRing DEF Time, Tick
<1>. QED  BY <1>1, RingAlone DEF Time

-----------------------------------------------------------------------------
(* The specification.                                                      *)

LEMMA InitInv ==
  ASSUME Init
  PROVE  IInv
<1>1. RingInv
  <2>1. 1 \in Key  BY TimeAssumption DEF Key
  <2>. QED  BY <2>1 DEF Init, RingInit, RingInv, RingTypeOK
<1>2. users \in [Account -> User \cup {NoUser}]
  <2>1. [name |-> Founder.name, primary |-> "Admin"] \in User
    BY AccountAssumption DEF User, Role
  <2>. QED  BY <2>1 DEF Init
<1>3. grants \in [Account -> SUBSET Role]  BY DEF Init, Role
<1>4. ASSUME NEW a \in Account
      PROVE  (IF users[a] = NoUser THEN NoRoles ELSE RolesFor(a)) \in Roles \cup {NoRoles}
  <2>1. CASE users[a] # NoUser
    <3>1. users[a] \in User  BY <1>2, <2>1
    <3>2. users[a].primary \in Role /\ grants[a] \in SUBSET Role  BY <1>3, <3>1 DEF User
    <3>. QED  BY <3>2, <2>1, RolesType DEF RolesFor
  <2>. QED  BY <2>1
<1>5. history \in History
      /\ \A t \in TokenId : history.suspect[t] = 0
  <2>. DEFINE asked == [a \in Account |-> IF users[a] = NoUser THEN NoRoles ELSE RolesFor(a)]
              suspect == [t \in TokenId |-> 0]
  <2>1. asked \in [Account -> Roles \cup {NoRoles}]  BY <1>4
  <2>2. suspect \in [TokenId -> Nat]  OBVIOUS
  <2>3. history = [suspect |-> suspect, asked |-> asked, mixed |-> {}]  BY DEF Init
  <2>4. \A t \in TokenId : suspect[t] = 0  OBVIOUS
  <2>. HIDE DEF asked, suspect
  <2>. QED  BY <2>1, <2>2, <2>3, <2>4 DEF History
<1>6. /\ tokens = [t \in TokenId |-> NoToken] /\ req = [r \in Request |-> Idle]
      /\ started = 0 /\ overlaps = 0 /\ faults = 0 /\ access = {}
  BY DEF Init, RingInit
<1>7. TypeOK
  <2>1. started \in 0..MaxRequests /\ overlaps \in 0..MaxOverlaps /\ faults \in 0..MaxFaults
    BY <1>6, BoundAssumption
  <2>. QED  BY <1>1, <1>2, <1>3, <1>5, <1>6, <2>1, IdleType DEF TypeOK, RingInv
<1>8. \A r \in Request : HandlerOK(req[r], tokens, started)  BY <1>6, IdleOK
<1>9. Distinct(req)  BY <1>6, IdleType DEF Distinct
<1>10. \A t \in TokenId : TokenOK(t, tokens, history.suspect, started)
  BY <1>5, <1>6 DEF TokenOK
<1>11. AccessOK(access, tokens)  BY <1>6 DEF AccessOK
<1>. QED  BY <1>1, <1>7, <1>8, <1>9, <1>10, <1>11, InvMeans

LEMMA StutterInv ==
  ASSUME IInv, UNCHANGED vars
  PROVE  IInv'
<1>1. RingInv'  BY Before, RingStays DEF vars
<1>. QED  BY <1>1, RingAlone DEF vars, ring

LEMMA NextInv ==
  ASSUME IInv, Next
  PROVE  IInv'
<1>1. CASE \E r \in Request, a \in Account : Login(r, a)
  BY <1>1, LoginKeeps
<1>2. CASE \E r \in Request, t \in TokenId : Refresh(r, t) \/ Logout(r, t)
  BY <1>2, RefreshKeeps, LogoutKeeps
<1>3. CASE \E r \in Request, a \in Account, name \in Name, roles \in Asked :
             AddUser(r, a, name, roles)
  BY <1>3, AddUserKeeps
<1>4. CASE \E r \in Request, a \in Account, name \in Name, roles \in Asked :
             UpdateUser(r, a, name, "edit", roles)
  BY <1>4, UpdateUserKeeps
<1>5. CASE \E r \in Request, a \in Account, name \in Name :
             UpdateUser(r, a, name, "rename", NoRoles)
  BY <1>5, UpdateUserKeeps
<1>6. CASE \E r \in Request : EnsureAdmin(r) \/ ReadRoles(r) \/ Issue(r) \/ Spend(r)
                                \/ RevokeAllFor(r) \/ Create(r) \/ ReplaceRoles(r)
                                \/ Save(r) \/ Stop(r)
  BY <1>6, EnsureAdminKeeps, ReadRolesKeeps, IssueKeeps, SpendKeeps, RevokeAllForKeeps,
     CreateKeeps, ReplaceRolesKeeps, SaveKeeps, StopKeeps
<1>7. CASE RotateKeys  BY <1>7, RotateKeysKeeps
<1>8. CASE Time  BY <1>8, TimeKeeps
<1>. QED  BY <1>1, <1>2, <1>3, <1>4, <1>5, <1>6, <1>7, <1>8 DEF Next

(* Every statement of every handler leaves the tables as TypeOK and the     *)
(* parts of IInv say, whatever overlaps, fails or is replayed.              *)
THEOREM SessionsInOrder == Spec => []IInv
<1>1. Init => IInv  BY InitInv
<1>2. IInv /\ [Next]_vars => IInv'  BY NextInv, StutterInv
<1>. QED  BY <1>1, <1>2, PTL DEF Spec

(* Refresh of user_service.go: of the exchanges of one refresh token only   *)
(* those get a new one that had begun when it was first revoked.            *)
THEOREM TokensAreSingleUse == Spec => []SingleUse
<1>1. IInv => SingleUse  BY DEF IInv
<1>. QED  BY <1>1, SessionsInOrder, PTL

(* Refresh and RevokeAllFor: once a replay has condemned a token, nobody    *)
(* gets anything for it who asks afterwards, thief or victim.               *)
THEOREM ReplayLogsOut == Spec => []ReplayEndsFamily
<1>1. IInv => ReplayEndsFamily  BY DEF IInv
<1>. QED  BY <1>1, SessionsInOrder, PTL

(* issue of user_service.go: through any number of exchanges the tokens     *)
(* carry the roles and the name captured at the login.                      *)
THEOREM RolesAreOfTheLogin == Spec => []RolesOfTheLogin
<1>1. IInv => RolesOfTheLogin  BY DEF IInv
<1>. QED  BY <1>1, SessionsInOrder, PTL

(* The list of keys in jwt.go: a rotation done service by service, with the *)
(* old key kept for as long as a token lives, never turns away a token that *)
(* has not expired.                                                         *)
THEOREM KeysRotateUnnoticed == Spec => []RotationCutsNobodyOff
<1>1. IInv => RotationCutsNobodyOff
  BY DEF IInv, RingInv, RotationCutsNobodyOff, Parse
<1>. QED  BY <1>1, SessionsInOrder, PTL

-----------------------------------------------------------------------------
(* The roles of an account.                                                *)

LEMMA BecomeValue ==
  ASSUME TypeOK, NEW r \in Request, NEW h, Become(r, h)
  PROVE  req'[r] = h /\ \A s \in Request \ {r} : req'[s] = req[s]
BY DEF TypeOK, Become

Fine(a, handlers, user, roles, asked) ==
  /\ \A r, s \in Request : Administers(handlers[r], a) /\ Administers(handlers[s], a) => r = s
  /\ \A r \in Request : Administers(handlers[r], a) => Staged(handlers[r], user)
  /\ user # NoUser /\ (\A r \in Request : Administers(handlers[r], a) => handlers[r].pc # "grant")
       => roles = asked

LEMMA Bystander ==
  ASSUME IInv, NEW r \in Request, NEW g, Become(r, g), NEW a \in Account,
         AccountOK(a), ~Administers(req[r], a), ~Administers(g, a),
         users'[a] = users[a], grants'[a] = grants[a], history'.asked[a] = history.asked[a]
  PROVE  AccountOK(a)'
<1>1. TypeOK  BY Before
<1>2. req'[r] = g /\ \A s \in Request \ {r} : req'[s] = req[s]  BY <1>1, BecomeValue
<1>3. ASSUME NEW s \in Request
      PROVE  (Administers(req'[s], a) <=> Administers(req[s], a))
             /\ (Administers(req[s], a) => req'[s] = req[s])
  <2>1. CASE s = r  BY <1>2, <2>1
  <2>2. CASE s # r
    <3>1. req'[s] = req[s]  BY <1>2, <2>2
    <3>. QED  BY <3>1
  <2>. QED  BY <2>1, <2>2
<1>4. RolesFor(a)' = RolesFor(a)  BY DEF RolesFor
<1>5. Fine(a, req, users[a], RolesFor(a), history.asked[a])  BY DEF AccountOK, Fine, Administers
<1>6. Fine(a, req', users'[a], RolesFor(a)', history'.asked[a])  BY <1>3, <1>4, <1>5 DEF Fine
<1>. QED  BY <1>6 DEF AccountOK, Fine, Administers, Staged

(* The account that handler r administers, and nobody else. *)
LEMMA Administrator ==
  ASSUME IInv, NEW r \in Request, NEW g, Become(r, g), NEW a \in Account,
         \A s \in Request \ {r} : ~Administers(req[s], a),
         Administers(g, a) => Staged(g, users'[a]),
         users'[a] # NoUser /\ (Administers(g, a) => g.pc # "grant")
           => RolesFor(a)' = history'.asked[a]
  PROVE  AccountOK(a)'
<1>1. TypeOK  BY Before
<1>2. req'[r] = g /\ \A s \in Request \ {r} : req'[s] = req[s]  BY <1>1, BecomeValue
<1>3. \A s \in Request \ {r} : ~Administers(req'[s], a)  BY <1>2
<1>4. Fine(a, req', users'[a], RolesFor(a)', history'.asked[a])  BY <1>2, <1>3 DEF Fine
<1>. QED  BY <1>4 DEF AccountOK, Fine, Administers, Staged

Agrees(h) == h.act \in Administration <=> h.pc \in {"create", "save", "grant"}

LEMMA AgreesNext ==
  ASSUME IInv, AccountInv, NEW r \in Request, NEW g, Become(r, g), Agrees(g),
         \A a \in Account \ history'.mixed : AccountOK(a)'
  PROVE  AccountInv'
<1>1. TypeOK  BY Before
<1>2. req'[r] = g /\ \A s \in Request \ {r} : req'[s] = req[s]  BY <1>1, BecomeValue
<1>3. \A s \in Request : Agrees(req'[s])  BY <1>2 DEF AccountInv, Agrees
<1>. QED  BY <1>3 DEF AccountInv, Agrees

LEMMA NotAdministering ==
  ASSUME AccountInv, NEW r \in Request, req[r].pc \notin {"create", "save", "grant"}
  PROVE  \A a : ~Administers(req[r], a)
BY DEF AccountInv, Administration, Administers

LEMMA IdleAgrees == Agrees(Idle) /\ \A a : ~Administers(Idle, a)
BY DEF Idle, Agrees, Administration, Administers

(* A step of a request that is no administration. *)
LEMMA OtherBusiness ==
  ASSUME IInv, AccountInv, NEW r \in Request, NEW g, Become(r, g),
         g.act \notin Administration, g.pc \notin {"create", "save", "grant"},
         \A a \in Account \ history'.mixed : ~Administers(req[r], a),
         UNCHANGED <<users, grants>>, history'.asked = history.asked,
         history.mixed \subseteq history'.mixed
  PROVE  AccountInv'
<1>1. \A a : ~Administers(g, a)  BY DEF Administration, Administers
<1>2. \A a \in Account \ history'.mixed : AccountOK(a)'
  BY <1>1, Bystander DEF AccountInv
<1>. QED  BY <1>2, AgreesNext DEF Agrees

LEMMA AdministerRoles ==
  ASSUME IInv, AccountInv, NEW r \in Request, NEW h \in Handler, Administer(r, h),
         h.account \in Account, h.act \in Administration, h.pc \in {"create", "save"},
         h.pc = "save" => Staged(h, users[h.account])
  PROVE  AccountInv'
<1> DEFINE g == [h EXCEPT !.n = started + 1]
<1>0. TypeOK  BY Before
<1>1. g \in Handler  BY <1>0, BoundAssumption DEF Handler, TypeOK
<1>2. /\ g.pc = h.pc /\ g.act = h.act /\ g.account = h.account /\ g.roles = h.roles
  BY DEF Handler
<1>3. /\ Become(r, g) /\ UNCHANGED <<users, grants>> /\ req[r].pc = "idle"
      /\ history' = [history EXCEPT !.mixed =
           IF \E s \in Request : Administers(req[s], h.account) THEN @ \cup {h.account} ELSE @]
  BY DEF Administer, Begin, Arrive
<1>4. /\ history'.asked = history.asked /\ history.mixed \subseteq history'.mixed
      /\ (\E s \in Request : Administers(req[s], h.account)) => h.account \in history'.mixed
  BY <1>0, <1>3 DEF TypeOK, History
<1>. HIDE DEF g
<1>5. ~\E a : Administers(req[r], a)  BY <1>3, NotAdministering
<1>6. ASSUME NEW a \in Account \ history'.mixed PROVE AccountOK(a)'
  <2>0. AccountOK(a)  BY <1>4, <1>6 DEF AccountInv
  <2>1. CASE a = h.account
    <3>1. \A s \in Request : ~Administers(req[s], a)  BY <1>4, <1>6, <2>1
    <3>2. users[a] # NoUser => RolesFor(a) = history.asked[a]  BY <2>0, <3>1 DEF AccountOK
    <3>3. RolesFor(a)' = RolesFor(a)  BY <1>3 DEF RolesFor
    <3>4. Staged(g, users'[a])  BY <1>2, <1>3, <2>1 DEF Staged
    <3>. QED  BY <1>1, <1>3, <1>4, <3>1, <3>2, <3>3, <3>4, Administrator
  <2>2. CASE a # h.account
    <3>1. ~Administers(g, a)  BY <1>2, <2>2 DEF Administers
    <3>. QED  BY <1>1, <1>3, <1>4, <1>5, <2>0, <3>1, Bystander
  <2>. QED  BY <2>1, <2>2
<1>7. Agrees(g)  BY <1>2 DEF Agrees
<1>. QED  BY <1>1, <1>3, <1>6, <1>7, AgreesNext

LEMMA AddUserRoles ==
  ASSUME IInv, AccountInv, NEW r \in Request, NEW a \in Account, NEW name \in Name,
         NEW roles \in Asked, AddUser(r, a, name, roles)
  PROVE  AccountInv'
<1>. DEFINE h == [Idle EXCEPT !.pc = "create", !.act = "add", !.account = a,
                              !.name = name, !.roles = roles]
<1>1. h \in Handler /\ h.pc = "create" /\ h.act = "add" /\ h.account = a
  BY IdleType, AskedAssumption DEF Handler, PC
<1>2. Administer(r, h)  BY DEF AddUser
<1>. HIDE DEF h
<1>. QED  BY <1>1, <1>2, AdministerRoles DEF Administration

LEMMA EnsureAdminRoles ==
  ASSUME IInv, AccountInv, NEW r \in Request, EnsureAdmin(r)
  PROVE  AccountInv'
<1>. DEFINE h == [Idle EXCEPT !.pc = "create", !.act = "seed", !.account = Seed.account,
                              !.name = Seed.name, !.roles = OrderRoles("Admin", {})]
<1>1. OrderRoles("Admin", {}) \in Roles  BY RolesType DEF Role
<1>2. Seed.account \in Account /\ Seed.name \in Name  BY AccountAssumption
<1>3. h \in Handler /\ h.pc = "create" /\ h.act = "seed" /\ h.account = Seed.account
  BY <1>1, <1>2, IdleType DEF Handler, PC
<1>4. Administer(r, h)  BY DEF EnsureAdmin
<1>. HIDE DEF h
<1>. QED  BY <1>2, <1>3, <1>4, AdministerRoles DEF Administration

LEMMA UpdateUserRoles ==
  ASSUME IInv, AccountInv, NEW r \in Request, NEW a \in Account, NEW name \in Name,
         NEW act \in {"edit", "rename"}, NEW roles, act = "edit" => roles \in Asked,
         UpdateUser(r, a, name, act, roles)
  PROVE  AccountInv'
<1>. DEFINE given == IF act = "edit" THEN roles ELSE OrderRoles(users[a].primary, {})
            h == [Idle EXCEPT !.pc = "save", !.act = act, !.account = a, !.name = name,
                              !.roles = given]
<1>1. given \in Roles /\ users[a] # NoUser
  <2>1. users[a] \in User /\ users[a] # NoUser  BY Before DEF TablesOK, UpdateUser
  <2>2. users[a].primary \in Role  BY <2>1 DEF User
  <2>. QED  BY <2>1, <2>2, RolesType, AskedAssumption
<1>2. act = "rename" => given.first = users[a].primary  BY DEF OrderRoles
<1>3. Administer(r, h)  BY DEF UpdateUser
<1>. HIDE DEF given
<1>4. h \in Handler /\ h.pc = "save" /\ h.act = act /\ h.account = a /\ h.roles = given
  BY <1>1, IdleType DEF Handler, PC
<1>. HIDE DEF h
<1>5. Staged(h, users[h.account])  BY <1>1, <1>2, <1>4 DEF Staged
<1>. QED  BY <1>3, <1>4, <1>5, AdministerRoles DEF Administration

(* A statement of an administration, about the account it has to do with.   *)
LEMMA NextOfAdministration ==
  ASSUME IInv, AccountInv, NEW r \in Request, NEW g, Become(r, g), Agrees(g),
         req[r].pc \in {"create", "save", "grant"},
         NEW b \in Account, req[r].account = b, g = Idle \/ g.account = b,
         \A a \in Account \ {b} :
           users'[a] = users[a] /\ grants'[a] = grants[a] /\ history'.asked[a] = history.asked[a],
         history'.mixed = history.mixed,
         b \notin history.mixed =>
           /\ Staged(g, users'[b]) \/ g = Idle
           /\ users'[b] # NoUser /\ g.pc # "grant"
                => RolesFor(b)' = history'.asked[b]
  PROVE  AccountInv'
<1>1. req[r].act \in Administration  BY DEF AccountInv
<1>2. ASSUME NEW a \in Account \ history'.mixed PROVE AccountOK(a)'
  <2>0. AccountOK(a)  BY <1>2 DEF AccountInv
  <2>1. CASE a = b
    <3>1. Administers(req[r], a)  BY <1>1, <2>1 DEF Administers, Administration
    <3>2. \A s \in Request \ {r} : ~Administers(req[s], a)  BY <2>0, <3>1 DEF AccountOK
    <3>3. Administers(g, a) => Staged(g, users'[a])  BY <1>2, <2>1, IdleAgrees
    <3>4. users'[a] # NoUser /\ (Administers(g, a) => g.pc # "grant")
            => RolesFor(a)' = history'.asked[a]
      <4>1. g.pc = "grant" => Administers(g, a)
        BY <2>1, IdleType DEF Agrees, Administers, Administration
      <4>. QED  BY <1>2, <2>1, <4>1
    <3>. QED  BY <3>2, <3>3, <3>4, Administrator
  <2>2. CASE a # b
    <3>1. ~Administers(req[r], a) /\ ~Administers(g, a)
      BY <2>2, IdleAgrees DEF Administers
    <3>. QED  BY <1>2, <2>0, <2>2, <3>1, Bystander
  <2>. QED  BY <2>1, <2>2
<1>. QED  BY <1>2, AgreesNext

LEMMA CreateRoles ==
  ASSUME IInv, AccountInv, NEW r \in Request, Create(r)
  PROVE  AccountInv'
<1>. DEFINE h == req[r]
            row == [name |-> h.name, primary |-> h.roles.first]
            g == [h EXCEPT !.pc = "grant"]
<1>0. PICK b : b = h.account  OBVIOUS
<1>1. TablesOK /\ h \in Handler /\ HandlerOK(h, tokens, started) /\ h.pc = "create"
  BY Before DEF Create
<1>2. b \in Account /\ h.roles \in Roles /\ h.name \in Name  BY <1>0, <1>1 DEF HandlerOK
<1>3. row \in User /\ row # NoUser /\ row.primary = h.roles.first
  BY <1>2, RolesFields DEF User, NoUser, Role
<1>4. g.pc = "grant" /\ g.roles = h.roles /\ g.act = h.act /\ g.account = b
  BY <1>0, <1>1 DEF Handler
<1>5. Agrees(g)  BY <1>1, <1>4 DEF Agrees, AccountInv
<1>6. UNCHANGED <<grants, history>>  BY DEF Create
<1>7. b \notin history.mixed /\ users[b] # NoUser => RolesFor(b) = history.asked[b]
  <2>. SUFFICES ASSUME b \notin history.mixed PROVE users[b] # NoUser => RolesFor(b) = history.asked[b]
    OBVIOUS
  <2>1. AccountOK(b)  BY <1>2 DEF AccountInv
  <2>2. Administers(h, b)  BY <1>0, <1>1 DEF AccountInv, Administers, Administration
  <2>3. \A s \in Request : Administers(req[s], b) => req[s].pc # "grant"
    BY <1>1, <2>1, <2>2 DEF AccountOK
  <2>. QED  BY <2>1, <2>3 DEF AccountOK
<1>8. \/ users' = [users EXCEPT ![b] = row] /\ Become(r, g)
      \/ users' = users /\ Become(r, Idle)
  BY <1>0 DEF Create
<1>. HIDE DEF g, row
<1>9. CASE users' = users /\ Become(r, Idle)
  <2>1. RolesFor(b)' = RolesFor(b)  BY <1>6, <1>9 DEF RolesFor
  <2>. QED  BY <1>0, <1>1, <1>2, <1>6, <1>7, <1>9, <2>1, IdleAgrees, NextOfAdministration
<1>10. CASE users' = [users EXCEPT ![b] = row] /\ Become(r, g)
  <2>1. users'[b] = row /\ \A a \in Account \ {b} : users'[a] = users[a]
    BY <1>1, <1>2, <1>10 DEF TablesOK
  <2>2. Staged(g, users'[b])  BY <1>3, <1>4, <2>1 DEF Staged
  <2>. QED  BY <1>0, <1>1, <1>2, <1>4, <1>5, <1>6, <1>10, <2>1, <2>2, NextOfAdministration
<1>. QED  BY <1>8, <1>9, <1>10

LEMMA ReplaceRolesRoles ==
  ASSUME IInv, AccountInv, NEW r \in Request, ReplaceRoles(r)
  PROVE  AccountInv'
<1>. DEFINE h == req[r]
<1>0. PICK b : b = h.account  OBVIOUS
<1>1. TablesOK /\ h \in Handler /\ HandlerOK(h, tokens, started) /\ h.pc = "grant"
  BY Before DEF ReplaceRoles
<1>2. b \in Account /\ h.roles \in Roles  BY <1>0, <1>1 DEF HandlerOK
<1>3. /\ Become(r, Idle)
      /\ grants' = [grants EXCEPT ![b] = h.roles.all]
      /\ history' = [history EXCEPT !.asked[b] = h.roles]
      /\ users' = users
  BY <1>0 DEF ReplaceRoles, Replaced
<1>4. /\ history'.mixed = history.mixed /\ history'.asked[b] = h.roles
      /\ \A a \in Account \ {b} : history'.asked[a] = history.asked[a]
  BY <1>1, <1>2, <1>3 DEF TablesOK, History
<1>5. grants'[b] = h.roles.all /\ \A a \in Account \ {b} : grants'[a] = grants[a]
  BY <1>1, <1>2, <1>3 DEF TablesOK
<1>6. b \notin history.mixed => RolesFor(b)' = h.roles
  <2>. SUFFICES ASSUME b \notin history.mixed PROVE RolesFor(b)' = h.roles
    OBVIOUS
  <2>1. Administers(h, b) /\ AccountOK(b)
    BY <1>0, <1>1, <1>2 DEF AccountInv, Administers, Administration
  <2>2. users[b].primary = h.roles.first  BY <1>1, <2>1 DEF AccountOK, Staged
  <2>3. RolesFor(b)' = [first |-> h.roles.first, all |-> h.roles.all \cup {h.roles.first}]
    BY <1>3, <1>5, <2>2 DEF RolesFor, OrderRoles
  <2>4. \A roles \in Roles : [first |-> roles.first, all |-> roles.all \cup {roles.first}] = roles
    <3>. SUFFICES ASSUME NEW roles \in Roles
                  PROVE  [first |-> roles.first, all |-> roles.all \cup {roles.first}] = roles
      OBVIOUS
    <3>1. roles.first \in roles.all /\ roles \in [first : Role, all : SUBSET Role]  BY DEF Roles
    <3>2. roles.all \cup {roles.first} = roles.all  BY <3>1
    <3>. QED  BY <3>1, <3>2
  <2>. QED  BY <1>2, <2>3, <2>4
<1>. QED  BY <1>0, <1>1, <1>2, <1>3, <1>4, <1>5, <1>6, IdleAgrees, IdleType, NextOfAdministration

LEMMA SaveRoles ==
  ASSUME IInv, AccountInv, NEW r \in Request, Save(r)
  PROVE  AccountInv'
<1>. DEFINE h == req[r]
            g == [h EXCEPT !.pc = "grant"]
<1>0. PICK b : b = h.account  OBVIOUS
<1>1. TablesOK /\ h \in Handler /\ HandlerOK(h, tokens, started) /\ h.pc = "save"
  BY Before DEF Save
<1>2. b \in Account /\ h.roles \in Roles /\ h.name \in Name /\ h.roles.first \in Role
  BY <1>0, <1>1, RolesFields DEF HandlerOK
<1>3. PICK row : row = Edited(users[b], h)  OBVIOUS
<1>4. row \in User /\ row # NoUser /\ row.primary = h.roles.first
  <2>1. PICK user \in User \cup {NoUser} : user = users[b]  BY <1>1, <1>2 DEF TablesOK
  <2>2. row \in User  BY <1>2, <1>3, <2>1, EditedType
  <2>3. row.primary = h.roles.first  BY <1>3, <2>1 DEF Edited, User, NoUser
  <2>. QED  BY <1>2, <2>2, <2>3 DEF User, NoUser, Role
<1>5. g.pc = "grant" /\ g.roles = h.roles /\ g.act = h.act /\ g.account = b
  BY <1>0, <1>1 DEF Handler
<1>6. Agrees(g)  BY <1>1, <1>5 DEF Agrees, AccountInv
<1>7. UNCHANGED <<grants, history>>  BY DEF Save
<1>8. b \notin history.mixed =>
        /\ users[b] # NoUser /\ RolesFor(b) = history.asked[b]
        /\ h.act # "edit" => users[b].primary = h.roles.first
  <2>. SUFFICES ASSUME b \notin history.mixed
                PROVE  /\ users[b] # NoUser /\ RolesFor(b) = history.asked[b]
                       /\ h.act # "edit" => users[b].primary = h.roles.first
    OBVIOUS
  <2>1. AccountOK(b)  BY <1>2 DEF AccountInv
  <2>2. Administers(h, b)  BY <1>0, <1>1 DEF AccountInv, Administers, Administration
  <2>3. \A s \in Request : Administers(req[s], b) => req[s].pc # "grant"
    BY <1>1, <2>1, <2>2 DEF AccountOK
  <2>4. Staged(h, users[b])  BY <2>1, <2>2 DEF AccountOK
  <2>. QED  BY <1>1, <2>1, <2>3, <2>4 DEF AccountOK, Staged
<1>9. \/ users' = users /\ Become(r, Idle)
      \/ users' = [users EXCEPT ![b] = row] /\ h.act = "edit" /\ Become(r, g)
      \/ users' = [users EXCEPT ![b] = row] /\ h.act # "edit" /\ Become(r, Idle)
  BY <1>0, <1>3 DEF Save
<1>. HIDE DEF g
<1>10. CASE users' = users /\ Become(r, Idle)
  <2>1. RolesFor(b)' = RolesFor(b)  BY <1>7, <1>10 DEF RolesFor
  <2>. QED  BY <1>0, <1>1, <1>2, <1>7, <1>8, <1>10, <2>1, IdleAgrees, NextOfAdministration
<1>11. users' = [users EXCEPT ![b] = row] =>
         users'[b] = row /\ \A a \in Account \ {b} : users'[a] = users[a]
  BY <1>1, <1>2 DEF TablesOK
<1>12. CASE users' = [users EXCEPT ![b] = row] /\ Become(r, g)
  <2>1. Staged(g, users'[b])  BY <1>4, <1>5, <1>11, <1>12 DEF Staged
  <2>. QED  BY <1>0, <1>1, <1>2, <1>5, <1>6, <1>7, <1>11, <1>12, <2>1, NextOfAdministration
<1>13. CASE users' = [users EXCEPT ![b] = row] /\ h.act # "edit" /\ Become(r, Idle)
  <2>1. b \notin history.mixed => RolesFor(b)' = RolesFor(b)
    BY <1>4, <1>7, <1>8, <1>11, <1>13 DEF RolesFor
  <2>. QED  BY <1>0, <1>1, <1>2, <1>7, <1>8, <1>11, <1>13, <2>1, IdleAgrees, NextOfAdministration
<1>. QED  BY <1>9, <1>10, <1>12, <1>13

LEMMA StopRoles ==
  ASSUME IInv, AccountInv, NEW r \in Request, Stop(r)
  PROVE  AccountInv'
<1>1. history \in History  BY Before DEF TablesOK
<1>2. /\ Become(r, Idle) /\ UNCHANGED <<users, grants>>
      /\ history' = [history EXCEPT !.mixed =
           @ \cup {a \in Account : Administers(req[r], a)}]
  BY DEF Stop
<1>3. /\ history'.asked = history.asked /\ history.mixed \subseteq history'.mixed
      /\ \A a \in Account \ history'.mixed : ~Administers(req[r], a)
  BY <1>1, <1>2 DEF History
<1>4. Idle.act \notin Administration /\ Idle.pc = "idle"  BY DEF Idle, Administration
<1>. QED  BY <1>2, <1>3, <1>4, OtherBusiness

(* Logins, exchanges and replays. *)
LEMMA TokenBusinessRoles ==
  ASSUME IInv, AccountInv, NEW r \in Request,
         \/ \E a \in Account : Login(r, a)
         \/ \E t \in TokenId : Refresh(r, t)
         \/ ReadRoles(r) \/ Issue(r) \/ Spend(r) \/ RevokeAllFor(r)
  PROVE  AccountInv'
<1>0. TypeOK  BY Before
<1>1. req[r] \in Handler /\ history \in History  BY <1>0 DEF TypeOK
<1>2. /\ req[r].pc \notin {"create", "save", "grant"}
      /\ UNCHANGED <<users, grants>>
  BY DEF Login, Refresh, Enter, Begin, Arrive, ReadRoles, Issue, Spend, RevokeAllFor
<1>3. history'.asked = history.asked /\ history'.mixed = history.mixed
  <2>1. CASE UNCHANGED history  BY <2>1
  <2>2. CASE RevokeAllFor(r)  BY <1>1, <2>2 DEF RevokeAllFor, History
  <2>. QED  BY <2>1, <2>2 DEF Login, Refresh, Enter, ReadRoles, Issue, Spend
<1>4. req[r].act \notin Administration  BY <1>2 DEF AccountInv
<1>5. \E g : /\ Become(r, g) /\ g.act \notin Administration
             /\ g.pc \notin {"create", "save", "grant"}
  <2>1. ASSUME NEW a \in Account, Login(r, a)
        PROVE  \E g : /\ Become(r, g) /\ g.act \notin Administration
                      /\ g.pc \notin {"create", "save", "grant"}
    <3>. DEFINE g == [[Idle EXCEPT !.pc = "roles", !.act = "login", !.account = a,
                                   !.name = users[a].name,
                                   !.roles = OrderRoles(users[a].primary, {})]
                        EXCEPT !.n = started + 1]
    <3>1. Become(r, g)  BY <2>1 DEF Login, Enter, Begin
    <3>2. g.act = "login" /\ g.pc = "roles"  BY DEF Idle
    <3>. HIDE DEF g
    <3>. QED  BY <3>1, <3>2 DEF Administration
  <2>2. ASSUME NEW t \in TokenId, Refresh(r, t)
        PROVE  \E g : /\ Become(r, g) /\ g.act \notin Administration
                      /\ g.pc \notin {"create", "save", "grant"}
    <3>. DEFINE g == [Judged(t) EXCEPT !.n = started + 1]
    <3>1. Become(r, g)  BY <2>2 DEF Refresh, Enter, Begin
    <3>2. g.act \in {"refresh", "none"} /\ g.pc \in {"purge", "spend", "idle"}
      BY DEF Judged, Idle
    <3>. HIDE DEF g
    <3>. QED  BY <3>1, <3>2 DEF Administration
  <2>3. CASE ReadRoles(r) \/ Spend(r)
    <3>. DEFINE h == req[r]
                read == [h EXCEPT !.pc = "issue",
                                  !.roles = OrderRoles(h.roles.first, grants[h.account])]
                spent == [h EXCEPT !.pc = "issue"]
    <3>1. Become(r, read) \/ Become(r, spent)  BY <2>3 DEF ReadRoles, Spend
    <3>2. /\ read.act = h.act /\ read.pc = "issue"
          /\ spent.act = h.act /\ spent.pc = "issue"
      BY <1>1 DEF Handler
    <3>. HIDE DEF read, spent
    <3>. QED  BY <1>4, <3>1, <3>2
  <2>4. CASE Issue(r) \/ RevokeAllFor(r)
    <3>1. Become(r, Idle)  BY <2>4 DEF Issue, RevokeAllFor
    <3>. QED  BY <3>1 DEF Idle, Administration
  <2>. QED  BY <2>1, <2>2, <2>3, <2>4
<1>. QED  BY <1>2, <1>3, <1>5, NotAdministering, OtherBusiness

LEMMA AccountsAlone ==
  ASSUME AccountInv, UNCHANGED <<users, grants, req, history>>
  PROVE  AccountInv'
BY DEF AccountInv, AccountOK, Administers, Staged, RolesFor

LEMMA NextRoles ==
  ASSUME IInv, AccountInv, Next
  PROVE  AccountInv'
<1>1. CASE \E r \in Request : \/ \E a \in Account : Login(r, a)
                              \/ \E t \in TokenId : Refresh(r, t)
                              \/ ReadRoles(r) \/ Issue(r) \/ Spend(r) \/ RevokeAllFor(r)
  BY <1>1, TokenBusinessRoles
<1>2. CASE \E r \in Request, t \in TokenId : Logout(r, t)
  BY <1>2, AccountsAlone DEF Logout, Arrive
<1>3. CASE \E r \in Request, a \in Account, name \in Name, roles \in Asked :
             AddUser(r, a, name, roles) \/ UpdateUser(r, a, name, "edit", roles)
  BY <1>3, AddUserRoles, UpdateUserRoles
<1>4. CASE \E r \in Request, a \in Account, name \in Name :
             UpdateUser(r, a, name, "rename", NoRoles)
  BY <1>4, UpdateUserRoles
<1>5. CASE \E r \in Request : EnsureAdmin(r) \/ Create(r) \/ ReplaceRoles(r) \/ Save(r) \/ Stop(r)
  BY <1>5, EnsureAdminRoles, CreateRoles, ReplaceRolesRoles, SaveRoles, StopRoles
<1>6. CASE RotateKeys \/ Time
  BY <1>6, AccountsAlone DEF RotateKeys, Time
<1>. QED  BY <1>1, <1>2, <1>3, <1>4, <1>5, <1>6 DEF Next

LEMMA InitRoles ==
  ASSUME Init
  PROVE  AccountInv
<1>1. /\ \A r \in Request : req[r] = Idle
      /\ \A a \in Account : users[a] # NoUser => RolesFor(a) = history.asked[a]
      /\ history.mixed = {}
  BY DEF Init
<1>. QED  BY <1>1, IdleAgrees DEF AccountInv, AccountOK, Agrees

(* Edits and registrations of user_service.go, each of two transactions: as *)
(* long as those of one account do not overlap and none is cut short, a     *)
(* login is given exactly the roles that were asked for last, for any       *)
(* number of accounts and whatever else goes on.                            *)
THEOREM RolesAreAsAsked == Spec => []RolesAsAsked
<1>1. Init => AccountInv  BY InitRoles
<1>2. IInv /\ AccountInv /\ [Next]_vars => AccountInv'
  BY NextRoles, AccountsAlone DEF vars
<1>3. AccountInv => RolesAsAsked  BY DEF AccountInv, AccountOK, RolesAsAsked
<1>. QED  BY <1>1, <1>2, <1>3, SessionsInOrder, PTL DEF Spec
=============================================================================
