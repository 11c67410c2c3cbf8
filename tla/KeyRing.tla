------------------------------ MODULE KeyRing ------------------------------
(***************************************************************************)
(* The keys that access tokens are signed with.  The profile service signs *)
(* with one private key; every service checks a token by itself, against a *)
(* list of public keys it was started with, and so a key is replaced one   *)
(* service at a time.                                                      *)
(*                                                                         *)
(* Keys are numbered in the order they come into use.  That a service is   *)
(* started again with another list is up to those who run it: those three  *)
(* actions follow what the verifier was made for.  Signatures are taken to *)
(* be sound, and the clocks of the services to agree.                      *)
(***************************************************************************)
EXTENDS Integers

CONSTANTS
  Service,     \* the services, "profile" among them
  MaxKeys,     \* bound: keys that are ever in use
  MaxTime,     \* bound: the clock stops there
  AccessTTL    \* how long an access token lives

ASSUME ServiceAssumption == "profile" \in Service
ASSUME TimeAssumption == MaxKeys \in Nat \ {0} /\ MaxTime \in Nat /\ AccessTTL \in Nat

VARIABLES
  now,         \* the clock
  accepts,     \* the public keys each service was started with
  signing,     \* the private key of the profile service
  switched,    \* when it was started with that key
  access       \* the access tokens handed out

ring == <<now, accepts, signing, switched, access>>

Key == 1..MaxKeys

(* ROLES of the user model: a set of roles and the one that goes first.    *)
Role  == {"Admin", "Direksi", "Finance", "Operasional"}
Roles == {s \in [first : Role, all : SUBSET Role] : s.first \in s.all}

RingInit ==
  /\ now = 0
  /\ accepts = [s \in Service |-> {1}]
  /\ signing = 1
  /\ switched = 0
  /\ access = {}

-----------------------------------------------------------------------------
(* Slips: what a careless change would leave of definitions below.         *)

(* a token that outlives the time the issuer tells callers *)
GenerateMultiLonger(n, name, roles) ==
  [id |-> n, name |-> name, roles |-> roles, key |-> signing, exp |-> now + 2 * AccessTTL]

-----------------------------------------------------------------------------
(* Verifier.Parse: a token is good if one of the keys verifies it and it    *)
(* has not expired.                                                         *)
Parse(s, token) == token.key \in accepts[s] /\ now < token.exp

(* Claims.HasAnyRole, GinAuth and GinRequireRole: who gets through to a     *)
(* route of a service.                                                      *)
HasAnyRole(token, allowed) == token.roles.all \cap allowed # {}

Admitted(s, allowed) ==
  \E token \in access : Parse(s, token) /\ HasAnyRole(token, allowed)

(* Issuer.GenerateMulti, for the request numbered n.                        *)
GenerateMulti(n, name, roles) ==
  [id |-> n, name |-> name, roles |-> roles, key |-> signing, exp |-> now + AccessTTL]

-----------------------------------------------------------------------------
(* A service is started again with one key more, the profile service with   *)
(* the next private key, a service with one key less.                       *)

AcceptNext(s) ==
  /\ signing + 1 \in Key \ accepts[s]
  /\ accepts' = [accepts EXCEPT ![s] = @ \cup {signing + 1}]
  /\ UNCHANGED <<now, signing, switched, access>>

MaySwitch == \A s \in Service : signing + 1 \in accepts[s]

SwitchKey ==
  /\ MaySwitch
  /\ signing' = signing + 1
  /\ switched' = now
  /\ UNCHANGED <<now, accepts, access>>

MayDrop(s, k) == k \in accepts[s] /\ k < signing /\ switched + AccessTTL <= now

DropKey(s, k) ==
  /\ MayDrop(s, k)
  /\ accepts' = [accepts EXCEPT ![s] = @ \ {k}]
  /\ UNCHANGED <<now, signing, switched, access>>

Tick ==
  /\ now < MaxTime
  /\ now' = now + 1
  /\ UNCHANGED <<accepts, signing, switched, access>>

-----------------------------------------------------------------------------
RingTypeOK ==
  /\ now \in Nat
  /\ accepts \in [Service -> SUBSET Key]
  /\ signing \in Key
  /\ switched \in Nat /\ switched <= now
  /\ \A token \in access : /\ token.key \in Key
                           /\ token.exp \in Nat
                           /\ token.roles \in Roles

(* jwt.go: "the moment profile signs with a new key, any service still      *)
(* holding only the old one rejects every request"; with a list of keys a   *)
(* rotation cuts nobody off.  Whatever stage the rotation is at on whatever *)
(* service, a token that has not expired is good at all of them.            *)
RotationCutsNobodyOff ==
  \A token \in access : now < token.exp =>
    \A s \in Service : Parse(s, token)

(* Why: what is signed with an earlier key was signed before the switch.    *)
RingInv ==
  /\ RingTypeOK
  /\ \A s \in Service : signing \in accepts[s]
  /\ \A token \in access :
       /\ token.key <= signing
       /\ token.exp <= now + AccessTTL
       /\ token.key < signing => token.exp <= switched + AccessTTL
       /\ now < token.exp => \A s \in Service : token.key \in accepts[s]
=============================================================================
