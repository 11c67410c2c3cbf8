------------------------------- MODULE Photos -------------------------------
(***************************************************************************)
(* The vehicles of the asset register and the photos they are registered   *)
(* with.  A vehicle is a row, its photo an object in the blob store, which *)
(* knows nothing of the row: AddAsset stores the object, then inserts the  *)
(* row that names it, and takes the object away again if it cannot;        *)
(* DeleteAsset marks the row, then takes the object away.                  *)
(*                                                                         *)
(* Abstracted: the columns of a vehicle other than its plate and the key of *)
(* its photo, and requests refused for their form.  Put, Get and Delete of *)
(* an object are each one step in both stores (a rename, a file removed, a *)
(* request to the bucket).                                                 *)
(***************************************************************************)
EXTENDS Integers, FiniteSets

CONSTANTS
  Clerk,         \* the handlers that may be running at the same time
  Plate,
  ContentType, Image,
  MaxErrands,    \* bound: requests handled
  MaxFailures    \* bound: failed inserts and stopped handlers

NoKey   == << >>
NoPlate == "noPlate"
NoImage == "noImage"

ASSUME PlateAssumption == NoPlate \notin Plate
ASSUME ImageAssumption == NoImage \notin Image
ASSUME PhotosAssumption == MaxErrands \in Nat /\ MaxFailures \in Nat

PhotoKey == Plate \X ContentType

ASSUME KeyAssumption == NoKey \notin PhotoKey

VARIABLES
  vehicle,    \* assets: whether there is a row of a plate, and FotoKey
  stored,     \* the objects in the blob store
  errand,     \* the running handlers
  errands, failures,
  annals      \* read by no handler

photos == <<vehicle, stored, errand, errands, failures, annals>>

Object == [key : PhotoKey, image : Image]
VehicleRow == [state : {"none", "live", "deleted"}, key : PhotoKey \cup {NoKey}]
NoRow  == [state |-> "none", key |-> NoKey]

Stage == {"idle", "put", "create", "discard", "softDelete", "save"}

(* A handler: the plate in its request, the photo, or the key it has read.  *)
Errand == [stage : Stage, plate : Plate \cup {NoPlate}, key : PhotoKey \cup {NoKey},
           image : Image \cup {NoImage}]

NoErrand == [stage |-> "idle", plate |-> NoPlate, key |-> NoKey, image |-> NoImage]

(* The photo each vehicle was registered with; the plates for which two     *)
(* registrations were at work on one key at a time, an edit undid a         *)
(* deletion, or an insert took effect although AddAsset saw it fail.        *)
Annals == [own : [Plate -> Image \cup {NoImage}],
           raced : SUBSET Plate, revived : SUBSET Plate, mistaken : SUBSET Plate]

PhotosInit ==
  /\ vehicle = [p \in Plate |-> NoRow]
  /\ stored = {}
  /\ errand = [h \in Clerk |-> NoErrand]
  /\ errands = 0
  /\ failures = 0
  /\ annals = [own |-> [p \in Plate |-> NoImage],
               raced |-> {}, revived |-> {}, mistaken |-> {}]

-----------------------------------------------------------------------------
(* The blob store.                                                         *)

Without(key) == {o \in stored : o.key # key}
With(key, image) == Without(key) \cup {[key |-> key, image |-> image]}

-----------------------------------------------------------------------------
(* Slips: definitions of this module as a careless change to the code would *)
(* leave them.  None is part of the specification; each breaks a property.  *)

(* a key of the letters and digits of the plate, without the digest that    *)
(* tells plates apart which differ in their blanks and dashes only          *)
KeyOfLetters(p, type) == <<CHOOSE q \in Plate : TRUE, type>>

(* a failed insert that leaves the photo where it was stored *)
LeftThere(t) == NoErrand

-----------------------------------------------------------------------------
(* Handlers come, go on and end.                                           *)

(* photoKey: one object for a plate and a type of image. *)
photoKey(p, type) == <<p, type>>

Goes(h, t) == errand' = [errand EXCEPT ![h] = t]

Arrives(h, t) ==
  /\ errand[h] = NoErrand
  /\ errands < MaxErrands
  /\ errands' = errands + 1
  /\ Goes(h, t)
  /\ UNCHANGED <<vehicle, stored, failures>>

Proceeds(h, t) == Goes(h, t) /\ UNCHANGED <<errands, failures>>

Fails(h, t) ==
  /\ failures < MaxFailures
  /\ failures' = failures + 1
  /\ Goes(h, t)
  /\ UNCHANGED errands

(* discardPhoto, which does nothing without a key. *)
Discarding(t) == IF t.key = NoKey THEN NoErrand ELSE [t EXCEPT !.stage = "discard"]

-----------------------------------------------------------------------------
(* AddAsset: no row may have the plate, not even a deleted one.             *)

Registering(t) == t.stage \in {"put", "create", "discard"}

AddAsset(h, p, type, image) ==
  /\ vehicle[p].state = "none"
  /\ LET key == photoKey(p, type)
     IN /\ Arrives(h, [stage |-> "put", plate |-> p, key |-> key, image |-> image])
        /\ annals' = IF \E k \in Clerk \ {h} : Registering(errand[k]) /\ errand[k].key = key
                       THEN [annals EXCEPT !.raced = @ \cup {p}]
                       ELSE annals

(* The photo is optional. *)
AddAssetPlain(h, p) ==
  /\ vehicle[p].state = "none"
  /\ Arrives(h, [NoErrand EXCEPT !.stage = "create", !.plate = p])
  /\ UNCHANGED annals

Put(h) ==
  /\ errand[h].stage = "put"
  /\ stored' = With(errand[h].key, errand[h].image)
  /\ Proceeds(h, [errand[h] EXCEPT !.stage = "create"])
  /\ UNCHANGED <<vehicle, annals>>

Inserted(t) == /\ vehicle' = [vehicle EXCEPT ![t.plate] = [state |-> "live", key |-> t.key]]
               /\ annals' = [annals EXCEPT !.own[t.plate] = t.image]

(* The plate is the primary key, so the second of two inserts fails, and    *)
(* drops the photo it has stored.                                           *)
CreateAsset(h) ==
  /\ errand[h].stage = "create"
  /\ LET t == errand[h]
     IN \/ /\ vehicle[t.plate].state = "none"
           /\ Inserted(t)
           /\ Proceeds(h, NoErrand)
        \/ /\ vehicle[t.plate].state # "none"
           /\ Proceeds(h, Discarding(t))
           /\ UNCHANGED <<vehicle, annals>>
  /\ UNCHANGED stored

(* An insert that fails for another reason; its effect may stay, when it is *)
(* the reply of the database that is lost.                                  *)
CreateAssetFails(h) ==
  /\ errand[h].stage = "create"
  /\ LET t == errand[h]
     IN /\ Fails(h, Discarding(t))
        /\ \/ UNCHANGED <<vehicle, annals>>
           \/ /\ vehicle[t.plate].state = "none"
              /\ vehicle' = [vehicle EXCEPT ![t.plate] = [state |-> "live", key |-> t.key]]
              /\ annals' = [annals EXCEPT !.own[t.plate] = t.image,
                                          !.mistaken = @ \cup {t.plate}]
  /\ UNCHANGED stored

Discard(h) ==
  /\ errand[h].stage = "discard"
  /\ stored' = Without(errand[h].key)
  /\ Proceeds(h, NoErrand)
  /\ UNCHANGED <<vehicle, annals>>

-----------------------------------------------------------------------------
(* DeleteAsset: the row is read, then marked, unless it is by then, then    *)
(* the photo it named is dropped.                                           *)

DeleteAsset(h, p) ==
  /\ vehicle[p].state = "live"
  /\ Arrives(h, [NoErrand EXCEPT !.stage = "softDelete", !.plate = p, !.key = vehicle[p].key])
  /\ UNCHANGED annals

SoftDelete(h) ==
  /\ errand[h].stage = "softDelete"
  /\ vehicle' = [vehicle EXCEPT ![errand[h].plate].state = "deleted"]
  /\ Proceeds(h, Discarding(errand[h]))
  /\ UNCHANGED <<stored, annals>>

(* UpdateAsset and SetSupplier: the row is read and saved whole, and is     *)
(* there again if it was deleted in between.                                *)
UpdateAsset(h, p) ==
  /\ vehicle[p].state = "live"
  /\ Arrives(h, [NoErrand EXCEPT !.stage = "save", !.plate = p, !.key = vehicle[p].key])
  /\ UNCHANGED annals

SaveVehicle(h) ==
  /\ errand[h].stage = "save"
  /\ LET t == errand[h]
     IN /\ vehicle' = [vehicle EXCEPT ![t.plate] = [state |-> "live", key |-> t.key]]
        /\ annals' = IF vehicle[t.plate].state = "live" THEN annals
                     ELSE [annals EXCEPT !.revived = @ \cup {t.plate}]
  /\ Proceeds(h, NoErrand)
  /\ UNCHANGED stored

(* A handler stops before its next statement, or that statement fails and    *)
(* there is nothing to be undone.                                           *)
Halt(h) ==
  /\ errand[h] # NoErrand
  /\ Fails(h, NoErrand)
  /\ UNCHANGED <<vehicle, stored, annals>>

-----------------------------------------------------------------------------
Requests(h) ==
  \E p \in Plate :
    \/ \E type \in ContentType, image \in Image : AddAsset(h, p, type, image)
    \/ AddAssetPlain(h, p)
    \/ DeleteAsset(h, p)
    \/ UpdateAsset(h, p)

PhotosNext ==
  \E h \in Clerk :
    \/ Requests(h)
    \/ Put(h)
    \/ CreateAsset(h)
    \/ CreateAssetFails(h)
    \/ Discard(h)
    \/ SoftDelete(h)
    \/ SaveVehicle(h)
    \/ Halt(h)

PhotosSpec == PhotosInit /\ [][PhotosNext]_photos

-----------------------------------------------------------------------------
(* The types of the state, and one object under a key. *)
PhotosTypeOK ==
  /\ vehicle \in [Plate -> VehicleRow]
  /\ stored \subseteq Object
  /\ errand \in [Clerk -> Errand]
  /\ errands \in Nat /\ failures \in Nat
  /\ annals \in Annals

(* What GetPhoto finds under the key of a vehicle. *)
GetPhoto(p) == {o.image : o \in {x \in stored : x.key = vehicle[p].key}}

(* A registered vehicle that names a photo shows the one that was uploaded  *)
(* with it, nobody else's, and not a key with nothing behind it; unless two *)
(* registrations of the plate were at work on one key at a time (the loser  *)
(* drops the photo of the winner), an edit brought a deleted vehicle back,  *)
(* or the insert took effect although it was reported as failed.            *)
ShowsItsPhoto ==
  \A p \in Plate \ (annals.raced \cup annals.revived \cup annals.mistaken) :
    vehicle[p].state = "live" /\ vehicle[p].key # NoKey => GetPhoto(p) = {annals.own[p]}

(* While nothing fails, the store holds no photo that no vehicle names, once *)
(* every handler has run to its end: a registration that is refused, and a   *)
(* deletion, leave nothing behind, whatever else goes on at the time.        *)
NothingLeftBehind ==
  failures = 0 /\ (\A h \in Clerk : errand[h] = NoErrand) =>
    \A o \in stored : \E p \in Plate : vehicle[p].state = "live" /\ vehicle[p].key = o.key

-----------------------------------------------------------------------------
(* What is kept at every step, so that a vehicle shows its photo.           *)

Clean(p) == p \notin annals.raced \cup annals.revived \cup annals.mistaken

(* Keys are those of the plate, in rows and in handlers, and name one image. *)
KeysInv ==
  /\ \A p \in Plate : vehicle[p].key # NoKey => vehicle[p].key[1] = p
  /\ \A h \in Clerk :
       /\ errand[h].stage # "idle" => errand[h].plate \in Plate
       /\ errand[h].key # NoKey => errand[h].key[1] = errand[h].plate
       /\ errand[h].stage \in {"put", "discard"} => errand[h].key # NoKey
       /\ errand[h].stage = "put" \/ (errand[h].stage = "create" /\ errand[h].key # NoKey)
            => errand[h].image \in Image
  /\ \A x, y \in stored : x.key = y.key => x = y

(* Whoever has read a row has its key, which never changes.                 *)
CopiesInv ==
  /\ \A p \in Plate : vehicle[p].state = "none" => vehicle[p].key = NoKey
  /\ \A h \in Clerk : errand[h].stage \in {"softDelete", "save"} =>
       vehicle[errand[h].plate].state # "none" /\ errand[h].key = vehicle[errand[h].plate].key

(* Two registrations at work on one key, while the plate has no row, raced. *)
AloneInv ==
  \A h, k \in Clerk :
    /\ h # k /\ Registering(errand[h]) /\ Registering(errand[k])
    /\ errand[h].key = errand[k].key /\ errand[h].key # NoKey
    /\ vehicle[errand[h].plate].state = "none"
    => errand[h].plate \in annals.raced

(* What a registration is about to name in a row is stored.                 *)
PutInv ==
  \A h \in Clerk :
    /\ errand[h].stage = "create" /\ errand[h].key # NoKey
    /\ vehicle[errand[h].plate].state = "none" /\ errand[h].plate \notin annals.raced
    => [key |-> errand[h].key, image |-> errand[h].image] \in stored

(* The photo of a vehicle is stored, and nobody is about to touch it.       *)
PhotoInv ==
  \A p \in Plate :
    Clean(p) /\ vehicle[p].state = "live" /\ vehicle[p].key # NoKey =>
      /\ [key |-> vehicle[p].key, image |-> annals.own[p]] \in stored
      /\ \A h \in Clerk : Registering(errand[h]) => errand[h].key # vehicle[p].key

PhotosInv == PhotosTypeOK /\ KeysInv /\ CopiesInv /\ AloneInv /\ PutInv /\ PhotoInv

(* What is stored is the photo of a vehicle, or of a handler that is about  *)
(* to name it in a row or to drop it.                                       *)
Named(key) == \E p \in Plate : vehicle[p].state = "live" /\ vehicle[p].key = key
InHand(t)  == t.stage \in {"create", "discard"}

LeftInv ==
  failures = 0 =>
    \A o \in stored : Named(o.key) \/ \E h \in Clerk : InHand(errand[h]) /\ errand[h].key = o.key

=============================================================================
