---------------------------- MODULE PartsProofs ----------------------------
(***************************************************************************)
(* Proofs about the last of the four parts of MCParts, the vehicles and    *)
(* their photos, for any number of handlers, plates, types and images and  *)
(* any failures: PhotosInv is inductive, and from it a vehicle shows the   *)
(* photo it was registered with.  Then about the four together: with what  *)
(* the other three modules prove, PartsInv is inductive.                   *)
(***************************************************************************)
EXTENDS MCParts, SessionsProofs, CatalogueProofs, ReportsProofs

-----------------------------------------------------------------------------
(* Types.                                                                  *)

LEMMA NoErrandType ==
  /\ NoErrand \in Errand
  /\ NoErrand.stage = "idle" /\ NoErrand.key = NoKey /\ ~Registering(NoErrand)
BY DEF NoErrand, Errand, Stage, Registering

LEMMA GoesType ==
  ASSUME PhotosTypeOK, NEW h \in Clerk, NEW t \in Errand, Goes(h, t)
  PROVE  /\ errand' \in [Clerk -> Errand]
         /\ errand'[h] = t
         /\ \A k \in Clerk \ {h} : errand'[k] = errand[k]
BY DEF PhotosTypeOK, Goes

LEMMA ErrandFields ==
  ASSUME NEW t \in Errand
  PROVE  /\ t.stage \in Stage /\ t.plate \in Plate \cup {NoPlate}
         /\ t.key \in PhotoKey \cup {NoKey} /\ t.image \in Image \cup {NoImage}
BY DEF Errand

LEMMA DiscardingType ==
  ASSUME NEW t \in Errand
  PROVE  /\ Discarding(t) \in Errand
         /\ t.key = NoKey => Discarding(t) = NoErrand
         /\ t.key # NoKey => /\ Discarding(t).stage = "discard"
                             /\ Discarding(t).plate = t.plate
                             /\ Discarding(t).key = t.key
BY NoErrandType DEF Discarding, Errand, Stage

LEMMA KeyType ==
  ASSUME NEW p \in Plate, NEW type \in ContentType
  PROVE  photoKey(p, type) \in PhotoKey /\ photoKey(p, type)[1] = p /\ photoKey(p, type) # NoKey
<1>1. photoKey(p, type) \in PhotoKey /\ photoKey(p, type)[1] = p
  BY DEF photoKey, PhotoKey
<1>. QED  BY <1>1, KeyAssumption

-----------------------------------------------------------------------------
(* What KeysInv and CopiesInv say of one handler.                          *)

HandlerKeys(t) ==
  /\ t.stage # "idle" => t.plate \in Plate
  /\ t.key # NoKey => t.key[1] = t.plate
  /\ t.stage \in {"put", "discard"} => t.key # NoKey
  /\ t.stage = "put" \/ (t.stage = "create" /\ t.key # NoKey) => t.image \in Image

CopyOK(t, rows) ==
  t.stage \in {"softDelete", "save"} => rows[t.plate].state # "none" /\ t.key = rows[t.plate].key

RowsOK(rows) ==
  \A p \in Plate : /\ rows[p].key # NoKey => rows[p].key[1] = p
                   /\ rows[p].state = "none" => rows[p].key = NoKey

OneImage(objects) == \A x, y \in objects : x.key = y.key => x = y

LEMMA OrderMeans ==
  KeysInv /\ CopiesInv <=> /\ RowsOK(vehicle) /\ OneImage(stored)
                           /\ \A h \in Clerk : HandlerKeys(errand[h]) /\ CopyOK(errand[h], vehicle)
BY DEF KeysInv, CopiesInv, HandlerKeys, CopyOK, RowsOK, OneImage

LEMMA NoErrandOrder == \A rows : HandlerKeys(NoErrand) /\ CopyOK(NoErrand, rows)
BY NoErrandType DEF HandlerKeys, CopyOK

(* A row never goes away and keeps its key, so what was read of it is still so. *)
Kept(rows, others) ==
  \A p \in Plate : rows[p].state # "none" => others[p].state # "none" /\ others[p].key = rows[p].key

LEMMA OrderStep ==
  ASSUME PhotosTypeOK, KeysInv, CopiesInv, NEW h \in Clerk, NEW t \in Errand, Goes(h, t),
         HandlerKeys(t), CopyOK(t, vehicle'), Kept(vehicle, vehicle'),
         RowsOK(vehicle'), OneImage(stored')
  PROVE  KeysInv' /\ CopiesInv'
<1>1. \A k \in Clerk : HandlerKeys(errand[k]) /\ CopyOK(errand[k], vehicle)
  BY OrderMeans
<1>2. ASSUME NEW k \in Clerk PROVE HandlerKeys(errand'[k]) /\ CopyOK(errand'[k], vehicle')
  <2>1. CASE k = h  BY <2>1, GoesType
  <2>2. CASE k # h
    <3>1. errand'[k] = errand[k]  BY <2>2, GoesType
    <3>2. errand[k].stage # "idle" => errand[k].plate \in Plate  BY <1>1 DEF HandlerKeys
    <3>. QED  BY <3>1, <3>2, <1>1 DEF CopyOK, Kept
  <2>. QED  BY <2>1, <2>2
<1>3. RowsOK(vehicle') /\ OneImage(stored')
      /\ \A k \in Clerk : HandlerKeys(errand'[k]) /\ CopyOK(errand'[k], vehicle')
  BY <1>2
<1>. QED
  BY <1>3 DEF KeysInv, CopiesInv, HandlerKeys, CopyOK, RowsOK, OneImage

LEMMA WithKeeps ==
  ASSUME PhotosTypeOK, KeysInv, NEW key \in PhotoKey, NEW image \in Image
  PROVE  /\ With(key, image) \subseteq Object /\ OneImage(With(key, image))
         /\ [key |-> key, image |-> image] \in With(key, image)
         /\ \A o \in stored : o.key # key => o \in With(key, image)
BY DEF PhotosTypeOK, KeysInv, With, Without, Object, OneImage

LEMMA WithoutKeeps ==
  ASSUME PhotosTypeOK, KeysInv, NEW key
  PROVE  /\ Without(key) \subseteq Object /\ OneImage(Without(key))
         /\ \A o \in stored : o.key # key => o \in Without(key)
BY DEF PhotosTypeOK, KeysInv, Without, OneImage

-----------------------------------------------------------------------------
(* A step that touches neither row nor object, of a handler that comes to no *)
(* key it did not have: what is said of keys in use stays true.             *)

UseInv == AloneInv /\ PutInv /\ PhotoInv

LEMMA UseStays ==
  ASSUME PhotosInv, NEW h \in Clerk, NEW t \in Errand, Goes(h, t),
         UNCHANGED <<vehicle, stored, annals>>, HandlerKeys(t),
         t.stage = "create" => t.key = NoKey,
         Registering(t) => t.key = NoKey \/ vehicle[t.plate].state # "none"
                           \/ (Registering(errand[h]) /\ t.key = errand[h].key
                                 /\ t.plate = errand[h].plate),
         Registering(t) => \A p \in Plate : Clean(p) /\ vehicle[p].state = "live"
                             /\ vehicle[p].key # NoKey => t.key # vehicle[p].key
  PROVE  UseInv'
<1>. USE DEF PhotosInv
<1>1. errand'[h] = t /\ \A k \in Clerk \ {h} : errand'[k] = errand[k]
  BY GoesType
<1>2. \A k \in Clerk : errand[k].key # NoKey => errand[k].key[1] = errand[k].plate
  BY DEF KeysInv
<1>3. AloneInv'
  <2>. SUFFICES ASSUME NEW k \in Clerk, NEW l \in Clerk,
                       k # l, Registering(errand'[k]), Registering(errand'[l]),
                       errand'[k].key = errand'[l].key, errand'[k].key # NoKey,
                       vehicle[errand'[k].plate].state = "none"
                PROVE  errand'[k].plate \in annals.raced
    BY DEF AloneInv, Registering
  <2>1. CASE k = h
    <3>1. Registering(errand[h]) /\ t.key = errand[h].key /\ t.plate = errand[h].plate
      BY <1>1, <2>1
    <3>2. errand'[l] = errand[l]  BY <1>1, <2>1
    <3>. QED  BY <1>1, <2>1, <3>1, <3>2 DEF AloneInv
  <2>2. CASE l = h
    <3>1. errand'[k] = errand[k] /\ errand'[l] = t  BY <1>1, <2>2
    <3>2. t.plate = errand[k].plate  BY <1>2, <3>1 DEF HandlerKeys
    <3>3. Registering(errand[h]) /\ t.key = errand[h].key
      BY <2>2, <3>1, <3>2
    <3>. QED  BY <2>2, <3>1, <3>3 DEF AloneInv
  <2>3. CASE k # h /\ l # h
    BY <1>1, <2>3 DEF AloneInv
  <2>. QED  BY <2>1, <2>2, <2>3
<1>4. PutInv'  BY <1>1 DEF PutInv
<1>5. PhotoInv'  BY <1>1 DEF PhotoInv, Clean, Registering
<1>. QED  BY <1>3, <1>4, <1>5 DEF UseInv

-----------------------------------------------------------------------------
(* The steps, one by one.  Those that are about a handler only:             *)

LEMMA QuietStep ==
  ASSUME PhotosInv, NEW h \in Clerk, NEW t \in Errand, Goes(h, t),
         UNCHANGED <<vehicle, stored, annals>>, errands' \in Nat, failures' \in Nat,
         HandlerKeys(t), CopyOK(t, vehicle),
         t.stage = "create" => t.key = NoKey,
         Registering(t) => t.key = NoKey \/ vehicle[t.plate].state # "none"
                           \/ (Registering(errand[h]) /\ t.key = errand[h].key
                                 /\ t.plate = errand[h].plate),
         Registering(t) => \A p \in Plate : Clean(p) /\ vehicle[p].state = "live"
                             /\ vehicle[p].key # NoKey => t.key # vehicle[p].key
  PROVE  PhotosInv'
<1>. USE DEF PhotosInv
<1>1. PhotosTypeOK'  BY GoesType DEF PhotosTypeOK
<1>2. KeysInv' /\ CopiesInv'
  BY OrderMeans, OrderStep DEF Kept
<1>3. UseInv'  BY UseStays
<1>. QED  BY <1>1, <1>2, <1>3 DEF UseInv

LEMMA AddAssetPlainKeeps ==
  ASSUME PhotosInv, NEW h \in Clerk, NEW p \in Plate, AddAssetPlain(h, p)
  PROVE  PhotosInv'
<1> DEFINE t == [NoErrand EXCEPT !.stage = "create", !.plate = p]
<1>1. t \in Errand /\ t.stage = "create" /\ t.plate = p /\ t.key = NoKey
  BY DEF NoErrand, Errand, Stage
<1>2. Goes(h, t) /\ UNCHANGED <<vehicle, stored, annals>> /\ errands' \in Nat /\ failures' \in Nat
  BY DEF AddAssetPlain, Arrives, PhotosInv, PhotosTypeOK
<1>3. HandlerKeys(t) /\ CopyOK(t, vehicle)  BY <1>1 DEF HandlerKeys, CopyOK
<1> HIDE DEF t
<1>. QED  BY <1>1, <1>2, <1>3, QuietStep

LEMMA ReadRowKeeps ==
  ASSUME PhotosInv, NEW h \in Clerk, NEW p \in Plate, DeleteAsset(h, p) \/ UpdateAsset(h, p)
  PROVE  PhotosInv'
<1>. PICK stage \in {"softDelete", "save"} :
       /\ vehicle[p].state = "live"
       /\ Arrives(h, [NoErrand EXCEPT !.stage = stage, !.plate = p, !.key = vehicle[p].key])
       /\ UNCHANGED annals
  BY DEF DeleteAsset, UpdateAsset
<1> DEFINE t == [NoErrand EXCEPT !.stage = stage, !.plate = p, !.key = vehicle[p].key]
<1>1. vehicle[p].key \in PhotoKey \cup {NoKey}
  BY DEF PhotosInv, PhotosTypeOK, VehicleRow
<1>2. t \in Errand /\ t.stage = stage /\ t.plate = p /\ t.key = vehicle[p].key
  BY <1>1 DEF NoErrand, Errand, Stage
<1>3. Goes(h, t) /\ UNCHANGED <<vehicle, stored, annals>> /\ errands' \in Nat /\ failures' \in Nat
  BY DEF Arrives, PhotosInv, PhotosTypeOK
<1>4. HandlerKeys(t) /\ CopyOK(t, vehicle)
  BY <1>2 DEF HandlerKeys, CopyOK, PhotosInv, KeysInv
<1>5. ~Registering(t) /\ t.stage # "create"  BY <1>2 DEF Registering
<1> HIDE DEF t
<1>. QED  BY <1>2, <1>3, <1>4, <1>5, QuietStep

LEMMA HaltKeeps ==
  ASSUME PhotosInv, NEW h \in Clerk, Halt(h)
  PROVE  PhotosInv'
<1>1. Goes(h, NoErrand) /\ UNCHANGED <<vehicle, stored, annals>> /\ errands' \in Nat /\ failures' \in Nat
  BY DEF Halt, Fails, PhotosInv, PhotosTypeOK
<1>. QED  BY <1>1, NoErrandType, NoErrandOrder, QuietStep

(* An insert that is refused, or fails and leaves no row. *)
LEMMA RefusedKeeps ==
  ASSUME PhotosInv, NEW h \in Clerk, errand[h].stage = "create",
         Goes(h, Discarding(errand[h])), UNCHANGED <<vehicle, stored, annals>>,
         errands' \in Nat, failures' \in Nat
  PROVE  PhotosInv'
<1> DEFINE t == Discarding(errand[h])
<1>1. errand[h] \in Errand  BY DEF PhotosInv, PhotosTypeOK
<1>2. t \in Errand  BY <1>1, DiscardingType
<1>3. CASE errand[h].key = NoKey
  <2>1. t = NoErrand  BY <1>1, <1>3, DiscardingType
  <2>. QED  BY <2>1, NoErrandType, NoErrandOrder, QuietStep
<1>4. CASE errand[h].key # NoKey
  <2>1. t.stage = "discard" /\ t.plate = errand[h].plate /\ t.key = errand[h].key
    BY <1>1, <1>4, DiscardingType
  <2>2. errand[h].plate \in Plate /\ errand[h].key[1] = errand[h].plate
    BY <1>4 DEF PhotosInv, KeysInv
  <2>3. HandlerKeys(t) /\ CopyOK(t, vehicle)
    BY <1>4, <2>1, <2>2 DEF HandlerKeys, CopyOK
  <2>4. Registering(errand[h])  BY DEF Registering
  <2>5. \A p \in Plate : Clean(p) /\ vehicle[p].state = "live" /\ vehicle[p].key # NoKey
          => t.key # vehicle[p].key
    BY <2>1, <2>4 DEF PhotosInv, PhotoInv
  <2>6. t.stage # "create"  BY <2>1
  <2> HIDE DEF t
  <2>7. Goes(h, t)  BY DEF t
  <2>. QED  BY <1>2, <2>1, <2>3, <2>4, <2>5, <2>6, <2>7, QuietStep
<1>. QED  BY <1>3, <1>4

-----------------------------------------------------------------------------
(* Those that store or drop a photo: whoever else is at work on its key has  *)
(* raced, and no vehicle names it.                                          *)

LEMMA RivalRaced ==
  ASSUME PhotosInv, NEW h \in Clerk, NEW k \in Clerk \ {h},
         Registering(errand[h]), Registering(errand[k]),
         errand[k].key = errand[h].key, errand[h].key # NoKey,
         vehicle[errand[k].plate].state = "none"
  PROVE  errand[k].plate \in annals.raced
BY DEF PhotosInv, AloneInv

LEMMA PutKeeps ==
  ASSUME PhotosInv, NEW h \in Clerk, Put(h)
  PROVE  PhotosInv'
<1> DEFINE e == errand[h]
           t == [e EXCEPT !.stage = "create"]
<1>. USE DEF PhotosInv
<1>1. e \in Errand /\ e.stage = "put" /\ Registering(e)
  BY DEF PhotosTypeOK, Put, Registering
<1>2. e.key # NoKey /\ e.key \in PhotoKey /\ e.image \in Image /\ e.plate \in Plate
      /\ e.key[1] = e.plate
  BY <1>1, ErrandFields DEF KeysInv
<1>3. t \in Errand /\ t.stage = "create" /\ t.plate = e.plate /\ t.key = e.key /\ t.image = e.image
  BY <1>1 DEF Errand, Stage
<1>4. /\ Goes(h, t) /\ UNCHANGED <<vehicle, annals>> /\ stored' = With(e.key, e.image)
      /\ UNCHANGED <<errands, failures>>
  BY DEF Put, Proceeds
<1>5. HandlerKeys(t) /\ CopyOK(t, vehicle')
  BY <1>2, <1>3 DEF HandlerKeys, CopyOK
<1> HIDE DEF t
<1>6. errand'[h] = t /\ \A k \in Clerk \ {h} : errand'[k] = errand[k]
  BY <1>3, <1>4, GoesType
<1>7. PhotosTypeOK'
  BY <1>2, <1>3, <1>4, GoesType, WithKeeps DEF PhotosTypeOK
<1>8. KeysInv' /\ CopiesInv'
  BY <1>2, <1>3, <1>4, <1>5, WithKeeps, OrderMeans, OrderStep DEF Kept
<1>9. AloneInv'
  BY <1>1, <1>3, <1>4, <1>6 DEF AloneInv, Registering
<1>10. PutInv'
  <2>. SUFFICES ASSUME NEW k \in Clerk, errand'[k].stage = "create", errand'[k].key # NoKey,
                       vehicle[errand'[k].plate].state = "none",
                       errand'[k].plate \notin annals.raced
                PROVE  [key |-> errand'[k].key, image |-> errand'[k].image] \in stored'
    BY <1>4 DEF PutInv
  <2>1. CASE k = h  BY <1>2, <1>3, <1>4, <1>6, <2>1, WithKeeps
  <2>2. CASE k # h
    <3>1. [key |-> errand[k].key, image |-> errand[k].image] \in stored
      BY <1>6, <2>2 DEF PutInv
    <3>2. errand[k].key # e.key
      BY <1>1, <1>2, <1>6, <2>2, RivalRaced DEF Registering
    <3>. QED  BY <1>2, <1>4, <1>6, <2>2, <3>1, <3>2, WithKeeps
  <2>. QED  BY <2>1, <2>2
<1>11. PhotoInv'
  <2>. SUFFICES ASSUME NEW p \in Plate, Clean(p), vehicle[p].state = "live", vehicle[p].key # NoKey
                PROVE  /\ [key |-> vehicle[p].key, image |-> annals.own[p]] \in stored'
                       /\ \A k \in Clerk : Registering(errand'[k]) => errand'[k].key # vehicle[p].key
    BY <1>4 DEF PhotoInv, Clean, Registering
  <2>1. e.key # vehicle[p].key  BY <1>1 DEF PhotoInv
  <2>. QED  BY <1>2, <1>3, <1>4, <1>6, <2>1, WithKeeps DEF PhotoInv
<1>. QED  BY <1>7, <1>8, <1>9, <1>10, <1>11

LEMMA DiscardKeeps ==
  ASSUME PhotosInv, NEW h \in Clerk, Discard(h)
  PROVE  PhotosInv'
<1> DEFINE e == errand[h]
<1>. USE DEF PhotosInv
<1>1. e.stage = "discard" /\ Registering(e) /\ e.key # NoKey
  BY DEF Discard, KeysInv, Registering
<1>2. /\ Goes(h, NoErrand) /\ UNCHANGED <<vehicle, annals>> /\ stored' = Without(e.key)
      /\ UNCHANGED <<errands, failures>>
  BY DEF Discard, Proceeds
<1>3. errand'[h] = NoErrand /\ \A k \in Clerk \ {h} : errand'[k] = errand[k]
  BY <1>2, GoesType, NoErrandType
<1>4. PhotosTypeOK'
  BY <1>2, GoesType, NoErrandType, WithoutKeeps DEF PhotosTypeOK
<1>5. KeysInv' /\ CopiesInv'
  BY <1>2, NoErrandType, NoErrandOrder, WithoutKeeps, OrderMeans, OrderStep DEF Kept
<1>6. AloneInv'
  BY <1>2, <1>3, NoErrandType DEF AloneInv, Registering
<1>7. PutInv'
  <2>. SUFFICES ASSUME NEW k \in Clerk, errand'[k].stage = "create", errand'[k].key # NoKey,
                       vehicle[errand'[k].plate].state = "none",
                       errand'[k].plate \notin annals.raced
                PROVE  [key |-> errand'[k].key, image |-> errand'[k].image] \in stored'
    BY <1>2 DEF PutInv
  <2>1. k # h /\ errand'[k] = errand[k]  BY <1>3, NoErrandType
  <2>2. [key |-> errand[k].key, image |-> errand[k].image] \in stored
    BY <2>1 DEF PutInv
  <2>3. errand[k].key # e.key
    BY <1>1, <2>1, RivalRaced DEF Registering
  <2>. QED  BY <1>2, <2>1, <2>2, <2>3, WithoutKeeps
<1>8. PhotoInv'
  <2>. SUFFICES ASSUME NEW p \in Plate, Clean(p), vehicle[p].state = "live", vehicle[p].key # NoKey
                PROVE  /\ [key |-> vehicle[p].key, image |-> annals.own[p]] \in stored'
                       /\ \A k \in Clerk : Registering(errand'[k]) => errand'[k].key # vehicle[p].key
    BY <1>2 DEF PhotoInv, Clean, Registering
  <2>1. e.key # vehicle[p].key  BY <1>1 DEF PhotoInv
  <2>. QED  BY <1>2, <1>3, <2>1, NoErrandType, WithoutKeeps DEF PhotoInv
<1>. QED  BY <1>4, <1>5, <1>6, <1>7, <1>8

LEMMA AddAssetKeeps ==
  ASSUME PhotosInv, NEW h \in Clerk, NEW p \in Plate, NEW type \in ContentType, NEW image \in Image,
         AddAsset(h, p, type, image)
  PROVE  PhotosInv'
<1> DEFINE key == photoKey(p, type)
           t == [stage |-> "put", plate |-> p, key |-> key, image |-> image]
           Rival == \E k \in Clerk \ {h} : Registering(errand[k]) /\ errand[k].key = key
<1>. USE DEF PhotosInv
<1>1. key \in PhotoKey /\ key[1] = p /\ key # NoKey  BY KeyType
<1>2. /\ vehicle[p].state = "none"
      /\ Goes(h, t) /\ UNCHANGED <<vehicle, stored, failures>> /\ errands' = errands + 1
      /\ annals' = IF Rival THEN [annals EXCEPT !.raced = @ \cup {p}] ELSE annals
  BY DEF AddAsset, Arrives
<1> HIDE DEF key
<1>3. t \in Errand /\ HandlerKeys(t) /\ CopyOK(t, vehicle')
  BY <1>1 DEF Errand, Stage, HandlerKeys, CopyOK
<1>4. errand'[h] = t /\ \A k \in Clerk \ {h} : errand'[k] = errand[k]
  BY <1>2, <1>3, GoesType
<1>5. /\ annals' \in Annals /\ annals'.own = annals.own /\ annals'.revived = annals.revived
      /\ annals'.mistaken = annals.mistaken /\ annals.raced \subseteq annals'.raced
      /\ Rival => p \in annals'.raced
  BY <1>2 DEF PhotosTypeOK, Annals
<1>6. PhotosTypeOK'
  BY <1>2, <1>3, <1>5, GoesType DEF PhotosTypeOK
<1>7. KeysInv' /\ CopiesInv'
  BY <1>2, <1>3, OrderMeans, OrderStep DEF Kept
<1>8. AloneInv'
  <2>. SUFFICES ASSUME NEW k \in Clerk, NEW l \in Clerk,
                       k # l, Registering(errand'[k]), Registering(errand'[l]),
                       errand'[k].key = errand'[l].key, errand'[k].key # NoKey,
                       vehicle[errand'[k].plate].state = "none"
                PROVE  errand'[k].plate \in annals'.raced
    BY <1>2 DEF AloneInv, Registering
  <2>1. CASE k = h
    BY <1>4, <1>5, <2>1
  <2>2. CASE l = h
    <3>1. errand'[k] = errand[k] /\ errand[k].key = key  BY <1>4, <2>2
    <3>2. errand[k].plate = p  BY <1>1, <3>1 DEF KeysInv
    <3>. QED  BY <1>5, <2>2, <3>1, <3>2
  <2>3. CASE k # h /\ l # h
    BY <1>4, <1>5, <2>3 DEF AloneInv
  <2>. QED  BY <2>1, <2>2, <2>3
<1>9. PutInv'
  BY <1>2, <1>4, <1>5 DEF PutInv
<1>10. PhotoInv'
  <2>. SUFFICES ASSUME NEW q \in Plate, Clean(q)', vehicle[q].state = "live", vehicle[q].key # NoKey
                PROVE  /\ [key |-> vehicle[q].key, image |-> annals.own[q]] \in stored
                       /\ \A k \in Clerk : Registering(errand'[k]) => errand'[k].key # vehicle[q].key
    BY <1>2, <1>5 DEF PhotoInv, Registering
  <2>1. Clean(q)  BY <1>5 DEF Clean
  <2>2. key # vehicle[q].key  BY <1>1, <1>2 DEF KeysInv
  <2>. QED  BY <1>4, <2>1, <2>2 DEF PhotoInv
<1>. QED  BY <1>6, <1>7, <1>8, <1>9, <1>10

-----------------------------------------------------------------------------
(* Those that write a row.                                                  *)

(* A row is inserted: its photo is there and nobody else is at work on it, or *)
(* the insert was taken for a failure.                                       *)
LEMMA InsertKeeps ==
  ASSUME PhotosInv, NEW h \in Clerk, errand[h].stage = "create",
         vehicle[errand[h].plate].state = "none",
         vehicle' = [vehicle EXCEPT ![errand[h].plate] = [state |-> "live", key |-> errand[h].key]],
         annals' \in Annals, annals'.own = [annals.own EXCEPT ![errand[h].plate] = errand[h].image],
         annals'.raced = annals.raced, annals'.revived = annals.revived,
         annals.mistaken \subseteq annals'.mistaken,
         NEW t \in Errand, Goes(h, t), UNCHANGED stored, errands' \in Nat, failures' \in Nat,
         \/ t = NoErrand
         \/ /\ t.stage = "discard" /\ t.plate = errand[h].plate
            /\ t.key = errand[h].key /\ t.key # NoKey
            /\ errand[h].plate \in annals'.mistaken
  PROVE  PhotosInv'
<1> DEFINE e == errand[h]
           p == e.plate
<1>. USE DEF PhotosInv
<1>1. e \in Errand /\ p \in Plate /\ (e.key # NoKey => e.key[1] = p)
  BY DEF PhotosTypeOK, KeysInv
<1>2. errand'[h] = t /\ \A k \in Clerk \ {h} : errand'[k] = errand[k]
  BY GoesType
<1>3. /\ vehicle'[p] = [state |-> "live", key |-> e.key]
      /\ \A q \in Plate \ {p} : vehicle'[q] = vehicle[q]
      /\ vehicle' \in [Plate -> VehicleRow]
  BY <1>1, ErrandFields DEF PhotosTypeOK, VehicleRow
<1>4. annals'.own[p] = e.image /\ \A q \in Plate \ {p} : annals'.own[q] = annals.own[q]
  BY <1>1 DEF PhotosTypeOK, Annals
<1>5. PhotosTypeOK'
  BY <1>3, GoesType DEF PhotosTypeOK
<1>6. KeysInv' /\ CopiesInv'
  <2>1. HandlerKeys(t) /\ CopyOK(t, vehicle')
    BY <1>1, NoErrandOrder DEF HandlerKeys, CopyOK
  <2>2. Kept(vehicle, vehicle')  BY <1>3 DEF Kept
  <2>3. RowsOK(vehicle')  BY <1>1, <1>3, OrderMeans DEF RowsOK
  <2>4. OneImage(stored')  BY OrderMeans
  <2>. QED  BY <2>1, <2>2, <2>3, <2>4, OrderStep
<1>7. \A k \in Clerk : Registering(errand[k]) => errand[k].plate \in Plate
  BY DEF KeysInv, Registering
<1>8. Registering(t) => t.plate = p  BY NoErrandType
<1>9. AloneInv'
  <2>. SUFFICES ASSUME NEW k \in Clerk, NEW l \in Clerk,
                       k # l, Registering(errand'[k]), Registering(errand'[l]),
                       errand'[k].key = errand'[l].key, errand'[k].key # NoKey,
                       vehicle'[errand'[k].plate].state = "none"
                PROVE  errand'[k].plate \in annals'.raced
    BY DEF AloneInv, Registering
  <2>1. k # h  BY <1>2, <1>3, <1>8
  <2>2. errand[k].plate # p  BY <1>2, <1>3, <2>1
  <2>3. l # h
    <3>. SUFFICES ASSUME l = h PROVE FALSE  OBVIOUS
    <3>1. t.key = errand[k].key /\ t.key # NoKey  BY <1>2, <2>1
    <3>2. t.key[1] = p  BY <1>1, <1>2, <3>1, NoErrandType
    <3>3. errand[k].key[1] = errand[k].plate  BY <3>1 DEF KeysInv
    <3>. QED  BY <2>2, <3>1, <3>2, <3>3
  <2>. QED  BY <1>2, <1>3, <1>7, <2>1, <2>2, <2>3 DEF AloneInv
<1>10. PutInv'
  <2>. SUFFICES ASSUME NEW k \in Clerk, errand'[k].stage = "create", errand'[k].key # NoKey,
                       vehicle'[errand'[k].plate].state = "none",
                       errand'[k].plate \notin annals'.raced
                PROVE  [key |-> errand'[k].key, image |-> errand'[k].image] \in stored
    BY DEF PutInv
  <2>1. k # h /\ errand'[k] = errand[k]  BY <1>2, NoErrandType
  <2>2. errand[k].plate \in Plate  BY <2>1 DEF KeysInv
  <2>3. vehicle[errand[k].plate].state = "none"  BY <1>3, <2>1, <2>2
  <2>. QED  BY <2>1, <2>3 DEF PutInv
<1>11. PhotoInv'
  <2>. SUFFICES ASSUME NEW q \in Plate, Clean(q)', vehicle'[q].state = "live",
                       vehicle'[q].key # NoKey
                PROVE  /\ [key |-> vehicle'[q].key, image |-> annals'.own[q]] \in stored
                       /\ \A k \in Clerk : Registering(errand'[k]) => errand'[k].key # vehicle'[q].key
    BY DEF PhotoInv, Registering
  <2>1. Clean(q)  BY DEF Clean
  <2>2. CASE q = p
    <3>1. t = NoErrand  BY <2>2 DEF Clean
    <3>2. e.key # NoKey /\ p \notin annals.raced  BY <1>3, <2>1, <2>2 DEF Clean
    <3>3. [key |-> e.key, image |-> e.image] \in stored  BY <3>2 DEF PutInv
    <3>4. ASSUME NEW k \in Clerk, Registering(errand'[k]), errand'[k].key = e.key PROVE FALSE
      <4>1. k # h /\ errand'[k] = errand[k]  BY <1>2, <3>1, <3>4, NoErrandType
      <4>2. errand[k].plate = p  BY <1>1, <3>2, <3>4, <4>1 DEF KeysInv
      <4>. QED  BY <3>2, <3>4, <4>1, <4>2, RivalRaced DEF Registering
    <3>. QED  BY <1>3, <1>4, <2>2, <3>3, <3>4
  <2>3. CASE q # p
    <3>1. vehicle[q].key[1] = q /\ vehicle'[q] = vehicle[q] /\ annals'.own[q] = annals.own[q]
      BY <1>3, <1>4, <2>3 DEF KeysInv
    <3>2. Registering(t) => t.key # vehicle[q].key
      BY <1>1, <2>3, <3>1, NoErrandType
    <3>. QED  BY <1>2, <2>1, <3>1, <3>2 DEF PhotoInv
  <2>. QED  BY <2>2, <2>3
<1>. QED  BY <1>5, <1>6, <1>9, <1>10, <1>11

LEMMA CreateAssetKeeps ==
  ASSUME PhotosInv, NEW h \in Clerk, CreateAsset(h)
  PROVE  PhotosInv'
<1> DEFINE e == errand[h]
<1>1. e.stage = "create" /\ UNCHANGED stored /\ e \in Errand /\ e.plate \in Plate
  BY DEF CreateAsset, PhotosInv, PhotosTypeOK, KeysInv
<1>2. CASE vehicle[e.plate].state = "none" /\ Inserted(e) /\ Proceeds(h, NoErrand)
  <2>1. /\ annals' \in Annals /\ annals'.own = [annals.own EXCEPT ![e.plate] = e.image]
        /\ annals'.raced = annals.raced /\ annals'.revived = annals.revived
        /\ annals'.mistaken = annals.mistaken
    BY <1>1, <1>2, ErrandFields DEF Inserted, PhotosInv, PhotosTypeOK, Annals
  <2>2. Goes(h, NoErrand) /\ errands' \in Nat /\ failures' \in Nat
    BY <1>2 DEF Proceeds, PhotosInv, PhotosTypeOK
  <2>3. vehicle' = [vehicle EXCEPT ![e.plate] = [state |-> "live", key |-> e.key]]
    BY <1>2 DEF Inserted
  <2>. QED  BY <1>1, <1>2, <2>1, <2>2, <2>3, NoErrandType, InsertKeeps
<1>3. CASE Proceeds(h, Discarding(e)) /\ UNCHANGED <<vehicle, annals>>
  BY <1>1, <1>3, RefusedKeeps DEF Proceeds, PhotosInv, PhotosTypeOK
<1>. QED  BY <1>2, <1>3 DEF CreateAsset

LEMMA CreateAssetFailsKeeps ==
  ASSUME PhotosInv, NEW h \in Clerk, CreateAssetFails(h)
  PROVE  PhotosInv'
<1> DEFINE e == errand[h]
           t == Discarding(e)
<1>1. e.stage = "create" /\ UNCHANGED stored /\ e \in Errand /\ e.plate \in Plate
  BY DEF CreateAssetFails, PhotosInv, PhotosTypeOK, KeysInv
<1>2. Goes(h, t) /\ errands' \in Nat /\ failures' \in Nat
  BY DEF CreateAssetFails, Fails, PhotosInv, PhotosTypeOK
<1>3. CASE UNCHANGED <<vehicle, annals>>
  BY <1>1, <1>2, <1>3, RefusedKeeps
<1>4. CASE /\ vehicle[e.plate].state = "none"
           /\ vehicle' = [vehicle EXCEPT ![e.plate] = [state |-> "live", key |-> e.key]]
           /\ annals' = [annals EXCEPT !.own[e.plate] = e.image,
                                       !.mistaken = @ \cup {e.plate}]
  <2>1. /\ annals' \in Annals /\ annals'.own = [annals.own EXCEPT ![e.plate] = e.image]
        /\ annals'.raced = annals.raced /\ annals'.revived = annals.revived
        /\ annals'.mistaken = annals.mistaken \cup {e.plate}
    BY <1>1, <1>4, ErrandFields DEF PhotosInv, PhotosTypeOK, Annals
  <2>2. t \in Errand /\ (t = NoErrand \/ (t.stage = "discard" /\ t.plate = e.plate
                                          /\ t.key = e.key /\ t.key # NoKey))
    BY <1>1, DiscardingType
  <2> HIDE DEF t
  <2>. QED  BY <1>1, <1>2, <1>4, <2>1, <2>2, InsertKeeps
<1>. QED  BY <1>3, <1>4 DEF CreateAssetFails

(* A row that was there is written again under the key it has: it is deleted, *)
(* or saved as it was, or was deleted and is there again.                    *)
LEMMA RewrittenKeeps ==
  ASSUME PhotosInv, NEW h \in Clerk, errand[h].stage \in {"softDelete", "save"},
         NEW state \in {"live", "deleted"}, NEW t \in Errand, Goes(h, t),
         vehicle' = [vehicle EXCEPT ![errand[h].plate] =
                       [state |-> state, key |-> vehicle[errand[h].plate].key]],
         annals' \in Annals, annals'.own = annals.own, annals'.raced = annals.raced,
         annals'.mistaken = annals.mistaken, annals.revived \subseteq annals'.revived,
         UNCHANGED <<stored, errands, failures>>,
         \/ state = "live" /\ t = NoErrand
              /\ (vehicle[errand[h].plate].state = "live" \/ errand[h].plate \in annals'.revived)
         \/ state = "deleted" /\ t = Discarding(errand[h])
  PROVE  PhotosInv'
<1> DEFINE e == errand[h]
           p == e.plate
<1>. USE DEF PhotosInv
<1>1. e \in Errand /\ p \in Plate /\ vehicle[p].state # "none" /\ e.key = vehicle[p].key
      /\ (e.key # NoKey => e.key[1] = p)
  BY DEF PhotosTypeOK, KeysInv, CopiesInv
<1>2. errand'[h] = t /\ \A k \in Clerk \ {h} : errand'[k] = errand[k]
  BY GoesType
<1>3. /\ vehicle'[p] = [state |-> state, key |-> vehicle[p].key]
      /\ \A q \in Plate \ {p} : vehicle'[q] = vehicle[q]
      /\ vehicle' \in [Plate -> VehicleRow]
  BY <1>1 DEF PhotosTypeOK, VehicleRow
<1>4. /\ t.stage = "idle" \/ (t.stage = "discard" /\ state = "deleted")
      /\ t.key = NoKey \/ (t.stage = "discard" /\ t.plate = p /\ t.key = vehicle[p].key)
      /\ t = NoErrand \/ t.key # NoKey
  BY <1>1, DiscardingType, NoErrandType
<1>5. PhotosTypeOK'
  BY <1>3, GoesType DEF PhotosTypeOK
<1>6. KeysInv' /\ CopiesInv'
  <2>1. HandlerKeys(t) /\ CopyOK(t, vehicle')
    BY <1>1, <1>4, NoErrandOrder DEF HandlerKeys, CopyOK
  <2>2. Kept(vehicle, vehicle')  BY <1>3 DEF Kept
  <2>3. RowsOK(vehicle')  BY <1>1, <1>3, OrderMeans DEF RowsOK
  <2>4. OneImage(stored')  BY OrderMeans
  <2>. QED  BY <2>1, <2>2, <2>3, <2>4, OrderStep
<1>7. \A k \in Clerk : Registering(errand[k]) => errand[k].plate \in Plate
  BY DEF KeysInv, Registering
<1>8. Registering(t) => t.plate = p /\ t.key = vehicle[p].key /\ t.key # NoKey /\ state = "deleted"
  BY <1>4, NoErrandType DEF Registering
<1>9. AloneInv'
  <2>. SUFFICES ASSUME NEW k \in Clerk, NEW l \in Clerk,
                       k # l, Registering(errand'[k]), Registering(errand'[l]),
                       errand'[k].key = errand'[l].key, errand'[k].key # NoKey,
                       vehicle'[errand'[k].plate].state = "none"
                PROVE  errand'[k].plate \in annals.raced
    BY DEF AloneInv, Registering
  <2>1. k # h  BY <1>2, <1>3, <1>8
  <2>2. errand[k].plate # p  BY <1>2, <1>3, <2>1
  <2>3. l # h
    <3>. SUFFICES ASSUME l = h PROVE FALSE  OBVIOUS
    <3>1. errand[k].key = vehicle[p].key /\ errand[k].key # NoKey  BY <1>2, <1>8, <2>1
    <3>2. errand[k].key[1] = errand[k].plate  BY <3>1 DEF KeysInv
    <3>. QED  BY <1>1, <2>2, <3>1, <3>2
  <2>. QED  BY <1>2, <1>3, <1>7, <2>1, <2>2, <2>3 DEF AloneInv
<1>10. PutInv'
  <2>. SUFFICES ASSUME NEW k \in Clerk, errand'[k].stage = "create", errand'[k].key # NoKey,
                       vehicle'[errand'[k].plate].state = "none",
                       errand'[k].plate \notin annals.raced
                PROVE  [key |-> errand'[k].key, image |-> errand'[k].image] \in stored
    BY DEF PutInv
  <2>1. k # h /\ errand'[k] = errand[k]  BY <1>2, <1>4
  <2>2. errand[k].plate \in Plate  BY <2>1 DEF KeysInv
  <2>3. vehicle[errand[k].plate].state = "none"  BY <1>3, <2>1, <2>2
  <2>. QED  BY <2>1, <2>3 DEF PutInv
<1>11. PhotoInv'
  <2>. SUFFICES ASSUME NEW q \in Plate, Clean(q)', vehicle'[q].state = "live",
                       vehicle'[q].key # NoKey
                PROVE  /\ [key |-> vehicle'[q].key, image |-> annals.own[q]] \in stored
                       /\ \A k \in Clerk : Registering(errand'[k]) => errand'[k].key # vehicle'[q].key
    BY DEF PhotoInv, Registering
  <2>1. Clean(q)  BY DEF Clean
  <2>2. vehicle[q].state = "live" /\ vehicle'[q].key = vehicle[q].key
    BY <1>3 DEF Clean
  <2>3. Registering(t) => t.key # vehicle[q].key
    BY <1>1, <1>3, <1>8, <2>2 DEF KeysInv
  <2>. QED  BY <1>2, <2>1, <2>2, <2>3 DEF PhotoInv
<1>. QED  BY <1>5, <1>6, <1>9, <1>10, <1>11

LEMMA SoftDeleteKeeps ==
  ASSUME PhotosInv, NEW h \in Clerk, SoftDelete(h)
  PROVE  PhotosInv'
<1> DEFINE e == errand[h]
<1>1. e \in Errand /\ e.plate \in Plate /\ e.stage = "softDelete"
  BY DEF SoftDelete, PhotosInv, PhotosTypeOK, KeysInv
<1>2. /\ Goes(h, Discarding(e)) /\ UNCHANGED <<stored, errands, failures, annals>>
      /\ vehicle' = [vehicle EXCEPT ![e.plate].state = "deleted"]
  BY DEF SoftDelete, Proceeds
<1>3. vehicle[e.plate] \in VehicleRow  BY <1>1 DEF PhotosInv, PhotosTypeOK
<1>4. vehicle' = [vehicle EXCEPT ![e.plate] = [state |-> "deleted", key |-> vehicle[e.plate].key]]
  <2>1. \A row \in VehicleRow : [row EXCEPT !.state = "deleted"]
                                 = [state |-> "deleted", key |-> row.key]
    BY DEF VehicleRow
  <2>2. vehicle' = [vehicle EXCEPT ![e.plate] = [vehicle[e.plate] EXCEPT !.state = "deleted"]]
    BY <1>2
  <2>. QED  BY <1>3, <2>1, <2>2
<1>5. annals' \in Annals  BY <1>2 DEF PhotosInv, PhotosTypeOK
<1>. QED  BY <1>1, <1>2, <1>4, <1>5, DiscardingType, RewrittenKeeps

LEMMA SaveVehicleKeeps ==
  ASSUME PhotosInv, NEW h \in Clerk, SaveVehicle(h)
  PROVE  PhotosInv'
<1> DEFINE e == errand[h]
<1>1. e.plate \in Plate /\ e.stage = "save" /\ e.key = vehicle[e.plate].key
  BY DEF SaveVehicle, PhotosInv, KeysInv, CopiesInv
<1>2. /\ Goes(h, NoErrand) /\ UNCHANGED <<stored, errands, failures>>
      /\ vehicle' = [vehicle EXCEPT ![e.plate] = [state |-> "live", key |-> e.key]]
      /\ annals' = IF vehicle[e.plate].state = "live" THEN annals
                   ELSE [annals EXCEPT !.revived = @ \cup {e.plate}]
  BY DEF SaveVehicle, Proceeds
<1>3. /\ annals' \in Annals /\ annals'.own = annals.own /\ annals'.raced = annals.raced
      /\ annals'.mistaken = annals.mistaken /\ annals.revived \subseteq annals'.revived
      /\ vehicle[e.plate].state = "live" \/ e.plate \in annals'.revived
  BY <1>1, <1>2 DEF PhotosInv, PhotosTypeOK, Annals
<1>. QED  BY <1>1, <1>2, <1>3, NoErrandType, RewrittenKeeps

-----------------------------------------------------------------------------
(* The theorems.                                                           *)

LEMMA PhotosInitInv == PhotosInit => PhotosInv
<1>. SUFFICES ASSUME PhotosInit PROVE PhotosInv
  OBVIOUS
<1>1. PhotosTypeOK
  BY NoErrandType DEF PhotosInit, PhotosTypeOK, VehicleRow, NoRow, Annals
<1>2. KeysInv /\ CopiesInv
  BY NoErrandOrder, NoErrandType, OrderMeans DEF PhotosInit, RowsOK, OneImage, NoRow
<1>3. AloneInv /\ PutInv /\ PhotoInv
  BY NoErrandType DEF PhotosInit, AloneInv, PutInv, PhotoInv, NoRow
<1>. QED  BY <1>1, <1>2, <1>3 DEF PhotosInv

LEMMA PhotosNextInv == PhotosInv /\ [PhotosNext]_photos => PhotosInv'
<1>. SUFFICES ASSUME PhotosInv, [PhotosNext]_photos PROVE PhotosInv'
  OBVIOUS
<1>1. CASE UNCHANGED photos
  BY <1>1 DEF photos, PhotosInv, PhotosTypeOK, KeysInv, CopiesInv, AloneInv, PutInv, PhotoInv,
              Clean, Registering
<1>2. ASSUME NEW h \in Clerk, Requests(h) PROVE PhotosInv'
  BY <1>2, AddAssetKeeps, AddAssetPlainKeeps, ReadRowKeeps DEF Requests
<1>3. ASSUME NEW h \in Clerk,
             Put(h) \/ CreateAsset(h) \/ CreateAssetFails(h) \/ Discard(h) \/ SoftDelete(h)
               \/ SaveVehicle(h) \/ Halt(h)
      PROVE  PhotosInv'
  BY <1>3, PutKeeps, CreateAssetKeeps, CreateAssetFailsKeeps, DiscardKeeps, SoftDeleteKeeps,
     SaveVehicleKeeps, HaltKeeps
<1>. QED  BY <1>1, <1>2, <1>3 DEF PhotosNext

(* What is kept at every step, types included: keys are those of their plate, *)
(* and nobody is about to touch the photo of a vehicle.                      *)
THEOREM PhotosInOrder == PhotosSpec => []PhotosInv
<1>. QED  BY PhotosInitInv, PhotosNextInv, PTL DEF PhotosSpec

(* GetPhoto finds the photo that a vehicle was registered with, and nothing   *)
(* else, unless registrations of the plate raced for one key, an edit brought *)
(* the vehicle back, or its insert was taken for a failure.                  *)
THEOREM PhotosAreShown == PhotosSpec => []ShowsItsPhoto
<1>1. ASSUME PhotosInv PROVE ShowsItsPhoto
  <2>. SUFFICES ASSUME NEW p \in Plate, Clean(p), vehicle[p].state = "live", vehicle[p].key # NoKey
                PROVE  GetPhoto(p) = {annals.own[p]}
    BY DEF ShowsItsPhoto, Clean
  <2> DEFINE mine == [key |-> vehicle[p].key, image |-> annals.own[p]]
  <2>1. mine \in stored  BY <1>1 DEF PhotosInv, PhotoInv
  <2>2. \A x \in stored : x.key = vehicle[p].key => x = mine
    BY <1>1, <2>1 DEF PhotosInv, KeysInv
  <2>. QED  BY <2>1, <2>2 DEF GetPhoto
<1>. QED  BY <1>1, PhotosInOrder, PTL

-----------------------------------------------------------------------------
(* Nothing is left behind.                                                 *)

(* A step of one handler: the keys that were named or in its hand still are. *)
LEMMA LeftStep ==
  ASSUME PhotosInv, LeftInv, NEW h \in Clerk, NEW t \in Errand, Goes(h, t),
         failures' = failures,
         failures = 0 =>
           \A o \in stored' :
             \/ Named(o.key)' \/ (InHand(t) /\ t.key = o.key)
             \/ o \in stored /\ (InHand(errand[h]) => errand[h].key # o.key)
                  /\ (Named(o.key) => Named(o.key)')
  PROVE  LeftInv'
<1>. SUFFICES ASSUME failures = 0, NEW o \in stored'
              PROVE  Named(o.key)' \/ \E k \in Clerk : InHand(errand'[k]) /\ errand'[k].key = o.key
  BY DEF LeftInv, InHand
<1>1. errand'[h] = t /\ \A k \in Clerk \ {h} : errand'[k] = errand[k]
  BY GoesType DEF PhotosInv
<1>2. CASE Named(o.key)'  BY <1>2
<1>3. CASE InHand(t) /\ t.key = o.key  BY <1>1, <1>3
<1>4. CASE o \in stored /\ (InHand(errand[h]) => errand[h].key # o.key)
             /\ (Named(o.key) => Named(o.key)')
  <2>1. CASE Named(o.key)  BY <1>4, <2>1
  <2>2. CASE \E k \in Clerk : InHand(errand[k]) /\ errand[k].key = o.key
    BY <1>1, <1>4, <2>2
  <2>. QED  BY <1>4, <2>1, <2>2 DEF LeftInv
<1>. QED  BY <1>2, <1>3, <1>4

LEMMA LeftNext ==
  ASSUME PhotosInv, LeftInv, NEW h \in Clerk,
         Requests(h) \/ Put(h) \/ CreateAsset(h) \/ CreateAssetFails(h) \/ Discard(h)
           \/ SoftDelete(h) \/ SaveVehicle(h) \/ Halt(h)
  PROVE  LeftInv'
<1> DEFINE e == errand[h]
<1>1. e \in Errand /\ (e.stage # "idle" => e.plate \in Plate)
  BY DEF PhotosInv, PhotosTypeOK, KeysInv
<1>2. ~InHand(NoErrand) /\ NoErrand \in Errand
  BY NoErrandType DEF InHand
<1>3. \A o \in stored : o.key \in PhotoKey /\ o.key # NoKey
  BY KeyAssumption DEF PhotosInv, PhotosTypeOK, Object
<1>4. CASE Requests(h)
  <2>1. PICK t \in Errand : Arrives(h, t)
    BY <1>2, <1>4, KeyType DEF Requests, AddAsset, AddAssetPlain, DeleteAsset, UpdateAsset,
       Errand, Stage, NoErrand, PhotosInv, PhotosTypeOK, VehicleRow
  <2>2. e = NoErrand /\ Goes(h, t) /\ UNCHANGED <<vehicle, stored, failures>>
    BY <2>1 DEF Arrives
  <2>3. \A o \in stored : Named(o.key)' = Named(o.key)  BY <2>2 DEF Named
  <2>. QED  BY <1>2, <2>2, <2>3, LeftStep
<1>5. CASE Put(h)
  <2> DEFINE t == [e EXCEPT !.stage = "create"]
  <2>1. t \in Errand /\ InHand(t) /\ t.key = e.key  BY <1>1 DEF Errand, Stage, InHand
  <2>2. /\ Goes(h, t) /\ UNCHANGED <<vehicle, failures>>
        /\ stored' = With(e.key, e.image) /\ ~InHand(e)
    BY <1>5 DEF Put, Proceeds, InHand
  <2>3. \A o \in stored' : o.key = e.key \/ o \in stored  BY <2>2 DEF With, Without
  <2>4. \A o \in stored : Named(o.key)' = Named(o.key)  BY <2>2 DEF Named
  <2>. HIDE DEF t
  <2>. QED  BY <2>1, <2>2, <2>3, <2>4, LeftStep
<1>6. CASE CreateAsset(h)
  <2>1. /\ InHand(e) /\ stored' = stored /\ failures' = failures
        /\ e.stage = "create" /\ e.plate \in Plate
    BY <1>1, <1>6 DEF CreateAsset, Proceeds, InHand
  <2>2. CASE vehicle[e.plate].state = "none" /\ Inserted(e) /\ Goes(h, NoErrand)
    <3>1. /\ vehicle'[e.plate] = [state |-> "live", key |-> e.key]
          /\ \A p \in Plate \ {e.plate} : vehicle'[p] = vehicle[p]
      BY <2>1, <2>2 DEF Inserted, PhotosInv, PhotosTypeOK
    <3>2. \A o \in stored : (Named(o.key) => Named(o.key)') /\ (e.key = o.key => Named(o.key)')
      BY <2>1, <2>2, <3>1 DEF Named
    <3>. QED  BY <1>2, <2>1, <2>2, <3>2, LeftStep
  <2>3. CASE Goes(h, Discarding(e)) /\ vehicle' = vehicle
    <3>1. \A o \in stored : Named(o.key)' = Named(o.key)  BY <2>3 DEF Named
    <3>2. \A o \in stored : e.key = o.key => InHand(Discarding(e)) /\ Discarding(e).key = o.key
      BY <1>1, <1>3, DiscardingType DEF InHand
    <3>. QED  BY <1>1, <2>1, <2>3, <3>1, <3>2, DiscardingType, LeftStep
  <2>. QED  BY <1>6, <2>2, <2>3 DEF CreateAsset, Proceeds
<1>7. CASE CreateAssetFails(h) \/ Halt(h)
  <2>1. failures' = failures + 1 /\ failures \in Nat
    BY <1>7 DEF CreateAssetFails, Halt, Fails, PhotosInv, PhotosTypeOK
  <2>. QED  BY <2>1 DEF LeftInv
<1>8. CASE Discard(h)
  <2>1. /\ Goes(h, NoErrand) /\ UNCHANGED <<vehicle, failures>>
        /\ stored' = Without(e.key)
    BY <1>8 DEF Discard, Proceeds
  <2>2. \A o \in stored' : o \in stored /\ o.key # e.key  BY <2>1 DEF Without
  <2>3. \A o \in stored : Named(o.key)' = Named(o.key)  BY <2>1 DEF Named
  <2>. QED  BY <1>2, <2>1, <2>2, <2>3, LeftStep
<1>9. CASE SoftDelete(h)
  <2>1. /\ Goes(h, Discarding(e)) /\ UNCHANGED <<stored, failures>>
        /\ e.stage = "softDelete" /\ e.plate \in Plate /\ ~InHand(e)
        /\ e.key = vehicle[e.plate].key
        /\ \A p \in Plate \ {e.plate} : vehicle'[p] = vehicle[p]
    BY <1>1, <1>9 DEF SoftDelete, Proceeds, InHand, PhotosInv, PhotosTypeOK, CopiesInv
  <2>2. \A o \in stored :
          \/ InHand(Discarding(e)) /\ Discarding(e).key = o.key
          \/ o.key # vehicle[e.plate].key /\ (Named(o.key) => Named(o.key)')
    BY <1>1, <1>3, <2>1, DiscardingType DEF InHand, Named
  <2>. QED  BY <1>1, <2>1, <2>2, DiscardingType, LeftStep
<1>10. CASE SaveVehicle(h)
  <2>1. /\ Goes(h, NoErrand) /\ UNCHANGED <<stored, failures>>
        /\ e.stage = "save" /\ e.plate \in Plate /\ ~InHand(e)
        /\ vehicle'[e.plate] = [state |-> "live", key |-> vehicle[e.plate].key]
        /\ \A p \in Plate \ {e.plate} : vehicle'[p] = vehicle[p]
    BY <1>1, <1>10 DEF SaveVehicle, Proceeds, InHand, PhotosInv, PhotosTypeOK, CopiesInv
  <2>2. \A o \in stored : Named(o.key) => Named(o.key)'  BY <2>1 DEF Named
  <2>. QED  BY <1>2, <2>1, <2>2, LeftStep
<1>. QED  BY <1>4, <1>5, <1>6, <1>7, <1>8, <1>9, <1>10

LEMMA LeftInitInv == PhotosInit => LeftInv
BY DEF PhotosInit, LeftInv

LEMMA LeftNextInv ==
  ASSUME PhotosInv, LeftInv, [PhotosNext]_photos
  PROVE  LeftInv'
<1>1. CASE UNCHANGED photos  BY <1>1 DEF photos, LeftInv, Named, InHand
<1>. QED  BY <1>1, LeftNext DEF PhotosNext

(* Without a failure, once every handler has ended, the store holds the     *)
(* photos of registered vehicles and no other, for any number of handlers   *)
(* registering, changing and deleting side by side.                         *)
THEOREM NothingIsLeft == PhotosSpec => []NothingLeftBehind
<1>1. PhotosInit => LeftInv  BY LeftInitInv
<1>2. PhotosInv /\ LeftInv /\ [PhotosNext]_photos => LeftInv'  BY LeftNextInv
<1>3. LeftInv => NothingLeftBehind
  BY NoErrandType DEF LeftInv, NothingLeftBehind, Named, InHand
<1>. QED  BY <1>1, <1>2, <1>3, PhotosInOrder, PTL DEF PhotosSpec

-----------------------------------------------------------------------------
(* The four parts side by side.                                            *)

(* A step of one part is a step of that part alone, and keeps its          *)
(* invariant; which part is under way never changes.                       *)
LEMMA PartsNextInv ==
  ASSUME PartsInv, [PartsNext]_parts
  PROVE  PartsInv'
<1>1. CASE UNCHANGED parts
  <2>1. /\ part' = part /\ UNCHANGED vars /\ UNCHANGED catalogue
        /\ UNCHANGED reports /\ UNCHANGED photos
    BY <1>1 DEF parts
  <2>2. IInv /\ AccountInv => IInv' /\ AccountInv'
    BY <2>1, StutterInv, AccountsAlone DEF vars
  <2>3. CatalogueInv => CatalogueInv'  BY <2>1, CatalogueNextInv
  <2>4. ReportsInv => ReportsInv'  BY <2>1, NextReports
  <2>5. PhotosInv /\ LeftInv => PhotosInv' /\ LeftInv'  BY <2>1, PhotosNextInv, LeftNextInv
  <2>. QED  BY <2>1, <2>2, <2>3, <2>4, <2>5 DEF PartsInv
<1>2. CASE part = "sessions" /\ Next /\ UNCHANGED part
  <2>1. IInv /\ AccountInv  BY <1>2 DEF PartsInv
  <2>2. IInv' /\ AccountInv'  BY <1>2, <2>1, NextInv, NextRoles
  <2>. QED  BY <1>2, <2>2 DEF PartsInv
<1>3. CASE part = "catalogue" /\ CatalogueNext /\ UNCHANGED part
  <2>1. CatalogueInv'  BY <1>3, CatalogueNextInv DEF PartsInv
  <2>. QED  BY <1>3, <2>1 DEF PartsInv
<1>4. CASE part = "reports" /\ ReportsNext /\ UNCHANGED part
  <2>1. ReportsInv'  BY <1>4, NextReports DEF PartsInv
  <2>. QED  BY <1>4, <2>1 DEF PartsInv
<1>5. CASE part = "photos" /\ PhotosNext /\ UNCHANGED part
  <2>1. PhotosInv' /\ LeftInv'  BY <1>5, PhotosNextInv, LeftNextInv DEF PartsInv
  <2>. QED  BY <1>5, <2>1 DEF PartsInv
<1>. QED  BY <1>1, <1>2, <1>3, <1>4, <1>5 DEF PartsNext

(* Whatever the four parts do, each stays in the order that its own        *)
(* properties rest on: what is proved of the specification of each holds   *)
(* of the one that TLC checks them all in.                                 *)
THEOREM PartsInOrder == PartsSpec => []PartsInv
<1>1. PartsInit => PartsInv
  BY InitInv, InitRoles, CatalogueInitInv, InitReports, PhotosInitInv, LeftInitInv
     DEF PartsInit, PartsInv
<1>2. PartsInv /\ [PartsNext]_parts => PartsInv'  BY PartsNextInv
<1>. QED  BY <1>1, <1>2, PTL DEF PartsSpec
============================================================================
