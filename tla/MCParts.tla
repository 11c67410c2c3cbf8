------------------------------ MODULE MCParts ------------------------------
(***************************************************************************)
(* Four parts of the system that share no table and call one another only  *)
(* through what Catalogue has of it: sessions and keys, catalogue and      *)
(* suppliers, reports, vehicles and their photos.  A behaviour is one of   *)
(* any of the four, the others standing still; what holds of each is then  *)
(* checked in one go.                                                      *)
(***************************************************************************)
EXTENDS MCSessions, MCCatalogue, MCReports, MCPhotos

VARIABLE part

parts == <<part, vars, catalogue, reports, photos>>

AtRest ==
  /\ part # "sessions" => users = [a \in Account |-> NoUser]
  /\ part # "catalogue" => listed = {} /\ known = {}

PartsInit ==
  /\ part \in {"sessions", "catalogue", "reports", "photos"}
  /\ Init /\ CatalogueInit /\ ReportsInit /\ PhotosInit
  /\ AtRest

(* Bound: a behaviour of the sessions in which something fails or time goes *)
(* by has a request less.                                                   *)
EventForRequest == started' + (IF faults' + now' > 0 THEN 1 ELSE 0) <= MaxRequests

(* Bound: no report looks at both entries and rows, and no behaviour of the *)
(* reports has both.                                                        *)
RowsOrEntries == Recorded' = {} \/ Entries' = {}

PartsNext ==
  \/ part = "sessions"  /\ Next /\ EventForRequest
                        /\ UNCHANGED <<part, catalogue, reports, photos>>
  \/ part = "catalogue" /\ CatalogueNext /\ UNCHANGED <<part, vars, reports, photos>>
  \/ part = "reports"   /\ ReportsNext /\ RowsOrEntries
                        /\ UNCHANGED <<part, vars, catalogue, photos>>
  \/ part = "photos"    /\ PhotosNext    /\ UNCHANGED <<part, vars, catalogue, reports>>

PartsSpec == PartsInit /\ [][PartsNext]_parts

(* What keeps each of the four parts in order: their inductive invariants.  *)
PartsInv ==
  /\ part = "sessions"  => IInv /\ AccountInv
  /\ part = "catalogue" => CatalogueInv
  /\ part = "reports"   => ReportsInv
  /\ part = "photos"    => PhotosInv /\ LeftInv

(* Handlers are interchangeable, and so are entries and rows: all of them   *)
(* are swapped together, which is sound since no two parts are ever under   *)
(* way.                                                                     *)
Swap(x, y, p) == p[x] = y /\ p[y] = x
PartsSymmetry ==
  {p \in Permutations({r1, r2, j1, j2, l1, l2, c1, c2}) :
     \/ \A x \in DOMAIN p : p[x] = x
     \/ Swap(r1, r2, p) /\ Swap(j1, j2, p) /\ Swap(l1, l2, p) /\ Swap(c1, c2, p)}
============================================================================
