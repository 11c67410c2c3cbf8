---------------------------- MODULE IdAllocation ----------------------------
(***************************************************************************)
(* CreateWithGeneratedID of the purchase and of the project service: an id *)
(* is a kind, a day and a number, and the number is today's count of rows  *)
(* plus one, recounted and moved on by one more each time the insert meets *)
(* an id that is taken, MaxIDAttempts times at most.                       *)
(*                                                                         *)
(* The count is one statement and the insert another; a row becomes        *)
(* visible, and its id taken, when its transaction commits (an insert of   *)
(* the same id waits until then), so the insert stands for the rest of the *)
(* transaction.  The day in the id is the one on which the request         *)
(* started; the date that is counted is the one of its first insert.       *)
(*                                                                         *)
(* Purchases are never removed.  A project whose stock or bookings could   *)
(* not be had is, and its id is then free again.                           *)
(***************************************************************************)
EXTENDS Integers, FiniteSets

CONSTANTS
  Request,         \* the handlers that may be running at the same time
  Service,         \* the services considered, each with a table of its own
  Kind,            \* the first letter of an id, of two types
  MaxIDAttempts,
  MaxCreations,    \* bound: requests handled
  LastDay          \* bound: the days that pass

ASSUME ServiceAssumption == Service \subseteq {"purchase", "project"}
ASSUME AttemptsAssumption == MaxIDAttempts \in Nat \ {0}
ASSUME BoundAssumption == MaxCreations \in Nat /\ LastDay \in Nat

VARIABLES
  service,   \* whose table this is
  today,
  rows,      \* the table: the id of each row, its date, and who created it
  req,       \* the running handlers
  started    \* requests accepted so far, which also numbers the creations

vars == <<service, today, rows, req, started>>

Id  == [kind : Kind, day : Nat, number : Nat]
Row == [id : Id, date : Nat, by : Nat]

(* alone: no other request has inserted or removed a row since this one    *)
(* started.  Read by no guard.                                             *)
Idle == [pc |-> "idle"]
Handler == {Idle} \cup [pc : {"count", "insert", "effects", "remove", "exhausted"},
                        by : Nat, kind : Kind, day : Nat, date : Nat,
                        attempt : Nat, number : Nat, alone : BOOLEAN]

Init ==
  /\ service \in Service
  /\ today = 0
  /\ rows = {}
  /\ req = [r \in Request |-> Idle]
  /\ started = 0

-----------------------------------------------------------------------------

Dated(d) == {row \in rows : row.date = d}

IdOf(h) == [kind |-> h.kind, day |-> h.day, number |-> h.number]
RowOf(h, date) == [id |-> IdOf(h), date |-> date, by |-> h.by]

Taken(id) == \E row \in rows : row.id = id

(* The table has changed under the other handlers.                         *)
Become(r, h) == req' = [req EXCEPT ![r] = h]

Disturb(r, h) ==
  req' = [s \in Request |->
            IF s = r THEN h
            ELSE IF req[s].pc = "idle" THEN Idle ELSE [req[s] EXCEPT !.alone = FALSE]]

-----------------------------------------------------------------------------
(* Slips: definitions of this module as a careless change to the code would *)
(* leave them.  None is part of the specification; each breaks a property.  *)

(* the row saved under its id, taken or not, as Java did *)
InsertOrSave(r) ==
  /\ req[r].pc = "insert"
  /\ rows' = {row \in rows : row.id # IdOf(req[r])} \cup {RowOf(req[r], today)}
  /\ Disturb(r, IF service = "project" THEN [req[r] EXCEPT !.pc = "effects"] ELSE Idle)
  /\ UNCHANGED <<service, today, started>>

(* a purchase removed again when its supplier cannot be told *)
InsertUndoable(r) ==
  /\ req[r].pc = "insert"
  /\ ~Taken(IdOf(req[r]))
  /\ rows' = rows \cup {RowOf(req[r], today)}
  /\ Disturb(r, [req[r] EXCEPT !.pc = "effects"])
  /\ UNCHANGED <<service, today, started>>

-----------------------------------------------------------------------------
(* The number to try: today's count is read again for every attempt.       *)
NumberFor(h) == Cardinality(Dated(h.day)) + 1 + h.attempt

(* A row is dated when its first insert is tried.                          *)
DateOf(h) == IF h.attempt = 0 THEN today ELSE h.date

CreateWithGeneratedID(r, kind) ==
  /\ req[r].pc = "idle"
  /\ started < MaxCreations
  /\ started' = started + 1
  /\ Become(r, [pc |-> "count", by |-> started, kind |-> kind, day |-> today,
                date |-> today, attempt |-> 0, number |-> 0, alone |-> TRUE])
  /\ UNCHANGED <<service, today, rows>>

CountToday(r) ==
  /\ req[r].pc = "count"
  /\ Become(r, [req[r] EXCEPT !.pc = "insert", !.number = NumberFor(req[r])])
  /\ UNCHANGED <<service, today, rows, started>>

(* Only a project goes on, to take its stock and book its vehicles.  An id *)
(* that is taken is refused by the primary key.                            *)
Insert(r) ==
  /\ req[r].pc = "insert"
  /\ ~Taken(IdOf(req[r]))
  /\ rows' = rows \cup {RowOf(req[r], DateOf(req[r]))}
  /\ Disturb(r, IF service = "project" THEN [req[r] EXCEPT !.pc = "effects"] ELSE Idle)
  /\ UNCHANGED <<service, today, started>>

Collide(r) ==
  /\ req[r].pc = "insert"
  /\ Taken(IdOf(req[r]))
  /\ LET next == req[r].attempt + 1
     IN Become(r, [req[r] EXCEPT !.pc = IF next < MaxIDAttempts THEN "count" ELSE "exhausted",
                                 !.date = DateOf(req[r]), !.attempt = next])
  /\ UNCHANGED <<service, today, rows, started>>

(* The creation is answered, with an error if it is exhausted or fails for *)
(* another reason, and a project stays if it cannot be removed.            *)
Answer(r) ==
  /\ req[r].pc # "idle"
  /\ Become(r, Idle)
  /\ UNCHANGED <<service, today, rows, started>>

EffectsFail(r) ==
  /\ req[r].pc = "effects"
  /\ Become(r, [req[r] EXCEPT !.pc = "remove"])
  /\ UNCHANGED <<service, today, rows, started>>

Delete(r) ==
  /\ req[r].pc = "remove"
  /\ rows' = {row \in rows : row.id # IdOf(req[r])}
  /\ Disturb(r, Idle)
  /\ UNCHANGED <<service, today, started>>

Midnight ==
  /\ today < LastDay
  /\ today' = today + 1
  /\ UNCHANGED <<service, rows, req, started>>

Next ==
  \/ \E r \in Request :
       \/ \E kind \in Kind : CreateWithGeneratedID(r, kind)
       \/ CountToday(r) \/ Insert(r) \/ Collide(r) \/ Answer(r)
       \/ EffectsFail(r) \/ Delete(r)
  \/ Midnight

Spec == Init /\ [][Next]_vars

-----------------------------------------------------------------------------
(* Properties.                                                             *)

TypeOK ==
  /\ service \in Service
  /\ today \in Nat
  /\ rows \subseteq Row /\ IsFiniteSet(rows)
  /\ req \in [Request -> Handler]
  /\ started \in Nat

(* CreateWithGeneratedID: no creation overwrites the row of another, and a *)
(* project removed again takes no row with it but its own: a handler past  *)
(* its insert finds the row it created under its id, which it shares with  *)
(* no other.                                                               *)
OwnRow ==
  /\ \A row, other \in rows : row.id = other.id => row = other
  /\ \A r \in Request : req[r].pc \in {"effects", "remove"} =>
       \E row \in rows : row.id = IdOf(req[r]) /\ row.by = req[r].by

(* maxIDAttempts: a creation of a purchase fails for want of an id only if *)
(* another one was inserted while it ran.  Numbers may be ahead of the     *)
(* count, by those that lost a race and moved on, but never by so many     *)
(* that the attempts cannot pass them.                                     *)
AloneSucceeds ==
  service = "purchase" =>
    \A r \in Request : req[r].pc = "exhausted" => ~req[r].alone

(* "maxIDAttempts bounds the retry below": a creation comes closer to its   *)
(* answer with every statement, however often it has met an id that was     *)
(* taken, and nobody sets it back: it makes 2 * MaxIDAttempts + 2 at most.  *)
ToDo(h) ==
  CASE h.pc = "count"   -> 2 * (MaxIDAttempts - h.attempt) + 2
    [] h.pc = "insert"  -> 2 * (MaxIDAttempts - h.attempt) + 1
    [] h.pc = "effects" -> 2
    [] h.pc \in {"remove", "exhausted"} -> 1
    [] OTHER            -> 0

GoesOn(r) ==
  CountToday(r) \/ Insert(r) \/ Collide(r) \/ Answer(r) \/ EffectsFail(r) \/ Delete(r)

CreationsEnd ==
  [][\A r \in Request :
       /\ GoesOn(r) => ToDo(req'[r]) \in 0..(ToDo(req[r]) - 1)
       /\ req[r].pc # "idle" => ToDo(req'[r]) <= ToDo(req[r])]_vars

-----------------------------------------------------------------------------
(* Why: a number exceeds the count it was made from by the attempts, and    *)
(* counts of a day only grow.  An id whose day is over is a matter of those *)
(* that started on that day, and then each of them disturbs the others.     *)

Within(d) ==
  \A row \in rows : row.id.day = d =>
    row.id.number < Cardinality(Dated(d)) + MaxIDAttempts

(* The number to try is at most the one today's count would give, and that  *)
(* very one as long as nobody else has inserted.                           *)
Numbered(h) ==
  /\ h.attempt <= MaxIDAttempts
  /\ h.pc = "insert" => h.number <= Cardinality(Dated(h.day)) + 1 + h.attempt
  /\ h.pc \in {"count", "insert"} => h.attempt < MaxIDAttempts
  /\ h.alone /\ h.pc = "insert" => h.number = NumberFor(h)

InOrder ==
  /\ \A row \in rows : row.id.day <= row.date /\ row.date <= today
  /\ \A r \in Request : req[r].pc # "idle" =>
       req[r].day <= req[r].date /\ req[r].date <= today

CountInv ==
  service = "purchase" =>
    /\ Within(today)
    /\ \A r \in Request : req[r].pc # "idle" =>
         /\ req[r].pc \notin {"effects", "remove"}
         /\ Numbered(req[r])
         /\ req[r].alone => Within(req[r].day)
         /\ req[r].pc = "exhausted" => ~req[r].alone

RowsInv ==
  /\ OwnRow
  /\ \A r \in Request : req[r].pc # "idle" => req[r].by < started
  /\ \A r, s \in Request :
       req[r].pc # "idle" /\ req[s].pc # "idle" /\ req[r].by = req[s].by => r = s

IInv == TypeOK /\ InOrder /\ CountInv /\ RowsInv

=============================================================================
