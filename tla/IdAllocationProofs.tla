------------------------- MODULE IdAllocationProofs -------------------------
(***************************************************************************)
(* Proofs about IdAllocation, for any number of requests, kinds, days and  *)
(* attempts: IInv is inductive, so no creation overwrites another's row,   *)
(* and a purchase nobody races with always gets an id.                     *)
(***************************************************************************)
EXTENDS IdAllocation, FiniteSetTheorems, TLAPS

Busy(h) == h.pc # "idle"

(* What a running handler is made of. *)
LEMMA HandlerOf ==
  ASSUME NEW h \in Handler, Busy(h)
  PROVE  /\ h.pc \in {"count", "insert", "effects", "remove", "exhausted"}
         /\ h.by \in Nat /\ h.kind \in Kind /\ h.day \in Nat /\ h.date \in Nat
         /\ h.attempt \in Nat /\ h.number \in Nat /\ h.alone \in BOOLEAN
         /\ IdOf(h) \in Id
BY DEF Handler, Idle, Busy, IdOf, Id

(* The count of a day is a number. *)
LEMMA CountType ==
  ASSUME IsFiniteSet(rows), NEW d
  PROVE  IsFiniteSet(Dated(d)) /\ Cardinality(Dated(d)) \in Nat
<1>1. Dated(d) \in SUBSET rows  BY DEF Dated
<1>2. IsFiniteSet(Dated(d))  BY <1>1, FS_Subset
<1>. QED  BY <1>2, FS_CardinalityType

(* A new row adds one to the count of its date, and leaves the others. *)
LEMMA CountInsert ==
  ASSUME IsFiniteSet(rows), NEW row, row \notin rows, rows' = rows \cup {row}, NEW d
  PROVE  /\ Cardinality(Dated(d)') =
              IF row.date = d THEN Cardinality(Dated(d)) + 1 ELSE Cardinality(Dated(d))
         /\ Cardinality(Dated(d)) \in Nat
<1>1. IsFiniteSet(Dated(d)) /\ Cardinality(Dated(d)) \in Nat  BY CountType
<1>2. row \notin Dated(d)  BY DEF Dated
<1>3. CASE row.date = d
  <2>1. Dated(d)' = Dated(d) \cup {row}  BY <1>3 DEF Dated
  <2>. QED  BY <1>1, <1>2, <1>3, <2>1, FS_AddElement
<1>4. CASE row.date # d
  <2>1. Dated(d)' = Dated(d)  BY <1>4 DEF Dated
  <2>. QED  BY <1>1, <1>4, <2>1
<1>. QED  BY <1>3, <1>4

(* Taking a step, for the handler itself. *)
LEMMA BecomeType ==
  ASSUME TypeOK, NEW r \in Request, NEW h \in Handler, Become(r, h)
  PROVE  /\ req' \in [Request -> Handler]
         /\ req'[r] = h
         /\ \A s \in Request \ {r} : req'[s] = req[s]
BY DEF TypeOK, Become

(* Taking a step that changes the table: nobody else is alone any more. *)
LEMMA DisturbType ==
  ASSUME TypeOK, NEW r \in Request, NEW h \in Handler, Disturb(r, h)
  PROVE  /\ req' \in [Request -> Handler]
         /\ req'[r] = h
         /\ \A s \in Request \ {r} :
              /\ req'[s].pc = req[s].pc
              /\ Busy(req[s]) => /\ req'[s] = [req[s] EXCEPT !.alone = FALSE]
                                 /\ req'[s].alone = FALSE
                                 /\ req'[s].by = req[s].by
                                 /\ req'[s].day = req[s].day
                                 /\ req'[s].date = req[s].date
                                 /\ req'[s].attempt = req[s].attempt
                                 /\ req'[s].number = req[s].number
                                 /\ IdOf(req'[s]) = IdOf(req[s])
<1>. DEFINE Unalone(g) == [g EXCEPT !.alone = FALSE]
<1>1. ASSUME NEW g \in Handler, Busy(g)
      PROVE  /\ Unalone(g) \in Handler
             /\ Unalone(g).alone = FALSE /\ Unalone(g).pc = g.pc /\ Unalone(g).by = g.by
             /\ Unalone(g).day = g.day /\ Unalone(g).date = g.date
             /\ Unalone(g).attempt = g.attempt /\ Unalone(g).number = g.number
             /\ Unalone(g).kind = g.kind
  <2>1. g \in [pc : {"count", "insert", "effects", "remove", "exhausted"},
               by : Nat, kind : Kind, day : Nat, date : Nat,
               attempt : Nat, number : Nat, alone : BOOLEAN]
    BY <1>1 DEF Handler, Idle, Busy
  <2>. QED  BY <2>1 DEF Handler
<1>2. Idle \in Handler /\ Idle.pc = "idle"  BY DEF Handler, Idle
<1>3. \A s \in Request : req'[s] = IF s = r THEN h
        ELSE IF ~Busy(req[s]) THEN Idle ELSE Unalone(req[s])
  BY DEF Disturb, Busy
<1>4. \A s \in Request : req[s] \in Handler  BY DEF TypeOK
<1>5. req' \in [Request -> Handler]
  <2>1. \A s \in Request : req'[s] \in Handler  BY <1>1, <1>2, <1>3, <1>4
  <2>2. req' = [s \in Request |-> req'[s]]  BY DEF Disturb
  <2>. QED  BY <2>1, <2>2
<1>6. req'[r] = h  BY <1>3
<1>7. ASSUME NEW s \in Request \ {r}, Busy(req[s])
      PROVE  req'[s] = Unalone(req[s])
  BY <1>3, <1>7
<1>8. ASSUME NEW s \in Request \ {r}
      PROVE  req'[s].pc = req[s].pc
  BY <1>1, <1>2, <1>3, <1>4, <1>7 DEF Busy
<1>. QED
  <2>. SUFFICES ASSUME NEW s \in Request \ {r}, Busy(req[s])
                PROVE  /\ req'[s] = Unalone(req[s])
                       /\ req'[s].alone = FALSE
                       /\ req'[s].by = req[s].by
                       /\ req'[s].day = req[s].day
                       /\ req'[s].date = req[s].date
                       /\ req'[s].attempt = req[s].attempt
                       /\ req'[s].number = req[s].number
                       /\ req'[s].kind = req[s].kind
    BY <1>5, <1>6, <1>8 DEF IdOf
  <2>1. req'[s] = Unalone(req[s])  BY <1>7
  <2>. QED  BY <2>1, <1>1, <1>4

-----------------------------------------------------------------------------
(* What IInv asks of one running handler. *)
Fits(h) ==
  Busy(h) =>
    /\ h.day <= h.date /\ h.date <= today
    /\ h.by < started
    /\ h.pc \in {"effects", "remove"} =>
         \E row \in rows : row.id = IdOf(h) /\ row.by = h.by
    /\ service = "purchase" =>
         /\ h.pc \notin {"effects", "remove"}
         /\ Numbered(h)
         /\ h.alone => Within(h.day)
         /\ h.pc = "exhausted" => ~h.alone

(* What it asks of the table. *)
TableFits ==
  /\ \A row, other \in rows : row.id = other.id => row = other
  /\ \A row \in rows : row.id.day <= row.date /\ row.date <= today
  /\ service = "purchase" => Within(today)

Distinct ==
  \A r, s \in Request : Busy(req[r]) /\ Busy(req[s]) /\ req[r].by = req[s].by => r = s

AllFit == \A r \in Request : Fits(req[r])

(* IInv, handler by handler: the form in which it is proved. *)
Parts == TypeOK /\ TableFits /\ Distinct /\ AllFit

LEMMA IInvParts == IInv <=> Parts
<1>1. IInv => Parts
  <2>. SUFFICES ASSUME IInv  PROVE Parts
    OBVIOUS
  <2>1. TypeOK /\ TableFits /\ Distinct
    BY DEF IInv, InOrder, CountInv, RowsInv, OwnRow, TableFits, Distinct, Busy
  <2>2. ASSUME NEW r \in Request  PROVE Fits(req[r])
    <3>. SUFFICES ASSUME Busy(req[r])  PROVE Fits(req[r])
      BY DEF Fits
    <3>. DEFINE h == req[r]
    <3>1. h.pc \in {"effects", "remove"} => \E row \in rows : row.id = IdOf(h) /\ row.by = h.by
      BY DEF IInv, RowsInv, OwnRow
    <3>2. h.day <= h.date /\ h.date <= today /\ h.by < started
      BY DEF IInv, InOrder, RowsInv, Busy
    <3>3. service = "purchase" =>
            /\ h.pc \notin {"effects", "remove"} /\ Numbered(h)
            /\ h.alone => Within(h.day)
            /\ h.pc = "exhausted" => ~h.alone
      BY DEF IInv, CountInv, Busy
    <3>. QED  BY <3>1, <3>2, <3>3 DEF Fits
  <2>. QED  BY <2>1, <2>2 DEF Parts, AllFit
<1>2. Parts => IInv
  <2>. SUFFICES ASSUME TypeOK, TableFits, Distinct, \A r \in Request : Fits(req[r])
                PROVE  IInv
    BY DEF Parts, AllFit
  <2>1. InOrder  BY DEF InOrder, Fits, TableFits, Busy
  <2>2. CountInv  BY DEF CountInv, Fits, TableFits, Busy
  <2>3. OwnRow
    <3>1. ASSUME NEW r \in Request, req[r].pc \in {"effects", "remove"}
          PROVE  \E row \in rows : row.id = IdOf(req[r]) /\ row.by = req[r].by
      <4>1. Busy(req[r]) /\ Fits(req[r])  BY <3>1 DEF Busy
      <4>. QED  BY <3>1, <4>1 DEF Fits
    <3>. QED  BY <3>1 DEF OwnRow, TableFits
  <2>4. RowsInv  BY <2>3 DEF RowsInv, Fits, Distinct, Busy
  <2>. QED  BY <2>1, <2>2, <2>4 DEF IInv
<1>. QED  BY <1>1, <1>2

LEMMA InitParts == Init => Parts
<1>. SUFFICES ASSUME Init  PROVE Parts
  OBVIOUS
<1>1. TypeOK  BY FS_EmptySet DEF Init, TypeOK, Handler
<1>2. TableFits  BY DEF Init, TableFits, Within
<1>3. Distinct /\ \A r \in Request : Fits(req[r])  BY DEF Init, Idle, Distinct, Fits, Busy
<1>. QED  BY <1>1, <1>2, <1>3 DEF Parts, AllFit

(* A handler that goes on without touching the table. *)
LEMMA QuietStep ==
  ASSUME Parts, NEW r \in Request, NEW h \in Handler, Become(r, h),
         UNCHANGED <<service, today, rows>>,
         started' \in Nat, started' >= started,
         Fits(h)',
         Busy(h) => \A s \in Request \ {r} : Busy(req[s]) => req[s].by # h.by
  PROVE  Parts'
<1>0. TypeOK /\ TableFits /\ Distinct /\ \A s \in Request : Fits(req[s])
  BY DEF Parts, AllFit
<1>1. /\ req' \in [Request -> Handler] /\ req'[r] = h
      /\ \A s \in Request \ {r} : req'[s] = req[s]
  BY <1>0, BecomeType
<1>2. TypeOK'  BY <1>0, <1>1 DEF TypeOK
<1>3. TableFits'  BY <1>0 DEF TableFits, Within, Dated
<1>4. Distinct'
  <2>. SUFFICES ASSUME NEW a \in Request, NEW b \in Request, Busy(req'[a]), Busy(req'[b]),
                       req'[a].by = req'[b].by
                PROVE  a = b
    BY DEF Distinct, Busy
  <2>1. CASE a # r /\ b # r  BY <1>0, <1>1, <2>1 DEF Distinct
  <2>2. CASE a = r \/ b = r  BY <1>1, <2>2
  <2>. QED  BY <2>1, <2>2
<1>5. ASSUME NEW s \in Request  PROVE Fits(req[s])'
  <2>1. CASE s = r  BY <1>1, <2>1
  <2>2. CASE s # r
    <3>1. req'[s] = req[s] /\ Fits(req[s])  BY <1>0, <1>1, <2>2
    <3>2. Busy(req[s]) => req[s].by \in Nat  BY <1>0, HandlerOf DEF TypeOK
    <3>. QED  BY <1>0, <3>1, <3>2 DEF Fits, Busy, Numbered, NumberFor, Within, Dated, IdOf, TypeOK
  <2>. QED  BY <2>1, <2>2
<1>. QED  BY <1>2, <1>3, <1>4, <1>5 DEF Parts, AllFit

LEMMA StartInv ==
  ASSUME Parts, NEW r \in Request, NEW kind \in Kind, CreateWithGeneratedID(r, kind)
  PROVE  Parts'
<1>0. PICK h : h = [pc |-> "count", by |-> started, kind |-> kind, day |-> today,
                    date |-> today, attempt |-> 0, number |-> 0, alone |-> TRUE]
  OBVIOUS
<1>1. /\ Become(r, h) /\ started' = started + 1 /\ UNCHANGED <<service, today, rows>>
      /\ started \in Nat /\ today \in Nat
  BY <1>0 DEF CreateWithGeneratedID, Parts, TypeOK
<1>2. h \in Handler  BY <1>0, <1>1 DEF Handler
<1>3. Fits(h)'
  <2>1. service = "purchase" => Within(today)'
    BY <1>1 DEF Parts, TableFits, Within, Dated
  <2>. QED  BY <1>0, <1>1, <2>1, AttemptsAssumption DEF Fits, Busy, Numbered, Within, Dated
<1>4. \A s \in Request \ {r} : Busy(req[s]) => req[s].by # h.by
  <2>. SUFFICES ASSUME NEW s \in Request \ {r}, Busy(req[s])  PROVE req[s].by # started
    BY <1>0
  <2>1. req[s].by \in Nat /\ req[s].by < started
    BY HandlerOf DEF Parts, AllFit, Fits, TypeOK
  <2>. QED  BY <1>1, <2>1
<1>. QED  BY <1>1, <1>2, <1>3, <1>4, QuietStep

(* A handler that goes on as the same creation. *)
LEMMA SameStep ==
  ASSUME Parts, NEW r \in Request, NEW h \in Handler, Become(r, h),
         UNCHANGED <<service, today, rows, started>>, Fits(h)',
         Busy(h) => Busy(req[r]) /\ h.by = req[r].by
  PROVE  Parts'
<1>1. Busy(h) => \A s \in Request \ {r} : Busy(req[s]) => req[s].by # h.by
  BY DEF Parts, Distinct
<1>2. started' \in Nat /\ started' >= started  BY DEF Parts, TypeOK
<1>. QED  BY <1>1, <1>2, QuietStep

LEMMA CountTodayInv ==
  ASSUME Parts, NEW r \in Request, CountToday(r)
  PROVE  Parts'
<1>a. PICK g : g = req[r]  OBVIOUS
<1>b. PICK h : h = [g EXCEPT !.pc = "insert", !.number = NumberFor(g)]  OBVIOUS
<1>1. /\ Become(r, h) /\ UNCHANGED <<service, today, rows, started>>
      /\ g.pc = "count" /\ Busy(g) /\ g \in Handler /\ Fits(g)
  BY <1>a, <1>b DEF CountToday, Busy, Parts, AllFit, TypeOK
<1>2. g.attempt \in Nat /\ g.by \in Nat /\ g.alone \in BOOLEAN  BY <1>1, HandlerOf
<1>3. Cardinality(Dated(g.day)) \in Nat  BY CountType DEF Parts, TypeOK
<1>4. NumberFor(g) \in Nat  BY <1>2, <1>3 DEF NumberFor
<1>5. g \in [pc : {"count", "insert", "effects", "remove", "exhausted"},
             by : Nat, kind : Kind, day : Nat, date : Nat,
             attempt : Nat, number : Nat, alone : BOOLEAN]
  BY <1>1 DEF Handler, Idle, Busy
<1>6. h \in Handler /\ Busy(h)  BY <1>b, <1>4, <1>5 DEF Handler, Busy
<1>7. /\ h.pc = "insert" /\ h.number = NumberFor(g) /\ h.by = g.by /\ h.day = g.day
      /\ h.date = g.date /\ h.attempt = g.attempt /\ h.alone = g.alone
      /\ NumberFor(h) = NumberFor(g)
  BY <1>b, <1>5 DEF NumberFor
<1>8. Fits(h)'
  <2>1. h.day <= h.date /\ h.date <= today /\ h.by < started
    BY <1>1, <1>7 DEF Fits
  <2>2. ASSUME service = "purchase"
        PROVE  Numbered(h) /\ (h.alone => Within(h.day))
    <3>1. Numbered(g) /\ (g.alone => Within(g.day))  BY <1>1, <2>2 DEF Fits
    <3>2. g.attempt < MaxIDAttempts  BY <1>1, <3>1 DEF Numbered
    <3>3. h.number <= Cardinality(Dated(h.day)) + 1 + h.attempt
      BY <1>2, <1>3, <1>4, <1>7 DEF NumberFor
    <3>. QED  BY <1>7, <3>1, <3>2, <3>3 DEF Numbered
  <2>3. Fits(h)  BY <1>7, <2>1, <2>2 DEF Fits
  <2>. QED  BY <1>1, <2>3 DEF Fits, Numbered, NumberFor, Within, Dated, IdOf
<1>. QED  BY <1>a, <1>1, <1>6, <1>7, <1>8, SameStep

(* The number of a creation nobody disturbed is taken only if it is not     *)
(* the last that may be tried.                                             *)
LEMMA CollideInv ==
  ASSUME Parts, NEW r \in Request, Collide(r)
  PROVE  Parts'
<1>a. PICK g : g = req[r]  OBVIOUS
<1>b. PICK h : h = [g EXCEPT !.pc = IF g.attempt + 1 < MaxIDAttempts THEN "count" ELSE "exhausted",
                             !.date = DateOf(g), !.attempt = g.attempt + 1]
  OBVIOUS
<1>1. /\ Become(r, h) /\ UNCHANGED <<service, today, rows, started>>
      /\ g.pc = "insert" /\ Busy(g) /\ g \in Handler /\ Fits(g) /\ Taken(IdOf(g))
      /\ today \in Nat
  BY <1>a, <1>b DEF Collide, Busy, Parts, AllFit, TypeOK
<1>2. /\ g.attempt \in Nat /\ g.by \in Nat /\ g.alone \in BOOLEAN /\ g.day \in Nat
      /\ g.date \in Nat
  BY <1>1, HandlerOf
<1>3. Cardinality(Dated(g.day)) \in Nat  BY CountType DEF Parts, TypeOK
<1>4. DateOf(g) \in Nat /\ g.day <= DateOf(g) /\ DateOf(g) <= today
  BY <1>1, <1>2 DEF DateOf, Fits
<1>5. g \in [pc : {"count", "insert", "effects", "remove", "exhausted"},
             by : Nat, kind : Kind, day : Nat, date : Nat,
             attempt : Nat, number : Nat, alone : BOOLEAN]
  BY <1>1 DEF Handler, Idle, Busy
<1>6. /\ h.pc = IF g.attempt + 1 < MaxIDAttempts THEN "count" ELSE "exhausted"
      /\ h.number = g.number /\ h.by = g.by /\ h.day = g.day
      /\ h.date = DateOf(g) /\ h.attempt = g.attempt + 1 /\ h.alone = g.alone
  BY <1>b, <1>5
<1>7. h \in Handler /\ Busy(h)
  <2>1. h.pc \in {"count", "exhausted"}  BY <1>6
  <2>2. h.date \in Nat /\ h.attempt \in Nat  BY <1>2, <1>4, <1>6
  <2>3. h \in [pc : {"count", "insert", "effects", "remove", "exhausted"},
               by : Nat, kind : Kind, day : Nat, date : Nat,
               attempt : Nat, number : Nat, alone : BOOLEAN]
    BY <1>b, <1>5, <2>1, <2>2
  <2>. QED  BY <2>1, <2>3 DEF Handler, Busy
<1>8. ASSUME service = "purchase"
      PROVE  /\ Numbered(h) /\ (h.alone => Within(h.day))
             /\ h.pc = "exhausted" => ~h.alone
  <2>1. Numbered(g) /\ (g.alone => Within(g.day))  BY <1>1, <1>8 DEF Fits
  <2>2. g.attempt < MaxIDAttempts  BY <1>1, <2>1 DEF Numbered
  <2>3. ASSUME g.alone  PROVE g.attempt + 1 < MaxIDAttempts
    <3>1. PICK row \in rows : row.id = IdOf(g)  BY <1>1 DEF Taken
    <3>2. row.id.day = g.day /\ row.id.number = g.number  BY <3>1 DEF IdOf
    <3>3. g.number < Cardinality(Dated(g.day)) + MaxIDAttempts
      BY <2>1, <2>3, <3>1, <3>2 DEF Within
    <3>4. g.number = Cardinality(Dated(g.day)) + 1 + g.attempt
      BY <1>1, <2>1, <2>3 DEF Numbered, NumberFor
    <3>. QED  BY <1>2, <1>3, <3>3, <3>4, AttemptsAssumption
  <2>4. Numbered(h)  BY <1>2, <1>6, <2>2, AttemptsAssumption DEF Numbered
  <2>. QED  BY <1>6, <2>1, <2>3, <2>4
<1>9. Fits(h)'
  <2>1. Fits(h)  BY <1>1, <1>4, <1>6, <1>8 DEF Fits
  <2>. QED  BY <1>1, <2>1 DEF Fits, Numbered, NumberFor, Within, Dated, IdOf
<1>. QED  BY <1>a, <1>1, <1>6, <1>7, <1>9, SameStep

LEMMA AnswerInv ==
  ASSUME Parts, NEW r \in Request, Answer(r)
  PROVE  Parts'
<1>1. Become(r, Idle) /\ UNCHANGED <<service, today, rows, started>>  BY DEF Answer
<1>2. Idle \in Handler /\ ~Busy(Idle) /\ Fits(Idle)'  BY DEF Handler, Idle, Busy, Fits
<1>. QED  BY <1>1, <1>2, SameStep

LEMMA EffectsFailInv ==
  ASSUME Parts, NEW r \in Request, EffectsFail(r)
  PROVE  Parts'
<1>a. PICK g : g = req[r]  OBVIOUS
<1>b. PICK h : h = [g EXCEPT !.pc = "remove"]  OBVIOUS
<1>1. /\ Become(r, h) /\ UNCHANGED <<service, today, rows, started>>
      /\ g.pc = "effects" /\ Busy(g) /\ g \in Handler /\ Fits(g)
  BY <1>a, <1>b DEF EffectsFail, Busy, Parts, AllFit, TypeOK
<1>2. g \in [pc : {"count", "insert", "effects", "remove", "exhausted"},
             by : Nat, kind : Kind, day : Nat, date : Nat,
             attempt : Nat, number : Nat, alone : BOOLEAN]
  BY <1>1 DEF Handler, Idle, Busy
<1>3. h \in Handler /\ Busy(h) /\ h.by = g.by  BY <1>b, <1>2 DEF Handler, Busy
<1>4. h.pc = "remove" /\ IdOf(h) = IdOf(g) /\ h.day = g.day /\ h.date = g.date
  BY <1>b, <1>2 DEF IdOf
<1>5. Fits(h)'  BY <1>1, <1>3, <1>4 DEF Fits, IdOf
<1>. QED  BY <1>a, <1>1, <1>3, <1>5, SameStep

LEMMA MidnightInv ==
  ASSUME Parts, Midnight
  PROVE  Parts'
<1>1. today' = today + 1 /\ today \in Nat /\ UNCHANGED <<service, rows, req, started>>
  BY DEF Midnight, Parts, TypeOK
<1>2. TypeOK' /\ Distinct'  BY <1>1 DEF Parts, TypeOK, Distinct
<1>3. TableFits'
  <2>1. \A row \in rows : /\ row.id.day \in Nat /\ row.date \in Nat
                           /\ row.id.day <= row.date /\ row.date <= today
    BY DEF Parts, TypeOK, TableFits, Row, Id
  <2>2. \A row \in rows : row.id.day # today' /\ row.date <= today'
    BY <1>1, <2>1
  <2>. QED  BY <1>1, <2>1, <2>2 DEF Parts, TableFits, Within
<1>4. ASSUME NEW s \in Request  PROVE Fits(req[s])'
  <2>1. Fits(req[s])  BY DEF Parts, AllFit
  <2>2. Busy(req[s]) => req[s].date \in Nat  BY HandlerOf DEF Parts, TypeOK
  <2>. QED  BY <1>1, <2>1, <2>2 DEF Fits, Busy, Numbered, NumberFor, Within, Dated, IdOf
<1>. QED  BY <1>2, <1>3, <1>4 DEF Parts, AllFit

(* After a change of the table, a handler that is not alone is held to     *)
(* little; what it still is held to is kept by a growing count.            *)
LEMMA DisturbedFits ==
  ASSUME Parts, NEW r \in Request, NEW k \in Handler, Disturb(r, k),
         UNCHANGED <<service, today, started>>,
         NEW s \in Request \ {r},
         service = "purchase" /\ Busy(req[s]) =>
           /\ Cardinality(Dated(req[s].day)) \in Nat
           /\ Cardinality(Dated(req[s].day))' \in Nat
           /\ Cardinality(Dated(req[s].day))' >= Cardinality(Dated(req[s].day)),
         Busy(req[s]) =>
           \A row \in rows : row.id = IdOf(req[s]) => row \in rows'
  PROVE  Fits(req[s])'
<1>a. PICK g : g = req[s]  OBVIOUS
<1>b. PICK h : h = req'[s]  OBVIOUS
<1>1. TypeOK /\ Fits(g) /\ g \in Handler  BY <1>a DEF Parts, AllFit, TypeOK
<1>2. CASE ~Busy(g)
  <2>1. ~Busy(h)  BY <1>a, <1>b, <1>1, <1>2, DisturbType DEF Busy
  <2>. QED  BY <1>b, <2>1 DEF Fits, Busy
<1>3. CASE Busy(g)
  <2>1. /\ h.pc = g.pc /\ h.alone = FALSE /\ h.by = g.by /\ h.day = g.day
        /\ h.date = g.date /\ h.attempt = g.attempt /\ h.number = g.number
        /\ IdOf(h) = IdOf(g)
    BY <1>a, <1>b, <1>1, <1>3, DisturbType
  <2>2. /\ g.day <= g.date /\ g.date <= today /\ g.by < started
        /\ g.pc \in {"effects", "remove"} =>
             \E row \in rows : row.id = IdOf(g) /\ row.by = g.by
    BY <1>1, <1>3 DEF Fits
  <2>3. g.pc \in {"effects", "remove"} =>
             \E row \in rows' : row.id = IdOf(h) /\ row.by = h.by
    BY <1>a, <1>3, <2>1, <2>2
  <2>4. ASSUME service = "purchase"
        PROVE  Numbered(h)' /\ g.pc \notin {"effects", "remove"}
    <3>1. Numbered(g) /\ g.pc \notin {"effects", "remove"}  BY <1>1, <1>3, <2>4 DEF Fits
    <3>2. g.attempt \in Nat /\ g.number \in Nat  BY <1>1, <1>3, HandlerOf
    <3>3. /\ Cardinality(Dated(g.day)) \in Nat /\ Cardinality(Dated(g.day)') \in Nat
          /\ Cardinality(Dated(g.day)') >= Cardinality(Dated(g.day))
      BY <1>a, <1>3, <2>1, <2>4, <1>b DEF Dated
    <3>4. h.pc = "insert" => h.number <= Cardinality(Dated(h.day)') + 1 + h.attempt
      BY <2>1, <3>1, <3>2, <3>3 DEF Numbered
    <3>. QED  BY <2>1, <3>1, <3>4 DEF Numbered
  <2>5. Fits(h)'  BY <2>1, <2>2, <2>3, <2>4 DEF Fits, Busy, IdOf
  <2>. QED  BY <1>b, <2>5 DEF Fits, Busy, Numbered, NumberFor, Within, Dated, IdOf
<1>. QED  BY <1>2, <1>3

(* Two handlers still run for two creations. *)
LEMMA DisturbedDistinct ==
  ASSUME Parts, NEW r \in Request, NEW k \in Handler, Disturb(r, k),
         Busy(k) => Busy(req[r]) /\ k.by = req[r].by
  PROVE  Distinct'
<1>. SUFFICES ASSUME NEW a \in Request, NEW b \in Request, Busy(req'[a]), Busy(req'[b]),
                     req'[a].by = req'[b].by
              PROVE  a = b
  BY DEF Distinct, Busy
<1>1. ASSUME NEW s \in Request, Busy(req'[s])
      PROVE  Busy(req[s]) /\ req'[s].by = req[s].by
  <2>1. CASE s = r  BY <1>1, <2>1, DisturbType DEF Parts
  <2>2. CASE s # r
    <3>1. req'[s].pc = req[s].pc  BY <2>2, DisturbType DEF Parts
    <3>. QED  BY <1>1, <2>2, <3>1, DisturbType DEF Parts, Busy
  <2>. QED  BY <2>1, <2>2
<1>. QED  BY <1>1 DEF Parts, Distinct

LEMMA InsertInv ==
  ASSUME Parts, NEW r \in Request, Insert(r)
  PROVE  Parts'
<1>a. PICK g : g = req[r]  OBVIOUS
<1>b. PICK k : k = IF service = "project" THEN [g EXCEPT !.pc = "effects"] ELSE Idle
  OBVIOUS
<1>c. PICK new : new = RowOf(g, DateOf(g))  OBVIOUS
<1>1. /\ Disturb(r, k) /\ UNCHANGED <<service, today, started>>
      /\ rows' = rows \cup {new} /\ ~Taken(IdOf(g))
      /\ g.pc = "insert" /\ Busy(g) /\ g \in Handler /\ Fits(g)
      /\ TypeOK /\ IsFiniteSet(rows) /\ today \in Nat
      /\ service = "purchase" \/ service = "project"
  BY <1>a, <1>b, <1>c, ServiceAssumption DEF Insert, Busy, Parts, AllFit, TypeOK
<1>2. /\ g.attempt \in Nat /\ g.by \in Nat /\ g.day \in Nat /\ g.date \in Nat
      /\ g.number \in Nat /\ IdOf(g) \in Id
  BY <1>1, HandlerOf
<1>3. new \in Row /\ new.id = IdOf(g) /\ new.by = g.by
      /\ new.id.day = g.day /\ new.id.number = g.number
      /\ new.id.day <= new.date /\ new.date <= today
  BY <1>c, <1>1, <1>2 DEF RowOf, IdOf, DateOf, Row, Fits
<1>4. new \notin rows  BY <1>1, <1>3 DEF Taken
<1>5. \A d : /\ Cardinality(Dated(d)) \in Nat /\ Cardinality(Dated(d)') \in Nat
             /\ Cardinality(Dated(d)') >= Cardinality(Dated(d))
             /\ new.date = d => Cardinality(Dated(d)') = Cardinality(Dated(d)) + 1
  <2>. SUFFICES ASSUME NEW d
                PROVE  /\ Cardinality(Dated(d)) \in Nat /\ Cardinality(Dated(d)') \in Nat
                       /\ Cardinality(Dated(d)') >= Cardinality(Dated(d))
                       /\ new.date = d => Cardinality(Dated(d)') = Cardinality(Dated(d)) + 1
    OBVIOUS
  <2>1. /\ Cardinality(Dated(d)') =
             IF new.date = d THEN Cardinality(Dated(d)) + 1 ELSE Cardinality(Dated(d))
        /\ Cardinality(Dated(d)) \in Nat
    BY <1>1, <1>4, CountInsert
  <2>. QED  BY <2>1
<1>6. k \in Handler /\ (Busy(k) => k.by = g.by /\ service = "project")
      /\ (Busy(k) => k.pc = "effects" /\ IdOf(k) = IdOf(g) /\ k.day = g.day /\ k.date = g.date)
  <2>1. g \in [pc : {"count", "insert", "effects", "remove", "exhausted"},
               by : Nat, kind : Kind, day : Nat, date : Nat,
               attempt : Nat, number : Nat, alone : BOOLEAN]
    BY <1>1 DEF Handler, Idle, Busy
  <2>2. CASE service = "project"
    <3>1. k = [g EXCEPT !.pc = "effects"]  BY <1>b, <2>2
    <3>. QED  BY <2>1, <2>2, <3>1 DEF Handler, IdOf
  <2>3. CASE service # "project"  BY <1>b, <2>3 DEF Handler, Idle, Busy
  <2>. QED  BY <2>2, <2>3
<1>7. TypeOK'
  <2>1. req' \in [Request -> Handler]  BY <1>1, <1>6, DisturbType
  <2>2. IsFiniteSet(rows')  BY <1>1, FS_AddElement
  <2>. QED  BY <1>1, <1>3, <2>1, <2>2 DEF TypeOK
<1>8. TableFits'
  <2>1. \A row, other \in rows' : row.id = other.id => row = other
    BY <1>1, <1>3 DEF Parts, TableFits, Taken
  <2>2. \A row \in rows' : row.id.day <= row.date /\ row.date <= today'
    BY <1>1, <1>3 DEF Parts, TableFits
  <2>3. ASSUME service = "purchase"  PROVE Within(today)'
    <3>. SUFFICES ASSUME NEW row \in rows', row.id.day = today
                  PROVE  row.id.number < Cardinality(Dated(today)') + MaxIDAttempts
      BY <1>1 DEF Within, Dated
    <3>0. /\ Cardinality(Dated(today)) \in Nat /\ Cardinality(Dated(today)') \in Nat
          /\ Cardinality(Dated(today)') >= Cardinality(Dated(today))
          /\ new.date = today => Cardinality(Dated(today)') = Cardinality(Dated(today)) + 1
      <4>1. PICK d : d = today  OBVIOUS
      <4>2. Dated(today)' = Dated(d)'  BY <1>1, <4>1 DEF Dated
      <4>. QED  BY <1>5, <4>1, <4>2
    <3>1. CASE row = new
      <4>1. g.day = today /\ new.date = today  BY <1>1, <1>2, <1>3, <3>1 DEF Row
      <4>2. Numbered(g)  BY <1>1, <2>3 DEF Fits
      <4>3. g.number <= Cardinality(Dated(today)) + 1 + g.attempt /\ g.attempt < MaxIDAttempts
        BY <1>1, <4>1, <4>2 DEF Numbered
      <4>4. Cardinality(Dated(today)') = Cardinality(Dated(today)) + 1
        BY <3>0, <4>1
      <4>. QED  BY <1>2, <1>3, <3>0, <3>1, <4>3, <4>4, AttemptsAssumption
    <3>2. CASE row \in rows
      <4>1. row.id.number < Cardinality(Dated(today)) + MaxIDAttempts
        BY <2>3, <3>2 DEF Parts, TableFits, Within
      <4>2. row.id.number \in Nat  BY <3>2 DEF Parts, TypeOK, Row, Id
      <4>. QED  BY <3>0, <4>1, <4>2, AttemptsAssumption
    <3>. QED  BY <1>1, <3>1, <3>2
  <2>. QED  BY <1>1, <2>1, <2>2, <2>3 DEF TableFits
<1>9. Distinct'  BY <1>a, <1>1, <1>6, DisturbedDistinct
<1>10. ASSUME NEW s \in Request  PROVE Fits(req[s])'
  <2>1. CASE s = r
    <3>1. req'[s] = k  BY <1>1, <1>6, <2>1, DisturbType
    <3>2. Busy(k) => \E row \in rows' : row.id = IdOf(k) /\ row.by = k.by
      BY <1>1, <1>3, <1>6
    <3>3. Fits(k)'  BY <1>1, <1>6, <3>2 DEF Fits, IdOf
    <3>. QED  BY <3>1, <3>3 DEF Fits, Busy, Numbered, NumberFor, Within, Dated, IdOf
  <2>2. CASE s # r
    <3>1. PICK d : d = req[s].day  OBVIOUS
    <3>2. Busy(req[s]) => req'[s].day = req[s].day  BY <1>1, <1>6, <2>2, DisturbType
    <3>3. Busy(req[s]) =>
           /\ Cardinality(Dated(req[s].day)) \in Nat
           /\ Cardinality(Dated(req[s].day))' \in Nat
           /\ Cardinality(Dated(req[s].day))' >= Cardinality(Dated(req[s].day))
      BY <1>5, <3>1, <3>2 DEF Dated
    <3>. QED  BY <1>1, <1>6, <2>2, <3>3, DisturbedFits
  <2>. QED  BY <2>1, <2>2
<1>. QED  BY <1>7, <1>8, <1>9, <1>10 DEF Parts, AllFit

(* Only the handler that created a project removes its row. *)
LEMMA DeleteInv ==
  ASSUME Parts, NEW r \in Request, Delete(r)
  PROVE  Parts'
<1>a. PICK g : g = req[r]  OBVIOUS
<1>1. /\ Disturb(r, Idle) /\ UNCHANGED <<service, today, started>>
      /\ rows' = {row \in rows : row.id # IdOf(g)}
      /\ g.pc = "remove" /\ Busy(g) /\ Fits(g) /\ TypeOK
  BY <1>a DEF Delete, Busy, Parts, AllFit
<1>2. Idle \in Handler /\ ~Busy(Idle)  BY DEF Handler, Idle, Busy
<1>3. service # "purchase"  BY <1>1 DEF Fits
<1>4. PICK own \in rows : own.id = IdOf(g) /\ own.by = g.by  BY <1>1 DEF Fits
<1>5. TypeOK'
  <2>1. req' \in [Request -> Handler]  BY <1>1, <1>2, DisturbType
  <2>2. rows' \in SUBSET rows  BY <1>1
  <2>3. IsFiniteSet(rows')  BY <1>1, <2>2, FS_Subset DEF TypeOK
  <2>. QED  BY <1>1, <2>1, <2>2, <2>3 DEF TypeOK
<1>6. TableFits'  BY <1>1, <1>3 DEF Parts, TableFits
<1>7. Distinct'  BY <1>1, <1>2, DisturbedDistinct
<1>8. ASSUME NEW s \in Request  PROVE Fits(req[s])'
  <2>1. CASE s = r
    <3>1. req'[s] = Idle  BY <1>1, <1>2, <2>1, DisturbType
    <3>. QED  BY <1>2, <3>1 DEF Fits, Busy
  <2>2. CASE s # r /\ req[s].pc \notin {"effects", "remove"}
    <3>1. PICK h : h = req'[s]  OBVIOUS
    <3>2. h.pc = req[s].pc  BY <1>1, <1>2, <2>2, <3>1, DisturbType
    <3>3. Busy(h) => h.by = req[s].by /\ h.day = req[s].day /\ h.date = req[s].date
      BY <1>1, <1>2, <2>2, <3>1, <3>2, DisturbType DEF Busy
    <3>4. Fits(req[s])  BY DEF Parts, AllFit
    <3>5. Fits(h)'  BY <1>1, <1>3, <2>2, <3>2, <3>3, <3>4 DEF Fits, Busy
    <3>. QED  BY <3>1, <3>5 DEF Fits, Busy, Numbered, NumberFor, Within, Dated, IdOf
  <2>3. CASE s # r /\ req[s].pc \in {"effects", "remove"}
    <3>1. Busy(req[s]) /\ Fits(req[s])  BY <2>3 DEF Busy, Parts, AllFit
    <3>2. PICK row \in rows : row.id = IdOf(req[s]) /\ row.by = req[s].by
      BY <2>3, <3>1 DEF Fits
    <3>3. req[s].by # g.by  BY <1>a, <1>1, <2>3, <3>1 DEF Parts, Distinct
    <3>4. IdOf(req[s]) # IdOf(g)
      BY <1>4, <3>2, <3>3 DEF Parts, TableFits
    <3>. QED  BY <1>1, <1>2, <1>3, <2>3, <3>4, DisturbedFits
  <2>. QED  BY <2>1, <2>2, <2>3
<1>. QED  BY <1>5, <1>6, <1>7, <1>8 DEF Parts, AllFit

LEMMA NextParts == Parts /\ [Next]_vars => Parts'
<1>. SUFFICES ASSUME Parts, [Next]_vars  PROVE Parts'
  OBVIOUS
<1>1. CASE UNCHANGED vars
  BY <1>1 DEF vars, Parts, TypeOK, TableFits, Distinct, AllFit, Fits, Busy,
              Numbered, NumberFor, Within, Dated, IdOf
<1>2. ASSUME NEW r \in Request, NEW kind \in Kind, CreateWithGeneratedID(r, kind)
      PROVE  Parts'
  BY <1>2, StartInv
<1>3. ASSUME NEW r \in Request,
             CountToday(r) \/ Insert(r) \/ Collide(r) \/ Answer(r) \/ EffectsFail(r) \/ Delete(r)
      PROVE  Parts'
  BY <1>3, CountTodayInv, InsertInv, CollideInv, AnswerInv, EffectsFailInv, DeleteInv
<1>4. CASE Midnight  BY <1>4, MidnightInv
<1>. QED  BY <1>1, <1>2, <1>3, <1>4 DEF Next

-----------------------------------------------------------------------------
(* IInv holds in every reachable state, whatever the number of requests.   *)
THEOREM Inductive == Spec => []IInv
<1>1. Spec => []Parts  BY InitParts, NextParts, PTL DEF Spec
<1>. QED  BY <1>1, IInvParts, PTL

(* CreateWithGeneratedID, here and in the project service: no creation     *)
(* overwrites another's row, and no removal takes another's with it.       *)
THEOREM RowsAreOwn == Spec => []OwnRow
<1>1. IInv => OwnRow  BY DEF IInv, RowsInv
<1>. QED  BY <1>1, Inductive, PTL

(* maxIDAttempts: a creation of a purchase that no other one disturbs gets *)
(* an id, whatever races there were before it.                             *)
THEOREM AloneGetsAnId == Spec => []AloneSucceeds
<1>1. IInv => AloneSucceeds  BY DEF IInv, CountInv, AloneSucceeds
<1>. QED  BY <1>1, Inductive, PTL

-----------------------------------------------------------------------------
(* Every creation comes to an end.  The attempts are counted in both        *)
(* services, so what bounds them holds of projects too.                    *)
Counted(h) == h.pc \in {"count", "insert"} => h.attempt < MaxIDAttempts

AttemptInv == \A r \in Request : Counted(req[r])

LEMMA ToDoIs ==
  ASSUME NEW h \in Handler, Counted(h)
  PROVE  /\ ToDo(h) \in Nat
         /\ Busy(h) => ToDo(h) >= 1
         /\ ~Busy(h) => ToDo(h) = 0
         /\ h.pc = "count" => ToDo(h) = 2 * (MaxIDAttempts - h.attempt) + 2
         /\ h.pc = "insert" => ToDo(h) = 2 * (MaxIDAttempts - h.attempt) + 1
         /\ h.pc = "effects" => ToDo(h) = 2
         /\ h.pc \in {"remove", "exhausted"} => ToDo(h) = 1
<1>1. CASE ~Busy(h)  BY <1>1 DEF Busy, ToDo
<1>2. CASE Busy(h)
  <2>1. h.attempt \in Nat /\ h.pc \in {"count", "insert", "effects", "remove", "exhausted"}
    BY <1>2, HandlerOf
  <2>2. CASE h.pc \in {"count", "insert"}
    <3>1. h.attempt < MaxIDAttempts  BY <2>2 DEF Counted
    <3>. QED  BY <2>1, <2>2, <3>1, AttemptsAssumption DEF ToDo, Busy
  <2>3. CASE h.pc \in {"effects", "remove", "exhausted"}  BY <2>3 DEF ToDo, Busy
  <2>. QED  BY <2>1, <2>2, <2>3
<1>. QED  BY <1>1, <1>2

(* The other handlers are where they were, with the attempts they had.      *)
LEMMA OthersWait ==
  ASSUME TypeOK, NEW r \in Request, NEW h \in Handler, Become(r, h) \/ Disturb(r, h)
  PROVE  /\ req'[r] = h
         /\ \A s \in Request \ {r} :
              /\ req'[s].pc = req[s].pc
              /\ Busy(req[s]) => req'[s].attempt = req[s].attempt
<1>1. CASE Become(r, h)  BY <1>1, BecomeType
<1>2. CASE Disturb(r, h)  BY <1>2, DisturbType
<1>. QED  BY <1>1, <1>2

(* One step of a creation: an insert that meets a taken id uses up an       *)
(* attempt, and every other one leaves the retry behind.                   *)
LEMMA GoesOnCloser ==
  ASSUME TypeOK, AttemptInv, NEW r \in Request, GoesOn(r)
  PROVE  \E h \in Handler :
           /\ Become(r, h) \/ Disturb(r, h)
           /\ Counted(h)
           /\ ToDo(h) \in 0..(ToDo(req[r]) - 1)
<1>. DEFINE g == req[r]
<1>1. g \in Handler /\ Counted(g) /\ Busy(g)
  BY DEF TypeOK, AttemptInv, GoesOn, CountToday, Insert, Collide, Answer, EffectsFail,
         Delete, Busy
<1>2. g \in [pc : {"count", "insert", "effects", "remove", "exhausted"},
             by : Nat, kind : Kind, day : Nat, date : Nat,
             attempt : Nat, number : Nat, alone : BOOLEAN]
  BY <1>1 DEF Handler, Idle, Busy
<1>3. Idle \in Handler /\ Counted(Idle) /\ ToDo(Idle) = 0
  BY DEF Handler, Idle, Counted, ToDo
<1>4. ToDo(g) \in Nat /\ ToDo(g) >= 1  BY <1>1, ToDoIs
<1>5. 0 \in 0..(ToDo(g) - 1)  BY <1>4
<1>6. CASE CountToday(r)
  <2>. DEFINE h == [g EXCEPT !.pc = "insert", !.number = NumberFor(g)]
  <2>1. Become(r, h) /\ g.pc = "count"  BY <1>6 DEF CountToday
  <2>2. Cardinality(Dated(g.day)) \in Nat  BY CountType DEF TypeOK
  <2>3. NumberFor(g) \in Nat  BY <1>2, <2>2 DEF NumberFor
  <2>4. h \in Handler /\ h.pc = "insert" /\ h.attempt = g.attempt
    BY <1>2, <2>3 DEF Handler
  <2>5. Counted(h)  BY <1>1, <2>1, <2>4 DEF Counted
  <2>6. ToDo(g) = 2 * (MaxIDAttempts - g.attempt) + 2  BY <1>1, <2>1, ToDoIs
  <2>7. ToDo(h) = 2 * (MaxIDAttempts - g.attempt) + 1
    <3>. HIDE DEF h
    <3>1. ToDo(h) = 2 * (MaxIDAttempts - h.attempt) + 1  BY <2>4, <2>5, ToDoIs
    <3>. QED  BY <2>4, <3>1
  <2>8. ToDo(h) \in 0..(ToDo(g) - 1)
    <3>. HIDE DEF h
    <3>1. g.attempt < MaxIDAttempts  BY <1>1, <2>1 DEF Counted
    <3>. QED  BY <1>2, <2>6, <2>7, <3>1, AttemptsAssumption
  <2>. QED  BY <2>1, <2>4, <2>5, <2>8
<1>7. CASE Insert(r)
  <2>. DEFINE h == IF service = "project" THEN [g EXCEPT !.pc = "effects"] ELSE Idle
  <2>1. Disturb(r, h) /\ g.pc = "insert"  BY <1>7 DEF Insert
  <2>2. CASE service = "project"
    <3>1. h \in Handler /\ h.pc = "effects"  BY <1>2, <2>2 DEF Handler
    <3>2. Counted(h) /\ ToDo(h) = 2  BY <3>1 DEF Counted, ToDo
    <3>3. g.attempt < MaxIDAttempts  BY <1>1, <2>1 DEF Counted
    <3>4. ToDo(g) >= 3
      BY <1>1, <1>2, <2>1, <3>3, ToDoIs, AttemptsAssumption
    <3>. QED  BY <1>4, <2>1, <3>1, <3>2, <3>4
  <2>3. CASE service # "project"  BY <1>3, <1>5, <2>1, <2>3
  <2>. QED  BY <2>2, <2>3
<1>8. CASE Collide(r)
  <2>. DEFINE h == [g EXCEPT !.pc = IF g.attempt + 1 < MaxIDAttempts THEN "count" ELSE "exhausted",
                             !.date = DateOf(g), !.attempt = g.attempt + 1]
  <2>1. Become(r, h) /\ g.pc = "insert"  BY <1>8 DEF Collide
  <2>2. DateOf(g) \in Nat  BY <1>2 DEF DateOf, TypeOK
  <2>3. /\ h \in Handler /\ h.attempt = g.attempt + 1
        /\ h.pc = IF g.attempt + 1 < MaxIDAttempts THEN "count" ELSE "exhausted"
    <3>1. /\ h.attempt = g.attempt + 1
          /\ h.pc = IF g.attempt + 1 < MaxIDAttempts THEN "count" ELSE "exhausted"
      BY <1>2
    <3>2. h.pc \in {"count", "exhausted"} /\ h.attempt \in Nat  BY <1>2, <3>1
    <3>3. h \in [pc : {"count", "insert", "effects", "remove", "exhausted"},
                 by : Nat, kind : Kind, day : Nat, date : Nat,
                 attempt : Nat, number : Nat, alone : BOOLEAN]
      BY <1>2, <2>2, <3>2
    <3>. QED  BY <3>1, <3>3 DEF Handler
  <2>4. Counted(h)  BY <2>3 DEF Counted
  <2>5. g.attempt < MaxIDAttempts /\ ToDo(g) = 2 * (MaxIDAttempts - g.attempt) + 1
    BY <1>1, <2>1, ToDoIs DEF Counted
  <2>6. CASE h.pc = "count"
    <3>1. ToDo(h) = 2 * (MaxIDAttempts - (g.attempt + 1)) + 2  BY <2>3, <2>4, <2>6, ToDoIs
    <3>2. ToDo(h) = ToDo(g) - 1  BY <1>2, <2>5, <3>1, AttemptsAssumption
    <3>. QED  BY <1>4, <2>1, <2>3, <2>4, <3>2
  <2>7. CASE h.pc = "exhausted"
    <3>1. ToDo(h) = 1  BY <2>3, <2>4, <2>7, ToDoIs
    <3>2. ToDo(g) >= 3  BY <1>2, <2>5, AttemptsAssumption
    <3>. QED  BY <1>4, <2>1, <2>3, <2>4, <3>1, <3>2
  <2>. QED  BY <2>3, <2>6, <2>7
<1>9. CASE Answer(r)  BY <1>3, <1>5, <1>9 DEF Answer
<1>10. CASE EffectsFail(r)
  <2>. DEFINE h == [g EXCEPT !.pc = "remove"]
  <2>1. Become(r, h) /\ g.pc = "effects"  BY <1>10 DEF EffectsFail
  <2>2. h \in Handler /\ h.pc = "remove"  BY <1>2 DEF Handler
  <2>3. Counted(h) /\ ToDo(h) = 1  BY <2>2 DEF Counted, ToDo
  <2>4. ToDo(g) = 2  BY <2>1 DEF ToDo
  <2>. QED  BY <2>1, <2>2, <2>3, <2>4
<1>11. CASE Delete(r)  BY <1>3, <1>5, <1>11 DEF Delete
<1>. QED  BY <1>6, <1>7, <1>8, <1>9, <1>10, <1>11 DEF GoesOn

(* What CreationsEnd says of one step. *)
CreationsEndStep ==
  \A r \in Request :
    /\ GoesOn(r) => ToDo(req'[r]) \in 0..(ToDo(req[r]) - 1)
    /\ req[r].pc # "idle" => ToDo(req'[r]) <= ToDo(req[r])

(* Whoever takes the step, it brings himself closer and leaves the others.  *)
LEMMA CreationStep ==
  TypeOK /\ AttemptInv /\ [Next]_vars => AttemptInv' /\ CreationsEndStep
<1>. SUFFICES ASSUME TypeOK, AttemptInv, [Next]_vars
              PROVE  AttemptInv' /\ CreationsEndStep
  OBVIOUS
<1>1. ASSUME NEW s \in Request
      PROVE  ToDo(req[s]) \in Nat /\ (GoesOn(s) => Busy(req[s]))
  <2>1. ToDo(req[s]) \in Nat  BY ToDoIs DEF TypeOK, AttemptInv
  <2>. QED  BY <2>1 DEF GoesOn, CountToday, Insert, Collide, Answer, EffectsFail, Delete, Busy
<1>2. ASSUME NEW r \in Request, NEW h \in Handler, Become(r, h) \/ Disturb(r, h), Counted(h),
             Busy(req[r]) => ToDo(h) \in 0..(ToDo(req[r]) - 1)
      PROVE  AttemptInv' /\ CreationsEndStep
  <2>1. /\ req'[r] = h
        /\ \A s \in Request \ {r} :
             /\ req'[s].pc = req[s].pc
             /\ Busy(req[s]) => req'[s].attempt = req[s].attempt
    BY <1>2, OthersWait
  <2>2. ASSUME NEW s \in Request \ {r}
        PROVE  Counted(req'[s]) /\ (Busy(req[s]) => ToDo(req'[s]) = ToDo(req[s]))
    <3>1. Counted(req[s])  BY DEF AttemptInv
    <3>2. req'[s].pc = req[s].pc  BY <2>1
    <3>3. Busy(req[s]) => req'[s].attempt = req[s].attempt  BY <2>1
    <3>. QED  BY <3>1, <3>2, <3>3 DEF Counted, Busy, ToDo
  <2>3. AttemptInv'
    <3>1. ASSUME NEW s \in Request  PROVE Counted(req'[s])
      BY <1>2, <2>1, <2>2
    <3>. QED  BY <3>1 DEF AttemptInv, Counted
  <2>4. ASSUME NEW s \in Request, Busy(req[s])
        PROVE  ToDo(req'[s]) <= ToDo(req[s])
    BY <1>1, <1>2, <2>1, <2>2, <2>4
  <2>5. ASSUME NEW s \in Request, GoesOn(s)
        PROVE  ToDo(req'[s]) \in 0..(ToDo(req[s]) - 1)
    <3>1. PICK k \in Handler : /\ Become(s, k) \/ Disturb(s, k)
                               /\ ToDo(k) \in 0..(ToDo(req[s]) - 1)
      BY <2>5, GoesOnCloser
    <3>2. req'[s] = k  BY <3>1, OthersWait
    <3>. QED  BY <3>1, <3>2
  <2>. QED  BY <2>3, <2>4, <2>5 DEF CreationsEndStep, Busy
<1>3. ASSUME NEW r \in Request, NEW kind \in Kind, CreateWithGeneratedID(r, kind)
      PROVE  AttemptInv' /\ CreationsEndStep
  <2>. DEFINE h == [pc |-> "count", by |-> started, kind |-> kind, day |-> today,
                    date |-> today, attempt |-> 0, number |-> 0, alone |-> TRUE]
  <2>1. Become(r, h) /\ ~Busy(req[r])  BY <1>3 DEF CreateWithGeneratedID, Busy
  <2>2. h \in Handler  BY DEF Handler, TypeOK
  <2>3. Counted(h)  BY AttemptsAssumption DEF Counted
  <2>. QED  BY <1>2, <2>1, <2>2, <2>3
<1>4. ASSUME NEW r \in Request, GoesOn(r)
      PROVE  AttemptInv' /\ CreationsEndStep
  BY <1>2, <1>4, GoesOnCloser
<1>5. CASE Midnight \/ UNCHANGED vars
  <2>1. req' = req  BY <1>5 DEF Midnight, vars
  <2>2. AttemptInv'  BY <2>1 DEF AttemptInv, Counted
  <2>3. ASSUME NEW s \in Request, GoesOn(s)
        PROVE  ToDo(req'[s]) \in 0..(ToDo(req[s]) - 1)
    <3>1. PICK k \in Handler : /\ Become(s, k) \/ Disturb(s, k)
                               /\ ToDo(k) \in 0..(ToDo(req[s]) - 1)
      BY <2>3, GoesOnCloser
    <3>2. req'[s] = k  BY <3>1, OthersWait
    <3>. QED  BY <3>1, <3>2
  <2>4. \A s \in Request : ToDo(req'[s]) <= ToDo(req[s])  BY <1>1, <2>1
  <2>. QED  BY <2>2, <2>3, <2>4 DEF CreationsEndStep
<1>. QED  BY <1>3, <1>4, <1>5 DEF Next, GoesOn

(* "maxIDAttempts bounds the retry below": in both services a creation     *)
(* makes at most 2 * MaxIDAttempts + 2 steps, whatever the others insert   *)
(* and remove meanwhile.                                                   *)
THEOREM CreationsComeToAnEnd == Spec => CreationsEnd
<1>1. Init => AttemptInv  BY DEF Init, Idle, AttemptInv, Counted
<1>2. IInv => TypeOK  BY DEF IInv
<1>3. TypeOK /\ AttemptInv /\ [Next]_vars => AttemptInv' /\ [CreationsEndStep]_vars
  BY CreationStep
<1>4. Spec => [][CreationsEndStep]_vars
  BY <1>1, <1>2, <1>3, Inductive, PTL DEF Spec
<1>. QED  BY <1>4 DEF CreationsEnd, CreationsEndStep

=============================================================================
