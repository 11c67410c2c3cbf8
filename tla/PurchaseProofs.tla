--------------------------- MODULE PurchaseProofs ---------------------------
(***************************************************************************)
(* Proofs about Purchase, for any number of concurrent requests, any       *)
(* catalogue, any set of orders and plates, and any bounds.                *)
(***************************************************************************)
EXTENDS Purchase, FiniteSetTheorems, TLAPS

LEMMA AdvanceTable ==
  ASSUME NEW s \in Status \ Terminal
  PROVE  /\ s = "Diajukan" => /\ advance[s].to = "Disetujui"
                              /\ advance[s].allowed = Deciders
         /\ s = "Disetujui" => advance[s].to = "Diproses"
         /\ s = "Diproses" => advance[s].to = "Selesai"
         /\ s \in {"Diajukan", "Disetujui", "Diproses"}
  BY DEF advance, Step, Status, Terminal, Deciders

LEMMA AbandonTable ==
  ASSUME NEW s \in Status \ Terminal
  PROVE  /\ s = "Diajukan" => abandon[s].to = "Ditolak"
         /\ s \in {"Disetujui", "Diproses"} => abandon[s].to = "Dibatalkan"
         /\ s \in {"Diajukan", "Disetujui", "Diproses"}
  BY DEF abandon, Step, Status, Terminal

-----------------------------------------------------------------------------
(* Type correctness.                                                       *)

LEMMA IdleType == Idle \in Handler
  BY DEF Idle, Handler, PC, Action, Row, Status, Price, Caller

LEMMA InitType == Init => TypeOK
<1> SUFFICES ASSUME Init PROVE TypeOK
  OBVIOUS
<1>1. PICK kind \in Kind :
        /\ lines \in IF kind = "Resource" THEN Order ELSE {{}}
        /\ purchase = [kind |-> kind, status |-> "Diajukan", paid |-> FALSE, price |-> lines]
  BY DEF Init
<1>2. lines \in Price
  BY <1>1, OrderAssumption DEF Price
<1>3. purchase \in Row
  BY <1>1, <1>2, KindAssumption DEF Row, Status
<1>4. history \in History
  BY DEF Init, History
<1>5. req \in [Request -> Handler]
  BY IdleType DEF Init
<1>6. QED BY <1>2, <1>3, <1>4, <1>5 DEF Init, TypeOK

LEMMA ReceiveType ==
  ASSUME TypeOK, NEW r \in Request, Receive(r)
  PROVE  TypeOK'
<1> USE DEF TypeOK
<1>1. PICK role \in Role : \/ AdvanceStatus(r, role)
                           \/ CancelStatus(r, role)
                           \/ ConfirmPayment(r, role)
                           \/ \E order \in Price : UpdatePurchase(r, role, order)
  BY DEF Receive
<1>2. ASSUME NEW pc \in PC, NEW act \in Action, NEW copy \in Row, NEW order \in Price,
             Start(r, pc, role, act, copy, order), attempts' \in Nat
      PROVE  TypeOK'
  <2>1. [pc |-> pc, role |-> role, act |-> act, copy |-> copy,
         order |-> order, todo |-> {}] \in Handler
    BY DEF Handler, Price, Caller
  <2>2. QED BY <1>2, <2>1 DEF Start
<1>3. CASE AdvanceStatus(r, role)
  <2> DEFINE to == advance[purchase.status].to
  <2>1. to \in Status
    BY <1>3, AdvanceTable DEF AdvanceStatus, resolve, Row, Status
  <2>2. [purchase EXCEPT !.status = to] \in Row
    BY <2>1 DEF Row
  <2>3. attempts' \in Nat
    BY <1>3 DEF AdvanceStatus
  <2>4. QED BY <1>2, <1>3, <2>1, <2>2, <2>3 DEF AdvanceStatus, PC, Action, Price
<1>4. CASE CancelStatus(r, role)
  <2> DEFINE to == abandon[purchase.status].to
  <2>1. to \in Status
    BY <1>4, AbandonTable DEF CancelStatus, resolve, Row, Status
  <2>2. [purchase EXCEPT !.status = to] \in Row
    BY <2>1 DEF Row
  <2>3. QED BY <1>2, <1>4, <2>1, <2>2 DEF CancelStatus, PC, Action, Price
<1>5. CASE ConfirmPayment(r, role)
  <2> DEFINE copy == [purchase EXCEPT !.paid = TRUE]
  <2>1. copy \in Row
    BY DEF Row
  <2>2. Start(r, "save", role, "bayar", copy, {}) /\ attempts' = attempts
    BY <1>5 DEF ConfirmPayment
  <2> HIDE DEF copy
  <2>3. QED BY <1>2, <2>1, <2>2 DEF PC, Action, Price
<1>6. CASE \E order \in Price : UpdatePurchase(r, role, order)
  <2>1. PICK order \in Price : UpdatePurchase(r, role, order)
    BY <1>6
  <2>2. [purchase EXCEPT !.price = order] \in Row
    BY DEF Row
  <2>3. QED BY <1>2, <2>1, <2>2 DEF UpdatePurchase, PC, Action, Price
<1>7. QED BY <1>1, <1>3, <1>4, <1>5, <1>6

LEMMA ContinueType ==
  ASSUME TypeOK, NEW r \in Request, Continue(r)
  PROVE  TypeOK'
<1> USE DEF TypeOK
<1>0. req[r] \in Handler OBVIOUS
<1>1. ASSUME NEW pc \in PC, Goto(r, pc) PROVE req' \in [Request -> Handler]
  BY <1>1, <1>0 DEF Goto, Handler
<1>2. CASE FindLinesFor(r)
  BY <1>0, <1>2 DEF FindLinesFor, Handler, PC
<1>3. CASE AddToDb(r)
  BY <1>0, <1>3 DEF AddToDb, NextLine, Handler, Price
<1>4. CASE AllCredited(r)
  BY <1>0, <1>1, <1>4 DEF AllCredited, PC, History, Handler
<1>5. CASE RegisterAsset(r)
  BY <1>1, <1>5 DEF RegisterAsset, NewPlate, PC, History, Price
<1>6. CASE RegisterRefused(r)
  BY <1>6, IdleType DEF RegisterRefused
<1>7. CASE ReplaceLines(r)
  BY <1>0, <1>1, <1>7 DEF ReplaceLines, PC, Handler
<1>8. CASE Save(r)
  <2>1. history' \in History
    BY <1>0, <1>8 DEF Save, History, Handler, Row, Price
  <2>2. QED BY <1>0, <1>1, <1>8, <2>1 DEF Save, PC, Handler
<1>9. CASE ReportToLedger(r)
  BY <1>0, <1>1, <1>9 DEF ReportToLedger, PC, Handler, Row
<1>10. CASE AppendLog(r)
  BY <1>0, <1>10, IdleType DEF AppendLog, Handler
<1>11. QED BY <1>2, <1>3, <1>4, <1>5, <1>6, <1>7, <1>8, <1>9, <1>10 DEF Continue

LEMMA FaultType ==
  ASSUME TypeOK, NEW r \in Request, Stop(r) \/ ReplyLost(r)
  PROVE  TypeOK'
  BY IdleType DEF TypeOK, Stop, ReplyLost, Fault, NextLine, NewPlate

LEMMA NextType == TypeOK /\ [Next]_vars => TypeOK'
<1>1. ASSUME TypeOK, Next PROVE TypeOK'
  BY <1>1, ReceiveType, ContinueType, FaultType DEF Next
<1>2. ASSUME TypeOK, UNCHANGED vars PROVE TypeOK'
  BY <1>2 DEF TypeOK, vars
<1>3. QED BY <1>1, <1>2

(* Every variable keeps its type whatever the requests and faults do.      *)
THEOREM TypeCorrect == Spec => []TypeOK
  BY InitType, NextType, PTL DEF Spec

-----------------------------------------------------------------------------
(* The inductive invariant.  Whatever a step does, what has been delivered, *)
(* approved and confirmed only grows, so a handler the step does not touch  *)
(* stays sound.                                                             *)

Grows ==
  /\ history.approvedBy \subseteq history'.approvedBy
  /\ history.delivered \subseteq history'.delivered
  /\ history.confirmed \subseteq history'.confirmed
  /\ registered \subseteq registered'
  /\ \A i \in Item : credited[i] <= credited'[i]

LEMMA DeliveredStays ==
  ASSUME TypeOK, TypeOK', Grows, Delivered, purchase'.kind = purchase.kind
  PROVE  Delivered'
<1>1. CASE purchase.kind = "Resource"
  <2>1. PICK o \in history.delivered : o # {} /\ \A i \in o : credited[i] > 0
    BY <1>1 DEF Delivered
  <2>2. o \in history'.delivered
    BY DEF Grows
  <2>3. o \subseteq Item
    BY DEF TypeOK, History, Price
  <2>4. \A i \in o : credited'[i] > 0
    BY <2>1, <2>3 DEF Grows, TypeOK
  <2>5. QED BY <1>1, <2>1, <2>2, <2>4 DEF Delivered
<1>2. CASE purchase.kind # "Resource"
  BY <1>2 DEF Delivered, Grows
<1>3. QED BY <1>1, <1>2

LEMMA RowStays ==
  ASSUME TypeOK, TypeOK', Grows, SoundRow(purchase), purchase' = purchase
  PROVE  SoundRow(purchase)'
  BY DeliveredStays DEF SoundRow, NeedsApproval, Grows

LEMMA HandlerStays ==
  ASSUME TypeOK, TypeOK', Grows, NEW r \in Request,
         SoundHandler(req[r]), req'[r] = req[r], purchase'.kind = purchase.kind
  PROVE  SoundHandler(req[r])'
<1>1. req[r] \in Handler
  BY DEF TypeOK
<1>2. Delivering(req[r]) => Delivering(req[r])'
  <2>1. req[r].order \subseteq Item
    BY <1>1 DEF Handler, Price
  <2>2. \A i \in req[r].order : credited[i] > 0 => credited'[i] > 0
    BY <2>1 DEF Grows, TypeOK
  <2>3. QED BY <2>2 DEF Delivering, Grows
<1>3. Saving(req[r]) => Saving(req[r])'
  BY DeliveredStays DEF Saving, SoundRow, NeedsApproval, Grows
<1>4. QED BY <1>2, <1>3 DEF SoundHandler, Grows

LEMMA IdleSound ==
  ASSUME NEW r \in Request, req'[r] = Idle
  PROVE  SoundHandler(req[r])'
  BY DEF SoundHandler, Idle

-----------------------------------------------------------------------------

LEMMA InitInv == Init => IInv
<1> SUFFICES ASSUME Init PROVE IInv
  OBVIOUS
<1>1. SoundRow(purchase)
  BY DEF Init, SoundRow, NeedsApproval
<1>2. \A r \in Request : SoundHandler(req[r])
  BY DEF Init, SoundHandler, Idle
<1>3. purchase.kind = "Resource" => lines # {}
  BY OrderAssumption DEF Init
<1>4. QED BY <1>1, <1>2, <1>3, InitType DEF IInv, Init

LEMMA ReceiveInv ==
  ASSUME IInv, NEW r \in Request, Receive(r)
  PROVE  IInv'
<1>1. TypeOK /\ TypeOK'
  BY ReceiveType DEF IInv
<1>2. PICK role \in Role : \/ AdvanceStatus(r, role)
                           \/ CancelStatus(r, role)
                           \/ ConfirmPayment(r, role)
                           \/ \E order \in Price : UpdatePurchase(r, role, order)
  BY DEF Receive
<1>3. /\ UNCHANGED <<purchase, lines, log, credited, registered, ledger, faults, history>>
      /\ \A s \in Request \ {r} : req'[s] = req[s]
  BY <1>1, <1>2 DEF AdvanceStatus, CancelStatus, ConfirmPayment, UpdatePurchase, Start, TypeOK
<1>4. Grows
  BY <1>1, <1>3 DEF Grows, TypeOK
<1>5. SoundHandler(req[r])'
  <2>0. purchase \in Row
    BY <1>1 DEF TypeOK
  <2>1. CASE AdvanceStatus(r, role)
    <3> DEFINE to == advance[purchase.status].to
               copy == [purchase EXCEPT !.status = to]
    <3>1. purchase.status \in Status \ Terminal /\ role \in advance[purchase.status].allowed
      BY <2>0, <2>1 DEF AdvanceStatus, resolve, Row
    <3>2. /\ req'[r].pc = IF to = "Selesai" THEN "deliver" ELSE "save"
          /\ req'[r].act = to /\ req'[r].role = role /\ req'[r].copy = copy
      BY <1>1, <2>1 DEF AdvanceStatus, Start, TypeOK
    <3>3. copy.status = to /\ copy.paid = purchase.paid /\ copy.kind = purchase.kind
      BY <2>0 DEF Row
    <3>4. CASE purchase.status = "Diajukan"
      BY <1>3, <3>1, <3>2, <3>3, <3>4, AdvanceTable
      DEF IInv, SoundRow, SoundHandler, Saving, PaidStatus
    <3>5. CASE purchase.status = "Disetujui"
      BY <1>3, <3>1, <3>2, <3>3, <3>5, AdvanceTable
      DEF IInv, SoundRow, SoundHandler, Saving, PaidStatus, NeedsApproval
    <3>6. CASE purchase.status = "Diproses"
      BY <1>3, <3>1, <3>2, <3>3, <3>6, AdvanceTable
      DEF IInv, SoundRow, SoundHandler, Delivering, NeedsApproval
    <3>7. QED BY <3>1, <3>4, <3>5, <3>6, AdvanceTable
  <2>2. CASE CancelStatus(r, role)
    <3> DEFINE to == abandon[purchase.status].to
               copy == [purchase EXCEPT !.status = to]
    <3>1. purchase.status \in Status \ Terminal
      BY <2>0, <2>2 DEF CancelStatus, resolve, Row
    <3>2. req'[r].pc = "save" /\ req'[r].act = to /\ req'[r].copy = copy
      BY <1>1, <2>2 DEF CancelStatus, Start, TypeOK
    <3>3. copy.status = to /\ copy.paid = purchase.paid /\ copy.kind = purchase.kind
      BY <2>0 DEF Row
    <3>4. to \in {"Ditolak", "Dibatalkan"} /\ (purchase.status = "Diajukan" => to = "Ditolak")
      BY <3>1, AbandonTable
    <3>5. SoundRow(copy)
      BY <3>1, <3>3, <3>4, AbandonTable DEF IInv, SoundRow, PaidStatus, NeedsApproval
    <3>6. SoundRow(req[r].copy)'
      BY <1>1, <1>3, <1>4, <3>2, <3>5, DeliveredStays DEF SoundRow, NeedsApproval
    <3>7. QED BY <1>3, <3>2, <3>3, <3>4, <3>6 DEF SoundHandler, Saving
  <2>3. CASE ConfirmPayment(r, role)
    <3> DEFINE copy == [purchase EXCEPT !.paid = TRUE]
    <3>1. req'[r].pc = "save" /\ req'[r].act = "bayar" /\ req'[r].copy = copy
      BY <1>1, <2>3 DEF ConfirmPayment, Start, TypeOK
    <3>2. /\ copy.status = purchase.status /\ purchase.status \in {"Diproses", "Selesai"}
          /\ copy.kind = purchase.kind
      BY <2>0, <2>3 DEF ConfirmPayment, Row, Status
    <3>3. SoundRow(req[r].copy)'
      BY <1>1, <1>3, <1>4, <3>1, <3>2, DeliveredStays
      DEF IInv, SoundRow, PaidStatus, NeedsApproval
    <3>4. QED BY <1>3, <3>1, <3>2, <3>3 DEF SoundHandler, Saving
  <2>4. CASE \E order \in Price : UpdatePurchase(r, role, order)
    <3>1. PICK order \in Price : UpdatePurchase(r, role, order)
      BY <2>4
    <3>2. /\ req'[r].pc \in {"lines", "save"} /\ req'[r].act = "edit"
          /\ req'[r].pc = "lines" => req'[r].order # {}
          /\ req'[r].copy.status = purchase.status
          /\ req'[r].copy.paid = purchase.paid
          /\ req'[r].copy.kind = purchase.kind
      BY <1>1, <2>0, <3>1, OrderAssumption DEF UpdatePurchase, Start, TypeOK, Row
    <3>3. SoundRow(req[r].copy)'
      BY <1>1, <1>3, <1>4, <3>2, DeliveredStays DEF IInv, SoundRow, NeedsApproval
    <3>4. QED BY <1>3, <3>2, <3>3 DEF SoundHandler, Saving
  <2>5. QED BY <1>2, <2>1, <2>2, <2>3, <2>4
<1>6. \A s \in Request : SoundHandler(req[s])'
  BY <1>1, <1>3, <1>4, <1>5, HandlerStays DEF IInv
<1>7. SoundRow(purchase)'
  BY <1>1, <1>3, <1>4, RowStays DEF IInv
<1>8. QED BY <1>1, <1>3, <1>6, <1>7 DEF IInv

LEMMA ContinueInv ==
  ASSUME IInv, NEW r \in Request, Continue(r)
  PROVE  IInv'
<1>1. /\ TypeOK /\ TypeOK'
      /\ req[r] \in Handler
  BY ContinueType DEF IInv, TypeOK
<1>2. \A s \in Request \ {r} : req'[s] = req[s]
  BY <1>1 DEF Continue, FindLinesFor, AddToDb, AllCredited, RegisterAsset, RegisterRefused,
     ReplaceLines, Save, ReportToLedger, AppendLog, Goto, TypeOK
(* One action leaves the others alone: what is left to show is about r.     *)
<1>3. ASSUME Grows, SoundRow(purchase)', SoundHandler(req[r])',
             purchase.kind = "Resource" => lines' # {},
             purchase'.kind = purchase.kind,
             history'.approvedBy \subseteq Deciders,
             ledger' \subseteq history'.confirmed
      PROVE  IInv'
  <2>1. \A s \in Request : SoundHandler(req[s])'
    BY <1>1, <1>2, <1>3, HandlerStays DEF IInv
  <2>2. QED BY <1>1, <1>3, <2>1 DEF IInv
<1>4. CASE FindLinesFor(r)
  <2>1. Grows
    BY <1>1, <1>4 DEF FindLinesFor, Grows, TypeOK
  <2>2. SoundRow(purchase)'
    BY <1>1, <1>4, <2>1, RowStays DEF FindLinesFor, IInv
  <2>3. SoundHandler(req[r])'
    BY <1>1, <1>4 DEF FindLinesFor, IInv, SoundHandler, Delivering, TypeOK, Handler
  <2>4. QED BY <1>3, <1>4, <2>1, <2>2, <2>3 DEF FindLinesFor, IInv
<1>5. CASE AddToDb(r)
  <2>1. PICK i \in Item : NextLine(r, i) /\ req' = [req EXCEPT ![r].todo = @ \ {i}]
    BY <1>5 DEF AddToDb
  <2>2. Grows
    BY <1>1, <1>5, <2>1 DEF AddToDb, NextLine, Grows, TypeOK
  <2>3. SoundRow(purchase)'
    BY <1>1, <1>5, <2>2, RowStays DEF AddToDb, IInv
  <2>4. /\ req'[r].pc = "credit" /\ req'[r].todo = req[r].todo \ {i}
        /\ req'[r].order = req[r].order /\ req'[r].act = req[r].act
        /\ req'[r].copy = req[r].copy
    BY <1>1, <2>1 DEF NextLine, TypeOK, Handler
  <2>5. \A j \in req[r].order \ req'[r].todo : credited'[j] > 0
    BY <1>1, <2>1, <2>4 DEF NextLine, IInv, SoundHandler, Delivering, TypeOK, Handler, Price
  <2>6. SoundHandler(req[r])'
    BY <1>5, <2>1, <2>4, <2>5 DEF AddToDb, NextLine, IInv, SoundHandler, Delivering
  <2>7. QED BY <1>3, <1>5, <2>2, <2>3, <2>6 DEF AddToDb, IInv
<1>6. CASE AllCredited(r)
  <2>1. Grows
    BY <1>1, <1>6 DEF AllCredited, Grows, TypeOK, History
  <2>2. SoundRow(purchase)'
    BY <1>1, <1>6, <2>1, RowStays DEF AllCredited, IInv
  <2>3. Delivered'
    <3>1. req[r].order \in history'.delivered
      BY <1>1, <1>6 DEF AllCredited, TypeOK, History
    <3>2. /\ purchase.kind = "Resource" /\ req[r].order # {}
          /\ \A i \in req[r].order : credited'[i] > 0
      BY <1>6 DEF AllCredited, IInv, SoundHandler, Delivering
    <3>3. purchase' = purchase
      BY <1>6 DEF AllCredited
    <3>4. QED BY <3>1, <3>2, <3>3 DEF Delivered
  <2>4. SoundHandler(req[r])'
    BY <1>1, <1>6, <2>3 DEF AllCredited, Goto, IInv, SoundHandler, Delivering, Saving,
       SoundRow, NeedsApproval, PaidStatus, TypeOK, Handler, History
  <2>5. QED BY <1>1, <1>3, <1>6, <2>1, <2>2, <2>4 DEF AllCredited, IInv, TypeOK, History
<1>7. CASE RegisterAsset(r)
  <2>1. Grows
    BY <1>1, <1>7 DEF RegisterAsset, NewPlate, Grows, TypeOK, History
  <2>2. SoundRow(purchase)'
    BY <1>1, <1>7, <2>1, RowStays DEF RegisterAsset, IInv
  <2>3. Delivered'
    BY <1>7 DEF RegisterAsset, NewPlate, Delivered, IInv, SoundHandler
  <2>4. SoundHandler(req[r])'
    BY <1>1, <1>7, <2>3 DEF RegisterAsset, NewPlate, Goto, IInv, SoundHandler, Delivering,
       Saving, SoundRow, NeedsApproval, PaidStatus, TypeOK, Handler, History
  <2>5. QED BY <1>1, <1>3, <1>7, <2>1, <2>2, <2>4 DEF RegisterAsset, IInv, TypeOK, History
<1>8. CASE RegisterRefused(r)
  <2>1. Grows
    BY <1>1, <1>8 DEF RegisterRefused, Grows, TypeOK
  <2>2. SoundRow(purchase)'
    BY <1>1, <1>8, <2>1, RowStays DEF RegisterRefused, IInv
  <2>3. SoundHandler(req[r])'
    BY <1>1, <1>8, IdleSound DEF RegisterRefused, TypeOK
  <2>4. QED BY <1>3, <1>8, <2>1, <2>2, <2>3 DEF RegisterRefused, IInv
<1>9. CASE ReplaceLines(r)
  <2>1. Grows
    BY <1>1, <1>9 DEF ReplaceLines, Grows, TypeOK
  <2>2. SoundRow(purchase)'
    BY <1>1, <1>9, <2>1, RowStays DEF ReplaceLines, IInv
  <2>3. SoundHandler(req[r])'
    BY <1>1, <1>9, <2>1, DeliveredStays DEF ReplaceLines, Goto, IInv, SoundHandler, Saving,
       SoundRow, NeedsApproval, TypeOK, Handler
  <2>4. lines' # {}
    BY <1>9 DEF ReplaceLines, IInv, SoundHandler
  <2>5. QED BY <1>3, <1>9, <2>1, <2>2, <2>3, <2>4 DEF ReplaceLines, IInv
<1>10. CASE Save(r)
  <2>1. Saving(req[r]) /\ req[r].copy.kind = purchase.kind
    BY <1>10 DEF Save, IInv, SoundHandler
  <2>2. /\ purchase' = req[r].copy
        /\ history'.delivered = history.delivered
        /\ history'.approvedBy = IF req[r].act = "Disetujui"
             THEN history.approvedBy \cup {req[r].role} ELSE history.approvedBy
        /\ history'.confirmed = IF req[r].act = "bayar"
             THEN history.confirmed \cup {req[r].copy.price} ELSE history.confirmed
    BY <1>1, <1>10 DEF Save, TypeOK, History
  <2>3. Grows
    BY <1>1, <1>10, <2>2 DEF Save, Grows, TypeOK
  <2>4. SoundRow(purchase)'
    BY <1>1, <2>1, <2>2, <2>3, DeliveredStays DEF Saving, SoundRow, NeedsApproval, PaidStatus
  <2>5. SoundHandler(req[r])'
    BY <1>1, <1>10, <2>2 DEF Save, Goto, SoundHandler, TypeOK, Handler
  <2>6. history'.approvedBy \subseteq Deciders /\ ledger' \subseteq history'.confirmed
    BY <1>10, <2>1, <2>2 DEF Save, IInv, Saving
  <2>7. QED BY <1>3, <1>10, <2>1, <2>2, <2>3, <2>4, <2>5, <2>6 DEF Save, IInv
<1>11. CASE ReportToLedger(r)
  <2>1. Grows
    BY <1>1, <1>11 DEF ReportToLedger, Grows, TypeOK
  <2>2. SoundRow(purchase)'
    BY <1>1, <1>11, <2>1, RowStays DEF ReportToLedger, IInv
  <2>3. SoundHandler(req[r])'
    BY <1>1, <1>11 DEF ReportToLedger, Goto, IInv, SoundHandler, TypeOK, Handler
  <2>4. ledger' \subseteq history'.confirmed
    BY <1>11 DEF ReportToLedger, IInv, SoundHandler
  <2>5. QED BY <1>3, <1>11, <2>1, <2>2, <2>3, <2>4 DEF ReportToLedger, IInv
<1>12. CASE AppendLog(r)
  <2>1. Grows
    BY <1>1, <1>12 DEF AppendLog, Grows, TypeOK
  <2>2. SoundRow(purchase)'
    BY <1>1, <1>12, <2>1, RowStays DEF AppendLog, IInv
  <2>3. SoundHandler(req[r])'
    BY <1>1, <1>12, IdleSound DEF AppendLog, TypeOK
  <2>4. QED BY <1>3, <1>12, <2>1, <2>2, <2>3 DEF AppendLog, IInv
<1>13. QED BY <1>4, <1>5, <1>6, <1>7, <1>8, <1>9, <1>10, <1>11, <1>12 DEF Continue

LEMMA FaultInv ==
  ASSUME IInv, NEW r \in Request, Stop(r) \/ ReplyLost(r)
  PROVE  IInv'
<1>1. TypeOK /\ TypeOK'
  BY FaultType DEF IInv
<1>2. /\ UNCHANGED <<purchase, lines, ledger, history>>
      /\ req' = [req EXCEPT ![r] = Idle]
  BY DEF Stop, ReplyLost
<1>3. Grows
  BY <1>1 DEF Stop, ReplyLost, NextLine, NewPlate, Grows, TypeOK
<1>4. \A s \in Request : SoundHandler(req[s])'
  BY <1>1, <1>2, <1>3, HandlerStays, IdleSound DEF IInv, TypeOK
<1>5. SoundRow(purchase)'
  BY <1>1, <1>2, <1>3, RowStays DEF IInv
<1>6. QED BY <1>1, <1>2, <1>4, <1>5 DEF IInv

LEMMA NextInv == IInv /\ [Next]_vars => IInv'
<1>1. ASSUME IInv, Next PROVE IInv'
  BY <1>1, ReceiveInv, ContinueInv, FaultInv DEF Next
<1>2. ASSUME IInv, UNCHANGED vars PROVE IInv'
  BY <1>2 DEF IInv, vars, TypeOK, SoundRow, NeedsApproval, Delivered, SoundHandler,
     Delivering, Saving
<1>3. QED BY <1>1, <1>2

THEOREM Inductive == Spec => []IInv
  BY InitInv, NextInv, PTL DEF Spec

(* A purchase is never Selesai with nothing delivered, whatever runs at the *)
(* same time and whatever fails.                                            *)
THEOREM CompletionIsDelivered == Spec => []SelesaiDelivered
<1>1. IInv => SelesaiDelivered
  BY DEF IInv, SoundRow, SelesaiDelivered
<1>2. QED BY <1>1, Inductive, PTL

(* No row is paid before it is processed or after it is rejected.           *)
THEOREM PaymentInMotion == Spec => []PaidInMotion
<1>1. IInv => PaidInMotion
  BY DEF IInv, SoundRow, PaidInMotion, PaidStatus
<1>2. QED BY <1>1, Inductive, PTL

(* Nothing is processed, completed or dropped without an approval given by  *)
(* Direksi or Finance.                                                      *)
THEOREM ApprovalFirst == Spec => []ApprovedFirst
<1>1. IInv => ApprovedFirst
  BY DEF IInv, SoundRow, NeedsApproval, ApprovedFirst, Deciders
<1>2. QED BY <1>1, Inductive, PTL

(* The ledger never shows a spend that was not confirmed.                   *)
THEOREM LedgerIsBacked == Spec => []LedgerBacked
<1>1. IInv => LedgerBacked
  BY DEF IInv, LedgerBacked
<1>2. QED BY <1>1, Inductive, PTL

-----------------------------------------------------------------------------
(* The audit trail.  An act that is recorded stays so: a handler that has    *)
(* saved goes on to log, and only a fault can stop it.                       *)

LEMMA RecordedStays ==
  ASSUME TypeOK, NEW act, Recorded(act),
         NEW r \in Request, Receive(r) \/ Continue(r)
  PROVE  Recorded(act)'
<1>1. CASE act \in log
  BY <1>1 DEF Recorded, Receive, AdvanceStatus, CancelStatus, ConfirmPayment, UpdatePurchase,
     Start, Continue, FindLinesFor, AddToDb, AllCredited, RegisterAsset, RegisterRefused,
     ReplaceLines, Save, ReportToLedger, AppendLog
<1>2. CASE \E s \in Request : req[s].pc \in {"ledger", "log"} /\ req[s].act = act
  <2>1. PICK s \in Request : req[s].pc \in {"ledger", "log"} /\ req[s].act = act
    BY <1>2
  <2>2. CASE Receive(r)
    <3>1. req'[s] = req[s]
      BY <2>1, <2>2 DEF Receive, AdvanceStatus, CancelStatus, ConfirmPayment, UpdatePurchase,
         Start, TypeOK
    <3>2. QED BY <2>1, <3>1 DEF Recorded
  <2>3. CASE Continue(r)
    <3>1. CASE s # r
      <4>1. req'[s] = req[s]
        BY <2>3, <3>1 DEF Continue, FindLinesFor, AddToDb, AllCredited, RegisterAsset,
           RegisterRefused, ReplaceLines, Save, ReportToLedger, AppendLog, Goto, TypeOK
      <4>2. QED BY <2>1, <4>1 DEF Recorded
    <3>2. CASE s = r
      <4>1. CASE ReportToLedger(r)
        <5>1. req'[s].pc = "log" /\ req'[s].act = act
          BY <2>1, <3>2, <4>1 DEF ReportToLedger, Goto, TypeOK, Handler
        <5>2. QED BY <5>1 DEF Recorded
      <4>2. CASE AppendLog(r)
        BY <2>1, <3>2, <4>2 DEF AppendLog, Recorded
      <4>3. QED BY <2>1, <2>3, <3>2, <4>1, <4>2 DEF Continue, FindLinesFor, AddToDb, NextLine,
                AllCredited, RegisterAsset, NewPlate, RegisterRefused, ReplaceLines, Save
    <3>3. QED BY <3>1, <3>2
  <2>4. QED BY <2>2, <2>3
<1>3. QED BY <1>1, <1>2 DEF Recorded

LEMMA ReceiveAudit ==
  ASSUME TypeOK, AuditInv, faults = 0, NEW r \in Request, Receive(r)
  PROVE  AuditInv'
<1>1. PICK role \in Role : \/ AdvanceStatus(r, role)
                           \/ CancelStatus(r, role)
                           \/ ConfirmPayment(r, role)
                           \/ \E order \in Price : UpdatePurchase(r, role, order)
  BY DEF Receive
<1>2. purchase' = purchase /\ \A s \in Request \ {r} : req'[s] = req[s]
  BY <1>1 DEF AdvanceStatus, CancelStatus, ConfirmPayment, UpdatePurchase, Start, TypeOK
<1>3. /\ req'[r].copy.status \in {purchase.status, req'[r].act}
      /\ req'[r].act = "bayar" \/ req'[r].copy.paid = purchase.paid
  <2>0. purchase \in Row /\ req \in [Request -> Handler]
    BY DEF TypeOK
  <2>1. ASSUME NEW pc, NEW act, NEW copy, NEW order, Start(r, pc, role, act, copy, order)
        PROVE  req'[r].copy = copy /\ req'[r].act = act
    BY <2>0, <2>1 DEF Start
  <2>2. CASE AdvanceStatus(r, role)
    <3> DEFINE to == advance[purchase.status].to
               copy == [purchase EXCEPT !.status = to]
    <3>1. copy.status = to /\ copy.paid = purchase.paid
      BY <2>0 DEF Row
    <3>2. req'[r].copy = copy /\ req'[r].act = to
      BY <2>1, <2>2 DEF AdvanceStatus
    <3>3. QED BY <3>1, <3>2
  <2>3. CASE CancelStatus(r, role)
    <3> DEFINE to == abandon[purchase.status].to
               copy == [purchase EXCEPT !.status = to]
    <3>1. copy.status = to /\ copy.paid = purchase.paid
      BY <2>0 DEF Row
    <3>2. req'[r].copy = copy /\ req'[r].act = to
      BY <2>1, <2>3 DEF CancelStatus
    <3>3. QED BY <3>1, <3>2
  <2>4. CASE ConfirmPayment(r, role)
    <3> DEFINE copy == [purchase EXCEPT !.paid = TRUE]
    <3>1. copy.status = purchase.status
      BY <2>0 DEF Row
    <3>2. req'[r].copy = copy /\ req'[r].act = "bayar"
      BY <2>1, <2>4 DEF ConfirmPayment
    <3>3. QED BY <3>1, <3>2
  <2>5. CASE \E order \in Price : UpdatePurchase(r, role, order)
    BY <2>0, <2>1, <2>5 DEF UpdatePurchase, Row
  <2>6. QED BY <1>1, <2>2, <2>3, <2>4, <2>5
<1>4. \A act : Recorded(act) => Recorded(act)'
  BY RecordedStays
<1>5. Explained(purchase, "edit")'
  BY <1>2, <1>4 DEF AuditInv, Explained
<1>6. Explained(req[r].copy, req[r].act)'
  <2>1. purchase.status # "edit" /\ Explained(purchase, "edit")
    BY DEF TypeOK, Row, Status, AuditInv
  <2>2. req'[r].copy.status \notin {"Diajukan", req'[r].act} => Recorded(req[r].copy.status)'
    BY <1>3, <1>4, <2>1 DEF Explained
  <2>3. req'[r].copy.paid /\ req'[r].act # "bayar" => Recorded("bayar")'
    BY <1>3, <1>4, <2>1 DEF Explained
  <2>4. QED BY <2>2, <2>3 DEF Explained
<1>7. QED BY <1>2, <1>4, <1>5, <1>6 DEF AuditInv, Explained

LEMMA ContinueAudit ==
  ASSUME TypeOK, AuditInv, faults = 0, NEW r \in Request, Continue(r)
  PROVE  AuditInv'
<1>0. req \in [Request -> Handler] /\ req[r] \in Handler
  BY DEF TypeOK
<1>1. \A s \in Request \ {r} : req'[s] = req[s]
  BY <1>0 DEF Continue, FindLinesFor, AddToDb, AllCredited, RegisterAsset, RegisterRefused,
     ReplaceLines, Save, ReportToLedger, AppendLog, Goto
<1>2. \A act : Recorded(act) => Recorded(act)'
  BY RecordedStays
<1>3. req'[r].pc \in {"deliver", "credit", "lines", "save"} =>
        /\ req[r].pc \in {"deliver", "credit", "lines", "save"}
        /\ req'[r].copy = req[r].copy /\ req'[r].act = req[r].act
  BY <1>0 DEF Continue, FindLinesFor, AddToDb, NextLine, AllCredited, RegisterAsset, NewPlate,
     RegisterRefused, ReplaceLines, Save, ReportToLedger, AppendLog, Goto, Handler, Idle
<1>4. Explained(purchase, "edit")'
  <2>1. CASE Save(r)
    <3>1. /\ purchase' = req[r].copy /\ req'[r].act = req[r].act
          /\ req'[r].pc \in {"ledger", "log"} /\ req[r].pc = "save"
      BY <1>0, <2>1 DEF Save, Goto, Handler
    <3>2. Recorded(req[r].act)'
      BY <3>1 DEF Recorded
    <3>3. QED BY <1>2, <3>1, <3>2 DEF AuditInv, Explained
  <2>2. CASE ~Save(r)
    <3>1. purchase' = purchase
      BY <2>2 DEF Continue, FindLinesFor, AddToDb, AllCredited, RegisterAsset, RegisterRefused,
         ReplaceLines, ReportToLedger, AppendLog
    <3>2. QED BY <1>2, <3>1 DEF AuditInv, Explained
  <2>3. QED BY <2>1, <2>2
<1>5. \A s \in Request :
        req'[s].pc \in {"deliver", "credit", "lines", "save"} =>
          Explained(req[s].copy, req[s].act)'
  BY <1>1, <1>2, <1>3 DEF AuditInv, Explained
<1>6. QED BY <1>4, <1>5 DEF AuditInv

LEMMA NextAudit == TypeOK /\ AuditInv /\ [Next]_vars => AuditInv'
<1>1. ASSUME TypeOK, AuditInv, NEW r \in Request, Receive(r) \/ Continue(r)
      PROVE  AuditInv'
  <2>1. faults' = faults
    BY <1>1 DEF Receive, AdvanceStatus, CancelStatus, ConfirmPayment, UpdatePurchase, Start,
       Continue, FindLinesFor, AddToDb, AllCredited, RegisterAsset, RegisterRefused,
       ReplaceLines, Save, ReportToLedger, AppendLog
  <2>2. CASE faults # 0
    BY <2>1, <2>2 DEF AuditInv
  <2>3. CASE faults = 0
    BY <1>1, <2>3, ReceiveAudit, ContinueAudit
  <2>4. QED BY <2>2, <2>3
<1>2. ASSUME TypeOK, NEW r \in Request, Stop(r) \/ ReplyLost(r)
      PROVE  AuditInv'
  <2>1. faults' # 0
    BY <1>2 DEF Stop, ReplyLost, Fault, TypeOK
  <2>2. QED BY <2>1 DEF AuditInv
<1>3. ASSUME AuditInv, UNCHANGED vars PROVE AuditInv'
  BY <1>3 DEF vars, AuditInv, Explained, Recorded
<1>4. QED BY <1>1, <1>2, <1>3 DEF Next

LEMMA InitAudit == Init => AuditInv
  BY DEF Init, AuditInv, Explained, Idle

(* Without a fault, whenever nothing runs the log holds the status the row  *)
(* has reached and the payment it shows, however many requests overlapped.  *)
THEOREM TrailIsComplete == Spec => []AuditComplete
<1>1. TypeOK /\ AuditInv => AuditComplete
  <2> SUFFICES ASSUME TypeOK, AuditInv, Quiet
               PROVE  /\ purchase.status \in log \cup {"Diajukan"}
                      /\ purchase.paid => "bayar" \in log
    BY DEF AuditComplete
  <2>1. \A act : Recorded(act) => act \in log
    BY DEF Recorded, Quiet
  <2>2. purchase.status # "edit"
    BY DEF TypeOK, Row, Status
  <2>3. QED BY <2>1, <2>2 DEF AuditInv, Explained, Quiet
<1>2. QED BY <1>1, InitAudit, NextAudit, TypeCorrect, PTL DEF Spec

-----------------------------------------------------------------------------
(* Stock and deliveries.                                                    *)

LEMMA FewerOwe ==
  ASSUME TypeOK, NEW i \in Item, NEW some, some \subseteq Owing(i), IsFiniteSet(Owing(i)),
         credited[i] + Cardinality(Owing(i)) <= attempts
  PROVE  IsFiniteSet(some) /\ credited[i] + Cardinality(some) <= attempts
<1>1. /\ IsFiniteSet(some) /\ Cardinality(some) <= Cardinality(Owing(i))
      /\ Cardinality(some) \in Nat /\ Cardinality(Owing(i)) \in Nat
  BY FS_Subset, FS_CardinalityType
<1>2. credited[i] \in Nat /\ attempts \in Nat
  BY DEF TypeOK
<1>3. QED BY <1>1, <1>2

(* A handler that credits a line no longer owes it.                         *)
LEMMA LineIsPaid ==
  ASSUME TypeOK, CreditInv, NEW r \in Request, NEW i \in Item, NextLine(r, i),
         \A s \in Request \ {r} : req'[s] = req[s],
         r \notin Owing(i)', \A j \in Item : Owing(j)' \subseteq Owing(j),
         attempts' = attempts
  PROVE  CreditInv'
<1>1. ASSUME NEW j \in Item, j # i
      PROVE  IsFiniteSet(Owing(j)') /\ credited'[j] + Cardinality(Owing(j)') <= attempts'
  <2>1. credited'[j] = credited[j]
    BY <1>1 DEF NextLine, TypeOK
  <2>2. QED BY <1>1, <2>1, FewerOwe DEF CreditInv
<1>2. IsFiniteSet(Owing(i)') /\ credited'[i] + Cardinality(Owing(i)') <= attempts'
  <2>1. credited'[i] = credited[i] + 1 /\ credited[i] \in Nat /\ attempts \in Nat
    BY DEF NextLine, TypeOK
  <2>2. r \in Owing(i)
    BY DEF NextLine, Owing
  <2>3. IsFiniteSet(Owing(i)) /\ credited[i] + Cardinality(Owing(i)) <= attempts
    BY DEF CreditInv
  <2>4. /\ IsFiniteSet(Owing(i) \ {r})
        /\ Cardinality(Owing(i) \ {r}) = Cardinality(Owing(i)) - 1
    BY <2>2, <2>3, FS_RemoveElement
  <2>5. Owing(i)' \subseteq Owing(i) \ {r}
    OBVIOUS
  <2>6. IsFiniteSet(Owing(i)') /\ Cardinality(Owing(i)') <= Cardinality(Owing(i) \ {r})
    BY <2>4, <2>5, FS_Subset
  <2>7. Cardinality(Owing(i)) \in Nat /\ Cardinality(Owing(i)') \in Nat
    BY <2>3, <2>6, FS_CardinalityType
  <2>8. QED BY <2>1, <2>3, <2>4, <2>6, <2>7
<1>3. QED BY <1>1, <1>2 DEF CreditInv

(* A handler that begins a delivery owes every line, and is one more        *)
(* attempt.                                                                 *)
LEMMA AttemptOwes ==
  ASSUME TypeOK, CreditInv, NEW r \in Request,
         \A i \in Item : Owing(i)' \subseteq Owing(i) \cup {r},
         credited' = credited, attempts' = attempts + 1
  PROVE  CreditInv'
<1>1. ASSUME NEW i \in Item
      PROVE  IsFiniteSet(Owing(i)') /\ credited'[i] + Cardinality(Owing(i)') <= attempts'
  <2>1. IsFiniteSet(Owing(i)) /\ credited[i] + Cardinality(Owing(i)) <= attempts
    BY DEF CreditInv
  <2>2. /\ IsFiniteSet(Owing(i) \cup {r})
        /\ \/ Cardinality(Owing(i) \cup {r}) = Cardinality(Owing(i))
           \/ Cardinality(Owing(i) \cup {r}) = Cardinality(Owing(i)) + 1
    BY <2>1, FS_AddElement
  <2>3. /\ IsFiniteSet(Owing(i)')
        /\ Cardinality(Owing(i)') <= Cardinality(Owing(i) \cup {r})
    BY <2>2, FS_Subset
  <2>4. Cardinality(Owing(i)) \in Nat /\ Cardinality(Owing(i)') \in Nat
    BY <2>1, <2>3, FS_CardinalityType
  <2>5. credited[i] \in Nat /\ attempts \in Nat
    BY DEF TypeOK
  <2>6. QED BY <2>1, <2>2, <2>3, <2>4, <2>5
<1>2. QED BY <1>1 DEF CreditInv

LEMMA NobodyOwesMore ==
  ASSUME TypeOK, CreditInv, \A i \in Item : Owing(i)' \subseteq Owing(i),
         credited' = credited, attempts' = attempts
  PROVE  CreditInv'
  BY FewerOwe DEF CreditInv

LEMMA NextCredit == TypeOK /\ CreditInv /\ [Next]_vars => CreditInv'
<1> SUFFICES ASSUME TypeOK, CreditInv, [Next]_vars PROVE CreditInv'
  OBVIOUS
<1>0. req \in [Request -> Handler]
  BY DEF TypeOK
<1>1. ASSUME NEW r \in Request, Receive(r) PROVE CreditInv'
  <2>1. PICK role \in Role : \/ AdvanceStatus(r, role)
                             \/ CancelStatus(r, role)
                             \/ ConfirmPayment(r, role)
                             \/ \E order \in Price : UpdatePurchase(r, role, order)
    BY <1>1 DEF Receive
  <2>2. /\ credited' = credited /\ \A s \in Request \ {r} : req'[s] = req[s]
        /\ req[r].pc = "idle"
    BY <1>0, <2>1 DEF AdvanceStatus, CancelStatus, ConfirmPayment, UpdatePurchase, Start
  <2>3. CASE req'[r].pc = "deliver"
    <3>1. attempts' = attempts + 1
      BY <1>0, <2>1, <2>3 DEF AdvanceStatus, CancelStatus, ConfirmPayment, UpdatePurchase, Start
    <3>2. \A i \in Item : Owing(i)' \subseteq Owing(i) \cup {r}
      BY <2>2 DEF Owing
    <3>3. QED BY <2>2, <3>1, <3>2, AttemptOwes
  <2>4. CASE req'[r].pc # "deliver"
    <3>1. attempts' = attempts /\ req'[r].pc # "credit"
      BY <1>0, <2>1, <2>4 DEF AdvanceStatus, CancelStatus, ConfirmPayment, UpdatePurchase, Start
    <3>2. \A i \in Item : Owing(i)' \subseteq Owing(i)
      BY <2>2, <2>4, <3>1 DEF Owing
    <3>3. QED BY <2>2, <3>1, <3>2, NobodyOwesMore
  <2>5. QED BY <2>3, <2>4
<1>2. ASSUME NEW r \in Request, Continue(r) PROVE CreditInv'
  <2>1. attempts' = attempts /\ \A s \in Request \ {r} : req'[s] = req[s]
    BY <1>0, <1>2 DEF Continue, FindLinesFor, AddToDb, AllCredited, RegisterAsset,
       RegisterRefused, ReplaceLines, Save, ReportToLedger, AppendLog, Goto
  <2>2. CASE AddToDb(r)
    <3>1. PICK i \in Item : NextLine(r, i) /\ req' = [req EXCEPT ![r].todo = @ \ {i}]
      BY <2>2 DEF AddToDb
    <3>2. req[r].pc = "credit" /\ req'[r].pc = "credit" /\ req'[r].todo = req[r].todo \ {i}
      BY <1>0, <3>1 DEF NextLine, Handler
    <3>3. r \notin Owing(i)' /\ \A j \in Item : Owing(j)' \subseteq Owing(j)
      BY <2>1, <3>2 DEF Owing
    <3>4. QED BY <2>1, <3>1, <3>3, LineIsPaid
  <2>3. CASE ~AddToDb(r)
    <3>1. credited' = credited
      BY <1>2, <2>3 DEF Continue, FindLinesFor, AllCredited, RegisterAsset, RegisterRefused,
         ReplaceLines, Save, ReportToLedger, AppendLog
    <3>2. req'[r].pc \in {"deliver", "credit"} => req[r].pc = "deliver"
      BY <1>0, <1>2, <2>3 DEF Continue, FindLinesFor, AllCredited, RegisterAsset, NewPlate,
         RegisterRefused, ReplaceLines, Save, ReportToLedger, AppendLog, Goto, Handler, Idle
    <3>3. \A i \in Item : Owing(i)' \subseteq Owing(i)
      BY <2>1, <3>2 DEF Owing
    <3>4. QED BY <2>1, <3>1, <3>3, NobodyOwesMore
  <2>4. QED BY <2>2, <2>3
<1>3. ASSUME NEW r \in Request, Stop(r) \/ ReplyLost(r) PROVE CreditInv'
  <2>1. attempts' = attempts /\ req' = [req EXCEPT ![r] = Idle]
    BY <1>3 DEF Stop, ReplyLost
  <2>2. \A i \in Item : r \notin Owing(i)' /\ Owing(i)' \subseteq Owing(i)
    BY <1>0, <2>1 DEF Owing, Idle
  <2>3. CASE credited' = credited
    BY <2>1, <2>2, <2>3, NobodyOwesMore
  <2>4. CASE \E i \in Item : NextLine(r, i)
    BY <1>0, <2>1, <2>2, <2>4, LineIsPaid
  <2>5. QED BY <1>3, <2>3, <2>4 DEF Stop, ReplyLost
<1>4. CASE UNCHANGED vars
  <2>1. \A i \in Item : Owing(i)' \subseteq Owing(i)
    BY <1>4 DEF vars, Owing
  <2>2. QED BY <1>4, <2>1, NobodyOwesMore DEF vars
<1>5. QED BY <1>1, <1>2, <1>3, <1>4 DEF Next

LEMMA InitCredit == Init => CreditInv
<1> SUFFICES ASSUME Init PROVE CreditInv
  OBVIOUS
<1>1. \A i \in Item : Owing(i) = {}
  BY DEF Init, Owing, Idle
<1>2. QED BY <1>1, FS_EmptySet DEF Init, CreditInv

(* However many deliveries overlap, fail or are repeated, none credits a    *)
(* line twice.                                                              *)
THEOREM CreditedOncePerDelivery == Spec => []CreditedPerAttempt
<1>1. TypeOK /\ CreditInv => CreditedPerAttempt
  <2> SUFFICES ASSUME TypeOK, CreditInv, NEW i \in Item PROVE credited[i] <= attempts
    BY DEF CreditedPerAttempt
  <2>1. /\ credited[i] + Cardinality(Owing(i)) <= attempts
        /\ Cardinality(Owing(i)) \in Nat
    BY FS_CardinalityType DEF CreditInv
  <2>2. QED BY <2>1 DEF TypeOK
<1>2. QED BY <1>1, InitCredit, NextCredit, TypeCorrect, PTL DEF Spec

(* The three invariants together, as the run with two requests checks them. *)
THEOREM OverlapIsSound == Spec => []OverlapInv
<1>1. TypeOK /\ IInv /\ AuditInv /\ CreditInv <=> TypeOK /\ OverlapInv
  BY DEF OverlapInv
<1>2. QED BY <1>1, Inductive, InitAudit, NextAudit, InitCredit, NextCredit, TypeCorrect, PTL DEF Spec

-----------------------------------------------------------------------------
(* With one request at a time the service implements the lifecycle it       *)
(* promises, in spite of every fault: it is only the overlap of requests    *)
(* that can reopen a purchase or forget its payment.                        *)

AbstractStep == [Lifecycle!Next]_(Lifecycle!vars)

LEMMA FreshReceive ==
  ASSUME TypeOK, Fresh, NEW r \in Request, Request = {r}, Receive(r)
  PROVE  Fresh' /\ UNCHANGED Lifecycle!vars
<1>1. purchase \in Row /\ req \in [Request -> Handler]
  BY DEF TypeOK
<1>2. PICK role \in Role : \/ AdvanceStatus(r, role)
                           \/ CancelStatus(r, role)
                           \/ ConfirmPayment(r, role)
                           \/ \E order \in Price : UpdatePurchase(r, role, order)
  BY DEF Receive
<1>3. UNCHANGED <<purchase, history>>
  BY <1>2 DEF AdvanceStatus, CancelStatus, ConfirmPayment, UpdatePurchase, Start
<1>4. FreshHandler(req[r])'
  <2>1. CASE AdvanceStatus(r, role)
    <3> DEFINE to == advance[purchase.status].to
               copy == [purchase EXCEPT !.status = to]
    <3>1. purchase.status \in Status \ Terminal
      BY <1>1, <2>1 DEF AdvanceStatus, resolve, Row
    <3>2. /\ req'[r].pc = IF to = "Selesai" THEN "deliver" ELSE "save"
          /\ req'[r].act = to /\ req'[r].copy = copy
      BY <1>1, <2>1 DEF AdvanceStatus, Start
    <3>3. copy.status = to /\ copy.paid = purchase.paid
      BY <1>1 DEF Row
    <3>4. <<purchase.status, to>> \in Edge /\ to \notin {"bayar", "edit"}
      BY <3>1, AdvanceTable DEF Edge
    <3>5. QED BY <1>3, <3>2, <3>3, <3>4 DEF FreshHandler
  <2>2. CASE CancelStatus(r, role)
    <3> DEFINE to == abandon[purchase.status].to
               copy == [purchase EXCEPT !.status = to]
    <3>1. purchase.status \in Status \ Terminal
      BY <1>1, <2>2 DEF CancelStatus, resolve, Row
    <3>2. req'[r].pc = "save" /\ req'[r].act = to /\ req'[r].copy = copy
      BY <1>1, <2>2 DEF CancelStatus, Start
    <3>3. copy.status = to /\ copy.paid = purchase.paid
      BY <1>1 DEF Row
    <3>4. <<purchase.status, to>> \in Edge /\ to \in {"Ditolak", "Dibatalkan"}
      BY <3>1, AbandonTable DEF Edge
    <3>5. QED BY <1>3, <3>2, <3>3, <3>4 DEF FreshHandler
  <2>3. CASE ConfirmPayment(r, role)
    <3> DEFINE copy == [purchase EXCEPT !.paid = TRUE]
    <3>1. req'[r].pc = "save" /\ req'[r].act = "bayar" /\ req'[r].copy = copy
      BY <1>1, <2>3 DEF ConfirmPayment, Start
    <3>2. /\ copy.status = purchase.status /\ copy.paid
          /\ ~purchase.paid /\ purchase.status \in {"Diproses", "Selesai"}
      BY <1>1, <2>3 DEF ConfirmPayment, Row, Status
    <3>3. QED BY <1>3, <3>1, <3>2 DEF FreshHandler
  <2>4. CASE \E order \in Price : UpdatePurchase(r, role, order)
    <3>1. PICK order \in Price : UpdatePurchase(r, role, order)
      BY <2>4
    <3>2. /\ req'[r].pc \in {"lines", "save"} /\ req'[r].act = "edit"
          /\ req'[r].copy.status = purchase.status
          /\ req'[r].copy.paid = purchase.paid
      BY <1>1, <3>1 DEF UpdatePurchase, Start, Row
    <3>3. QED BY <1>3, <3>2 DEF FreshHandler
  <2>5. QED BY <1>2, <2>1, <2>2, <2>3, <2>4
<1>5. QED BY <1>3, <1>4 DEF Fresh, Lifecycle!vars

LEMMA FreshContinue ==
  ASSUME TypeOK, Fresh, NEW r \in Request, Request = {r}, Continue(r)
  PROVE  Fresh' /\ AbstractStep
<1>1. /\ req \in [Request -> Handler] /\ req[r] \in Handler
      /\ purchase \in Row /\ history \in History
      /\ FreshHandler(req[r])
  BY DEF TypeOK, Fresh
<1>2. ASSUME UNCHANGED <<purchase, history>>, FreshHandler(req[r])'
      PROVE  Fresh' /\ AbstractStep
  BY <1>2 DEF Fresh, AbstractStep, Lifecycle!vars
<1>3. CASE FindLinesFor(r)
  BY <1>1, <1>2, <1>3 DEF FindLinesFor, FreshHandler, Handler
<1>4. CASE AddToDb(r)
  BY <1>1, <1>2, <1>4 DEF AddToDb, NextLine, FreshHandler, Handler
<1>5. CASE AllCredited(r) \/ RegisterAsset(r)
  <2>1. /\ purchase' = purchase /\ history'.delivered # {}
        /\ req[r].pc \in {"deliver", "credit"}
        /\ req' = [req EXCEPT ![r].pc = "save"]
    <3>1. CASE AllCredited(r)
      BY <1>1, <3>1 DEF AllCredited, Goto, History
    <3>2. CASE RegisterAsset(r)
      BY <1>1, <3>2 DEF RegisterAsset, NewPlate, Goto, History
    <3>3. QED BY <1>5, <3>1, <3>2
  <2>2. purchase.status = "Diproses"
    BY <1>1, <2>1 DEF FreshHandler, Edge
  <2>3. FreshHandler(req[r])'
    BY <1>1, <2>1 DEF FreshHandler, Handler
  <2>4. Lifecycle!HandOver
    BY <2>1, <2>2 DEF Lifecycle!HandOver
  <2>5. QED BY <2>3, <2>4 DEF Fresh, AbstractStep, Lifecycle!Next
<1>6. CASE RegisterRefused(r)
  BY <1>1, <1>2, <1>6 DEF RegisterRefused, FreshHandler, Idle
<1>7. CASE ReplaceLines(r)
  BY <1>1, <1>2, <1>7 DEF ReplaceLines, Goto, FreshHandler, Handler
<1>8. CASE Save(r)
  <2>1. /\ purchase' = req[r].copy /\ history'.delivered = history.delivered
        /\ req'[r].pc \in {"ledger", "log"}
    BY <1>1, <1>8 DEF Save, Goto, History, Handler
  <2>2. Fresh'
    BY <2>1 DEF Fresh, FreshHandler
  <2>3. CASE req[r].act = "bayar"
    BY <1>1, <1>8, <2>1, <2>2, <2>3
    DEF Save, FreshHandler, Edge, AbstractStep, Lifecycle!Next, Lifecycle!Pay
  <2>4. CASE req[r].act = "edit"
    BY <1>1, <1>8, <2>1, <2>2, <2>4 DEF Save, FreshHandler, Edge, AbstractStep, Lifecycle!vars
  <2>5. CASE req[r].act \notin {"bayar", "edit"}
    <3>1. /\ <<purchase.status, req[r].act>> \in Edge
          /\ purchase'.status = req[r].act /\ purchase'.paid = purchase.paid
          /\ req[r].act = "Selesai" => history.delivered # {}
      BY <1>1, <1>8, <2>1, <2>5 DEF Save, FreshHandler
    <3>2. QED BY <2>1, <2>2, <3>1 DEF Edge, AbstractStep, Lifecycle!Next, Lifecycle!Decide,
              Lifecycle!Process, Lifecycle!Complete, Lifecycle!Cancel
  <2>6. QED BY <2>3, <2>4, <2>5
<1>9. CASE ReportToLedger(r)
  BY <1>1, <1>2, <1>9 DEF ReportToLedger, Goto, FreshHandler, Handler
<1>10. CASE AppendLog(r)
  BY <1>1, <1>2, <1>10 DEF AppendLog, FreshHandler, Idle
<1>11. QED BY <1>3, <1>4, <1>5, <1>6, <1>7, <1>8, <1>9, <1>10 DEF Continue

LEMMA FreshFault ==
  ASSUME TypeOK, Fresh, NEW r \in Request, Request = {r}, Stop(r) \/ ReplyLost(r)
  PROVE  Fresh' /\ UNCHANGED Lifecycle!vars
  BY DEF TypeOK, Stop, ReplyLost, Fresh, FreshHandler, Idle, Lifecycle!vars

(* Handled one at a time, requests and faults leave a purchase on the       *)
(* promised lifecycle: terminal statuses are final, a payment is kept, and  *)
(* completion follows the hand-over.                                        *)
THEOREM SerialRefinement ==
  ASSUME \A r, s \in Request : r = s
  PROVE  Spec => Implements
<1>1. Init => Fresh /\ Lifecycle!Init
  <2>1. ASSUME Init PROVE Fresh
    <3>1. \A r \in Request : req[r].pc = "idle"
      BY <2>1 DEF Init, Idle
    <3>2. QED BY <3>1 DEF Fresh, FreshHandler
  <2>2. Init => Lifecycle!Init
    BY DEF Init, Lifecycle!Init
  <2>3. QED BY <2>1, <2>2
<1>2. TypeOK /\ Fresh /\ [Next]_vars => Fresh' /\ AbstractStep
  <2>1. ASSUME TypeOK, Fresh, NEW r \in Request,
               Receive(r) \/ Continue(r) \/ Stop(r) \/ ReplyLost(r)
        PROVE  Fresh' /\ AbstractStep
    <3>1. Request = {r} OBVIOUS
    <3>2. QED BY <2>1, <3>1, FreshReceive, FreshContinue, FreshFault DEF AbstractStep
  <2>2. ASSUME Fresh, UNCHANGED vars PROVE Fresh' /\ AbstractStep
    BY <2>2 DEF vars, Fresh, FreshHandler, AbstractStep, Lifecycle!vars
  <2>3. QED BY <2>1, <2>2 DEF Next
<1>3. QED BY <1>1, <1>2, TypeCorrect, PTL DEF Spec, Implements, Lifecycle!Spec, AbstractStep
-----------------------------------------------------------------------------
(* One request at a time and nothing failing, what is delivered is what was *)
(* ordered, and the price is that of the lines.                             *)

LEMMA SerialReceive ==
  ASSUME TypeOK, SerialInv, faults = 0, NEW r \in Request, Request = {r}, Receive(r)
  PROVE  SerialInv'
<1>0. purchase \in Row /\ req \in [Request -> Handler]
  BY DEF TypeOK
<1>1. PICK role \in Role : \/ AdvanceStatus(r, role)
                           \/ CancelStatus(r, role)
                           \/ ConfirmPayment(r, role)
                           \/ \E order \in Price : UpdatePurchase(r, role, order)
  BY DEF Receive
<1>2. UNCHANGED <<purchase, lines, credited, faults>> /\ req[r].pc = "idle"
  BY <1>1 DEF AdvanceStatus, CancelStatus, ConfirmPayment, UpdatePurchase, Start
<1>3. /\ purchase.price = lines
      /\ purchase.kind = "Aset" => lines = {}
      /\ IF purchase.status = "Selesai" THEN Given(lines) ELSE Given({})
  BY <1>2 DEF SerialInv, SerialHandler
<1>4. SerialHandler(req[r])'
  <2>1. CASE AdvanceStatus(r, role)
    <3> DEFINE to == advance[purchase.status].to
               copy == [purchase EXCEPT !.status = to]
    <3>1. purchase.status \notin Terminal
      BY <2>1 DEF AdvanceStatus, resolve
    <3>2. /\ req'[r].pc = IF to = "Selesai" THEN "deliver" ELSE "save"
          /\ req'[r].act = to /\ req'[r].copy = copy
      BY <1>0, <2>1 DEF AdvanceStatus, Start
    <3>3. copy.status = to /\ copy.price = purchase.price
      BY <1>0 DEF Row
    <3>4. Given({}) /\ purchase.status # "Selesai"
      BY <1>3, <3>1 DEF Terminal
    <3>5. QED BY <1>2, <1>3, <3>2, <3>3, <3>4 DEF SerialHandler, Given
  <2>2. CASE CancelStatus(r, role)
    <3> DEFINE to == abandon[purchase.status].to
               copy == [purchase EXCEPT !.status = to]
    <3>1. purchase.status \in Status \ Terminal
      BY <1>0, <2>2 DEF CancelStatus, resolve, Row
    <3>2. req'[r].pc = "save" /\ req'[r].act = to /\ req'[r].copy = copy
      BY <1>0, <2>2 DEF CancelStatus, Start
    <3>3. copy.status = to /\ copy.price = purchase.price /\ to # "Selesai"
      BY <1>0, <3>1, AbandonTable DEF Row
    <3>4. Given({})
      BY <1>3, <3>1 DEF Terminal
    <3>5. QED BY <1>2, <1>3, <3>2, <3>3, <3>4 DEF SerialHandler, Given
  <2>3. CASE ConfirmPayment(r, role)
    <3> DEFINE copy == [purchase EXCEPT !.paid = TRUE]
    <3>1. req'[r].pc = "save" /\ req'[r].act = "bayar" /\ req'[r].copy = copy
      BY <1>0, <2>3 DEF ConfirmPayment, Start
    <3>2. copy.status = purchase.status /\ copy.price = purchase.price
      BY <1>0 DEF Row
    <3>3. QED BY <1>2, <1>3, <3>1, <3>2 DEF SerialHandler, Given
  <2>4. CASE \E order \in Price : UpdatePurchase(r, role, order)
    <3>1. PICK order \in Price : UpdatePurchase(r, role, order)
      BY <2>4
    <3>2. Given({}) /\ purchase.status # "Selesai"
      BY <1>3, <3>1 DEF UpdatePurchase, Terminal
    <3>3. CASE purchase.kind = "Resource"
      <4>1. /\ req'[r].pc = "lines" /\ req'[r].order = order
            /\ req'[r].copy.price = order
        BY <1>0, <3>1, <3>3 DEF UpdatePurchase, Start, Row
      <4>2. QED BY <1>2, <1>3, <3>2, <3>3, <4>1 DEF SerialHandler, Given
    <3>4. CASE purchase.kind # "Resource"
      <4>1. req'[r].pc = "save" /\ req'[r].act = "edit" /\ req'[r].copy = purchase
        BY <1>0, <3>1, <3>4 DEF UpdatePurchase, Start
      <4>2. QED BY <1>2, <1>3, <3>2, <4>1 DEF SerialHandler, Given
    <3>5. QED BY <3>3, <3>4
  <2>5. QED BY <1>1, <2>1, <2>2, <2>3, <2>4
<1>5. QED BY <1>2, <1>3, <1>4 DEF SerialInv

LEMMA SerialContinue ==
  ASSUME IInv, Fresh, SerialInv, faults = 0, NEW r \in Request, Request = {r}, Continue(r)
  PROVE  SerialInv'
<1>0. /\ purchase \in Row /\ req \in [Request -> Handler] /\ req[r] \in Handler
      /\ credited \in [Item -> Nat] /\ lines \subseteq Item
      /\ SerialHandler(req[r]) /\ FreshHandler(req[r]) /\ SoundHandler(req[r])
      /\ purchase.kind = "Aset" => lines = {}
  BY DEF IInv, TypeOK, SerialInv, Fresh, Price
<1>1. ASSUME UNCHANGED <<purchase, lines>>, SerialHandler(req[r])'
      PROVE  SerialInv'
  BY <1>0, <1>1 DEF SerialInv
<1>2. CASE FindLinesFor(r)
  <2>1. /\ UNCHANGED <<purchase, lines, credited>> /\ req[r].pc = "deliver"
        /\ req'[r].pc = "credit" /\ req'[r].todo = lines /\ req'[r].copy = req[r].copy
    BY <1>0, <1>2 DEF FindLinesFor, Handler
  <2>2. Given(lines \ lines)
    BY <1>0, <2>1 DEF SerialHandler, Given
  <2>3. QED BY <1>0, <1>1, <2>1, <2>2 DEF SerialHandler, Given
<1>3. CASE AddToDb(r)
  <2>1. PICK i \in Item : NextLine(r, i) /\ req' = [req EXCEPT ![r].todo = @ \ {i}]
    BY <1>3 DEF AddToDb
  <2>2. /\ UNCHANGED <<purchase, lines>> /\ req[r].pc = "credit" /\ i \in req[r].todo
        /\ credited' = [credited EXCEPT ![i] = @ + 1]
    BY <1>3, <2>1 DEF AddToDb, NextLine
  <2>3. /\ req'[r].pc = "credit" /\ req'[r].copy = req[r].copy
        /\ req'[r].todo = req[r].todo \ {i}
    BY <1>0, <2>1, <2>2 DEF Handler
  <2>4. req[r].todo \subseteq lines /\ Given(lines \ req[r].todo)
    BY <1>0, <2>2 DEF SerialHandler
  <2>5. credited' = [j \in Item |-> IF j \in lines \ (req[r].todo \ {i}) THEN 1 ELSE 0]
    BY <2>2, <2>4 DEF Given
  <2>6. QED BY <1>0, <1>1, <2>2, <2>3, <2>4, <2>5 DEF SerialHandler, Given
<1>4. CASE AllCredited(r)
  <2>1. /\ UNCHANGED <<purchase, lines, credited>> /\ req[r].pc = "credit"
        /\ req[r].todo = {} /\ req' = [req EXCEPT ![r].pc = "save"]
    BY <1>4 DEF AllCredited, Goto
  <2>2. req'[r].pc = "save" /\ req'[r].copy = req[r].copy
    BY <1>0, <2>1 DEF Handler
  <2>3. lines \ req[r].todo = lines /\ req[r].copy.status = "Selesai"
    BY <1>0, <2>1 DEF SoundHandler, Delivering
  <2>4. Given(lines)
    BY <1>0, <2>1, <2>3 DEF SerialHandler, Given
  <2>5. QED BY <1>0, <1>1, <2>1, <2>2, <2>3, <2>4 DEF SerialHandler, Given
<1>5. CASE RegisterAsset(r)
  <2>1. /\ UNCHANGED <<purchase, lines, credited>> /\ req[r].pc = "deliver"
        /\ req[r].copy.kind = "Aset" /\ req' = [req EXCEPT ![r].pc = "save"]
    BY <1>5 DEF RegisterAsset, NewPlate, Goto
  <2>2. req'[r].pc = "save" /\ req'[r].copy = req[r].copy
    BY <1>0, <2>1 DEF Handler
  <2>3. lines = {} /\ Given({})
    BY <1>0, <2>1 DEF SoundHandler, SerialHandler
  <2>4. QED BY <1>0, <1>1, <2>1, <2>2, <2>3 DEF SerialHandler, Given
<1>6. CASE RegisterRefused(r)
  <2>1. /\ UNCHANGED <<purchase, lines, credited>> /\ req[r].pc = "deliver"
        /\ req'[r] = Idle
    BY <1>0, <1>6 DEF RegisterRefused
  <2>2. QED BY <1>0, <1>1, <2>1 DEF SerialHandler, Given, Idle
<1>7. CASE ReplaceLines(r)
  <2>1. /\ UNCHANGED <<purchase, credited>> /\ req[r].pc = "lines"
        /\ lines' = req[r].order /\ req' = [req EXCEPT ![r].pc = "save"]
    BY <1>7 DEF ReplaceLines, Goto
  <2>2. /\ req'[r].pc = "save" /\ req'[r].copy = req[r].copy
        /\ req'[r].act = req[r].act
    BY <1>0, <2>1 DEF Handler
  <2>3. /\ req[r].act = "edit" /\ req[r].copy.status # "Selesai"
        /\ purchase.kind = "Resource" /\ Given({})
    BY <1>0, <2>1 DEF FreshHandler, SerialHandler, Edge
  <2>4. SerialHandler(req[r])'
    BY <1>0, <2>1, <2>2, <2>3 DEF SerialHandler, Given
  <2>5. QED BY <2>1, <2>3, <2>4 DEF SerialInv
<1>8. CASE Save(r)
  <2>1. /\ purchase' = req[r].copy /\ UNCHANGED <<lines, credited>>
        /\ req[r].pc = "save" /\ req'[r].pc \in {"ledger", "log"}
    BY <1>0, <1>8 DEF Save, Goto, Handler
  <2>2. purchase'.kind = purchase.kind
    BY <1>0, <2>1 DEF SoundHandler
  <2>3. SerialHandler(req[r])'
    BY <1>0, <2>1 DEF SerialHandler, Given
  <2>4. QED BY <1>0, <2>1, <2>2, <2>3 DEF SerialInv
<1>9. CASE ReportToLedger(r) \/ AppendLog(r)
  <2>1. /\ UNCHANGED <<purchase, lines, credited>> /\ req[r].pc \in {"ledger", "log"}
        /\ req'[r].pc \in {"log", "idle"}
    BY <1>0, <1>9 DEF ReportToLedger, AppendLog, Goto, Handler, Idle
  <2>2. QED BY <1>0, <1>1, <2>1 DEF SerialHandler, Given
<1>10. QED BY <1>2, <1>3, <1>4, <1>5, <1>6, <1>7, <1>8, <1>9 DEF Continue

LEMMA SerialStep ==
  ASSUME NEW r, Request = {r}
  PROVE  IInv /\ Fresh /\ SerialInv /\ [Next]_vars => Fresh' /\ SerialInv'
<1>1. ASSUME IInv, Fresh, SerialInv,
             Receive(r) \/ Continue(r) \/ Stop(r) \/ ReplyLost(r)
      PROVE  Fresh' /\ SerialInv'
  <2>1. r \in Request OBVIOUS
  <2>2. TypeOK
    BY <1>1 DEF IInv
  <2>3. Fresh'
    BY <1>1, <2>1, <2>2, FreshReceive, FreshContinue, FreshFault
  <2>4. CASE faults' # 0
    BY <2>3, <2>4 DEF SerialInv
  <2>5. CASE faults' = 0
    <3>1. ~Stop(r) /\ ~ReplyLost(r)
      BY <2>2, <2>5 DEF Stop, ReplyLost, Fault, TypeOK
    <3>2. faults = 0
      BY <1>1, <2>5, <3>1 DEF Receive, AdvanceStatus, CancelStatus, ConfirmPayment,
         UpdatePurchase, Start, Continue, FindLinesFor, AddToDb, AllCredited, RegisterAsset,
         RegisterRefused, ReplaceLines, Save, ReportToLedger, AppendLog
    <3>3. QED BY <1>1, <2>1, <2>2, <2>3, <3>1, <3>2, SerialReceive, SerialContinue
  <2>6. QED BY <2>4, <2>5, <2>3
<1>2. ASSUME Fresh, SerialInv, UNCHANGED vars PROVE Fresh' /\ SerialInv'
  BY <1>2 DEF vars, Fresh, FreshHandler, SerialInv, SerialHandler, Given
<1>3. QED BY <1>1, <1>2 DEF Next

LEMMA SerialInit == Init => Fresh /\ SerialInv
<1> SUFFICES ASSUME Init PROVE Fresh /\ SerialInv
  OBVIOUS
<1>1. /\ \A r \in Request : req[r].pc = "idle"
      /\ purchase.price = lines /\ purchase.status = "Diajukan"
      /\ purchase.kind = "Aset" => lines = {}
  BY DEF Init, Idle
<1>2. Given({})
  BY DEF Init, Given
<1>3. QED BY <1>1, <1>2 DEF Fresh, FreshHandler, SerialInv, SerialHandler

LEMMA SerialAlways ==
  ASSUME NEW r, Request = {r}
  PROVE  Spec => [](IInv /\ Fresh /\ SerialInv)
  BY SerialInit, SerialStep, Inductive, PTL DEF Spec

(* Handled one at a time, and with nothing failing, a completed purchase    *)
(* has handed over each of its lines once and nothing else.                 *)
THEOREM DeliveryIsExact ==
  ASSUME NEW r, Request = {r}
  PROVE  Spec => []DeliveredOnce
<1>1. IInv /\ Fresh /\ SerialInv => DeliveredOnce
  <2> SUFFICES ASSUME IInv, Fresh, SerialInv, faults = 0, purchase.status = "Selesai"
               PROVE  Given(lines)
    BY DEF DeliveredOnce, DeliveredExactly, Given
  <2>1. req[r] \in Handler /\ SerialHandler(req[r]) /\ FreshHandler(req[r])
    BY DEF IInv, TypeOK, SerialInv, Fresh
  <2>2. CASE req[r].pc = "save"
    <3>1. req[r].copy.status = "Selesai"
      BY <2>1, <2>2 DEF FreshHandler, Edge
    <3>2. QED BY <2>1, <2>2, <3>1 DEF SerialHandler
  <2>3. CASE req[r].pc # "save"
    BY <2>1, <2>3 DEF SerialHandler, Handler, PC
  <2>4. QED BY <2>2, <2>3
<1>2. QED BY <1>1, SerialAlways, PTL

(* Handled one at a time, and with nothing failing, the price a purchase    *)
(* shows between requests is that of the lines it has.                      *)
THEOREM PriceIsOfLines ==
  ASSUME NEW r, Request = {r}
  PROVE  Spec => []PriceOfLines
<1>1. SerialInv => PriceOfLines
  BY DEF SerialInv, SerialHandler, PriceOfLines, Quiet
<1>2. QED BY <1>1, SerialAlways, PTL

-----------------------------------------------------------------------------
(* Every handler comes to an end, with any number of them overlapping.      *)

LEMMA Stages ==
  /\ \A pc \in PC : Stage(pc) \in 0..6 /\ (pc # "idle" => Stage(pc) >= 1)
  /\ Stage("idle") = 0 /\ Stage("log") = 1 /\ Stage("ledger") = 2 /\ Stage("save") = 3
  /\ Stage("lines") = 4 /\ Stage("credit") = 5 /\ Stage("deliver") = 6
BY DEF Stage, PC

(* A handler goes on; the others do not move. *)
LEMMA ContinueCloser ==
  ASSUME TypeOK, NEW r \in Request, Continue(r)
  PROVE  /\ Closer(req'[r], req[r])
         /\ \A s \in Request \ {r} : req'[s] = req[s]
<1>. DEFINE Moved == /\ Stage(req'[r].pc) < Stage(req[r].pc)
                     /\ \A s \in Request \ {r} : req'[s] = req[s]
<1>0. req \in [Request -> Handler] /\ req[r] \in Handler  BY DEF TypeOK
<1>1. ASSUME NEW pc, Goto(r, pc)
      PROVE  req'[r].pc = pc /\ \A s \in Request \ {r} : req'[s] = req[s]
  BY <1>0, <1>1 DEF Goto, Handler
<1>2. Moved => Closer(req'[r], req[r]) /\ \A s \in Request \ {r} : req'[s] = req[s]
  BY DEF Closer
<1>3. Idle.pc = "idle"  BY DEF Idle
<1>4. CASE FindLinesFor(r)
  <2>1. req[r].pc = "deliver" /\ req'[r].pc = "credit"  BY <1>0, <1>4 DEF FindLinesFor, Handler
  <2>. QED  BY <1>0, <1>2, <1>4, <2>1, Stages DEF FindLinesFor
<1>5. CASE AddToDb(r)
  <2>1. PICK i \in req[r].todo : req' = [req EXCEPT ![r].todo = @ \ {i}]
    BY <1>5 DEF AddToDb, NextLine
  <2>2. req'[r].pc = req[r].pc /\ req'[r].todo = req[r].todo \ {i}
    BY <1>0, <2>1 DEF Handler
  <2>3. \A s \in Request \ {r} : req'[s] = req[s]  BY <1>0, <2>1
  <2>. QED  BY <2>2, <2>3 DEF Closer
<1>6. CASE AllCredited(r)
  <2>1. Goto(r, "save") /\ req[r].pc = "credit"  BY <1>6 DEF AllCredited
  <2>. QED  BY <1>1, <1>2, <2>1, Stages
<1>7. CASE RegisterAsset(r)
  <2>1. Goto(r, "save") /\ req[r].pc = "deliver"  BY <1>7 DEF RegisterAsset, NewPlate
  <2>. QED  BY <1>1, <1>2, <2>1, Stages
<1>8. CASE RegisterRefused(r)
  <2>1. req' = [req EXCEPT ![r] = Idle] /\ req[r].pc = "deliver"
    BY <1>8 DEF RegisterRefused
  <2>. QED  BY <1>0, <1>2, <1>3, <2>1, Stages
<1>9. CASE ReplaceLines(r)
  <2>1. Goto(r, "save") /\ req[r].pc = "lines"  BY <1>9 DEF ReplaceLines
  <2>. QED  BY <1>1, <1>2, <2>1, Stages
<1>10. CASE Save(r)
  <2>1. (Goto(r, "ledger") \/ Goto(r, "log")) /\ req[r].pc = "save"
    BY <1>10 DEF Save
  <2>2. req'[r].pc \in {"ledger", "log"} /\ \A s \in Request \ {r} : req'[s] = req[s]
    BY <1>1, <2>1
  <2>. QED  BY <1>2, <2>1, <2>2, Stages
<1>11. CASE ReportToLedger(r)
  <2>1. Goto(r, "log") /\ req[r].pc = "ledger"  BY <1>11 DEF ReportToLedger
  <2>. QED  BY <1>1, <1>2, <2>1, Stages
<1>12. CASE AppendLog(r)
  <2>1. req' = [req EXCEPT ![r] = Idle] /\ req[r].pc = "log"  BY <1>12 DEF AppendLog
  <2>. QED  BY <1>0, <1>2, <1>3, <2>1, Stages
<1>. QED  BY <1>4, <1>5, <1>6, <1>7, <1>8, <1>9, <1>10, <1>11, <1>12 DEF Continue

(* What HandlersEnd says of one step. *)
HandlersEndStep ==
  \A r \in Request :
    /\ Continue(r) => Closer(req'[r], req[r])
    /\ req[r].pc # "idle" => req'[r] = req[r] \/ Closer(req'[r], req[r])

(* A request that arrives finds an idle handler, and a handler that stops   *)
(* is at its end.                                                          *)
LEMMA EndStep == TypeOK /\ [Next]_vars => HandlersEndStep
<1>. SUFFICES ASSUME TypeOK, [Next]_vars, NEW r \in Request
              PROVE  /\ Continue(r) => Closer(req'[r], req[r])
                     /\ req[r].pc # "idle" => req'[r] = req[r] \/ Closer(req'[r], req[r])
  BY DEF HandlersEndStep
<1>. DEFINE Fine == req[r].pc # "idle" => req'[r] = req[r] \/ Closer(req'[r], req[r])
<1>0. req \in [Request -> Handler] /\ req[r] \in Handler  BY DEF TypeOK
<1>1. Continue(r) => Closer(req'[r], req[r])  BY ContinueCloser
<1>2. CASE UNCHANGED vars  BY <1>1, <1>2 DEF vars
<1>3. ASSUME NEW s \in Request, Receive(s)  PROVE Fine
  <2>1. req[s].pc = "idle" /\ \A t \in Request \ {s} : req'[t] = req[t]
    BY <1>0, <1>3 DEF Receive, AdvanceStatus, CancelStatus, ConfirmPayment, UpdatePurchase, Start
  <2>. QED  BY <2>1
<1>4. ASSUME NEW s \in Request, Continue(s)  PROVE Fine
  BY <1>4, ContinueCloser
<1>5. ASSUME NEW s \in Request, Stop(s) \/ ReplyLost(s)  PROVE Fine
  <2>1. req' = [req EXCEPT ![s] = Idle]  BY <1>5 DEF Stop, ReplyLost
  <2>2. CASE s # r  BY <1>0, <2>1, <2>2
  <2>3. CASE s = r
    <3>1. req'[r].pc = "idle"  BY <1>0, <2>1, <2>3 DEF Idle
    <3>2. req[r].pc \in PC  BY <1>0 DEF Handler
    <3>3. req[r].pc # "idle" => Stage(req'[r].pc) < Stage(req[r].pc)
      BY <3>1, <3>2, Stages
    <3>. QED  BY <3>3 DEF Closer
  <2>. QED  BY <2>2, <2>3
<1>. QED  BY <1>1, <1>2, <1>3, <1>4, <1>5 DEF Next

(* AdvanceStatus, CancelStatus, ConfirmPayment and UpdatePurchase end: each *)
(* statement and each call brings a handler closer to its answer, and none *)
(* is set back by the others.                                              *)
THEOREM HandlersComeToAnEnd == Spec => HandlersEnd
<1>1. TypeOK /\ [Next]_vars => [HandlersEndStep]_vars  BY EndStep
<1>2. Spec => [][HandlersEndStep]_vars  BY <1>1, TypeCorrect, PTL DEF Spec
<1>. QED  BY <1>2 DEF HandlersEnd, HandlersEndStep

==============================================================================
