-------------------------- MODULE CashClose_proofs --------------------------
(***************************************************************************)
(* What holds of CashClose for every set of processes and whatever the     *)
(* bounds: a day's report never changes, a close that is said to be done   *)
(* was done, and a report balances to the counts it was made from.         *)
(***************************************************************************)
EXTENDS CashClose, FiniteSetTheorems, WellFoundedInduction, TLAPS

USE CashAssumption

-----------------------------------------------------------------------------
\* The inductive invariant.

PaymentRows == [state : {"none", "paying", "paid", "ingested"}, day : 0..MaxDay]
Reports == [opening : Int, closing : Int, in : Nat]
CommandRows == [kind : {"none", "refresh", "close"}, day : 0..MaxDay,
                status : {"none", "pending", "running", "done", "failed"}]
PollerRecords == [pc : {"down", "poll", "claim", "busy", "count", "freeze", "list", "insert",
                        "done", "failed", "eod"},
                  command : 0..MaxCommands, closing : 0..MaxDay, count : Int,
                  firstOf : 0..MaxDay, opening : Int, listed : SUBSET Payments]

TypeOK ==
  /\ day \in Days /\ late \in BOOLEAN
  /\ hopper \in Nat /\ payment \in [Payments -> PaymentRows] /\ paidout \in [Days -> Nat]
  /\ first \in [Days -> Int] /\ close \in [Days -> Reports]
  /\ command \in [Commands -> CommandRows]
  /\ leader \in Processes \cup {Nobody} /\ up \subseteq Processes
  /\ poller \in PollerRecords /\ troubles \in 0..MaxTroubles

\* What is in the hopper is what was paid in less what was paid out.
Paid == {p \in Payments : payment[p].day # 0}
PaidByToday ==
  \A p \in Payments : IF In(p, {"none"}) THEN payment[p].day = 0 ELSE payment[p].day \in 1..day
PaidOutByToday == \A d \in Days : d >= day => paidout[d] = paidout[MaxDay]
BoxInv == /\ PaidByToday /\ PaidOutByToday
          /\ hopper = Cardinality(Paid) - paidout[MaxDay]

\* What the poller carries from one call to the next.
RequestOK == \A c \in Commands :
  /\ command[c].kind # "none" => command[c].day \in Days
  /\ command[c].status # "none" => command[c].kind # "none"
ServingOK == Serving => /\ command[poller.command].kind # "none"
                        /\ poller.closing = command[poller.command].day
ClosingOK == poller.pc \in {"busy", "count", "freeze", "list", "insert"} => poller.closing \in Days
CountOK == poller.pc \in {"freeze", "list", "insert"} => poller.count \in Nat
AnswerOK == poller.pc \in {"done", "failed"} => Serving
ClosedFirst == At("done") /\ command[poller.command].kind = "close"
                 => close[poller.closing] # NotClosed
PollerInv == RequestOK /\ ServingOK /\ ClosingOK /\ CountOK /\ AnswerOK /\ ClosedFirst

\* What it has read for the report is still so when it writes it.
OpeningOK ==
  poller.pc \in {"list", "insert"} /\ poller.closing - 1 \in Earlier(poller.closing)
    => poller.opening = close[poller.closing - 1].closing
ListedOK == At("insert") => \A p \in poller.listed : payment[p].day = poller.closing
ReadInv == OpeningOK /\ ListedOK

IInv == TypeOK /\ BoxInv /\ PollerInv /\ ReadInv /\ DoneIsClosed
-----------------------------------------------------------------------------
(***************************************************************************)
(* What the operators return.                                              *)
(***************************************************************************)
\* A set of days that is not empty has a last one.
LEMMA LastDay ==
  ASSUME NEW n \in Nat, NEW S \in SUBSET (1..n), S # {}
  PROVE  \E e \in S : \A f \in S : f <= e
<1> DEFINE T == {m \in Nat : n - m \in S}
<1>1. PICK s \in S : TRUE
  OBVIOUS
<1>2. T \subseteq Nat /\ n - s \in T
  BY <1>1
<1>3. PICK m \in T : \A k \in T : ~(<<k, m>> \in OpToRel(<, Nat))
  BY <1>2, WFMin, NatLessThanWellFounded, Zenon
<1>4. \A k \in T : ~(k < m)
  BY <1>3, <1>2 DEF OpToRel
<1>5. n - m \in S /\ m \in Nat
  OBVIOUS
<1>6. ASSUME NEW f \in S
      PROVE  f <= n - m
  <2>1. n - f \in Nat /\ n - (n - f) = f
    OBVIOUS
  <2>2. n - f \in T
    BY <2>1
  <2>3. ~(n - f < m)
    BY <2>2, <1>4
  <2> QED
    BY <2>1, <2>3, <1>5
<1> QED
  BY <1>5, <1>6

\* The sets of payments the books count are finite.
LEMMA Counted ==
  ASSUME NEW S \in SUBSET Payments
  PROVE  IsFiniteSet(S) /\ Cardinality(S) \in Nat
<1>1. IsFiniteSet(Payments)
  BY FS_Interval, 0 \in Int, 1 \in Int DEF Payments
<1> QED
  BY <1>1, FS_Subset, FS_CardinalityType

LEMMA OpeningType ==
  ASSUME TypeOK, NEW d \in Days
  PROVE  Opening(d) \in Int
<1>1. CASE Earlier(d) # {}
  <2>1. Earlier(d) \in SUBSET (1..d-1) /\ d-1 \in Nat
    BY DEF Earlier, Days
  <2>2. \E e \in Earlier(d) : \A f \in Earlier(d) : f <= e
    BY <1>1, <2>1, LastDay
  <2> DEFINE last == CHOOSE e \in Earlier(d) : \A f \in Earlier(d) : f <= e
  <2>3. last \in Earlier(d)
    BY <2>2, Zenon
  <2> HIDE DEF last
  <2>4. last \in Days
    BY <2>3, <2>1 DEF Days
  <2>5. close[last].closing \in Int
    BY <2>4 DEF TypeOK, Reports
  <2> QED
    BY <1>1, <2>5 DEF Opening, last
<1>2. CASE Earlier(d) = {}
  BY <1>2 DEF Opening, TypeOK
<1> QED
  BY <1>1, <1>2

LEMMA ReportType ==
  ASSUME TypeOK
  PROVE  build_daily_report \in Reports
<1>1. poller.listed \in SUBSET Payments
  BY DEF TypeOK, PollerRecords
<1>2. Cardinality(poller.listed) \in Nat
  BY <1>1, Counted
<1> QED
  BY <1>2 DEF build_daily_report, TypeOK, PollerRecords, Reports

\* Of days that are not after m, m is the last when it is one of them.
LEMMA LastIs ==
  ASSUME NEW m \in Nat, NEW S \in SUBSET (1..m), m \in S
  PROVE  (CHOOSE e \in S : \A f \in S : f <= e) = m
<1> DEFINE last == CHOOSE e \in S : \A f \in S : f <= e
<1>1. \A f \in S : f <= m
  OBVIOUS
<1>2. last \in S /\ \A f \in S : f <= last
  BY <1>1, Zenon
<1> HIDE DEF last
<1>3. last \in Int /\ last <= m /\ m <= last
  BY <1>1, <1>2
<1>4. last = m
  BY <1>3
<1> QED
  BY <1>4 DEF last

\* A day after a closed one opens with its closing count.
LEMMA OpensWith ==
  ASSUME NEW d \in Days, d-1 \in Earlier(d)
  PROVE  Opening(d) = close[d-1].closing
<1>1. d-1 \in Nat /\ Earlier(d) \in SUBSET (1..d-1)
  BY DEF Earlier, Days
<1>2. (CHOOSE e \in Earlier(d) : \A f \in Earlier(d) : f <= e) = d-1
  BY <1>1, LastIs
<1> QED
  BY <1>2 DEF Opening

LEMMA SnapshotType ==
  ASSUME TypeOK, insert_cash_snapshot
  PROVE  first' \in [Days -> Int]
BY DEF TypeOK, insert_cash_snapshot
-----------------------------------------------------------------------------
(***************************************************************************)
(* The types.                                                              *)
(***************************************************************************)
LEMMA InitInv == Init => IInv
<1> SUFFICES ASSUME Init
             PROVE  IInv
  OBVIOUS
<1> USE DEF Init, Unpaid, NoCommand, NotClosed, None
<1>1. TypeOK
  <2>1. payment \in [Payments -> PaymentRows] /\ command \in [Commands -> CommandRows]
    BY DEF PaymentRows, CommandRows
  <2>2. close \in [Days -> Reports] /\ first \in [Days -> Int] /\ paidout \in [Days -> Nat]
    BY DEF Reports
  <2>3. poller \in PollerRecords
    BY DEF PollerRecords, Rest
  <2>4. day \in Days
    BY DEF Days
  <2>5. hopper \in Nat /\ troubles \in 0..MaxTroubles
    OBVIOUS
  <2>6. late \in BOOLEAN /\ leader \in Processes \cup {Nobody} /\ up \subseteq Processes
    BY Zenon
  <2> HIDE DEF Init
  <2> QED
    BY <2>1, <2>2, <2>3, <2>4, <2>5, <2>6 DEF TypeOK
<1>2. BoxInv
  <2>1. PaidByToday
    BY DEF PaidByToday, In
  <2>2. PaidOutByToday
    BY DEF PaidOutByToday, Days
  <2>3. Paid = {}
    BY DEF Paid
  <2>4. hopper = Cardinality(Paid) - paidout[MaxDay]
    BY <2>3, FS_EmptySet DEF Days
  <2> QED
    BY <2>1, <2>2, <2>4 DEF BoxInv
<1>3. PollerInv /\ ReadInv
  BY DEF PollerInv, RequestOK, ServingOK, ClosingOK, CountOK, AnswerOK, ClosedFirst,
         ReadInv, OpeningOK, ListedOK, Serving, At, Rest
<1>4. DoneIsClosed
  BY DEF DoneIsClosed
<1> QED
  BY <1>1, <1>2, <1>3, <1>4 DEF IInv

\* The record of a step of the poller keeps its type.
LEMMA ServeType ==
  ASSUME NEW k \in PollerRecords, NEW c \in 0..MaxCommands, NEW d \in 0..MaxDay
  PROVE  [k EXCEPT !.pc = "busy", !.command = c, !.closing = d] \in PollerRecords
BY DEF PollerRecords

LEMMA EveningType ==
  ASSUME NEW k \in PollerRecords, NEW d \in 0..MaxDay
  PROVE  [k EXCEPT !.pc = "busy", !.closing = d] \in PollerRecords
BY DEF PollerRecords

LEMMA CountType ==
  ASSUME NEW k \in PollerRecords, NEW n \in Int, NEW d \in 0..MaxDay
  PROVE  [k EXCEPT !.pc = "freeze", !.count = n, !.firstOf = d] \in PollerRecords
BY DEF PollerRecords

LEMMA ReadType ==
  ASSUME NEW k \in PollerRecords, NEW n \in Int, NEW S \in SUBSET Payments
  PROVE  /\ [k EXCEPT !.pc = "list", !.opening = n] \in PollerRecords
         /\ [k EXCEPT !.pc = "insert", !.listed = S] \in PollerRecords
BY DEF PollerRecords

LEMMA RestType ==
  ASSUME NEW pc \in {"poll", "eod"}
  PROVE  [Rest EXCEPT !.pc = pc] \in PollerRecords
BY DEF PollerRecords, Rest, None

LEMMA GotoType ==
  ASSUME TypeOK, NEW pc \in {"claim", "count"}, Goto(pc)
  PROVE  poller' \in PollerRecords
BY DEF TypeOK, Goto, PollerRecords

LEMMA AnswerType ==
  ASSUME TypeOK, NEW pc \in {"done", "failed"}, Answer(pc)
  PROVE  poller' \in PollerRecords
<1>1. poller.command \in 0..MaxCommands /\ poller.closing \in 0..MaxDay
  BY DEF TypeOK, PollerRecords
<1>2. poller' = [pc |-> pc, command |-> poller.command, closing |-> poller.closing, count |-> None,
                 firstOf |-> 0, opening |-> 0, listed |-> {}]
  BY DEF Answer, Rest
<1> QED
  BY <1>1, <1>2 DEF PollerRecords, None

LEMMA NoSnapshotType ==
  ASSUME TypeOK, NoSnapshot \/ Closed
  PROVE  poller' \in PollerRecords
BY AnswerType, RestType DEF NoSnapshot, Closed, Cycle

LEMMA TypeStep ==
  ASSUME TypeOK, ClosingOK, [Next]_vars
  PROVE  TypeOK'
<1>1. ASSUME NEW p \in Payments, Insert(p)
      PROVE  TypeOK'
  BY <1>1 DEF TypeOK, Insert, PaymentRows, Days
<1>2. ASSUME NEW p \in Payments, Complete(p)
      PROVE  TypeOK'
  BY <1>2 DEF TypeOK, Complete, PaymentRows, Days
<1>3. ASSUME NEW p \in Payments, ingest_webhook(p)
      PROVE  TypeOK'
  <2>1. first' \in [Days -> Int]
    BY <1>3, SnapshotType DEF ingest_webhook, TypeOK
  <2> QED
    BY <1>3, <2>1 DEF TypeOK, ingest_webhook, PaymentRows, Days
<1>4. CASE PayOut
  BY <1>4 DEF TypeOK, PayOut
<1>5. CASE Evening
  BY <1>5 DEF TypeOK, Evening, till
<1>6. CASE Midnight
  <2>1. day \in 1..MaxDay
    BY DEF TypeOK, Days
  <2>2. day' = day + 1 /\ day < MaxDay /\ late' \in BOOLEAN
    BY <1>6 DEF Midnight
  <2>3. day' \in Days
    BY <2>1, <2>2 DEF Days
  <2> QED
    BY <1>6, <2>2, <2>3 DEF TypeOK, Midnight, till
<1>7. CASE cached_or_live_cash
  BY <1>7, SnapshotType DEF TypeOK, cached_or_live_cash, till
<1>8. ASSUME NEW c \in Commands, NEW kind \in {"refresh", "close"}, NEW d \in 1..day,
             Request(c, kind, d)
      PROVE  TypeOK'
  BY <1>8 DEF TypeOK, Request, CommandRows, Days, till
<1>9. ASSUME NEW p \in Processes, Start(p)
      PROVE  TypeOK'
  <2>1. first' \in [Days -> Int]
    BY <1>9, SnapshotType DEF Start, TypeOK
  <2>2. poller' \in PollerRecords
    BY <1>9, RestType DEF Start, Cycle, TypeOK
  <2> QED
    BY <1>9, <2>1, <2>2 DEF TypeOK, Start, till
<1>10. ASSUME NEW p \in Processes, Die(p)
       PROVE  TypeOK'
  BY <1>10 DEF TypeOK, Die, till, Trouble, Rest, PollerRecords, None
<1>11. CASE _poll_active_once
  <2>1. poller' \in PollerRecords
    BY <1>11, GotoType, RestType DEF _poll_active_once, Cycle
  <2> QED
    BY <1>11, <2>1 DEF TypeOK, _poll_active_once, till, Trouble
<1>12. CASE claim_next_cash_command
  <2>1. poller' \in PollerRecords /\ troubles' \in 0..MaxTroubles
    <3>1. CASE Pending = {} /\ poller' = Eod /\ UNCHANGED troubles
      BY <3>1, RestType DEF Eod, TypeOK
    <3>2. ASSUME NEW c \in Pending,
                 poller' = [poller EXCEPT !.pc = "busy", !.command = c, !.closing = command[c].day],
                 UNCHANGED troubles
          PROVE  poller' \in PollerRecords /\ troubles' \in 0..MaxTroubles
      <4>1. c \in 0..MaxCommands /\ command[c].day \in 0..MaxDay
        BY DEF TypeOK, Pending, Commands, CommandRows
      <4> QED
        BY <3>2, <4>1, ServeType DEF TypeOK
    <3>3. CASE Trouble /\ poller' = Eod
      BY <3>3, RestType DEF Eod, TypeOK, Trouble
    <3> QED
      BY <1>12, <3>1, <3>2, <3>3 DEF claim_next_cash_command
  <2>2. command' \in [Commands -> CommandRows]
    <3>1. CASE UNCHANGED command
      BY <3>1 DEF TypeOK
    <3>2. ASSUME NEW c \in Pending, command' = [command EXCEPT ![c].status = "running"]
          PROVE  command' \in [Commands -> CommandRows]
      BY <3>2 DEF TypeOK, Pending, CommandRows
    <3> QED
      BY <1>12, <3>1, <3>2 DEF claim_next_cash_command
  <2> QED
    BY <1>12, <2>1, <2>2 DEF TypeOK, claim_next_cash_command, till
<1>13. CASE SnapshotBusy
  <2>1. poller' \in PollerRecords
    BY <1>13, GotoType, NoSnapshotType DEF SnapshotBusy
  <2> QED
    BY <1>13, <2>1 DEF TypeOK, SnapshotBusy, till
<1>14. CASE capture_snapshot
  <2>1. poller' \in PollerRecords
    <3>1. CASE NoSnapshot \/ Answer("done")
      BY <3>1, NoSnapshotType, AnswerType
    <3>2. ASSUME NEW d \in 0..MaxDay,
                 poller' = [poller EXCEPT !.pc = "freeze", !.count = hopper, !.firstOf = d]
          PROVE  poller' \in PollerRecords
      BY <3>2, hopper \in Int, CountType DEF TypeOK
    <3>3. day \in 0..MaxDay /\ 0 \in 0..MaxDay
      BY DEF TypeOK, Days
    <3> QED
      BY <1>14, <3>1, <3>2, <3>3 DEF capture_snapshot
  <2>2. first' \in [Days -> Int]
    BY <1>14, SnapshotType DEF capture_snapshot, TypeOK
  <2> QED
    BY <1>14, <2>1, <2>2 DEF TypeOK, capture_snapshot, till, Trouble
<1>15. CASE insert_daily_close
  <2>1. poller' \in PollerRecords
    BY <1>15, NoSnapshotType DEF insert_daily_close
  <2>2. close' \in [Days -> Reports]
    <3>1. [close EXCEPT ![poller.closing] =
             IF @ = NotClosed THEN build_daily_report ELSE @] \in [Days -> Reports]
      BY ReportType DEF TypeOK
    <3> QED
      BY <1>15, <3>1 DEF insert_daily_close, TypeOK
  <2> QED
    BY <1>15, <2>1, <2>2 DEF TypeOK, insert_daily_close, till, Trouble
<1>19. CASE freeze_daily_close
  <2>1. poller' \in PollerRecords
    <3>1. CASE NoSnapshot \/ Closed
      BY <3>1, NoSnapshotType
    <3>2. CASE /\ poller.closing \in Days
               /\ poller' = [poller EXCEPT !.pc = "list", !.opening = Opening(poller.closing)]
      BY <3>2, OpeningType, ReadType DEF TypeOK
    <3> QED
      BY <1>19, <3>1, <3>2 DEF freeze_daily_close, ClosingOK, At
  <2> QED
    BY <1>19, <2>1 DEF TypeOK, freeze_daily_close, till, Trouble
<1>20. CASE ListPayments
  <2>1. poller' \in PollerRecords
    <3>1. list_payment_transactions_for_day(poller.closing) \in SUBSET Payments
      BY DEF list_payment_transactions_for_day
    <3>2. CASE NoSnapshot
      BY <3>2, NoSnapshotType
    <3>3. ASSUME NEW S \in SUBSET Payments, poller' = [poller EXCEPT !.pc = "insert", !.listed = S]
          PROVE  poller' \in PollerRecords
      BY <3>3, ReadType, poller \in PollerRecords DEF TypeOK
    <3> QED
      BY <1>20, <3>1, <3>2, <3>3 DEF ListPayments
  <2> QED
    BY <1>20, <2>1 DEF TypeOK, ListPayments, till, Trouble
<1>16. CASE finish_cash_command
  <2>1. poller' \in PollerRecords
    BY <1>16, AnswerType, RestType DEF finish_cash_command, Eod
  <2>2. command' \in [Commands -> CommandRows]
    BY <1>16 DEF finish_cash_command, TypeOK, CommandRows
  <2> QED
    BY <1>16, <2>1, <2>2 DEF TypeOK, finish_cash_command, till, Trouble
<1>17. CASE maybe_run_eod
  <2>1. poller' \in PollerRecords
    <3>1. day \in 0..MaxDay
      BY DEF TypeOK, Days
    <3>2. Cycle \in PollerRecords
      BY RestType DEF Cycle
    <3> QED
      BY <1>17, <3>1, <3>2, EveningType DEF maybe_run_eod
  <2> QED
    BY <1>17, <2>1 DEF TypeOK, maybe_run_eod, till
<1>18. CASE UNCHANGED vars
  BY <1>18 DEF TypeOK, vars, till
<1> QED
  BY <1>1, <1>2, <1>3, <1>4, <1>5, <1>6, <1>7, <1>8, <1>9, <1>10, <1>11, <1>12, <1>13,
     <1>14, <1>15, <1>16, <1>17, <1>18, <1>19, <1>20 DEF Next, Poll
-----------------------------------------------------------------------------
(***************************************************************************)
(* The pieces in the hopper.                                               *)
(***************************************************************************)
LEMMA BoxStep ==
  ASSUME TypeOK, TypeOK', BoxInv, [Next]_vars
  PROVE  BoxInv'
<1> DEFINE paid == {p \in Payments : payment[p].day # 0}
<1>a. Paid = paid /\ Paid' = {p \in Payments : payment'[p].day # 0}
  BY DEF Paid
<1>b. Paid \in SUBSET Payments /\ IsFiniteSet(Paid) /\ Cardinality(Paid) \in Nat
  BY Counted DEF Paid
<1>c. PaidByToday /\ PaidOutByToday /\ hopper = Cardinality(Paid) - paidout[MaxDay]
  BY DEF BoxInv
<1>d. MaxDay \in Days /\ day \in Days /\ day' \in Days
  BY DEF TypeOK, Days
<1>1. CASE UNCHANGED <<day, till>>
  BY <1>1 DEF BoxInv, PaidByToday, PaidOutByToday, Paid, In, till
<1>2. ASSUME NEW p \in Payments, Insert(p)
      PROVE  BoxInv'
  <2>1. /\ payment[p].state = "none" /\ payment[p].day = 0 /\ p \notin Paid
    BY <1>2, <1>c DEF Insert, In, PaidByToday, Paid
  <2>2. payment' = [payment EXCEPT ![p] = [state |-> "paying", day |-> day]]
        /\ hopper' = hopper + 1 /\ paidout' = paidout /\ day' = day
    BY <1>2 DEF Insert
  <2>3. \A q \in Payments : payment'[q] = IF q = p THEN [state |-> "paying", day |-> day]
                                          ELSE payment[q]
    BY <2>2 DEF TypeOK
  <2>4. PaidByToday'
    BY <2>2, <2>3, <1>c, <1>d DEF PaidByToday, In, Days
  <2>5. Paid' = Paid \cup {p}
    BY <2>3, <1>d DEF Paid, Days
  <2>6. Cardinality(Paid') = Cardinality(Paid) + 1
    BY <2>1, <2>5, <1>b, FS_AddElement
  <2>7. paidout[MaxDay] \in Nat
    BY <1>d DEF TypeOK
  <2> QED
    BY <2>2, <2>4, <2>6, <2>7, <1>b, <1>c DEF BoxInv, PaidOutByToday
<1>3. ASSUME NEW p \in Payments, payment[p].state # "none",
             NEW s \in {"paid", "ingested"}, payment' = [payment EXCEPT ![p].state = s],
             UNCHANGED <<day, hopper, paidout>>
      PROVE  BoxInv'
  <2>1. \A q \in Payments : /\ payment'[q].day = payment[q].day
                            /\ payment'[q].state = "none" <=> payment[q].state = "none"
    BY <1>3 DEF TypeOK, PaymentRows
  <2>2. PaidByToday'
    BY <2>1, <1>3, <1>c DEF PaidByToday, In
  <2>3. Paid' = Paid
    BY <2>1 DEF Paid
  <2> QED
    BY <2>2, <2>3, <1>3, <1>c DEF BoxInv, PaidOutByToday
<1>4. CASE PayOut
  <2>1. /\ hopper' = hopper - 1 /\ payment' = payment /\ day' = day
        /\ paidout' = [d \in Days |-> paidout[d] + IF d >= day THEN 1 ELSE 0]
    BY <1>4 DEF PayOut
  <2>2. MaxDay >= day /\ paidout[MaxDay] \in Nat
    BY <1>d DEF Days, TypeOK
  <2>3. \A d \in Days : d >= day => paidout'[d] = paidout[d] + 1
    BY <2>1
  <2>4. PaidOutByToday' /\ paidout'[MaxDay] = paidout[MaxDay] + 1
    BY <2>1, <2>2, <2>3, <1>c, <1>d DEF PaidOutByToday
  <2>5. PaidByToday' /\ Paid' = Paid
    BY <2>1, <1>c DEF PaidByToday, In, Paid
  <2> QED
    BY <2>1, <2>2, <2>4, <2>5, <1>b, <1>c DEF BoxInv
<1>5. CASE Midnight
  <2>1. day' = day + 1 /\ UNCHANGED till
    BY <1>5 DEF Midnight
  <2>2. PaidByToday'
    BY <2>1, <1>c, <1>d DEF PaidByToday, In, till, Days
  <2>3. PaidOutByToday'
    BY <2>1, <1>c, <1>d DEF PaidOutByToday, till, Days
  <2> QED
    BY <2>1, <2>2, <2>3, <1>c DEF BoxInv, Paid, till
<1>6. ASSUME NEW p \in Payments, Complete(p)
      PROVE  BoxInv'
  BY <1>3, <1>6 DEF Complete, In
<1>7. ASSUME NEW p \in Payments, ingest_webhook(p)
      PROVE  BoxInv'
  BY <1>3, <1>7 DEF ingest_webhook, In
<1> QED
  BY <1>1, <1>2, <1>4, <1>5, <1>6, <1>7
  DEF Next, Poll, vars, Evening, cached_or_live_cash, Request, Start, Die, _poll_active_once,
      claim_next_cash_command, SnapshotBusy, capture_snapshot, freeze_daily_close,
      ListPayments, insert_daily_close, finish_cash_command, maybe_run_eod

(***************************************************************************)
(* A close that was written stays.                                         *)
(***************************************************************************)
LEMMA CloseStep ==
  ASSUME TypeOK, [Next]_vars
  PROVE  \A d \in Days : close[d] # NotClosed => close'[d] = close[d]
<1>1. CASE UNCHANGED close
  BY <1>1
<1>2. CASE insert_daily_close
  <2>1. close' \in {close, [close EXCEPT ![poller.closing] =
          IF @ = NotClosed THEN build_daily_report ELSE @]}
    BY <1>2 DEF insert_daily_close
  <2> QED
    BY <2>1 DEF TypeOK
<1> QED
  BY <1>1, <1>2
  DEF Next, Poll, vars, Insert, Complete, ingest_webhook, PayOut, Evening, Midnight,
      cached_or_live_cash, Request, Start, Die, _poll_active_once,
      claim_next_cash_command, SnapshotBusy, capture_snapshot, freeze_daily_close,
      ListPayments, finish_cash_command, maybe_run_eod

\* What the freeze writes is a report.
LEMMA Frozen ==
  ASSUME TypeOK, CountOK, ClosingOK, At("insert"),
         close' = [close EXCEPT ![poller.closing] =
                    IF @ = NotClosed THEN build_daily_report ELSE @]
  PROVE  close'[poller.closing] # NotClosed
<1>1. poller.closing \in Days /\ poller.count \in Nat
  BY DEF CountOK, ClosingOK, At
<1>2. build_daily_report.closing \in Nat
  BY <1>1 DEF build_daily_report
<1>3. NotClosed.closing = -1
  BY DEF NotClosed, None
<1>4. build_daily_report # NotClosed
  BY <1>2, <1>3
<1> QED
  BY <1>1, <1>4 DEF TypeOK
-----------------------------------------------------------------------------
(***************************************************************************)
(* The poller and the commands.                                            *)
(***************************************************************************)
\* What a step may do to the commands: it changes no kind and no day of one that
\* was requested, and says done of a close only when the day is closed.
Kept(c) ==
  /\ command'[c].kind = command[c].kind /\ command'[c].day = command[c].day
  /\ command'[c].status # "none" => command[c].status # "none" \/ command[c].kind # "none"
  /\ command'[c].status = "done" => \/ command[c].status = "done"
                                    \/ command[c].kind # "close"
                                    \/ close'[command[c].day] # NotClosed
AllKept == \A c \in Commands : Kept(c)
Carried == ServingOK /\ ClosingOK /\ CountOK /\ AnswerOK /\ ClosedFirst

LEMMA CommandsStep ==
  ASSUME TypeOK, [Next]_vars, RequestOK, DoneIsClosed, AllKept
  PROVE  RequestOK' /\ DoneIsClosed'
<1>1. RequestOK'
  BY DEF RequestOK, AllKept, Kept
<1>2. ASSUME NEW c \in Commands, command'[c].kind = "close", command'[c].status = "done"
      PROVE  close'[command'[c].day] # NotClosed
  <2>1. Kept(c) /\ command[c].kind = "close"
    BY <1>2 DEF AllKept, Kept
  <2>2. command[c].day \in Days
    BY <2>1 DEF RequestOK
  <2>3. CASE command[c].status = "done"
    <3>1. close[command[c].day] # NotClosed
      BY <2>1, <2>3 DEF DoneIsClosed
    <3>2. close'[command[c].day] = close[command[c].day]
      BY <2>2, <3>1, CloseStep
    <3> QED
      BY <2>1, <3>1, <3>2 DEF Kept
  <2> QED
    BY <1>2, <2>1, <2>3 DEF Kept
<1> QED
  BY <1>1, <1>2 DEF DoneIsClosed

LEMMA SameCommands ==
  ASSUME UNCHANGED command
  PROVE  AllKept
BY DEF AllKept, Kept

LEMMA StatusKept ==
  ASSUME TypeOK, NEW c \in Commands, NEW s \in {"running", "done", "failed"},
         command[c].kind # "none", command' = [command EXCEPT ![c].status = s],
         s = "done" => command[c].kind # "close" \/ close'[command[c].day] # NotClosed
  PROVE  AllKept
<1>1. ASSUME NEW b \in Commands
      PROVE  Kept(b)
  <2>1. CASE b = c
    BY <2>1 DEF TypeOK, CommandRows, Kept
  <2>2. CASE b # c
    BY <2>2 DEF TypeOK, Kept
  <2> QED
    BY <2>1, <2>2
<1> QED
  BY <1>1 DEF AllKept

\* A poller at rest carries nothing.
LEMMA Resting ==
  ASSUME poller' \in {Rest, Cycle, Eod}
  PROVE  Carried'
<1>1. poller'.command = 0 /\ poller'.pc \in {"down", "poll", "eod"}
  BY DEF Rest, Cycle, Eod
<1> QED
  BY <1>1 DEF Carried, ServingOK, ClosingOK, CountOK, AnswerOK, ClosedFirst, Serving, At

\* A poller that stays or goes on without an answer carries what it carried.
LEMMA Staying ==
  ASSUME TypeOK, [Next]_vars, RequestOK, Carried, UNCHANGED poller,
         \A c \in Commands : command[c].kind # "none" => Kept(c)
  PROVE  Carried'
<1>1. Serving => Kept(poller.command)
  BY DEF Carried, ServingOK, TypeOK, PollerRecords, Serving, Commands
<1>2. ServingOK' /\ ClosingOK' /\ CountOK' /\ AnswerOK'
  BY <1>1 DEF Carried, ServingOK, ClosingOK, CountOK, AnswerOK, Serving, At, Kept
<1>3. ASSUME At("done"), command'[poller.command].kind = "close"
      PROVE  close'[poller.closing] # NotClosed
  <2>1. Serving
    BY <1>3 DEF Carried, AnswerOK, At
  <2>2. command[poller.command].kind = "close"
    BY <2>1, <1>1, <1>3 DEF Kept
  <2>3. close[poller.closing] # NotClosed
    BY <1>3, <2>2 DEF Carried, ClosedFirst
  <2>4. poller.command \in Commands /\ poller.closing = command[poller.command].day
    BY <2>1 DEF Carried, ServingOK, Serving, TypeOK, PollerRecords, Commands
  <2>5. poller.closing \in Days
    BY <2>2, <2>4 DEF RequestOK
  <2> QED
    BY <2>3, <2>5, CloseStep
<1> QED
  BY <1>2, <1>3 DEF Carried, ClosedFirst, At

LEMMA Going ==
  ASSUME TypeOK, Carried, AllKept, NEW pc \in {"claim", "count"}, Goto(pc),
         pc = "count" => At("busy")
  PROVE  Carried'
<1>1. poller'.pc = pc /\ poller'.command = poller.command /\ poller'.closing = poller.closing
  BY DEF TypeOK, PollerRecords, Goto
<1>2. Serving => Kept(poller.command)
  BY DEF AllKept, TypeOK, PollerRecords, Serving, Commands
<1> QED
  BY <1>1, <1>2 DEF Carried, ServingOK, ClosingOK, CountOK, AnswerOK, ClosedFirst, Serving, At, Kept

LEMMA Answering ==
  ASSUME TypeOK, Carried, AllKept, Serving, NEW pc \in {"done", "failed"}, Answer(pc),
         pc = "done" => \/ command[poller.command].kind # "close"
                        \/ close'[poller.closing] # NotClosed
  PROVE  Carried'
<1>1. poller'.pc = pc /\ poller'.command = poller.command /\ poller'.closing = poller.closing
  BY DEF Answer, Rest
<1>2. Kept(poller.command)
  BY DEF AllKept, TypeOK, PollerRecords, Serving, Commands
<1> QED
  BY <1>1, <1>2 DEF Carried, ServingOK, ClosingOK, CountOK, AnswerOK, ClosedFirst, Serving, At, Kept

LEMMA NoSnapshotCarried ==
  ASSUME TypeOK, Carried, AllKept, NoSnapshot
  PROVE  Carried'
BY Answering, Resting DEF NoSnapshot

LEMMA ClosedCarried ==
  ASSUME TypeOK, Carried, AllKept, Closed, close'[poller.closing] # NotClosed
  PROVE  Carried'
BY Answering, Resting DEF Closed
\* The steps of the poller itself.
LEMMA PollSteps ==
  ASSUME TypeOK, [Next]_vars, RequestOK, Carried, Poll
  PROVE  AllKept /\ Carried'
<1>1. CASE _poll_active_once
  BY <1>1, SameCommands, Going, Resting DEF _poll_active_once
<1>2. CASE claim_next_cash_command
  <2>1. CASE Pending = {} /\ poller' = Eod /\ UNCHANGED <<command, troubles>>
    BY <2>1, SameCommands, Resting
  <2>2. ASSUME NEW c \in Pending, command' = [command EXCEPT ![c].status = "running"],
               poller' = [poller EXCEPT !.pc = "busy", !.command = c, !.closing = command[c].day]
               \/ poller' = Eod
        PROVE  AllKept /\ Carried'
    <3>1. c \in Commands /\ command[c].status = "pending"
      BY DEF Pending
    <3>2. command[c].kind # "none" /\ command[c].day \in Days
      BY <3>1 DEF RequestOK
    <3>3. AllKept
      BY <2>2, <3>1, <3>2, StatusKept
    <3>4. CASE poller' = Eod
      BY <3>3, <3>4, Resting
    <3>5. CASE poller' = [poller EXCEPT !.pc = "busy", !.command = c, !.closing = command[c].day]
      <4>1. poller'.pc = "busy" /\ poller'.command = c /\ poller'.closing = command[c].day
        BY <3>5 DEF TypeOK, PollerRecords
      <4>2. command'[c].kind = command[c].kind /\ command'[c].day = command[c].day
        BY <3>1, <3>3 DEF AllKept, Kept
      <4>3. Carried'
        BY <3>2, <4>1, <4>2
        DEF Carried, ServingOK, ClosingOK, CountOK, AnswerOK, ClosedFirst, Serving, At
      <4> QED
        BY <3>3, <4>3
    <3> QED
      BY <2>2, <3>4, <3>5
  <2> QED
    BY <1>2, <2>1, <2>2 DEF claim_next_cash_command
<1>3. CASE SnapshotBusy
  BY <1>3, SameCommands, Going, NoSnapshotCarried DEF SnapshotBusy
<1>4. CASE capture_snapshot
  <2>1. AllKept
    BY <1>4, SameCommands DEF capture_snapshot
  <2>2. CASE NoSnapshot
    BY <2>1, <2>2, NoSnapshotCarried
  <2>4. CASE Serving /\ command[poller.command].kind = "refresh" /\ Answer("done")
    BY <2>1, <2>4, Answering
  <2>3. ASSUME NEW d,
               poller' = [poller EXCEPT !.pc = "freeze", !.count = hopper, !.firstOf = d]
        PROVE  Carried'
    <3>1. /\ poller'.command = poller.command /\ poller'.closing = poller.closing
          /\ poller'.count = hopper /\ poller'.pc = "freeze"
      BY <2>3 DEF TypeOK, PollerRecords
    <3>2. command' = command /\ At("count") /\ hopper \in Nat
      BY <1>4 DEF capture_snapshot, TypeOK
    <3>3. ServingOK' /\ ClosingOK' /\ CountOK' /\ AnswerOK'
      BY <3>1, <3>2 DEF Carried, ServingOK, ClosingOK, CountOK, AnswerOK, Serving, At
    <3>4. ClosedFirst'
      BY <3>1, <3>2 DEF ClosedFirst, At
    <3> QED
      BY <3>3, <3>4 DEF Carried
  <2> QED
    BY <1>4, <2>1, <2>2, <2>3, <2>4 DEF capture_snapshot
<1>5. CASE insert_daily_close
  <2>1. AllKept
    BY <1>5, SameCommands DEF insert_daily_close
  <2>2. CASE NoSnapshot
    BY <2>1, <2>2, NoSnapshotCarried
  <2>3. CASE /\ close' = [close EXCEPT ![poller.closing] =
                           IF @ = NotClosed THEN build_daily_report ELSE @]
             /\ Closed
    <3>1. close'[poller.closing] # NotClosed
      BY <1>5, <2>3, Frozen DEF insert_daily_close, Carried
    <3> QED
      BY <2>1, <2>3, <3>1, ClosedCarried
  <2> QED
    BY <1>5, <2>1, <2>2, <2>3 DEF insert_daily_close
<1>8. ASSUME At("freeze") \/ At("list"), UNCHANGED command,
             poller'.pc \in {"list", "insert"}, poller'.command = poller.command,
             poller'.closing = poller.closing, poller'.count = poller.count
      PROVE  Carried'
  BY <1>8 DEF Carried, ServingOK, ClosingOK, CountOK, AnswerOK, ClosedFirst, Serving, At
<1>9. CASE freeze_daily_close
  <2>1. AllKept /\ UNCHANGED <<close, command>>
    BY <1>9, SameCommands DEF freeze_daily_close
  <2>2. CASE NoSnapshot
    BY <2>1, <2>2, NoSnapshotCarried
  <2>3. CASE Closed /\ close[poller.closing] # NotClosed
    BY <2>1, <2>3, ClosedCarried
  <2>4. CASE poller' = [poller EXCEPT !.pc = "list", !.opening = Opening(poller.closing)]
    <3>1. /\ poller'.pc = "list" /\ poller'.command = poller.command
          /\ poller'.closing = poller.closing /\ poller'.count = poller.count
      BY <2>4 DEF TypeOK, PollerRecords
    <3> QED
      BY <1>8, <1>9, <2>1, <3>1 DEF freeze_daily_close
  <2> QED
    BY <1>9, <2>1, <2>2, <2>3, <2>4 DEF freeze_daily_close
<1>10. CASE ListPayments
  <2>1. AllKept /\ UNCHANGED command
    BY <1>10, SameCommands DEF ListPayments
  <2>2. CASE NoSnapshot
    BY <2>1, <2>2, NoSnapshotCarried
  <2>3. CASE poller' = [poller EXCEPT !.pc = "insert",
                          !.listed = list_payment_transactions_for_day(poller.closing)]
    <3>1. /\ poller'.pc = "insert" /\ poller'.command = poller.command
          /\ poller'.closing = poller.closing /\ poller'.count = poller.count
      BY <2>3 DEF TypeOK, PollerRecords
    <3> QED
      BY <1>8, <1>10, <2>1, <3>1 DEF ListPayments
  <2> QED
    BY <1>10, <2>1, <2>2, <2>3 DEF ListPayments
<1>6. CASE finish_cash_command
  <2>1. poller.pc \in {"done", "failed"} /\ Serving /\ poller.command \in Commands
        /\ UNCHANGED close
    BY <1>6 DEF finish_cash_command, Carried, AnswerOK, TypeOK, PollerRecords, Serving, Commands
  <2>2. command[poller.command].kind # "none" /\ poller.closing = command[poller.command].day
    BY <2>1 DEF Carried, ServingOK
  <2>3. CASE command' = command
    BY <1>6, <2>1, <2>3, SameCommands, Answering, Resting DEF finish_cash_command
  <2>4. CASE command' = [command EXCEPT ![poller.command].status = poller.pc]
    <3>1. AllKept
      BY <2>1, <2>2, <2>4, StatusKept DEF Carried, ClosedFirst, At
    <3> QED
      BY <1>6, <2>1, <3>1, Answering, Resting DEF finish_cash_command
  <2> QED
    BY <1>6, <2>1, <2>3, <2>4 DEF finish_cash_command
<1>7. CASE maybe_run_eod
  <2>1. AllKept
    BY <1>7, SameCommands DEF maybe_run_eod
  <2>2. CASE poller' = Cycle
    BY <2>1, <2>2, Resting
  <2>3. CASE poller' = [Cycle EXCEPT !.pc = "busy", !.closing = day]
    <3>1. poller'.command = 0 /\ poller'.pc = "busy" /\ poller'.closing \in Days
      BY <2>3 DEF Cycle, Rest, TypeOK
    <3> QED
      BY <2>1, <3>1
      DEF Carried, ServingOK, ClosingOK, CountOK, AnswerOK, ClosedFirst, Serving, At
  <2> QED
    BY <1>7, <2>2, <2>3, <2>1 DEF maybe_run_eod
<1> QED
  BY <1>1, <1>2, <1>3, <1>4, <1>5, <1>6, <1>7, <1>9, <1>10 DEF Poll

LEMMA PollerStep ==
  ASSUME TypeOK, [Next]_vars, PollerInv, DoneIsClosed
  PROVE  PollerInv' /\ DoneIsClosed'
<1>a. RequestOK /\ Carried
  BY DEF PollerInv, Carried
<1>1. CASE Poll
  <2>1. AllKept /\ Carried'
    BY <1>1, <1>a, PollSteps
  <2> QED
    BY <2>1, <1>a, CommandsStep DEF PollerInv, Carried
<1>2. ASSUME UNCHANGED command, UNCHANGED poller \/ poller' \in {Rest, Cycle}
      PROVE  PollerInv' /\ DoneIsClosed'
  <2>1. AllKept
    BY <1>2, SameCommands
  <2>2. RequestOK' /\ DoneIsClosed'
    BY <2>1, <1>a, CommandsStep
  <2>3. Carried'
    BY <1>2, <2>1, <1>a, Staying, Resting DEF AllKept
  <2> QED
    BY <2>2, <2>3 DEF PollerInv, Carried
<1>3. ASSUME NEW c \in Commands, NEW kind \in {"refresh", "close"}, NEW d \in 1..day,
             Request(c, kind, d)
      PROVE  PollerInv' /\ DoneIsClosed'
  <2>1. command[c].kind = "none" /\ UNCHANGED <<poller, close>>
        /\ command' = [command EXCEPT ![c] = [kind |-> kind, day |-> d, status |-> "pending"]]
    BY <1>3 DEF Request
  <2>2. \A b \in Commands : command'[b] = IF b = c THEN [kind |-> kind, day |-> d, status |-> "pending"]
                                           ELSE command[b]
    BY <2>1 DEF TypeOK
  <2>3. d \in Days
    BY DEF TypeOK, Days
  <2>4. RequestOK'
    BY <2>2, <2>3, <1>a DEF RequestOK
  <2>5. DoneIsClosed'
    BY <2>1, <2>2 DEF DoneIsClosed
  <2>6. \A b \in Commands : command[b].kind # "none" => Kept(b)
    BY <2>1, <2>2 DEF Kept
  <2>7. Carried'
    BY <2>1, <2>6, <1>a, Staying
  <2> QED
    BY <2>4, <2>5, <2>7 DEF PollerInv, Carried
<1> QED
  BY <1>1, <1>2, <1>3
  DEF Next, vars, Insert, Complete, ingest_webhook, PayOut, Evening, Midnight,
      cached_or_live_cash, Start, Die

-----------------------------------------------------------------------------
(***************************************************************************)
(* What the poller has read for a report.                                  *)
(***************************************************************************)
LEMMA ReadStep ==
  ASSUME TypeOK, BoxInv, PollerInv, ReadInv, [Next]_vars
  PROVE  ReadInv'
<1>1. CASE poller'.pc \notin {"list", "insert"}
  BY <1>1 DEF ReadInv, OpeningOK, ListedOK, At
<1>2. CASE UNCHANGED <<poller, close>>
  <2>1. OpeningOK'
    BY <1>2 DEF ReadInv, OpeningOK, Earlier
  <2>2. ASSUME At("insert"), NEW p \in poller.listed
        PROVE  payment'[p].day = poller.closing
    <3>1. p \in Payments /\ payment[p].day = poller.closing /\ poller.closing \in Days
      BY <2>2 DEF ReadInv, ListedOK, PollerInv, ClosingOK, At, TypeOK, PollerRecords
    <3>2. ~In(p, {"none"})
      BY <3>1 DEF BoxInv, PaidByToday, Days
    <3>3. payment'[p].day = payment[p].day
      <4>1. CASE UNCHANGED payment
        BY <4>1
      <4>2. ASSUME NEW q \in Payments, Insert(q)
            PROVE  payment'[p].day = payment[p].day
        BY <3>1, <3>2, <4>2 DEF Insert, TypeOK
      <4>3. ASSUME NEW q \in Payments, NEW s, payment' = [payment EXCEPT ![q].state = s]
            PROVE  payment'[p].day = payment[p].day
        BY <3>1, <4>3 DEF TypeOK, PaymentRows
      <4> QED
        BY <4>1, <4>2, <4>3
        DEF Next, Poll, vars, till, Complete, ingest_webhook, PayOut, Evening, Midnight,
            cached_or_live_cash, Request, Start, Die, _poll_active_once,
            claim_next_cash_command, SnapshotBusy, capture_snapshot, freeze_daily_close,
            ListPayments, insert_daily_close, finish_cash_command, maybe_run_eod
    <3> QED
      BY <3>1, <3>3
  <2> QED
    BY <1>2, <2>1, <2>2 DEF ReadInv, ListedOK, At
<1>3. CASE freeze_daily_close /\ poller' = [poller EXCEPT !.pc = "list", !.opening = Opening(poller.closing)]
  <2>1. /\ poller'.pc = "list" /\ poller'.closing = poller.closing
        /\ poller'.opening = Opening(poller.closing) /\ close' = close
    BY <1>3 DEF freeze_daily_close, TypeOK, PollerRecords
  <2>2. poller.closing \in Days
    BY <1>3 DEF freeze_daily_close, PollerInv, ClosingOK, At
  <2> QED
    BY <2>1, <2>2, OpensWith DEF ReadInv, OpeningOK, ListedOK, At, Earlier
<1>4. CASE ListPayments /\ poller' = [poller EXCEPT !.pc = "insert",
                          !.listed = list_payment_transactions_for_day(poller.closing)]
  <2>1. /\ poller'.pc = "insert" /\ poller'.closing = poller.closing
        /\ poller'.opening = poller.opening /\ close' = close /\ payment' = payment
        /\ poller'.listed = list_payment_transactions_for_day(poller.closing)
        /\ poller.pc = "list"
    BY <1>4 DEF ListPayments, TypeOK, PollerRecords, At, till
  <2>2. OpeningOK'
    BY <2>1 DEF ReadInv, OpeningOK, Earlier
  <2>3. ListedOK'
    BY <2>1 DEF ListedOK, list_payment_transactions_for_day
  <2> QED
    BY <2>2, <2>3 DEF ReadInv
<1>5. ASSUME \/ poller' \in {Rest, Cycle, Eod} \/ NoSnapshot \/ Closed
             \/ Answer("done") \/ Answer("failed")
      PROVE  ReadInv'
  <2>1. poller'.pc \notin {"list", "insert"}
    <3>1. ASSUME NEW pc \in {"done", "failed"}, Answer(pc)
          PROVE  poller'.pc = pc
      BY <3>1 DEF Answer, Rest
    <3>2. Rest.pc = "down" /\ Cycle.pc = "poll" /\ Eod.pc = "eod"
      BY DEF Rest, Cycle, Eod
    <3> QED
      BY <1>5, <3>1, <3>2 DEF NoSnapshot, Closed
  <2> QED
    BY <1>1, <2>1
<1>6. ASSUME NEW pc \in {"claim", "count"}, Goto(pc)
      PROVE  ReadInv'
  BY <1>1, <1>6 DEF Goto, TypeOK, PollerRecords
<1>7. CASE claim_next_cash_command
  <2>1. CASE poller' = Eod
    BY <1>5, <2>1
  <2>2. ASSUME NEW c, poller' = [poller EXCEPT !.pc = "busy", !.command = c, !.closing = command[c].day]
        PROVE  ReadInv'
    BY <1>1, <2>2 DEF TypeOK, PollerRecords
  <2> QED
    BY <1>7, <2>1, <2>2 DEF claim_next_cash_command
<1>8. CASE maybe_run_eod
  BY <1>1, <1>5, <1>8 DEF maybe_run_eod, Cycle, Rest
<1>9. CASE capture_snapshot
  <2>1. ASSUME NEW d, poller' = [poller EXCEPT !.pc = "freeze", !.count = hopper, !.firstOf = d]
        PROVE  ReadInv'
    BY <1>1, <2>1 DEF TypeOK, PollerRecords
  <2> QED
    BY <1>5, <1>9, <2>1 DEF capture_snapshot
<1>10. CASE Poll
  BY <1>3, <1>4, <1>5, <1>6, <1>7, <1>8, <1>9, <1>10
  DEF Poll, _poll_active_once, SnapshotBusy, freeze_daily_close, ListPayments,
      insert_daily_close, finish_cash_command
<1> QED
  BY <1>2, <1>5, <1>10
  DEF Next, vars, Insert, Complete, ingest_webhook, PayOut, Evening, Midnight,
      cached_or_live_cash, Request, Start, Die

(***************************************************************************)
(* The report of a day that is closed on the count.                        *)
(***************************************************************************)
\* Of a finite set, what is in a part of it and what is not make up the whole.
LEMMA Parts ==
  ASSUME NEW S \in SUBSET Payments, NEW T \in SUBSET S
  PROVE  Cardinality(S) = Cardinality(T) + Cardinality(S \ T)
<1>1. /\ IsFiniteSet(T) /\ Cardinality(T) \in Nat
      /\ IsFiniteSet(S \ T) /\ Cardinality(S \ T) \in Nat
  BY Counted
<1>2. S = T \cup (S \ T) /\ T \cap (S \ T) = {}
  OBVIOUS
<1>3. Cardinality(T \cup (S \ T)) = Cardinality(T) + Cardinality(S \ T) - Cardinality({})
  BY <1>1, <1>2, FS_Union
<1> QED
  BY <1>1, <1>2, <1>3, FS_EmptySet

LEMMA CountedStep ==
  ASSUME TypeOK, BoxInv, PollerInv, ReadInv, [Next]_vars, NEW d \in Days, close[d] = NotClosed,
         close'[d] # NotClosed, OnTheCount(d)
  PROVE  Variance(d)' = Cardinality(Unlisted(d)) - (PaidUpTo(d) - PaidUpTo(d-1))
<1>1. At("insert") /\ d = poller.closing /\ close'[d] = build_daily_report
  <2>1. CASE insert_daily_close
    <3>1. close' \in {close, [close EXCEPT ![poller.closing] =
            IF @ = NotClosed THEN build_daily_report ELSE @]}
      BY <2>1 DEF insert_daily_close
    <3> QED
      BY <2>1, <3>1 DEF TypeOK, insert_daily_close
  <2> QED
    BY <2>1
    DEF Next, Poll, vars, Insert, Complete, ingest_webhook, PayOut, Evening, Midnight,
        cached_or_live_cash, Request, Start, Die, _poll_active_once,
        claim_next_cash_command, SnapshotBusy, capture_snapshot, freeze_daily_close,
        ListPayments, finish_cash_command, maybe_run_eod
<1>2. /\ d = day /\ poller.count = hopper /\ d-1 \in Earlier(d)
      /\ close[d-1].closing = Before(d)
  BY DEF OnTheCount
<1>3. d-1 \in 1..d-1 /\ d \in Nat /\ d-1 \in Days
  BY <1>2 DEF Earlier, Days
\* The report opens with the count of the day before.
<1>4. poller.opening = Before(d)
  BY <1>1, <1>2 DEF ReadInv, OpeningOK, At
<1> DEFINE before == {p \in Payments : payment[p].day \in 1..d-1}
           today == {p \in Payments : payment[p].day = d}
\* What came in was before the day, or is in its report, or is not listed.
<1>5. Cardinality(Paid) = Cardinality(before) + Cardinality(today)
  <2>1. Paid \in SUBSET Payments /\ before \in SUBSET Paid
    BY <1>3 DEF Paid
  <2>2. Paid \ before = today
    BY <1>2, <1>3 DEF Paid, BoxInv, PaidByToday, In, Days
  <2> QED
    BY <2>1, <2>2, Parts
<1>6. Cardinality(today) = Cardinality(poller.listed) + Cardinality(Unlisted(d))
  <2>1. today \in SUBSET Payments /\ poller.listed \in SUBSET today
    BY <1>1 DEF ReadInv, ListedOK, TypeOK, PollerRecords
  <2>2. Unlisted(d) = today \ poller.listed
    BY DEF Unlisted
  <2> QED
    BY <2>1, <2>2, Parts
<1>7. Cardinality(before) \in Nat /\ Cardinality(poller.listed) \in Nat
      /\ Cardinality(Unlisted(d)) \in Nat
  BY Counted DEF Unlisted, TypeOK, PollerRecords
<1>8. hopper = Cardinality(Paid) - paidout[d] /\ paidout[d] \in Nat
  BY <1>2 DEF BoxInv, PaidOutByToday, TypeOK, Days
<1>9. /\ close'[d].closing = hopper /\ close'[d].opening = Before(d)
      /\ close'[d].in = Cardinality(poller.listed)
  BY <1>1, <1>2, <1>4 DEF build_daily_report
<1>10. PaidUpTo(d) = paidout[d] /\ PaidUpTo(d-1) \in Nat
  BY <1>3, <1>8 DEF PaidUpTo, TypeOK
<1>11. Before(d) = Cardinality(before) - PaidUpTo(d-1)
  BY DEF Before
<1> HIDE DEF before, today
<1> QED
  BY <1>5, <1>6, <1>7, <1>8, <1>9, <1>10, <1>11 DEF Variance

-----------------------------------------------------------------------------
(***************************************************************************)
(* The theorems.                                                           *)
(***************************************************************************)
LEMMA Inductive == IInv /\ [Next]_vars => IInv'
<1> SUFFICES ASSUME IInv, [Next]_vars
             PROVE  IInv'
  OBVIOUS
<1>1. TypeOK'
  BY TypeStep DEF IInv, PollerInv
<1> QED
  BY <1>1, BoxStep, PollerStep, ReadStep DEF IInv

\* Every row of the cash tables, and what the poller carries, keeps its type.
THEOREM TypeCorrect == Spec => []TypeOK
<1>1. IInv => TypeOK
  BY DEF IInv
<1> QED
  BY InitInv, Inductive, <1>1, PTL DEF Spec

\* When the office reads that its close of a day is done, the day is closed
\* (process_pending_commands finishes a command after the close was written).
THEOREM DoneClosesAreClosed == Spec => []DoneIsClosed
<1>1. IInv => DoneIsClosed
  BY DEF IInv
<1> QED
  BY InitInv, Inductive, <1>1, PTL DEF Spec

\* The report of a closed day never changes, and the variance of a day closed on the
\* count is the payments the list had not heard of, less what the vouchers took out of
\* the box (freeze_daily_close, insert_daily_close).
THEOREM ReportsAreKept == Spec => ReportsHold
<1>1. IInv /\ [Next]_vars =>
        [\A d \in Days : close[d] # NotClosed => close'[d] = close[d]]_close
  BY CloseStep DEF IInv
<1>2. IInv /\ [Next]_vars =>
        [\A d \in Days : close[d] = NotClosed /\ close'[d] # NotClosed /\ OnTheCount(d)
           => Variance(d)' = Cardinality(Unlisted(d)) - (PaidUpTo(d) - PaidUpTo(d-1))]_close
  BY CountedStep DEF IInv
<1>3. Spec => ClosesStay
  BY InitInv, Inductive, <1>1, PTL DEF Spec, ClosesStay
<1>4. Spec => CountedDayBalances
  BY InitInv, Inductive, <1>2, PTL DEF Spec, CountedDayBalances
<1> QED
  BY <1>3, <1>4 DEF ReportsHold
=============================================================================
