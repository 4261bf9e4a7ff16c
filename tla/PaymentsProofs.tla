---------------------------- MODULE PaymentsProofs ----------------------------
(* Theorems about Payments, for any orders, prices, payments, refunds and calls.

   First, an owner never has two orders for credits that can both be paid, whatever
   becomes of the calls that create them.  What a capture or a refund does to the books
   of an order that has been paid plays no part in that.  Then the books: every refund
   is booked once, Premium is backed by an entitlement, refunds stay.  Last, the credits:
   the owner has what the orders brought less what was taken back of them, and, unless
   one of the two known faults strikes, that is what the refunds left of the money. *)
EXTENDS Payments, FiniteSetTheorems, WellFoundedInduction, TLAPS

\* r is a record with the fields of an order, whatever their values.
OrderRow(r) ==
    r \in [status: {r.status}, bound: {r.bound}, txn: {r.txn}, refunded: {r.refunded},
          booked: {r.booked}, grant: {r.grant}, taken: {r.taken}]

\* An order for credits that the provider may have got and that nobody has paid.
Live(o) == o \in Orders \ Premium /\ creating[o] # "idle" /\ shop[o] # "paid"

\* The books of an order are known to be a record until it is paid.
RowsTyped ==
    /\ account = [o \in Orders |-> account[o]]
    /\ \A o \in Orders : shop[o] # "paid" => OrderRow(account[o])

ProviderTyped ==
    /\ creating \in [Orders -> {"idle", "calling", "ended"}]
    /\ shop \in [Orders -> {"none", "open", "attempted", "paid"}]

\* What the provider knows of an order comes from a call that creates it; an event of
\* money names an order that is paid.
EventsTrue ==
    /\ \A o \in Orders : shop[o] # "none" => creating[o] # "idle"
    /\ \A e \in sent : /\ e[2] \in Orders
                       /\ e[1] # "payment.failed" => shop[e[2]] = "paid"
    /\ \A o \in Orders : creating[o] = "idle" => o \notin Premium

PayTrue ==
    /\ pay = [o \in Orders |-> [p \in Payments |-> pay[o][p]]]
    /\ \A o \in Orders, p \in Payments : pay[o][p] = "authorized" => creating[o] # "idle"

\* A reconciliation has read payments only of orders that are paid.
ReaderTrue(d) ==
    reader[d].phase = "apply" =>
       reader[d].order \in Orders /\ (reader[d].paid # {} => shop[reader[d].order] = "paid")

CallsTrue ==
    /\ reader = [d \in Readers |-> reader[d]] /\ \A d \in Readers : ReaderTrue(d)
    /\ browser = [b \in Browsers |-> browser[b]]
    /\ \A b \in Browsers : browser[b].phase # "idle" => browser[b].order \in Orders

\* As long as there is an owner, an order that may be paid keeps the next one out.
LiveBlocks == owner => \A o \in Orders : Live(o) => account[o].status \in Open

OneLive == \A o, x \in Orders : Live(o) /\ Live(x) => o = x

IInv == RowsTyped /\ ProviderTyped /\ EventsTrue /\ PayTrue /\ CallsTrue /\ LiveBlocks
        /\ OneLive

-----------------------------------------------------------------------------
(* What a step may change. *)

LEMMA StatusTyped ==
  ASSUME NEW r, OrderRow(r), NEW s
  PROVE  OrderRow([r EXCEPT !.status = s]) /\ [r EXCEPT !.status = s].status = s
BY DEF OrderRow

\* A step that leaves alone the books, the owner and the provider's orders.
LEMMA QuietStep ==
  ASSUME IInv, CallsTrue', UNCHANGED <<account, owner, creating, shop, pay, sent>>
  PROVE  IInv'
BY DEF IInv, RowsTyped, ProviderTyped, EventsTrue, PayTrue, LiveBlocks, OneLive, Live

\* A step that writes the books of one order: if the order is not paid, they stay
\* typed, and an order that may be paid stays open.
LEMMA BookStep ==
  ASSUME IInv, CallsTrue', UNCHANGED <<owner, creating, shop, pay, sent>>, NEW o \in Orders,
         NEW a, account' = [account EXCEPT ![o] = a],
         shop[o] # "paid" => OrderRow(a) /\ (owner /\ Live(o) => a.status \in Open)
  PROVE  IInv'
<1>1. RowsTyped'
  <2>1. account' = [x \in Orders |-> IF x = o THEN a ELSE account[x]]
    BY DEF IInv, RowsTyped
  <2> QED  BY <2>1 DEF IInv, RowsTyped
<1>2. LiveBlocks'
  BY DEF IInv, RowsTyped, LiveBlocks, Live
<1> QED  BY <1>1, <1>2 DEF IInv, ProviderTyped, EventsTrue, PayTrue, OneLive, Live

\* A step of the provider on one order that a call has created: it pays an order or
\* leaves it as it was paid, and reports money only for an order that is paid.
LEMMA ShopStep ==
  ASSUME IInv, PayTrue', UNCHANGED <<account, owner, creating, reader, browser>>,
         NEW o \in Orders, NEW v \in {"open", "attempted", "paid"},
         shop' = [shop EXCEPT ![o] = v], shop[o] = "paid" => v = "paid",
         creating[o] # "idle",
         \A e \in sent' : e \in sent \/ (e[2] = o /\ (e[1] # "payment.failed" => v = "paid"))
  PROVE  IInv'
<1>1. RowsTyped' /\ ProviderTyped'  BY DEF IInv, RowsTyped, ProviderTyped
<1>2. EventsTrue'  BY DEF IInv, ProviderTyped, EventsTrue
<1>3. CallsTrue'
  BY DEF IInv, ProviderTyped, CallsTrue, ReaderTrue
<1>4. LiveBlocks' /\ OneLive'
  BY DEF IInv, ProviderTyped, LiveBlocks, OneLive, Live
<1> QED  BY <1>1, <1>2, <1>3, <1>4 DEF IInv

-----------------------------------------------------------------------------
(* The initial states and every action. *)

LEMMA InitRight == Init => IInv
<1> SUFFICES ASSUME Init PROVE IInv  OBVIOUS
<1>1. RowsTyped /\ ProviderTyped
  <2>1. OrderRow(NoOrder)  BY DEF NoOrder, OrderRow
  <2>2. OrderRow([NoOrder EXCEPT !.status = "created", !.bound = TRUE])
    BY <2>1 DEF OrderRow
  <2> QED  BY <2>1, <2>2 DEF Init, RowsTyped, ProviderTyped
<1>2. EventsTrue /\ PayTrue  BY DEF Init, EventsTrue, PayTrue
<1>3. CallsTrue  BY DEF Init, CallsTrue, ReaderTrue, NoCall
<1>4. LiveBlocks /\ OneLive  BY DEF Init, LiveBlocks, OneLive, Live
<1> QED  BY <1>1, <1>2, <1>3, <1>4 DEF IInv

\* An order is created only when no other may still be paid.
LEMMA CreateOrderRight ==
  ASSUME IInv, NEW o \in Orders, CreateOrder(o)
  PROVE  IInv'
<1> USE DEF CreateOrder, calls, provider, ends
<1>1. \A x \in Orders : ~Live(x)
  BY DEF IInv, LiveBlocks, Live, Blocks
<1>2. RowsTyped'
  <2>1. account' = [account EXCEPT ![o] = [account[o] EXCEPT !.status = "initializing"]]
    OBVIOUS
  <2>2. account' = [x \in Orders |-> IF x = o THEN [account[o] EXCEPT !.status = "initializing"]
                                    ELSE account[x]]
    BY <2>1 DEF IInv, RowsTyped
  <2>3. shop'[o] # "paid" => OrderRow([account[o] EXCEPT !.status = "initializing"])
    BY StatusTyped DEF IInv, RowsTyped
  <2> QED  BY <2>2, <2>3 DEF IInv, RowsTyped
<1>3. ProviderTyped'
  BY DEF IInv, ProviderTyped
<1>4. EventsTrue' /\ PayTrue' /\ CallsTrue'
  BY DEF IInv, ProviderTyped, EventsTrue, PayTrue, CallsTrue, ReaderTrue
<1>5. LiveBlocks' /\ OneLive'
  BY <1>1 DEF IInv, ProviderTyped, RowsTyped, OrderRow, LiveBlocks, OneLive, Live, Open, Uncertain
<1> QED  BY <1>2, <1>3, <1>4, <1>5 DEF IInv

LEMMA ProviderCreatesRight ==
  ASSUME IInv, NEW o \in Orders, ProviderCreates(o)
  PROVE  IInv'
<1> USE DEF ProviderCreates, books, calls, ends
<1>1. PayTrue'  BY DEF IInv, PayTrue
<1>2. creating[o] # "idle" /\ shop[o] = "none"  OBVIOUS
<1>3. shop' = [shop EXCEPT ![o] = "open"]
      /\ UNCHANGED <<account, owner, creating, reader, browser, sent>>
  OBVIOUS
<1> QED  BY <1>1, <1>2, <1>3, ShopStep

LEMMA CreatingEnded ==
  ASSUME IInv, UNCHANGED <<owner, browser, reader, shop, pay, sent>>, NEW o \in Orders,
         creating[o] = "calling", creating' = [creating EXCEPT ![o] = "ended"],
         NEW a, account' = [account EXCEPT ![o] = a] \/ UNCHANGED account,
         UNCHANGED account \/ shop[o] = "paid" \/ (OrderRow(a) /\ a.status \in Open)
  PROVE  IInv'
<1>1. CASE UNCHANGED account
  BY <1>1 DEF IInv, RowsTyped, ProviderTyped, EventsTrue, PayTrue, CallsTrue, ReaderTrue,
     LiveBlocks, OneLive, Live
<1>2. CASE /\ account' = [account EXCEPT ![o] = a]
           /\ shop[o] # "paid" => OrderRow(a) /\ a.status \in Open
  <2>1. account' = [x \in Orders |-> IF x = o THEN a ELSE account[x]]
    BY <1>2 DEF IInv, RowsTyped
  <2>2. RowsTyped'
    BY <1>2, <2>1 DEF IInv, RowsTyped
  <2>3. ProviderTyped' /\ EventsTrue' /\ PayTrue' /\ CallsTrue'
    BY DEF IInv, ProviderTyped, EventsTrue, PayTrue, CallsTrue, ReaderTrue
  <2>4. LiveBlocks' /\ OneLive'
    BY <1>2, <2>1 DEF IInv, ProviderTyped, LiveBlocks, OneLive, Live
  <2> QED  BY <2>2, <2>3, <2>4 DEF IInv
<1> QED  BY <1>1, <1>2

\* The call that creates an order ends, with whatever it has learnt.
LEMMA CreatingRight ==
  ASSUME IInv, NEW o \in Orders, RecordCreated(o) \/ RecordUnknown(o) \/ CrashCreating(o)
  PROVE  IInv'
<1> USE DEF books, provider, ends
<1>1. CASE RecordCreated(o)
  <2> DEFINE a == [account[o] EXCEPT !.status = "created", !.bound = TRUE]
  <2>1. account' = [account EXCEPT ![o] = a]  BY <1>1 DEF RecordCreated
  <2>2. shop[o] # "paid" => OrderRow(a) /\ a.status \in Open
    BY DEF IInv, RowsTyped, OrderRow, Open
  <2> HIDE DEF a
  <2> QED  BY <1>1, <2>1, <2>2, CreatingEnded DEF RecordCreated
<1>2. CASE RecordUnknown(o)
  <2> DEFINE a == [account[o] EXCEPT !.status = "creation_unknown"]
  <2>1. account' = [account EXCEPT ![o] = a]  BY <1>2 DEF RecordUnknown
  <2>2. shop[o] # "paid" => OrderRow(a) /\ a.status \in Open
    BY StatusTyped DEF IInv, RowsTyped, Open, Uncertain
  <2> HIDE DEF a
  <2> QED  BY <1>2, <2>1, <2>2, CreatingEnded DEF RecordUnknown
<1>3. CASE CrashCreating(o)
  BY <1>3, CreatingEnded DEF CrashCreating
<1> QED  BY <1>1, <1>2, <1>3

\* A payment is tried, authorized or captured.
LEMMA PaymentRight ==
  ASSUME IInv, NEW o \in Orders, NEW p \in Payments,
         FailPayment(o, p) \/ AuthorizePayment(o, p) \/ CapturePayment(o, p)
  PROVE  IInv'
<1> USE DEF books, calls, ends
<1>1. CASE FailPayment(o, p) \/ AuthorizePayment(o, p)
  <2>1. shop' = [shop EXCEPT ![o] = "attempted"]
    <3>1. shop' = [shop EXCEPT ![o] = IF @ = "open" THEN "attempted" ELSE @]
          /\ shop[o] \in {"open", "attempted"}
      BY <1>1 DEF FailPayment, AuthorizePayment, Attempted
    <3> QED  BY <3>1
  <2>2. creating[o] # "idle" /\ shop[o] # "paid"
    BY <1>1 DEF FailPayment, AuthorizePayment, IInv, EventsTrue
  <2>3. PayTrue'
    BY <1>1, <2>2 DEF FailPayment, AuthorizePayment, IInv, PayTrue
  <2>4. \A e \in sent' : e \in sent \/ (e[2] = o /\ e[1] = "payment.failed")
    <3>1. CASE FailPayment(o, p)
      <4>1. \A e \in sent' : e \in sent \/ e = <<"payment.failed", o, p>>
        BY <3>1 DEF FailPayment
      <4> QED  BY <4>1
    <3>2. CASE AuthorizePayment(o, p)
      BY <3>2 DEF AuthorizePayment
    <3> QED  BY <1>1, <3>1, <3>2
  <2>5. UNCHANGED <<account, owner, creating, reader, browser>>
    BY <1>1 DEF FailPayment, AuthorizePayment
  <2> QED  BY <2>1, <2>2, <2>3, <2>4, <2>5, ShopStep
<1>2. CASE CapturePayment(o, p)
  <2>1. creating[o] # "idle"  BY <1>2 DEF CapturePayment, IInv, PayTrue
  <2>2. PayTrue'  BY ZenonT(60), <1>2, <2>1 DEF CapturePayment, IInv, PayTrue
  <2>3. \A e \in sent' : e \in sent \/ e[2] = o
    <3>1. \A e \in sent' : \/ e \in sent \/ e = <<"payment.captured", o, p>>
                           \/ e = <<"order.paid", o, p>>
      BY <1>2 DEF CapturePayment
    <3> QED  BY <3>1
  <2>4. shop' = [shop EXCEPT ![o] = "paid"]
        /\ UNCHANGED <<account, owner, creating, reader, browser>>
    BY <1>2 DEF CapturePayment
  <2> QED  BY <2>1, <2>2, <2>3, <2>4, ShopStep
<1> QED  BY <1>1, <1>2

LEMMA RefundRight ==
  ASSUME IInv, NEW o \in Orders, NEW r \in Refunds, RefundPayment(o, r)
  PROVE  IInv'
<1> USE DEF books, calls, ends
<1>1. PICK entity : /\ shop[o] = "paid"
                    /\ sent' = sent \cup {<<"refund.processed", o, r, entity>>}
                    /\ UNCHANGED <<account, user, owner, creating, browser, reader,
                                  shop, shown, pay>>
  BY DEF RefundPayment
<1>2. EventsTrue'
  <2>1. <<"refund.processed", o, r, entity>>[2] = o  OBVIOUS
  <2> QED  BY <1>1, <2>1 DEF IInv, EventsTrue
<1> QED
  BY <1>1, <1>2 DEF IInv, RowsTyped, ProviderTyped, PayTrue, CallsTrue, ReaderTrue, LiveBlocks,
     OneLive, Live

\* Money is reported only of an order that is paid, whose books are not looked into.
LEMMA MoneyRight ==
  ASSUME IInv, NEW e \in sent,
         CaptureEvent(e) \/ RefundEvent(e) \/ FindTransaction(e) \/ HintedRefund(e)
  PROVE  IInv'
<1> USE DEF books, calls, ends, provider
<1>1. e[2] \in Orders /\ shop[e[2]] = "paid"
  BY DEF IInv, EventsTrue, CaptureEvent, RefundEvent, FindTransaction, HintedRefund
<1>2. CallsTrue'
  BY DEF IInv, CallsTrue, ReaderTrue, CaptureEvent, RefundEvent, FindTransaction, HintedRefund
<1>3. /\ UNCHANGED <<owner, creating, shop, pay, sent>>
      /\ UNCHANGED account \/ \E a : account' = [account EXCEPT ![e[2]] = a]
  BY DEF CaptureEvent, RefundEvent, FindTransaction, HintedRefund, Book
<1>4. CASE UNCHANGED account  BY <1>2, <1>3, <1>4, QuietStep
<1>5. ASSUME NEW a, account' = [account EXCEPT ![e[2]] = a] PROVE IInv'
  BY <1>1, <1>2, <1>3, <1>5, BookStep
<1> QED  BY <1>3, <1>4, <1>5

\* A payment that fails leaves its order open.
LEMMA FailureRight ==
  ASSUME IInv, NEW e \in sent, FailureEvent(e)
  PROVE  IInv'
<1> USE DEF books, calls, ends, provider
<1> DEFINE o == e[2]
           s == Known(Books(o), e[3], "failed")
           a == [s EXCEPT !.a.status =
                    IF @ \in Open \ {"creation_unknown"} THEN "payment_failed" ELSE @].a
<1>1. o \in Orders  BY DEF IInv, EventsTrue
<1>2. CallsTrue' /\ UNCHANGED <<owner, creating, shop, pay, sent>>
  BY DEF IInv, CallsTrue, ReaderTrue, FailureEvent
<1>3. UNCHANGED account \/ account' = [account EXCEPT ![o] = a]
  BY DEF FailureEvent, Book
<1>4. shop[o] # "paid" => OrderRow(a) /\ (owner /\ Live(o) => a.status \in Open)
  <2> SUFFICES ASSUME shop[o] # "paid"
               PROVE  OrderRow(a) /\ (owner /\ Live(o) => a.status \in Open)
    OBVIOUS
  <2>1. OrderRow(account[o])  BY <1>1 DEF IInv, RowsTyped
  <2>2. OrderRow(s.a) /\ s.a.status = account[o].status /\ "a" \in DOMAIN s
    BY <2>1 DEF Known, Books, OrderRow
  <2>3. a = [s.a EXCEPT !.status =
                IF @ \in Open \ {"creation_unknown"} THEN "payment_failed" ELSE @]
    BY <2>2
  <2>4. OrderRow(a) /\ a.status = IF s.a.status \in Open \ {"creation_unknown"}
                                 THEN "payment_failed" ELSE s.a.status
    <3> DEFINE r == s.a
               v == IF r.status \in Open \ {"creation_unknown"} THEN "payment_failed" ELSE r.status
    <3>1. OrderRow(r) /\ a = [r EXCEPT !.status = v]  BY <2>2, <2>3
    <3> HIDE DEF s, r, a
    <3>2. OrderRow(a) /\ a.status = v  BY <3>1, StatusTyped
    <3> QED  BY <3>2 DEF r
  <2>5. owner /\ Live(o) => account[o].status \in Open
    BY <1>1 DEF IInv, LiveBlocks
  <2> QED  BY <2>2, <2>4, <2>5 DEF Open
<1> HIDE DEF o, a
<1>5. CASE UNCHANGED account  BY <1>2, <1>5, QuietStep
<1>6. CASE account' = [account EXCEPT ![o] = a]  BY <1>1, <1>2, <1>4, <1>6, BookStep
<1> QED  BY <1>3, <1>5, <1>6

\* checkout-result: the stale status that is written is one of an open order.
LEMMA BrowserRight ==
  ASSUME IInv, NEW b \in Browsers,
         \/ ReadTransaction(b) \/ WriteResult(b)
         \/ \E o \in Orders, p \in Payments : ReadOrder(b, o, p)
  PROVE  IInv'
<1> USE DEF books, calls, ends, provider
<1>1. CallsTrue'
  BY DEF IInv, CallsTrue, ReaderTrue, ReadTransaction, WriteResult, ReadOrder, NoCall
<1>2. UNCHANGED <<owner, creating, shop, pay, sent>>
  BY DEF ReadTransaction, WriteResult, ReadOrder
<1>3. CASE UNCHANGED account  BY <1>1, <1>2, <1>3, QuietStep
<1>4. CASE WriteResult(b) /\ ~UNCHANGED account
  <2> DEFINE o == browser[b].order
             v == IF browser[b].status = "created" THEN "client_confirmed" ELSE account[o].status
             a == Confirmed(account[o], browser[b])
  <2>1. account' = [account EXCEPT ![o] = a]  BY <1>4 DEF WriteResult
  <2>2. o \in Orders  BY <1>4 DEF WriteResult, IInv, CallsTrue
  <2>3. shop[o] # "paid" => OrderRow(a) /\ (owner /\ Live(o) => a.status \in Open)
    <3> SUFFICES ASSUME shop[o] # "paid"
                 PROVE  OrderRow(a) /\ (owner /\ Live(o) => a.status \in Open)
      OBVIOUS
    <3>1. OrderRow(account[o])  BY <2>2 DEF IInv, RowsTyped
    <3>2. OrderRow(a) /\ a.status = v  BY <3>1 DEF OrderRow, Confirmed
    <3>3. owner /\ Live(o) => account[o].status \in Open
      BY <2>2 DEF IInv, LiveBlocks
    <3> QED  BY <3>2, <3>3 DEF Open
  <2> HIDE DEF o, a
  <2> QED  BY <1>1, <1>2, <2>1, <2>2, <2>3, BookStep
<1> QED  BY <1>3, <1>4 DEF ReadTransaction, ReadOrder

\* Reconciliation closes an order only with the payment it has read.
LEMMA ReaderRight ==
  ASSUME IInv, NEW d \in Readers,
         ApplyProof(d) \/ GiveUpReading(d) \/ \E o \in Orders : StartReading(d, o)
  PROVE  IInv'
<1> USE DEF books, calls, ends, provider
<1>1. CallsTrue'
  BY DEF IInv, CallsTrue, ReaderTrue, ApplyProof, GiveUpReading, StartReading, Successful, NoCall
<1>2. UNCHANGED <<owner, creating, shop, pay, sent>>
  BY DEF ApplyProof, GiveUpReading, StartReading
<1>3. CASE UNCHANGED account  BY <1>1, <1>2, <1>3, QuietStep
<1>4. CASE ApplyProof(d) /\ ~UNCHANGED account
  <2> DEFINE o == reader[d].order
             bound == [Books(o) EXCEPT !.a.bound = TRUE]
             unpaid == [bound EXCEPT !.a.status =
                IF reader[d].ready /\ @ \in Uncertain THEN "created"
                ELSE IF ~reader[d].ready /\ @ \in Open THEN "creation_unknown" ELSE @]
  <2>1. o \in Orders /\ (reader[d].paid # {} => shop[o] = "paid")
    BY <1>4 DEF ApplyProof, IInv, CallsTrue, ReaderTrue
  <2>2. CASE reader[d].paid # {}
    <3>1. \E a : account' = [account EXCEPT ![o] = a]  BY <1>4 DEF ApplyProof, Book
    <3>2. PICK a : account' = [account EXCEPT ![o] = a]  BY <3>1
    <3> QED  BY <1>1, <1>2, <2>1, <2>2, <3>2, BookStep
  <2>3. CASE reader[d].paid = {}
    <3>1. account' = [account EXCEPT ![o] = unpaid.a]
      BY <1>4, <2>3 DEF ApplyProof, Book
    <3>2. shop[o] # "paid" =>
             OrderRow(unpaid.a) /\ (owner /\ Live(o) => unpaid.a.status \in Open)
      <4> SUFFICES ASSUME shop[o] # "paid"
                   PROVE  /\ OrderRow(unpaid.a)
                          /\ owner /\ Live(o) => unpaid.a.status \in Open
        OBVIOUS
      <4>1. OrderRow(account[o])  BY <2>1 DEF IInv, RowsTyped
      <4>2. OrderRow(bound.a) /\ bound.a.status = account[o].status /\ "a" \in DOMAIN bound
        BY <4>1 DEF Books, OrderRow
      <4>3. unpaid.a = [bound.a EXCEPT !.status =
                IF reader[d].ready /\ @ \in Uncertain THEN "created"
                ELSE IF ~reader[d].ready /\ @ \in Open THEN "creation_unknown" ELSE @]
        BY <4>2
      <4>4. OrderRow(unpaid.a) /\ (bound.a.status \in Open => unpaid.a.status \in Open)
        BY ZenonT(60), <4>2, <4>3, StatusTyped DEF Open, Uncertain
      <4>5. owner /\ Live(o) => account[o].status \in Open
        BY <2>1 DEF IInv, LiveBlocks
      <4> QED  BY <4>2, <4>4, <4>5
    <3> HIDE DEF o, unpaid
    <3> QED  BY <1>1, <1>2, <2>1, <3>1, <3>2, BookStep
  <2> QED  BY <2>2, <2>3
<1> QED  BY <1>3, <1>4 DEF GiveUpReading, StartReading

\* Calls that end Premium write entitlements only.
LEMMA EnderRight ==
  ASSUME IInv, NEW n \in Enders, StartEnding(n) \/ LockEntitlements(n) \/ EndPremium(n)
  PROVE  IInv'
<1> USE DEF books, calls, ends, provider
<1>1. CallsTrue' /\ UNCHANGED <<owner, creating, shop, pay, sent>>
  BY DEF IInv, CallsTrue, ReaderTrue, StartEnding, LockEntitlements, EndPremium
<1>2. CASE UNCHANGED account  BY <1>1, <1>2, QuietStep
<1>3. CASE EndPremium(n) /\ ~UNCHANGED account
  <2>1. \A o \in Orders : OrderRow(account[o]) =>
             LET a == [account[o] EXCEPT !.grant = "ended_by_user"]
             IN  OrderRow(a) /\ a.status = account[o].status
    BY DEF OrderRow
  <2>2. account' = [o \in Orders |-> IF o \in ender[n].orders
                              THEN [account[o] EXCEPT !.grant = "ended_by_user"] ELSE account[o]]
    BY <1>3 DEF EndPremium
  <2>3. RowsTyped'  BY <1>1, <2>1, <2>2 DEF IInv, RowsTyped
  <2>4. LiveBlocks'
    BY <1>1, <2>1, <2>2 DEF IInv, RowsTyped, LiveBlocks, Live
  <2> QED  BY <1>1, <2>3, <2>4 DEF IInv, ProviderTyped, EventsTrue, PayTrue, OneLive, Live
<1> QED  BY <1>2, <1>3 DEF StartEnding, LockEntitlements

\* When the account is deleted nobody creates an order any more.
LEMMA EraserRight ==
  ASSUME IInv, NEW x \in Erasers,
         StartErasing(x) \/ ReadOrders(x) \/ EraseAccount(x) \/ GiveUpErasing(x)
  PROVE  IInv'
<1> USE DEF books, calls, ends, provider
<1>1. CallsTrue' /\ UNCHANGED <<creating, shop, pay, sent>>
  BY DEF IInv, CallsTrue, ReaderTrue, StartErasing, ReadOrders, EraseAccount, GiveUpErasing
<1>2. CASE UNCHANGED <<account, owner>>  BY <1>1, <1>2, QuietStep
<1>3. CASE EraseAccount(x)
  <2>1. \A o \in Orders : \A s, g : OrderRow(account[o]) =>
             OrderRow([account[o] EXCEPT !.status = s, !.grant = g])
    BY DEF OrderRow
  <2>2. RowsTyped'
    BY <1>1, <1>3, <2>1 DEF EraseAccount, IInv, RowsTyped
  <2>3. LiveBlocks'  BY <1>3 DEF EraseAccount, LiveBlocks
  <2> QED  BY <1>1, <2>2, <2>3 DEF IInv, ProviderTyped, EventsTrue, PayTrue, OneLive, Live
<1> QED  BY <1>2, <1>3 DEF StartErasing, ReadOrders, GiveUpErasing

LEMMA StepRight == IInv /\ [Next]_vars => IInv'
<1> SUFFICES ASSUME IInv, [Next]_vars PROVE IInv'  OBVIOUS
<1>1. ASSUME NEW o \in Orders,
             \/ CreateOrder(o) \/ ProviderCreates(o) \/ RecordCreated(o) \/ RecordUnknown(o)
             \/ CrashCreating(o)
      PROVE  IInv'
  BY <1>1, CreateOrderRight, ProviderCreatesRight, CreatingRight
<1>2. ASSUME NEW o \in Orders, Resume(o)
      PROVE  IInv'
  <2>1. CallsTrue' /\ UNCHANGED <<account, owner, creating, shop, pay, sent>>
    BY <1>2 DEF IInv, CallsTrue, ReaderTrue, Resume, books, calls, ends
  <2> QED  BY <2>1, QuietStep
<1>3. ASSUME NEW o \in Orders, NEW p \in Payments,
             FailPayment(o, p) \/ AuthorizePayment(o, p) \/ CapturePayment(o, p)
      PROVE  IInv'
  BY <1>3, PaymentRight
<1>4. ASSUME NEW o \in Orders, NEW r \in Refunds, RefundPayment(o, r) PROVE IInv'
  BY <1>4, RefundRight
<1>5. ASSUME NEW b \in Browsers,
             \/ ReadTransaction(b) \/ WriteResult(b)
             \/ \E o \in Orders, p \in Payments : ReadOrder(b, o, p)
      PROVE  IInv'
  BY <1>5, BrowserRight
<1>6. ASSUME NEW d \in Readers,
             ApplyProof(d) \/ GiveUpReading(d) \/ \E o \in Orders : StartReading(d, o)
      PROVE  IInv'
  BY <1>6, ReaderRight
<1>7. ASSUME NEW e \in sent, Webhook(e) PROVE IInv'
  BY <1>7, MoneyRight, FailureRight DEF Webhook
<1>8. ASSUME NEW n \in Enders, StartEnding(n) \/ LockEntitlements(n) \/ EndPremium(n)
      PROVE  IInv'
  BY <1>8, EnderRight
<1>9. ASSUME NEW x \in Erasers,
             StartErasing(x) \/ ReadOrders(x) \/ EraseAccount(x) \/ GiveUpErasing(x)
      PROVE  IInv'
  BY <1>9, EraserRight
<1>10. CASE UNCHANGED vars
  <2>1. CallsTrue' /\ UNCHANGED <<account, owner, creating, shop, pay, sent>>
    BY <1>10 DEF IInv, CallsTrue, ReaderTrue, vars, books, calls, provider, ends
  <2> QED  BY <2>1, QuietStep
<1> QED
  BY <1>1, <1>2, <1>3, <1>4, <1>5, <1>6, <1>7, <1>8, <1>9, <1>10 DEF Next

-----------------------------------------------------------------------------

\* Only one order at a time may still be paid, and while there is an owner it is one
\* that create_order finds.
THEOREM PaymentsInvariance == Spec => []IInv
<1>1. Init => IInv  BY InitRight
<1>2. IInv /\ [Next]_vars => IInv'  BY StepRight
<1> QED  BY <1>1, <1>2, PTL DEF Spec

\* An owner never has two orders for credits that can both be paid, although the call
\* that creates one may fail, time out or die after the provider got its request.
THEOREM PaymentsOnePayableOrder == Spec => []OnePayableOrder
<1>1. IInv => OnePayableOrder
  BY DEF IInv, EventsTrue, OneLive, Live, OnePayableOrder
<1> QED  BY <1>1, PaymentsInvariance, PTL

-----------------------------------------------------------------------------
(* Sums. *)

LEMMA Disjoint ==
    ASSUME NEW A, NEW B, IsFiniteSet(A), IsFiniteSet(B), A \cap B = {}
    PROVE  /\ IsFiniteSet(A \cup B)
           /\ Cardinality(A \cup B) = Cardinality(A) + Cardinality(B)
<1>1. Cardinality(A \cap B) = 0 /\ Cardinality(A) \in Nat /\ Cardinality(B) \in Nat
  BY FS_EmptySet, FS_CardinalityType
<1>2. IsFiniteSet(A \cup B)
      /\ Cardinality(A \cup B) = Cardinality(A) + Cardinality(B) - Cardinality(A \cap B)
  BY FS_Union
<1> QED BY <1>1, <1>2

LEMMA SameSize ==
    ASSUME NEW A, NEW B, IsFiniteSet(A), NEW m \in [A -> B],
           \A a, c \in A : m[a] = m[c] => a = c,
           \A b \in B : \E a \in A : m[a] = b
    PROVE  IsFiniteSet(B) /\ Cardinality(B) = Cardinality(A)
<1>1. m \in Bijection(A, B)
  BY DEF Bijection, Injection, Surjection, IsInjective
<1> QED BY <1>1, FS_Bijection DEF ExistsBijection

LEMMA PointsAre ==
    ASSUME NEW f, NEW x, NEW n
    PROVE  <<x, n>> \in Points(f) <=> x \in DOMAIN f /\ n \in 1..f[x]
BY DEF Points

LEMMA PointsPairs ==
    ASSUME NEW f, NEW u \in Points(f)
    PROVE  /\ u = <<u[1], u[2]>> /\ u[1] \in DOMAIN f /\ u[2] \in 1..f[u[1]]
BY DEF Points

\* A sum over a finite set is a number.
LEMMA SumIsNat ==
    ASSUME NEW D, IsFiniteSet(D), NEW f \in [D -> Nat]
    PROVE  IsFiniteSet(Points(f)) /\ Sum(f) \in Nat
<1> DEFINE part == [x \in D |-> {x} \X (1..f[x])]
           parts == {part[x] : x \in D}
<1>1. IsFiniteSet(parts)
  <2>0. part \in [D -> parts] /\ \A t \in parts : \E x \in D : part[x] = t
    <3> HIDE DEF part
    <3>1. DOMAIN part = D /\ part = [x \in D |-> part[x]]
      BY DEF part
    <3> QED BY <3>1
  <2>1. part \in Surjection(D, parts)
    <3> HIDE DEF parts, part
    <3> QED BY <2>0 DEF Surjection
  <2> QED BY <2>1, FS_Surjection
<1>2. ASSUME NEW x \in D PROVE IsFiniteSet(part[x])
  <2>0. 1 \in Int /\ f[x] \in Int
    OBVIOUS
  <2>1. IsFiniteSet({x}) /\ IsFiniteSet(1..f[x])
    BY <2>0, FS_Singleton, FS_Interval
  <2> QED BY <2>1, FS_Product
<1>3. Points(f) = UNION parts
  BY DEF Points
<1>4. IsFiniteSet(Points(f))
  <2> HIDE DEF part
  <2> QED BY <1>1, <1>2, <1>3, FS_UNION
<1> QED BY <1>4, FS_CardinalityType DEF Sum

LEMMA SumOfOne == ASSUME NEW x, NEW f \in [{x} -> Nat] PROVE Sum(f) = f[x]
<1>1. Points(f) = {x} \X (1..f[x])
  BY DEF Points
<1>2. IsFiniteSet({x}) /\ Cardinality({x}) = 1
  BY FS_Singleton
<1>3. IsFiniteSet(1..f[x]) /\ Cardinality(1..f[x]) = f[x]
  BY FS_Interval
<1>4. Cardinality({x} \X (1..f[x])) = Cardinality({x}) * Cardinality(1..f[x])
  BY <1>2, <1>3, FS_Product
<1> QED BY <1>1, <1>2, <1>3, <1>4 DEF Sum

\* The sum over two sets that have nothing in common.
LEMMA SumOfUnion ==
    ASSUME NEW A, NEW B, IsFiniteSet(A), IsFiniteSet(B), A \cap B = {},
           NEW D, D = A \cup B, NEW f \in [D -> Nat], NEW g \in [A -> Nat], NEW h \in [B -> Nat],
           \A x \in A : f[x] = g[x], \A x \in B : f[x] = h[x]
    PROVE  Sum(f) = Sum(g) + Sum(h)
<1>1. IsFiniteSet(Points(g)) /\ IsFiniteSet(Points(h))
  BY SumIsNat
<1>2. Points(f) = Points(g) \cup Points(h) /\ Points(g) \cap Points(h) = {}
  BY DEF Points
<1> QED BY <1>1, <1>2, Disjoint DEF Sum

\* The sum of sums.
LEMMA SumOfSums ==
    ASSUME NEW D, IsFiniteSet(D), NEW f \in [D -> Nat], NEW g \in [D -> Nat],
           NEW h \in [D -> Nat], \A x \in D : f[x] = g[x] + h[x]
    PROVE  Sum(f) = Sum(g) + Sum(h)
<1> DEFINE above == {u \in Points(f) : u[2] > g[u[1]]}
           lift == [u \in Points(h) |-> <<u[1], u[2] + g[u[1]]>>]
<1>1. IsFiniteSet(Points(f)) /\ IsFiniteSet(Points(g)) /\ IsFiniteSet(Points(h))
  BY SumIsNat
<1>2. lift \in [Points(h) -> above]
  <2>1. ASSUME NEW u \in Points(h) PROVE <<u[1], u[2] + g[u[1]]>> \in above
    <3>1. u[1] \in D /\ u[2] \in 1..h[u[1]]
      BY PointsPairs
    <3>2. u[2] + g[u[1]] \in 1..f[u[1]] /\ u[2] + g[u[1]] > g[u[1]]
      BY <3>1
    <3> QED BY <3>1, <3>2, PointsAre
  <2> QED BY <2>1
<1>3. ASSUME NEW u \in Points(h), NEW v \in Points(h), lift[u] = lift[v] PROVE u = v
  <2>1. /\ u = <<u[1], u[2]>> /\ v = <<v[1], v[2]>> /\ u[1] \in D
        /\ u[2] \in Int /\ v[2] \in Int
    BY PointsPairs
  <2>2. u[1] = v[1] /\ u[2] + g[u[1]] = v[2] + g[v[1]]
    BY <1>3
  <2>3. g[u[1]] \in Int
    BY <2>1
  <2> QED BY <2>1, <2>2, <2>3
<1>4. ASSUME NEW v \in above PROVE \E u \in Points(h) : lift[u] = v
  <2>1. v = <<v[1], v[2]>> /\ v[1] \in D /\ v[2] \in 1..f[v[1]] /\ v[2] > g[v[1]]
    BY <1>4, PointsPairs
  <2>2. v[2] - g[v[1]] \in 1..h[v[1]] /\ v[2] = (v[2] - g[v[1]]) + g[v[1]]
    BY <2>1
  <2>3. <<v[1], v[2] - g[v[1]]>> \in Points(h)
    BY <2>1, <2>2, PointsAre
  <2> QED BY <2>1, <2>2, <2>3
<1>5. IsFiniteSet(above) /\ Cardinality(above) = Sum(h)
  <2> HIDE DEF lift, above
  <2> QED BY <1>1, <1>2, <1>3, <1>4, SameSize DEF Sum
<1>6. Points(f) = Points(g) \cup above /\ Points(g) \cap above = {}
  <2>1. ASSUME NEW u \in Points(f) PROVE u \in Points(g) \/ u \in above
    <3>1. u = <<u[1], u[2]>> /\ u[1] \in D /\ u[2] \in 1..f[u[1]] /\ g[u[1]] \in Nat
      BY PointsPairs
    <3> QED BY <3>1, PointsAre
  <2>2. ASSUME NEW u \in Points(g) PROVE u \in Points(f) /\ u \notin above
    <3>1. u = <<u[1], u[2]>> /\ u[1] \in D /\ u[2] \in 1..g[u[1]]
      BY PointsPairs
    <3>2. u[2] \in 1..f[u[1]] /\ ~(u[2] > g[u[1]])
      BY <3>1
    <3> QED BY <3>1, <3>2, PointsAre
  <2> QED BY <2>1, <2>2
<1> QED
  <2> HIDE DEF above
  <2> QED BY <1>1, <1>5, <1>6, Disjoint DEF Sum

\* The sum after a change of one summand.
LEMMA SumOfChange ==
    ASSUME NEW D, IsFiniteSet(D), NEW f \in [D -> Nat], NEW g \in [D -> Nat], NEW x \in D,
           \A y \in D \ {x} : g[y] = f[y]
    PROVE  Sum(g) = Sum(f) - f[x] + g[x]
<1> DEFINE rest == [y \in D \ {x} |-> f[y]]
           old == [y \in {x} |-> f[y]]
           new == [y \in {x} |-> g[y]]
<1>1. IsFiniteSet({x}) /\ IsFiniteSet(D \ {x}) /\ D = {x} \cup (D \ {x})
  BY FS_Singleton, FS_Subset
<1>2. old \in [{x} -> Nat] /\ new \in [{x} -> Nat] /\ rest \in [D \ {x} -> Nat]
  OBVIOUS
<1>3. Sum(f) = Sum(old) + Sum(rest) /\ Sum(g) = Sum(new) + Sum(rest)
  <2>1. /\ \A y \in {x} : f[y] = old[y] /\ g[y] = new[y]
        /\ \A y \in D \ {x} : f[y] = rest[y] /\ g[y] = rest[y]
    OBVIOUS
  <2> HIDE DEF old, new, rest
  <2>2. Sum(f) = Sum(old) + Sum(rest)
    BY <1>1, <1>2, <2>1, SumOfUnion
  <2>3. Sum(g) = Sum(new) + Sum(rest)
    BY <1>1, <1>2, <2>1, SumOfUnion
  <2> QED BY <2>2, <2>3
<1>4. Sum(old) = f[x] /\ Sum(new) = g[x] /\ Sum(rest) \in Nat
  BY <1>1, <1>2, SumOfOne, SumIsNat
<1> QED BY <1>3, <1>4

\* What refunds come to: each adds its amount.
LEMMA TotalOfOneMore ==
  ASSUME ConstantsOK, NEW R \in SUBSET Refunds, NEW r \in Refunds \ R
  PROVE  /\ Total(R) \in Nat /\ Amount[r] \in Nat \ {0}
         /\ Total(R \cup {r}) = Total(R) + Amount[r]
<1> DEFINE f == [x \in R |-> Amount[x]]
           g == [x \in R \cup {r} |-> Amount[x]]
           new == {r} \X (1..Amount[r])
<1>1. Amount \in [Refunds -> Nat] /\ Amount[r] \in Nat \ {0} /\ IsFiniteSet(Refunds)
  BY DEF ConstantsOK
<1>2. IsFiniteSet(Points(f)) /\ Cardinality(Points(f)) \in Nat
  <2>1. IsFiniteSet(R)  BY <1>1, FS_Subset
  <2>2. f \in [R -> Nat]  BY <1>1
  <2> HIDE DEF f
  <2> QED  BY <2>1, <2>2, SumIsNat DEF Sum
<1>3. IsFiniteSet(new) /\ Cardinality(new) = Amount[r]
  <2>1. IsFiniteSet({r}) /\ Cardinality({r}) = 1  BY FS_Singleton
  <2>2. IsFiniteSet(1..Amount[r]) /\ Cardinality(1..Amount[r]) = Amount[r]
    BY <1>1, FS_Interval
  <2>3. Cardinality({r} \X (1..Amount[r])) = Cardinality({r}) * Cardinality(1..Amount[r])
        /\ IsFiniteSet({r} \X (1..Amount[r]))
    BY <2>1, <2>2, FS_Product
  <2> QED  BY <1>1, <2>1, <2>2, <2>3
<1>4. Points(g) = Points(f) \cup new /\ Points(f) \cap new = {}
  <2>1. Points(f) = UNION {{x} \X (1..Amount[x]) : x \in R}  BY DEF Points
  <2>2. Points(g) = UNION {{x} \X (1..Amount[x]) : x \in R \cup {r}}  BY DEF Points
  <2>3. Points(g) = Points(f) \cup new
    <3> DEFINE part(x) == {x} \X (1..Amount[x])
    <3>1. /\ Points(f) = UNION {part(x) : x \in R}
          /\ Points(g) = UNION {part(x) : x \in R \cup {r}} /\ new = part(r)
      BY <2>1, <2>2
    <3> HIDE DEF part, f, g, new
    <3> QED  BY <3>1
  <2>4. \A z \in Points(f) : z[1] \in R
    <3>1. \A z \in Points(f) : \E x \in R : z \in {x} \X (1..Amount[x])
      <4> HIDE DEF f
      <4> QED  BY <2>1
    <3> QED  BY <3>1
  <2>5. \A z \in new : z[1] = r  OBVIOUS
  <2> HIDE DEF f, g, new
  <2> QED  BY <2>3, <2>4, <2>5
<1>5. Total(R) = Cardinality(Points(f)) /\ Total(R \cup {r}) = Cardinality(Points(g))
  BY DEF Total, Sum
<1> HIDE DEF f, g, new
<1> QED  BY <1>1, <1>2, <1>3, <1>4, <1>5, Disjoint

\* More refunds come to no less.
LEMMA TotalOfSubset ==
  ASSUME ConstantsOK, NEW R \in SUBSET Refunds, NEW Q \in SUBSET R
  PROVE  Total(Q) \in Nat /\ Total(R) \in Nat /\ Total(Q) <= Total(R)
<1> DEFINE f == [x \in R |-> Amount[x]]
           g == [x \in Q |-> Amount[x]]
<1>1. Amount \in [Refunds -> Nat] /\ IsFiniteSet(R) /\ IsFiniteSet(Q)
  BY FS_Subset DEF ConstantsOK
<1>2. f \in [R -> Nat] /\ g \in [Q -> Nat]  BY <1>1
<1>3. Points(g) \subseteq Points(f)  BY DEF Points
<1>4. Total(R) = Sum(f) /\ Total(Q) = Sum(g)  BY DEF Total
<1> HIDE DEF f, g
<1>5. IsFiniteSet(Points(f)) /\ Sum(f) \in Nat /\ Sum(g) \in Nat  BY <1>1, <1>2, SumIsNat
<1>6. Cardinality(Points(g)) <= Cardinality(Points(f))  BY <1>3, <1>5, FS_Subset
<1> QED  BY <1>4, <1>5, <1>6 DEF Sum

-----------------------------------------------------------------------------
(* The books of an order and of its owner. *)

Txn == {"none", "client_confirmed", "failed", "captured", "partially_refunded", "refunded"}
Taken == {"captured", "partially_refunded", "refunded"}
Over == {"refunded", "ended_by_user", "ended_account_deleted"}

\* r is a row of orders with its transactions, refunds and entitlement.
FullRow(r) ==
    /\ OrderRow(r)
    /\ r.txn \in [Payments -> Txn] /\ r.refunded \in Nat
    /\ r.booked \in SUBSET Refunds /\ r.grant \in {"none", "active"} \cup Over

UserRow(u) == u \in [credits : {u.credits}, premium : BOOLEAN]

\* The refunds that are booked are refunds of the provider, and their total tells
\* whether the transaction is refunded in whole.
RefundsRight(o, r) ==
    /\ r.booked \subseteq repaid[o] /\ r.refunded = Total(r.booked)
    /\ \A p \in Payments : r.txn[p] = "refunded" => r.refunded = Gross

\* What never goes back from a row r to a later row t of the same order.
Stays(r, t) ==
    /\ r.grant \in Over => t.grant \in Over
    /\ \A p \in Payments :
          /\ r.txn[p] \in Taken => t.txn[p] \in {r.txn[p], "partially_refunded", "refunded"}
          /\ r.txn[p] = "refunded" => t.txn[p] = "refunded"

\* A refund event that is stale may show what was taken as captured again, no more.
Reopens(r, t) ==
    /\ r.grant \in Over => t.grant \in Over
    /\ \A p \in Payments : r.txn[p] \in Taken =>
          \/ t.txn[p] = "captured"
          \/ /\ t.txn[p] \in {r.txn[p], "partially_refunded", "refunded"}
             /\ r.txn[p] = "refunded" => t.txn[p] = "refunded"

\* Nobody has tried to end Premium.
Undisturbed == owner /\ \A n \in Enders : ender[n].phase = "idle"

\* With the row r of order o, Premium is backed.
Backed(o, r, u) ==
    Undisturbed => (u.premium <=> (OthersActive(o) # {} \/ (o \in Premium /\ r.grant = "active")))

\* r and u are what order o and the user may become.
RowRight(o, r, u) ==
    FullRow(r) /\ UserRow(u) /\ RefundsRight(o, r) /\ Stays(account[o], r) /\ Backed(o, r, u)

\* s is a transaction that may be committed ...
Sound(o, s) ==
    /\ s \in [a : {s.a}, u : {s.u}, seen : BOOLEAN, taken : {s.taken}]
    /\ RowRight(o, s.a, s.u)
\* ... and whose queries find the entitlement that there is.
Seeing(o, s) == Sound(o, s) /\ (s.seen <=> s.a.grant # "none")

RefundsTrue ==
    /\ repaid = [o \in Orders |-> repaid[o]]
    /\ \A o \in Orders : repaid[o] \in SUBSET Refunds /\ Total(repaid[o]) <= Gross
    /\ \A e \in sent : e[1] = "refund.processed" => e[3] \in repaid[e[2]]
    /\ \A d \in Readers :
          reader[d].phase = "apply" => reader[d].refunds \subseteq repaid[reader[d].order]

BooksTrue ==
    /\ UserRow(user)
    /\ \A o \in Orders : FullRow(account[o]) /\ RefundsRight(o, account[o])
    /\ ender = [n \in Enders |-> ender[n]]

BInv == IInv /\ RefundsTrue /\ BooksTrue /\ PremiumIsBacked

-----------------------------------------------------------------------------
(* What the operators of a transaction do. *)

\* A transaction starts with what the books say.
LEMMA NowRight ==
  ASSUME BInv, NEW o \in Orders
  PROVE  RowRight(o, account[o], user) /\ Seeing(o, Books(o)) /\ Sound(o, Books(o))
<1>1. FullRow(account[o]) /\ UserRow(user) /\ RefundsRight(o, account[o])
  BY DEF BInv, BooksTrue
<1>2. Stays(account[o], account[o])  BY DEF Stays
<1>3. Backed(o, account[o], user)
  BY DEF BInv, PremiumIsBacked, Backed, Undisturbed, OthersActive
<1>4. RowRight(o, account[o], user)  BY <1>1, <1>2, <1>3 DEF RowRight
<1> QED  BY <1>4 DEF Books, Seeing, Sound

\* A row that keeps the entitlement and the refunds.
LEMMA SameGrant ==
  ASSUME NEW o, NEW r, NEW t, NEW u, NEW v, RowRight(o, r, u), FullRow(t), UserRow(v),
         t.grant = r.grant, t.booked = r.booked, t.refunded = r.refunded,
         u.premium = v.premium,
         \A p \in Payments :
            /\ r.txn[p] \in Taken => t.txn[p] \in {r.txn[p], "partially_refunded", "refunded"}
            /\ r.txn[p] = "refunded" <=> t.txn[p] = "refunded"
  PROVE  RowRight(o, t, v)
<1>1. RefundsRight(o, t)  BY DEF RowRight, RefundsRight
<1>2. Stays(account[o], t)
  <2>1. account[o].grant \in Over => t.grant \in Over  BY DEF RowRight, Stays
  <2>2. ASSUME NEW p \in Payments, account[o].txn[p] \in Taken
        PROVE  t.txn[p] \in {account[o].txn[p], "partially_refunded", "refunded"}
    BY <2>2 DEF RowRight, Stays, Taken
  <2>3. ASSUME NEW p \in Payments, account[o].txn[p] = "refunded" PROVE t.txn[p] = "refunded"
    BY <2>3 DEF RowRight, Stays, Taken
  <2> QED  BY <2>1, <2>2, <2>3 DEF Stays
<1>3. Backed(o, t, v)  BY DEF RowRight, Backed
<1> QED  BY <1>1, <1>2, <1>3 DEF RowRight

LEMMA KnownSound ==
  ASSUME NEW o, NEW s, NEW p, NEW status \in {"captured", "failed"}, Sound(o, s),
         status = "failed" => s.a.txn[p] \notin Taken
  PROVE  /\ Sound(o, Known(s, p, status))
         /\ Seeing(o, s) => Seeing(o, Known(s, p, status))
         /\ Known(s, p, status).a.booked = s.a.booked
         /\ Known(s, p, status).a.refunded = s.a.refunded
         /\ Known(s, p, status).a.grant = s.a.grant
<1> DEFINE v == IF status = "captured" /\ s.a.txn[p] \in {"partially_refunded", "refunded"}
                THEN s.a.txn[p] ELSE status
           t == [s.a EXCEPT !.txn = [s.a.txn EXCEPT ![p] = v]]
           k == Known(s, p, status)
<1>0. s \in [a : {s.a}, u : {s.u}, seen : BOOLEAN, taken : {s.taken}] /\ RowRight(o, s.a, s.u)
      /\ FullRow(s.a) /\ UserRow(s.u)
  BY DEF Sound, RowRight
<1>1. k = [s EXCEPT !.a = t]  BY <1>0 DEF Known, FullRow, OrderRow
<1>2. v \in Txn  BY DEF Txn
<1> HIDE DEF v
<1>3. FullRow(t) /\ t.grant = s.a.grant /\ t.booked = s.a.booked /\ t.refunded = s.a.refunded
      /\ t.txn = [s.a.txn EXCEPT ![p] = v]
  BY <1>0, <1>2 DEF FullRow, OrderRow
<1> HIDE DEF t
<1>4. ASSUME NEW q \in Payments
      PROVE  /\ s.a.txn[q] \in Taken => t.txn[q] \in {s.a.txn[q], "partially_refunded", "refunded"}
             /\ s.a.txn[q] = "refunded" <=> t.txn[q] = "refunded"
  <2>1. t.txn[q] = IF q = p THEN v ELSE s.a.txn[q]  BY <1>0, <1>3 DEF FullRow
  <2> QED  BY <2>1 DEF v, Taken
<1>5. RowRight(o, t, s.u)  BY <1>0, <1>3, <1>4, SameGrant
<1>6. k \in [a : {k.a}, u : {k.u}, seen : BOOLEAN, taken : {k.taken}]
      /\ k.a = t /\ k.u = s.u /\ k.seen = s.seen
  BY <1>0, <1>1
<1> QED  BY <1>3, <1>5, <1>6 DEF Sound, Seeing

\* Taking credits back is no matter of Premium.
LEMMA AdjustedSound ==
  ASSUME NEW o, NEW s, Sound(o, s)
  PROVE  Sound(o, Adjusted(s, o)) /\ (Seeing(o, s) => Seeing(o, Adjusted(s, o)))
<1> DEFINE x == TakenBack(s)
           t == [s EXCEPT !.u.credits = @ - x, !.a.taken = @ + x]
<1>0. s \in [a : {s.a}, u : {s.u}, seen : BOOLEAN, taken : {s.taken}] /\ RowRight(o, s.a, s.u)
      /\ FullRow(s.a) /\ UserRow(s.u)
  BY DEF Sound, RowRight
<1>1. Adjusted(s, o) = s \/ Adjusted(s, o) = t  BY DEF Adjusted
<1>2. t = [s EXCEPT !.u = [s.u EXCEPT !.credits = s.u.credits - x],
                    !.a = [s.a EXCEPT !.taken = s.a.taken + x]]
  <2> HIDE DEF x
  <2> QED  BY <1>0 DEF UserRow, FullRow, OrderRow
<1> HIDE DEF x
<1>3. t \in [a : {t.a}, u : {t.u}, seen : BOOLEAN, taken : {t.taken}] /\ t.seen = s.seen
      /\ t.a = [s.a EXCEPT !.taken = s.a.taken + x]
      /\ t.u = [s.u EXCEPT !.credits = s.u.credits - x]
  BY <1>0, <1>2
<1> HIDE DEF t
<1>4. FullRow(t.a) /\ UserRow(t.u) /\ t.u.premium = s.u.premium
      /\ t.a.grant = s.a.grant /\ t.a.booked = s.a.booked /\ t.a.refunded = s.a.refunded
      /\ t.a.txn = s.a.txn
  BY <1>0, <1>3 DEF FullRow, OrderRow, UserRow
<1>5. RowRight(o, t.a, t.u)
  <2>1. \A p \in Payments :
            /\ s.a.txn[p] \in Taken => t.a.txn[p] \in {s.a.txn[p], "partially_refunded", "refunded"}
            /\ s.a.txn[p] = "refunded" <=> t.a.txn[p] = "refunded"
    BY <1>4
  <2> QED  BY <1>0, <1>4, <2>1, SameGrant
<1> QED  BY <1>1, <1>3, <1>4, <1>5 DEF Sound, Seeing

LEMMA StatusSound ==
  ASSUME NEW o, NEW s, NEW x, Sound(o, s)
  PROVE  /\ Sound(o, [s EXCEPT !.a.status = x])
         /\ Seeing(o, s) => Seeing(o, [s EXCEPT !.a.status = x])
         /\ [s EXCEPT !.a.status = x].a = [s.a EXCEPT !.status = x]
<1> DEFINE t == [s EXCEPT !.a.status = x]
<1>0. s \in [a : {s.a}, u : {s.u}, seen : BOOLEAN, taken : {s.taken}] /\ RowRight(o, s.a, s.u)
      /\ FullRow(s.a) /\ UserRow(s.u)
  BY DEF Sound, RowRight
<1>1. t = [s EXCEPT !.a = [s.a EXCEPT !.status = x]]  BY <1>0 DEF FullRow, OrderRow
<1>2. t \in [a : {t.a}, u : {t.u}, seen : BOOLEAN, taken : {t.taken}] /\ t.seen = s.seen
      /\ t.a = [s.a EXCEPT !.status = x] /\ t.u = s.u
  BY <1>0, <1>1
<1> HIDE DEF t
<1>3. FullRow(t.a) /\ t.a.grant = s.a.grant /\ t.a.booked = s.a.booked
      /\ t.a.refunded = s.a.refunded /\ t.a.txn = s.a.txn
  BY <1>0, <1>2 DEF FullRow, OrderRow
<1>4. RowRight(o, t.a, t.u)
  <2>1. \A p \in Payments :
            /\ s.a.txn[p] \in Taken => t.a.txn[p] \in {s.a.txn[p], "partially_refunded", "refunded"}
            /\ s.a.txn[p] = "refunded" <=> t.a.txn[p] = "refunded"
    BY <1>3
  <2>2. RowRight(o, s.a, s.u) /\ UserRow(t.u) /\ s.u.premium = t.u.premium  BY <1>0, <1>2
  <2> QED  BY ONLY <1>3, <2>1, <2>2, SameGrant
<1> QED  BY <1>2, <1>3, <1>4 DEF Sound, Seeing, t

LEMMA BoundSound ==
  ASSUME NEW o, NEW s, Seeing(o, s)
  PROVE  Seeing(o, [s EXCEPT !.a.bound = TRUE])
<1> DEFINE t == [s EXCEPT !.a.bound = TRUE]
<1>0. s \in [a : {s.a}, u : {s.u}, seen : BOOLEAN, taken : {s.taken}] /\ RowRight(o, s.a, s.u)
      /\ FullRow(s.a) /\ UserRow(s.u) /\ (s.seen <=> s.a.grant # "none")
  BY DEF Seeing, Sound, RowRight
<1>1. t = [s EXCEPT !.a = [s.a EXCEPT !.bound = TRUE]]  BY <1>0 DEF FullRow, OrderRow
<1>2. t \in [a : {t.a}, u : {t.u}, seen : BOOLEAN, taken : {t.taken}] /\ t.seen = s.seen
      /\ t.a = [s.a EXCEPT !.bound = TRUE] /\ t.u = s.u
  BY <1>0, <1>1
<1> HIDE DEF t
<1>3. FullRow(t.a) /\ t.a.grant = s.a.grant /\ t.a.booked = s.a.booked
      /\ t.a.refunded = s.a.refunded /\ t.a.txn = s.a.txn
  BY <1>0, <1>2 DEF FullRow, OrderRow
<1>4. RowRight(o, t.a, t.u)
  <2>1. \A p \in Payments :
            /\ s.a.txn[p] \in Taken => t.a.txn[p] \in {s.a.txn[p], "partially_refunded", "refunded"}
            /\ s.a.txn[p] = "refunded" <=> t.a.txn[p] = "refunded"
    BY <1>3
  <2>2. RowRight(o, s.a, s.u) /\ UserRow(t.u) /\ s.u.premium = t.u.premium  BY <1>0, <1>2
  <2> QED  BY ONLY <1>3, <2>1, <2>2, SameGrant
<1> QED  BY <1>0, <1>2, <1>3, <1>4 DEF Seeing, Sound, t

\* The entitlement of the row changes, and the user with it.
LEMMA GrantSound ==
  ASSUME NEW o, NEW s, Sound(o, s), NEW g \in {"active"} \cup Over,
         s.a.grant \in Over => g \in Over,
         NEW t, t \in [a : {[s.a EXCEPT !.grant = g]}, u : {t.u}, seen : {s.seen}, taken : {t.taken}],
         UserRow(t.u), Undisturbed =>
            (t.u.premium <=> (OthersActive(o) # {} \/ (o \in Premium /\ g = "active")))
  PROVE  Sound(o, t) /\ t.a.grant = g /\ t.seen = s.seen
<1>0. s.seen \in BOOLEAN /\ RowRight(o, s.a, s.u) /\ FullRow(s.a)
  BY DEF Sound, RowRight
<1>1. t.a = [s.a EXCEPT !.grant = g] /\ t.seen = s.seen
      /\ t \in [a : {t.a}, u : {t.u}, seen : BOOLEAN, taken : {t.taken}]
  BY <1>0
<1>2. FullRow(t.a) /\ t.a.grant = g /\ t.a.booked = s.a.booked
      /\ t.a.refunded = s.a.refunded /\ t.a.txn = s.a.txn
  BY <1>0, <1>1 DEF FullRow, OrderRow
<1>3. RefundsRight(o, t.a) /\ Stays(account[o], t.a)
  BY <1>0, <1>2 DEF RowRight, RefundsRight, Stays
<1>4. Backed(o, t.a, t.u)  BY <1>2 DEF Backed
<1> QED  BY <1>1, <1>2, <1>3, <1>4 DEF Sound, RowRight

LEMMA GrantedSound ==
  ASSUME NEW o, NEW s, Seeing(o, s)
  PROVE  Sound(o, Granted(s, o))
<1>0. s \in [a : {s.a}, u : {s.u}, seen : BOOLEAN, taken : {s.taken}] /\ Sound(o, s)
      /\ FullRow(s.a) /\ UserRow(s.u) /\ (~s.seen => s.a.grant = "none")
  BY DEF Seeing, Sound, RowRight
<1>1. CASE s.seen  BY <1>0, <1>1 DEF Granted, GrantNeeded
<1>2. CASE ~s.seen /\ ~owner
  BY <1>0, <1>2, StatusSound DEF Granted, GrantNeeded, Unfulfilled
<1>3. CASE ~s.seen /\ owner /\ o \in Premium
  <2> DEFINE t == [s EXCEPT !.a.grant = "active", !.u.premium = TRUE]
  <2>1. t \in [a : {[s.a EXCEPT !.grant = "active"]}, u : {[s.u EXCEPT !.premium = TRUE]},
               seen : {s.seen}, taken : {s.taken}]
    BY <1>0 DEF FullRow, OrderRow, UserRow
  <2> HIDE DEF t
  <2>2. t.u = [s.u EXCEPT !.premium = TRUE] /\ t.taken = s.taken  BY <2>1
  <2>3. UserRow(t.u) /\ t.u.premium = TRUE  BY <1>0, <2>2 DEF UserRow
  <2>4. s.a.grant \notin Over  BY <1>0, <1>3 DEF Over
  <2>5. Sound(o, t)  BY <1>0, <1>3, <2>1, <2>2, <2>3, <2>4, GrantSound
  <2> QED  BY <1>3, <2>5 DEF t, Granted, GrantNeeded
<1>4. CASE ~s.seen /\ owner /\ o \notin Premium
  <2> DEFINE t == [s EXCEPT !.a.grant = "active", !.u.credits = @ + Quantity]
  <2>1. t \in [a : {[s.a EXCEPT !.grant = "active"]},
               u : {[s.u EXCEPT !.credits = s.u.credits + Quantity]},
               seen : {s.seen}, taken : {s.taken}]
    BY <1>0 DEF FullRow, OrderRow, UserRow
  <2> HIDE DEF t
  <2>2. t.u = [s.u EXCEPT !.credits = s.u.credits + Quantity] /\ t.taken = s.taken  BY <2>1
  <2>3. UserRow(t.u) /\ t.u.premium = s.u.premium  BY <1>0, <2>2 DEF UserRow
  <2>4. s.a.grant \notin Over  BY <1>0, <1>4 DEF Over
  <2>5. Undisturbed => (t.u.premium <=> OthersActive(o) # {})
    BY <1>4, <2>3 DEF Seeing, Sound, RowRight, Backed
  <2>6. Sound(o, t)  BY <1>0, <1>4, <2>1, <2>2, <2>3, <2>4, <2>5, GrantSound
  <2> QED  BY <1>4, <2>6 DEF t, Granted, GrantNeeded
<1> QED  BY <1>0, <1>1, <1>2, <1>3, <1>4

LEMMA FlushSound ==
  ASSUME NEW o, NEW s, Sound(o, s)
  PROVE  Seeing(o, Flush(s))
<1> DEFINE t == Flush(s)
<1>1. t \in [a : {t.a}, u : {t.u}, seen : BOOLEAN, taken : {t.taken}]
      /\ t.seen = (s.a.grant # "none") /\ t.a = s.a /\ t.u = s.u
  BY DEF Sound, Flush
<1> QED  BY <1>1 DEF Sound, Seeing

LEMMA RevokedSound ==
  ASSUME NEW o, NEW s, Seeing(o, s)
  PROVE  Seeing(o, Revoked(s, o))
<1> DEFINE r == [s EXCEPT !.a.grant = "refunded"]
<1>0. s \in [a : {s.a}, u : {s.u}, seen : BOOLEAN, taken : {s.taken}] /\ Sound(o, s)
      /\ FullRow(s.a) /\ UserRow(s.u) /\ (s.seen <=> s.a.grant # "none")
  BY DEF Seeing, Sound, RowRight
<1>1. CASE ~s.seen \/ s.a.grant = "refunded"  BY <1>1 DEF Revoked
<1>2. r \in [a : {[s.a EXCEPT !.grant = "refunded"]}, u : {s.u}, seen : {s.seen},
             taken : {s.taken}]
  BY <1>0 DEF FullRow, OrderRow
<1> HIDE DEF r
<1>3. r.u = s.u /\ r.taken = s.taken /\ "refunded" \in Over  BY <1>2 DEF Over
<1>4. CASE s.seen /\ s.a.grant # "active"
  <2>1. Undisturbed => (s.u.premium <=> OthersActive(o) # {})
    BY <1>4 DEF Seeing, Sound, RowRight, Backed
  <2>2. Sound(o, r) /\ r.a.grant = "refunded" /\ r.seen = s.seen
    BY <1>0, <1>2, <1>3, <2>1, GrantSound
  <2>3. s.a.grant # "refunded" => Revoked(s, o) = r
    BY <1>0, <1>4 DEF Revoked, r, FullRow, Over
  <2> QED  BY <1>1, <1>4, <2>2, <2>3 DEF Seeing
<1>5. CASE s.seen /\ s.a.grant = "active" /\ ~owner
  <2>1. Sound(o, r) /\ r.a.grant = "refunded" /\ r.seen = s.seen
    BY <1>0, <1>2, <1>3, <1>5, GrantSound DEF Undisturbed
  <2>2. Revoked(s, o) = r  BY <1>5 DEF Revoked, r
  <2> QED  BY <1>5, <2>1, <2>2 DEF Seeing
<1>6. CASE s.seen /\ s.a.grant = "active" /\ owner /\ o \in Premium
  <2> DEFINE t == [r EXCEPT !.u.premium = OthersActive(o) # {}]
  <2>1. t \in [a : {[s.a EXCEPT !.grant = "refunded"]},
               u : {[s.u EXCEPT !.premium = OthersActive(o) # {}]}, seen : {s.seen},
               taken : {s.taken}]
    BY <1>0, <1>2 DEF UserRow
  <2>2. Revoked(s, o) = t  BY <1>6 DEF Revoked, r
  <2> HIDE DEF t
  <2>3. t.u = [s.u EXCEPT !.premium = OthersActive(o) # {}] /\ t.taken = s.taken  BY <2>1
  <2>4. UserRow(t.u) /\ t.u.premium = (OthersActive(o) # {})  BY <1>0, <2>3 DEF UserRow
  <2>5. Sound(o, t) /\ t.a.grant = "refunded" /\ t.seen = s.seen
    BY <1>0, <1>3, <2>1, <2>3, <2>4, GrantSound
  <2> QED  BY <1>6, <2>2, <2>5 DEF Seeing
<1>7. CASE s.seen /\ s.a.grant = "active" /\ owner /\ o \notin Premium
  <2>1. Undisturbed => (s.u.premium <=> OthersActive(o) # {})
    BY <1>7 DEF Seeing, Sound, RowRight, Backed
  <2>2. Sound(o, r) /\ r.a.grant = "refunded" /\ r.seen = s.seen
    BY <1>0, <1>2, <1>3, <2>1, <1>7, GrantSound
  <2>3. Seeing(o, r)  BY <1>7, <2>2 DEF Seeing
  <2>4. Revoked(s, o) = Adjusted(r, o)  BY <1>7 DEF Revoked, r
  <2> QED  BY <2>2, <2>3, <2>4, AdjustedSound
<1> QED  BY <1>0, <1>1, <1>4, <1>5, <1>6, <1>7

\* What a refund that is new writes before it grants or takes back.
Status(total) == IF total = Gross THEN "refunded" ELSE "partially_refunded"
Entry(s, p, r) ==
    LET t == Known(s, p, "captured")
        total == s.a.refunded + Amount[r]
    IN  [t EXCEPT !.a.booked = @ \cup {r}, !.a.refunded = total, !.a.txn[p] = Status(total),
                  !.a.status = Status(total)]

LEMMA RefundedIs ==
  ASSUME NEW s, NEW o, NEW p, NEW r
  PROVE  Refunded(s, o, p, r) =
            IF r \in s.a.booked THEN Known(s, p, "captured")
            ELSE IF s.a.refunded + Amount[r] = Gross THEN Revoked(Entry(s, p, r), o)
                 ELSE Adjusted(Flush(Granted(Entry(s, p, r), o)), o)
BY DEF Refunded, Booked, Entry, Status

\* s with another row.
LEMMA EntryIs ==
  ASSUME NEW o, NEW s, Sound(o, s), NEW p, NEW r
  PROVE  LET k == Known(s, p, "captured")
             total == s.a.refunded + Amount[r]
             row == [k.a EXCEPT !.booked = @ \cup {r}, !.refunded = total,
                                !.txn = [k.a.txn EXCEPT ![p] = Status(total)],
                                !.status = Status(total)]
         IN  Entry(s, p, r) \in [a : {row}, u : {k.u}, seen : {k.seen}, taken : {k.taken}]
<1> DEFINE k == Known(s, p, "captured")
           total == s.a.refunded + Amount[r]
           status == Status(total)
           row == [k.a EXCEPT !.booked = @ \cup {r}, !.refunded = total,
                              !.txn = [k.a.txn EXCEPT ![p] = status], !.status = status]
           new == [k EXCEPT !.a.booked = @ \cup {r}, !.a.refunded = total, !.a.txn[p] = status,
                            !.a.status = status]
<1>1. k \in [a : {k.a}, u : {k.u}, seen : BOOLEAN, taken : {k.taken}] /\ OrderRow(k.a)
  <2>1. "captured" \in {"captured", "failed"}  OBVIOUS
  <2>2. Sound(o, k)  BY <2>1, KnownSound
  <2> HIDE DEF k
  <2> QED  BY <2>2 DEF Sound, RowRight, FullRow
<1>2. Entry(s, p, r) = new  BY DEF Entry
<1> HIDE DEF k, total, status
<1>3. new = [k EXCEPT !.a = row]  BY <1>1 DEF OrderRow
<1> HIDE DEF row
<1>4. new \in [a : {row}, u : {k.u}, seen : {k.seen}, taken : {k.taken}]  BY <1>1, <1>3
<1> HIDE DEF new
<1> QED  BY <1>2, <1>4 DEF k, total, status, row

\* A refund of the provider that is new: the total stays within the price.
LEMMA EntrySound ==
  ASSUME ConstantsOK, BInv, NEW o \in Orders, NEW s, Seeing(o, s), NEW p, NEW r \in repaid[o],
         r \notin s.a.booked
  PROVE  /\ Seeing(o, Entry(s, p, r))
         /\ s.a.refunded \in Nat /\ Amount[r] \in Nat \ {0} /\ s.a.refunded + Amount[r] <= Gross
<1> DEFINE k == Known(s, p, "captured")
           total == s.a.refunded + Amount[r]
           status == Status(total)
           new == Entry(s, p, r)
           row == [k.a EXCEPT !.booked = @ \cup {r}, !.refunded = total,
                              !.txn = [k.a.txn EXCEPT ![p] = status], !.status = status]
<1>1. Sound(o, s) /\ Sound(o, k) /\ Seeing(o, k)
      /\ k.a.booked = s.a.booked /\ k.a.refunded = s.a.refunded
  <2>1. Sound(o, s) /\ "captured" \in {"captured", "failed"}  BY DEF Seeing
  <2> QED  BY <2>1, KnownSound
<1>2. new \in [a : {row}, u : {k.u}, seen : {k.seen}, taken : {k.taken}]
  BY <1>1, EntryIs
<1>3. s.a.refunded = Total(s.a.booked) /\ s.a.booked \in SUBSET repaid[o]
      /\ s.a.refunded \in Nat /\ s.a.booked \in SUBSET Refunds
  BY DEF Seeing, Sound, RowRight, RefundsRight, FullRow
<1>4. repaid[o] \in SUBSET Refunds /\ Total(repaid[o]) <= Gross
  BY DEF BInv, RefundsTrue
<1>5. total = Total(s.a.booked \cup {r}) /\ Amount[r] \in Nat \ {0} /\ total \in Nat
  BY <1>3, <1>4, TotalOfOneMore
<1>6. total <= Gross /\ s.a.refunded # Gross
  <2>1. s.a.booked \cup {r} \in SUBSET repaid[o]  BY <1>3
  <2>2. Total(s.a.booked \cup {r}) <= Total(repaid[o]) /\ Total(repaid[o]) \in Nat
    BY <1>4, <2>1, TotalOfSubset
  <2>3. Gross \in Nat  BY DEF ConstantsOK
  <2> HIDE DEF total
  <2>4. total <= Gross  BY <1>4, <1>5, <2>2, <2>3
  <2>5. s.a.refunded < total  BY <1>3, <1>5 DEF total
  <2> QED  BY <1>3, <1>5, <2>3, <2>4, <2>5
<1>7. k \in [a : {k.a}, u : {k.u}, seen : BOOLEAN, taken : {k.taken}]
      /\ FullRow(k.a) /\ RowRight(o, k.a, k.u) /\ (k.seen <=> k.a.grant # "none")
  BY <1>1 DEF Seeing, Sound, RowRight
<1>8. status \in {"refunded", "partially_refunded"} /\ (status = "refunded" => total = Gross)
  BY DEF Status
<1> HIDE DEF total, k, status, new
<1>9. new \in [a : {new.a}, u : {new.u}, seen : BOOLEAN, taken : {new.taken}]
      /\ new.a = row /\ new.u = k.u /\ new.seen = k.seen
  <2> HIDE DEF row
  <2> QED  BY <1>2, <1>7
<1>10. /\ FullRow(row) /\ row.grant = k.a.grant
       /\ row.booked = s.a.booked \cup {r} /\ row.refunded = total
       /\ row.txn = [k.a.txn EXCEPT ![p] = status]
  <2>1. [k.a.txn EXCEPT ![p] = status] \in [Payments -> Txn]
    BY <1>7, <1>8 DEF FullRow, Txn
  <2>2. k.a.booked = s.a.booked  BY <1>1
  <2> QED  BY <1>3, <1>4, <1>5, <1>7, <2>1, <2>2 DEF FullRow, OrderRow
<1> HIDE DEF row
<1>11. ASSUME NEW q \in Payments
       PROVE  row.txn[q] = IF q = p THEN status ELSE k.a.txn[q]
  BY <1>7, <1>10 DEF FullRow
<1>12. \A q \in Payments : k.a.txn[q] # "refunded"
  BY <1>1, <1>6, <1>7 DEF RowRight, RefundsRight
<1>13. RefundsRight(o, row)
  BY <1>3, <1>5, <1>8, <1>10, <1>11, <1>12 DEF RefundsRight
<1>14. Stays(account[o], row)
  <2>1. account[o].grant \in Over => row.grant \in Over
    BY <1>7, <1>10 DEF RowRight, Stays
  <2>2. \A q \in Payments : account[o].txn[q] # "refunded"
    BY <1>7, <1>12 DEF RowRight, Stays
  <2>3. ASSUME NEW q \in Payments, account[o].txn[q] \in Taken
        PROVE  row.txn[q] \in {account[o].txn[q], "partially_refunded", "refunded"}
    BY <1>7, <1>8, <1>11, <2>3 DEF RowRight, Stays
  <2> QED  BY <2>1, <2>2, <2>3 DEF Stays
<1>15. Backed(o, row, k.u)  BY <1>7, <1>10 DEF RowRight, Backed
<1>16. Seeing(o, new)
  BY <1>7, <1>9, <1>10, <1>13, <1>14, <1>15 DEF Seeing, Sound, RowRight
<1> QED  BY <1>3, <1>5, <1>6, <1>16 DEF total, new

\* A refund of the provider is booked once.
LEMMA RefundedSound ==
  ASSUME ConstantsOK, BInv, NEW o \in Orders, NEW s, Seeing(o, s), NEW p, NEW r \in repaid[o]
  PROVE  Seeing(o, Refunded(s, o, p, r))
<1> DEFINE new == Entry(s, p, r)
<1>1. CASE r \in s.a.booked
  <2>1. Sound(o, s) /\ "captured" \in {"captured", "failed"}  BY DEF Seeing
  <2>2. Seeing(o, Known(s, p, "captured"))  BY <2>1, KnownSound
  <2> QED  BY <1>1, <2>2, RefundedIs
<1>2. CASE r \notin s.a.booked
  <2>1. Seeing(o, new)  BY <1>2, EntrySound
  <2>2. Refunded(s, o, p, r) \in {Revoked(new, o), Adjusted(Flush(Granted(new, o)), o)}
    BY <1>2, RefundedIs
  <2> HIDE DEF new
  <2>3. Seeing(o, Revoked(new, o))  BY <2>1, RevokedSound
  <2>4. Seeing(o, Flush(Granted(new, o)))  BY <2>1, GrantedSound, FlushSound
  <2>5. Sound(o, Flush(Granted(new, o)))  BY <2>4 DEF Seeing
  <2>6. Seeing(o, Adjusted(Flush(Granted(new, o)), o))  BY <2>4, <2>5, AdjustedSound
  <2> QED  BY <2>2, <2>3, <2>6
<1> QED  BY <1>1, <1>2

LEMMA CapturedSound ==
  ASSUME NEW o, NEW s, Seeing(o, s), NEW p
  PROVE  Sound(o, Captured(s, o, p))
<1> DEFINE k == Known(s, p, "captured")
<1>1. Seeing(o, k) /\ Sound(o, k)
  <2>1. Sound(o, s) /\ "captured" \in {"captured", "failed"}  BY DEF Seeing
  <2> QED  BY <2>1, KnownSound
<1>2. Seeing(o, [k EXCEPT !.a.status = "paid"])  BY <1>1, StatusSound
<1> HIDE DEF k
<1>3. Sound(o, Adjusted(Granted(k, o), o))  BY <1>1, GrantedSound, AdjustedSound
<1>4. Sound(o, Adjusted(Granted([k EXCEPT !.a.status = "paid"], o), o))
  BY <1>2, GrantedSound, AdjustedSound
<1>5. Captured(s, o, p) \in {k, Adjusted(Granted(k, o), o),
                             Adjusted(Granted([k EXCEPT !.a.status = "paid"], o), o)}
  BY DEF Captured, k
<1> QED  BY <1>1, <1>3, <1>4, <1>5

-----------------------------------------------------------------------------
(* One refund of a proof after the other. *)

\* Induction for a set of numbers: without it, a least number would be missing.
LEMMA EveryNumber ==
  ASSUME NEW S, 0 \in S, \A n \in S : n + 1 \in S
  PROVE  Nat \subseteq S
<1> DEFINE T == Nat \ S
           R == OpToRel(<, Nat)
<1> SUFFICES ASSUME T # {} PROVE FALSE  OBVIOUS
<1>1. IsWellFoundedOn(R, Nat)  BY NatLessThanWellFounded
<1>2. \A m, n \in Nat : <<m, n>> \in R <=> m < n  BY DEF OpToRel
<1> HIDE DEF R
<1>3. PICK x \in T : \A y \in T : ~(<<y, x>> \in R)  BY <1>1, WFMin
<1>4. x \in Nat \ {0} /\ x - 1 \in Nat /\ (x - 1) + 1 = x /\ x - 1 < x  OBVIOUS
<1>5. x - 1 \in S  BY <1>2, <1>3, <1>4
<1> QED  BY <1>4, <1>5

Pick(Q) == CHOOSE r \in Q : TRUE
Upto(R, n) == {Q \in SUBSET R : Cardinality(Q) <= n}

\* What the refunds of Q make of s when g tells what those of smaller sets make of it.
Applied(s, o, p, g, Q) == IF Q = {} THEN s ELSE Refunded(g[Q \ {Pick(Q)}], o, p, Pick(Q))

LEMMA OneLess ==
  ASSUME NEW Q, IsFiniteSet(Q), Q # {}
  PROVE  /\ Pick(Q) \in Q /\ IsFiniteSet(Q \ {Pick(Q)})
         /\ Cardinality(Q) \in Nat /\ Cardinality(Q \ {Pick(Q)}) \in Nat
         /\ Cardinality(Q) = Cardinality(Q \ {Pick(Q)}) + 1
<1>1. Pick(Q) \in Q  BY DEF Pick
<1>2. IsFiniteSet(Q \ {Pick(Q)}) /\ Cardinality(Q \ {Pick(Q)}) = Cardinality(Q) - 1
  BY <1>1, FS_RemoveElement
<1> QED  BY <1>1, <1>2, FS_CardinalityType

LEMMA SomeApplication ==
  ASSUME NEW s, NEW o, NEW p, NEW R, IsFiniteSet(R)
  PROVE  \E f : f = [Q \in SUBSET R |-> Applied(s, o, p, f, Q)]
<1> DEFINE S == {n \in Nat : \E f : f = [Q \in Upto(R, n) |-> Applied(s, o, p, f, Q)]}
<1>0. \A Q \in SUBSET R : IsFiniteSet(Q) /\ Cardinality(Q) \in Nat
                          /\ Cardinality(Q) <= Cardinality(R)
  BY FS_Subset, FS_CardinalityType
<1>1. 0 \in S
  <2> DEFINE f == [Q \in Upto(R, 0) |-> s]
  <2>1. \A Q \in Upto(R, 0) : Q = {}
    BY <1>0, FS_EmptySet DEF Upto
  <2>2. f = [Q \in Upto(R, 0) |-> Applied(s, o, p, f, Q)]
    BY <2>1 DEF Applied
  <2> HIDE DEF f
  <2> QED  BY <2>2
<1>2. ASSUME NEW n \in S PROVE n + 1 \in S
  <2>1. PICK f : f = [Q \in Upto(R, n) |-> Applied(s, o, p, f, Q)]  OBVIOUS
  <2> DEFINE g == [Q \in Upto(R, n + 1) |-> Applied(s, o, p, f, Q)]
  <2>2. n \in Nat /\ Upto(R, n) \subseteq Upto(R, n + 1)  BY <1>0 DEF Upto
  <2>3. \A Q \in Upto(R, n) : g[Q] = f[Q]  BY <2>1, <2>2
  <2>4. ASSUME NEW Q \in Upto(R, n + 1)
        PROVE  Applied(s, o, p, f, Q) = Applied(s, o, p, g, Q)
    <3>1. CASE Q = {}  BY <3>1 DEF Applied
    <3>2. CASE Q # {}
      <4>1. Q \in SUBSET R /\ IsFiniteSet(Q) /\ Cardinality(Q) <= n + 1  BY <1>0 DEF Upto
      <4>2. Q \ {Pick(Q)} \in Upto(R, n)
        <5>1. Cardinality(Q \ {Pick(Q)}) \in Nat
              /\ Cardinality(Q) = Cardinality(Q \ {Pick(Q)}) + 1
          BY <3>2, <4>1, OneLess
        <5>2. Cardinality(Q \ {Pick(Q)}) <= n  BY <2>2, <4>1, <5>1
        <5> QED  BY <4>1, <5>2 DEF Upto
      <4> HIDE DEF g
      <4> QED  BY <2>3, <3>2, <4>2 DEF Applied
    <3> QED  BY <3>1, <3>2
  <2>5. g = [Q \in Upto(R, n + 1) |-> Applied(s, o, p, g, Q)]
    <3> DEFINE h == [Q \in Upto(R, n + 1) |-> Applied(s, o, p, g, Q)]
    <3>1. \A Q \in Upto(R, n + 1) : g[Q] = h[Q]  BY <2>4
    <3> QED  BY <3>1
  <2> HIDE DEF g
  <2> QED  BY <2>2, <2>5
<1>3. Cardinality(R) \in S
  <2> HIDE DEF S
  <2> QED  BY <1>1, <1>2, EveryNumber, FS_CardinalityType
<1>4. Upto(R, Cardinality(R)) = SUBSET R  BY <1>0 DEF Upto
<1> QED  BY <1>3, <1>4

\* Induction over sets of refunds, each with one less before it.
LEMMA EverySubset ==
  ASSUME NEW R, IsFiniteSet(R), NEW T, {} \in T,
         \A Q \in SUBSET R : Q # {} /\ Q \ {Pick(Q)} \in T => Q \in T
  PROVE  R \in T
<1> DEFINE S == {n \in Nat : Upto(R, n) \subseteq T}
<1>1. \A Q \in SUBSET R : IsFiniteSet(Q) /\ Cardinality(Q) \in Nat
                          /\ Cardinality(Q) <= Cardinality(R)
  BY FS_Subset, FS_CardinalityType
<1>2. 0 \in S
  <2>1. \A Q \in Upto(R, 0) : Q = {}  BY <1>1, FS_EmptySet DEF Upto
  <2> QED  BY <2>1
<1>3. ASSUME NEW n \in S PROVE n + 1 \in S
  <2>1. ASSUME NEW Q \in Upto(R, n + 1) PROVE Q \in T
    <3>1. CASE Q = {}  BY <3>1
    <3>2. CASE Q # {}
      <4>1. Q \in SUBSET R /\ Cardinality(Q) <= n + 1 /\ n \in Nat  BY DEF Upto
      <4>2. Cardinality(Q \ {Pick(Q)}) \in Nat
            /\ Cardinality(Q) = Cardinality(Q \ {Pick(Q)}) + 1
        BY <1>1, <3>2, <4>1, OneLess
      <4>3. Cardinality(Q \ {Pick(Q)}) <= n  BY <4>1, <4>2
      <4>4. Q \ {Pick(Q)} \in Upto(R, n)  BY <4>1, <4>3 DEF Upto
      <4> QED  BY <3>2, <4>1, <4>4
    <3> QED  BY <3>1, <3>2
  <2> QED  BY <2>1
<1>4. Cardinality(R) \in S
  <2> HIDE DEF S
  <2> QED  BY <1>2, <1>3, EveryNumber, FS_CardinalityType
<1>5. R \in Upto(R, Cardinality(R))  BY <1>1 DEF Upto
<1> QED  BY <1>4, <1>5

\* f tells what the sets of refunds make of s.
Applies(f, s, o, p, R) ==
    /\ AllRefunded(s, o, p, R) = f[R] /\ f[{}] = s
    /\ \A Q \in SUBSET R : Q # {} =>
          Pick(Q) \in R /\ f[Q] = Refunded(f[Q \ {Pick(Q)}], o, p, Pick(Q))

LEMMA AllRefundedDoes ==
  ASSUME NEW s, NEW o, NEW p, NEW R, IsFiniteSet(R)
  PROVE  \E f : Applies(f, s, o, p, R)
<1> DEFINE F == CHOOSE f : f = [Q \in SUBSET R |-> Applied(s, o, p, f, Q)]
<1>1. F = [Q \in SUBSET R |-> Applied(s, o, p, F, Q)]  BY SomeApplication
<1>2. AllRefunded(s, o, p, R) = F[R]  BY DEF AllRefunded, Applied, Pick
<1> HIDE DEF F
<1>3. F[{}] = s  BY <1>1 DEF Applied
<1>4. ASSUME NEW Q \in SUBSET R, Q # {}
      PROVE  Pick(Q) \in R /\ F[Q] = Refunded(F[Q \ {Pick(Q)}], o, p, Pick(Q))
  <2>1. Pick(Q) \in Q  BY <1>4 DEF Pick
  <2>2. F[Q] = Refunded(F[Q \ {Pick(Q)}], o, p, Pick(Q))  BY <1>1, <1>4 DEF Applied
  <2> QED  BY <2>1, <2>2
<1> QED  BY <1>2, <1>3, <1>4 DEF Applies

LEMMA AllRefundedSound ==
  ASSUME ConstantsOK, BInv, NEW o \in Orders, NEW s, Seeing(o, s), NEW p,
         NEW R \in SUBSET repaid[o]
  PROVE  Seeing(o, AllRefunded(s, o, p, R))
<1>1. IsFiniteSet(R)
  BY FS_Subset DEF BInv, RefundsTrue, ConstantsOK
<1>2. PICK f : Applies(f, s, o, p, R)  BY <1>1, AllRefundedDoes
<1> DEFINE T == {Q \in SUBSET R : Seeing(o, f[Q])}
<1>3. {} \in T  BY <1>2 DEF Applies
<1>4. ASSUME NEW Q \in SUBSET R, Q # {}, Q \ {Pick(Q)} \in T
      PROVE  Q \in T
  <2>1. f[Q] = Refunded(f[Q \ {Pick(Q)}], o, p, Pick(Q)) /\ Pick(Q) \in repaid[o]
    BY <1>2, <1>4 DEF Applies
  <2>2. Seeing(o, f[Q])  BY <1>4, <2>1, RefundedSound
  <2> QED  BY <2>2
<1>5. R \in T
  <2> HIDE DEF T
  <2> QED  BY <1>1, <1>3, <1>4, EverySubset
<1> QED  BY <1>2, <1>5 DEF Applies

-----------------------------------------------------------------------------
(* A refund event that has read the transaction before the order was locked does what
   one with the fresh transaction does, except to that transaction. *)

\* t is s with other transactions.
Twin(s, t) ==
    /\ s \in [a : {s.a}, u : {s.u}, seen : BOOLEAN, taken : {s.taken}]
    /\ OrderRow(s.a) /\ UserRow(s.u)
    /\ t \in [a : {t.a}, u : {s.u}, seen : {s.seen}, taken : {s.taken}]
    /\ t.a = [s.a EXCEPT !.txn = t.a.txn]

\* x and y are s and t after an operator that makes of twins twins and leaves the
\* transactions alone.
TwinStep(s, t, x, y) == Twin(x, y) /\ x.a.txn = s.a.txn /\ y.a.txn = t.a.txn

\* What such an operator may write.
Put(s, row, u) ==
    [s EXCEPT !.a = [s.a EXCEPT !.status = row.status, !.grant = row.grant, !.taken = row.taken],
              !.u = u]

LEMMA TwinPut ==
  ASSUME NEW s, NEW t, Twin(s, t), NEW row, NEW u, UserRow(u)
  PROVE  TwinStep(s, t, Put(s, row, u), Put(t, row, u))
<1> DEFINE a == [s.a EXCEPT !.status = row.status, !.grant = row.grant, !.taken = row.taken]
           b == [t.a EXCEPT !.status = row.status, !.grant = row.grant, !.taken = row.taken]
<1>1. OrderRow(s.a) /\ OrderRow(t.a) /\ t.a = [s.a EXCEPT !.txn = t.a.txn]
  BY DEF Twin, OrderRow
<1>2. OrderRow(a) /\ a.txn = s.a.txn /\ b.txn = t.a.txn /\ b = [a EXCEPT !.txn = t.a.txn]
  BY <1>1 DEF OrderRow
<1> DEFINE x == Put(s, row, u)
           y == Put(t, row, u)
<1>3. x = [s EXCEPT !.a = a, !.u = u] /\ y = [t EXCEPT !.a = b, !.u = u]  BY DEF Put
<1> HIDE DEF a, b
<1>4. /\ x \in [a : {a}, u : {u}, seen : BOOLEAN, taken : {s.taken}] /\ x.seen = s.seen
      /\ y \in [a : {b}, u : {u}, seen : {s.seen}, taken : {s.taken}]
  BY <1>3 DEF Twin
<1>5. x.a = a /\ x.u = u /\ x.taken = s.taken /\ y.a = b  BY <1>4
<1> HIDE DEF x, y
<1> QED  BY <1>2, <1>4, <1>5 DEF TwinStep, Twin, x, y

LEMMA TwinSame ==
  ASSUME NEW s, NEW t, Twin(s, t)
  PROVE  /\ t.a.status = s.a.status /\ t.a.grant = s.a.grant /\ t.a.taken = s.a.taken
         /\ t.a.refunded = s.a.refunded /\ t.a.booked = s.a.booked /\ t.a.bound = s.a.bound
         /\ t.u = s.u /\ t.seen = s.seen /\ t.taken = s.taken
<1>1. OrderRow(s.a) /\ t.a = [s.a EXCEPT !.txn = t.a.txn]  BY DEF Twin
<1>2. /\ t.a.status = s.a.status /\ t.a.grant = s.a.grant /\ t.a.taken = s.a.taken
      /\ t.a.refunded = s.a.refunded /\ t.a.booked = s.a.booked /\ t.a.bound = s.a.bound
  BY <1>1 DEF OrderRow
<1> QED  BY <1>2 DEF Twin

LEMMA TwinAdjusted ==
  ASSUME NEW o, NEW s, NEW t, Twin(s, t)
  PROVE  TwinStep(s, t, Adjusted(s, o), Adjusted(t, o))
<1> DEFINE x == TakenBack(s)
           row == [s.a EXCEPT !.taken = s.a.taken + x]
           u == [s.u EXCEPT !.credits = s.u.credits - x]
<1>0. OrderRow(s.a) /\ OrderRow(t.a) /\ UserRow(s.u) /\ UserRow(t.u)
      /\ s \in [a : {s.a}, u : {s.u}, seen : BOOLEAN, taken : {s.taken}]
      /\ t \in [a : {t.a}, u : {t.u}, seen : BOOLEAN, taken : {t.taken}]
  BY DEF Twin, OrderRow
<1>1. TakenBack(t) = x  BY TwinSame DEF TakenBack
<1>7. t.a.status = s.a.status /\ t.a.grant = s.a.grant /\ t.a.taken = s.a.taken /\ t.u = s.u
      /\ t.seen = s.seen
  BY TwinSame, Zenon
<1>2. \A k : /\ [s EXCEPT !.u.credits = @ - k, !.a.taken = @ + k]
                  = Put(s, [s.a EXCEPT !.taken = s.a.taken + k],
                           [s.u EXCEPT !.credits = s.u.credits - k])
             /\ [t EXCEPT !.u.credits = @ - k, !.a.taken = @ + k]
                  = Put(t, [s.a EXCEPT !.taken = s.a.taken + k],
                           [s.u EXCEPT !.credits = s.u.credits - k])
  <2> TAKE k
  <2> DEFINE r == [s.a EXCEPT !.taken = s.a.taken + k]
  <2>1. r.status = s.a.status /\ r.grant = s.a.grant /\ r.taken = s.a.taken + k
    BY <1>0 DEF OrderRow
  <2> HIDE DEF r
  <2>2. [s.a EXCEPT !.taken = s.a.taken + k]
          = [s.a EXCEPT !.status = r.status, !.grant = r.grant, !.taken = r.taken]
    BY <1>0, <2>1 DEF OrderRow
  <2>3. [t.a EXCEPT !.taken = t.a.taken + k]
          = [t.a EXCEPT !.status = r.status, !.grant = r.grant, !.taken = r.taken]
    BY <1>0, <1>7, <2>1 DEF OrderRow
  <2>4. [s EXCEPT !.u.credits = @ - k, !.a.taken = @ + k]
          = [s EXCEPT !.a = [s.a EXCEPT !.taken = s.a.taken + k],
                      !.u = [s.u EXCEPT !.credits = s.u.credits - k]]
    BY <1>0 DEF OrderRow, UserRow
  <2>5. [t EXCEPT !.u.credits = @ - k, !.a.taken = @ + k]
          = [t EXCEPT !.a = [t.a EXCEPT !.taken = t.a.taken + k],
                      !.u = [s.u EXCEPT !.credits = s.u.credits - k]]
    BY <1>0, <1>7 DEF OrderRow, UserRow
  <2> QED  BY <2>2, <2>3, <2>4, <2>5 DEF Put, r
<1>3. UserRow(u)  BY <1>0 DEF UserRow
<1>4. TwinStep(s, t, Put(s, row, u), Put(t, row, u))
  <2> HIDE DEF row, u
  <2> QED  BY <1>3, TwinPut
<1>5. CASE o \in Premium \/ ~owner \/ ~s.seen \/ x <= 0
  BY <1>1, <1>5, <1>7 DEF Adjusted, TwinStep
<1>6. CASE ~(o \in Premium \/ ~owner \/ ~s.seen \/ x <= 0)
  <2>1. Adjusted(s, o) = [s EXCEPT !.u.credits = @ - x, !.a.taken = @ + x]
        /\ Adjusted(t, o) = [t EXCEPT !.u.credits = @ - x, !.a.taken = @ + x]
    BY <1>1, <1>6, <1>7 DEF Adjusted
  <2> HIDE DEF x
  <2> QED  BY <1>2, <1>4, <2>1
<1> QED  BY <1>5, <1>6

LEMMA TwinStatus ==
  ASSUME NEW s, NEW t, Twin(s, t), NEW v
  PROVE  TwinStep(s, t, [s EXCEPT !.a.status = v], [t EXCEPT !.a.status = v])
<1> DEFINE row == [s.a EXCEPT !.status = v]
<1>0. OrderRow(s.a) /\ OrderRow(t.a) /\ UserRow(s.u)
      /\ s \in [a : {s.a}, u : {s.u}, seen : BOOLEAN, taken : {s.taken}]
      /\ t \in [a : {t.a}, u : {t.u}, seen : BOOLEAN, taken : {t.taken}]
  BY DEF Twin, OrderRow
<1>5. t.a.status = s.a.status /\ t.a.grant = s.a.grant /\ t.a.taken = s.a.taken /\ t.u = s.u
  BY TwinSame, Zenon
<1>1. row.status = v /\ row.grant = s.a.grant /\ row.taken = s.a.taken
  BY <1>0 DEF OrderRow
<1> HIDE DEF row
<1>2. [s.a EXCEPT !.status = v]
          = [s.a EXCEPT !.status = row.status, !.grant = row.grant, !.taken = row.taken]
      /\ [t.a EXCEPT !.status = v]
          = [t.a EXCEPT !.status = row.status, !.grant = row.grant, !.taken = row.taken]
  BY <1>0, <1>1, <1>5 DEF OrderRow
<1>3. [s EXCEPT !.a.status = v] = [s EXCEPT !.a = [s.a EXCEPT !.status = v], !.u = s.u]
      /\ [t EXCEPT !.a.status = v] = [t EXCEPT !.a = [t.a EXCEPT !.status = v], !.u = s.u]
  BY <1>0, <1>5 DEF OrderRow
<1>4. TwinStep(s, t, Put(s, row, s.u), Put(t, row, s.u))  BY <1>0, TwinPut
<1> QED  BY <1>2, <1>3, <1>4 DEF Put

\* The entitlement changes, and the user with it.
LEMMA TwinGrant ==
  ASSUME NEW s, NEW t, Twin(s, t), NEW g, NEW u, UserRow(u), NEW x, NEW y,
         x = [s EXCEPT !.a = [s.a EXCEPT !.grant = g], !.u = u],
         y = [t EXCEPT !.a = [t.a EXCEPT !.grant = g], !.u = u]
  PROVE  TwinStep(s, t, x, y)
<1> DEFINE row == [s.a EXCEPT !.grant = g]
<1>0. OrderRow(s.a) /\ OrderRow(t.a)  BY DEF Twin, OrderRow
<1>4. t.a.status = s.a.status /\ t.a.grant = s.a.grant /\ t.a.taken = s.a.taken
  BY TwinSame, Zenon
<1>1. row.status = s.a.status /\ row.grant = g /\ row.taken = s.a.taken
  BY <1>0 DEF OrderRow
<1> HIDE DEF row
<1>2. [s.a EXCEPT !.grant = g]
          = [s.a EXCEPT !.status = row.status, !.grant = row.grant, !.taken = row.taken]
      /\ [t.a EXCEPT !.grant = g]
          = [t.a EXCEPT !.status = row.status, !.grant = row.grant, !.taken = row.taken]
  BY <1>0, <1>1, <1>4 DEF OrderRow
<1>3. TwinStep(s, t, Put(s, row, u), Put(t, row, u))  BY TwinPut
<1> QED  BY <1>2, <1>3 DEF Put

LEMMA TwinGranted ==
  ASSUME NEW o, NEW s, NEW t, Twin(s, t)
  PROVE  TwinStep(s, t, Granted(s, o), Granted(t, o))
<1>0. OrderRow(s.a) /\ OrderRow(t.a) /\ UserRow(s.u) /\ t.u = s.u /\ t.seen = s.seen
      /\ s \in [a : {s.a}, u : {s.u}, seen : BOOLEAN, taken : {s.taken}]
      /\ t \in [a : {t.a}, u : {t.u}, seen : BOOLEAN, taken : {t.taken}]
  BY DEF Twin, OrderRow
<1>1. CASE s.seen  BY <1>0, <1>1 DEF Granted, GrantNeeded, TwinStep
<1>2. CASE ~s.seen /\ ~owner
  <2>1. Granted(s, o) = [s EXCEPT !.a.status = "paid_unfulfilled"]
        /\ Granted(t, o) = [t EXCEPT !.a.status = "paid_unfulfilled"]
    BY <1>0, <1>2 DEF Granted, GrantNeeded, Unfulfilled
  <2> QED  BY <2>1, TwinStatus
<1>3. CASE ~s.seen /\ owner /\ o \in Premium
  <2> DEFINE u == [s.u EXCEPT !.premium = TRUE]
             x == [s EXCEPT !.a.grant = "active", !.u.premium = TRUE]
             y == [t EXCEPT !.a.grant = "active", !.u.premium = TRUE]
  <2>1. x = [s EXCEPT !.a = [s.a EXCEPT !.grant = "active"], !.u = u]
        /\ y = [t EXCEPT !.a = [t.a EXCEPT !.grant = "active"], !.u = u]
    BY <1>0 DEF OrderRow, UserRow
  <2>2. UserRow(u)  BY <1>0 DEF UserRow
  <2>3. Granted(s, o) = x /\ Granted(t, o) = y  BY <1>0, <1>3 DEF Granted, GrantNeeded
  <2> HIDE DEF x, y, u
  <2> QED  BY <2>1, <2>2, <2>3, TwinGrant
<1>4. CASE ~s.seen /\ owner /\ o \notin Premium
  <2> DEFINE u == [s.u EXCEPT !.credits = s.u.credits + Quantity]
             x == [s EXCEPT !.a.grant = "active", !.u.credits = @ + Quantity]
             y == [t EXCEPT !.a.grant = "active", !.u.credits = @ + Quantity]
  <2>1. x = [s EXCEPT !.a = [s.a EXCEPT !.grant = "active"], !.u = u]
        /\ y = [t EXCEPT !.a = [t.a EXCEPT !.grant = "active"], !.u = u]
    BY <1>0 DEF OrderRow, UserRow
  <2>2. UserRow(u)  BY <1>0 DEF UserRow
  <2>3. Granted(s, o) = x /\ Granted(t, o) = y  BY <1>0, <1>4 DEF Granted, GrantNeeded
  <2> HIDE DEF x, y, u
  <2> QED  BY <2>1, <2>2, <2>3, TwinGrant
<1> QED  BY <1>0, <1>1, <1>2, <1>3, <1>4

LEMMA TwinFlush ==
  ASSUME NEW s, NEW t, Twin(s, t)
  PROVE  TwinStep(s, t, Flush(s), Flush(t))
<1> DEFINE x == Flush(s)
           y == Flush(t)
<1>1. /\ x \in [a : {s.a}, u : {s.u}, seen : BOOLEAN, taken : {s.a.taken}]
      /\ x.seen = (s.a.grant # "none")
      /\ y \in [a : {t.a}, u : {s.u}, seen : {s.a.grant # "none"}, taken : {s.a.taken}]
  <2>1. t.a.grant = s.a.grant /\ t.a.taken = s.a.taken /\ t.u = s.u  BY TwinSame, Zenon
  <2> QED  BY <2>1 DEF Flush, Twin
<1>2. x.a = s.a /\ x.u = s.u /\ x.taken = s.a.taken /\ y.a = t.a  BY <1>1
<1> HIDE DEF x, y
<1> QED  BY <1>1, <1>2 DEF Twin, TwinStep, x, y

LEMMA TwinRevoked ==
  ASSUME NEW o, NEW s, NEW t, Twin(s, t), s.seen => s.a.grant \in {"active"} \cup Over
  PROVE  TwinStep(s, t, Revoked(s, o), Revoked(t, o))
<1> DEFINE x == [s EXCEPT !.a.grant = "refunded"]
           y == [t EXCEPT !.a.grant = "refunded"]
<1>0. OrderRow(s.a) /\ OrderRow(t.a) /\ UserRow(s.u) /\ t.u = s.u /\ t.seen = s.seen
      /\ s \in [a : {s.a}, u : {s.u}, seen : BOOLEAN, taken : {s.taken}]
      /\ t \in [a : {t.a}, u : {t.u}, seen : BOOLEAN, taken : {t.taken}]
      /\ t.a.grant = s.a.grant
  BY TwinSame DEF Twin, OrderRow
<1>1. x = [s EXCEPT !.a = [s.a EXCEPT !.grant = "refunded"], !.u = s.u]
      /\ y = [t EXCEPT !.a = [t.a EXCEPT !.grant = "refunded"], !.u = s.u]
  BY <1>0 DEF OrderRow
<1>2. CASE Revoked(s, o) = s /\ Revoked(t, o) = t  BY <1>2 DEF TwinStep
<1>3. CASE Revoked(s, o) = x /\ Revoked(t, o) = y
  <2> HIDE DEF x, y
  <2>1. TwinStep(s, t, x, y)  BY <1>0, <1>1, TwinGrant
  <2> QED  BY <1>3, <2>1
<1>4. CASE Revoked(s, o) = Adjusted(x, o) /\ Revoked(t, o) = Adjusted(y, o)
  <2> HIDE DEF x, y
  <2>1. TwinStep(s, t, x, y)  BY <1>0, <1>1, TwinGrant
  <2>2. TwinStep(x, y, Adjusted(x, o), Adjusted(y, o))  BY <2>1, TwinAdjusted DEF TwinStep
  <2> QED  BY <1>4, <2>1, <2>2 DEF TwinStep
<1>5. CASE /\ Revoked(s, o) = [x EXCEPT !.u.premium = OthersActive(o) # {}]
           /\ Revoked(t, o) = [y EXCEPT !.u.premium = OthersActive(o) # {}]
  <2> DEFINE u == [s.u EXCEPT !.premium = OthersActive(o) # {}]
             z == [x EXCEPT !.u.premium = OthersActive(o) # {}]
             w == [y EXCEPT !.u.premium = OthersActive(o) # {}]
  <2>1. z = [s EXCEPT !.a = [s.a EXCEPT !.grant = "refunded"], !.u = u]
        /\ w = [t EXCEPT !.a = [t.a EXCEPT !.grant = "refunded"], !.u = u]
    BY <1>0, <1>1 DEF UserRow
  <2>2. UserRow(u)  BY <1>0 DEF UserRow
  <2> HIDE DEF u, z, w
  <2>3. TwinStep(s, t, z, w)  BY <2>1, <2>2, TwinGrant
  <2> QED  BY <1>5, <2>3 DEF z, w
<1> HIDE DEF x, y
<1>6. CASE ~s.seen \/ s.a.grant = "refunded"  BY <1>0, <1>2, <1>6 DEF Revoked
<1>7. CASE s.seen /\ s.a.grant \in {"ended_by_user", "ended_account_deleted"}
  BY <1>0, <1>3, <1>7 DEF Revoked, x, y
<1>8. CASE s.seen /\ s.a.grant = "active" /\ ~owner
  BY <1>0, <1>3, <1>8 DEF Revoked, x, y
<1>9. CASE s.seen /\ s.a.grant = "active" /\ owner /\ o \in Premium
  BY <1>0, <1>5, <1>9 DEF Revoked, x, y
<1>10. CASE s.seen /\ s.a.grant = "active" /\ owner /\ o \notin Premium
  BY <1>0, <1>4, <1>10 DEF Revoked, x, y
<1> QED  BY <1>6, <1>7, <1>8, <1>9, <1>10 DEF Over

\* A capture that is known.
KnownAs(v) == IF v \in {"partially_refunded", "refunded"} THEN v ELSE "captured"

LEMMA KnownIs ==
  ASSUME NEW s, OrderRow(s.a), "a" \in DOMAIN s, NEW p
  PROVE  Known(s, p, "captured")
            = [s EXCEPT !.a = [s.a EXCEPT !.txn =
                                  [s.a.txn EXCEPT ![p] = KnownAs(s.a.txn[p])]]]
BY DEF Known, KnownAs, OrderRow

\* The transaction of x is that of s, except that p has the status.
Turned(s, x, p, status) == x.a.txn = [s.a.txn EXCEPT ![p] = status]

LEMMA TwinKnown ==
  ASSUME NEW s, NEW t, Twin(s, t), NEW p
  PROVE  /\ Twin(Known(s, p, "captured"), Known(t, p, "captured"))
         /\ Turned(s, Known(s, p, "captured"), p, KnownAs(s.a.txn[p]))
         /\ Turned(t, Known(t, p, "captured"), p, KnownAs(t.a.txn[p]))
<1> DEFINE v == [s.a.txn EXCEPT ![p] = KnownAs(s.a.txn[p])]
           w == [t.a.txn EXCEPT ![p] = KnownAs(t.a.txn[p])]
           a == [s.a EXCEPT !.txn = v]
           b == [t.a EXCEPT !.txn = w]
           x == Known(s, p, "captured")
           y == Known(t, p, "captured")
<1>0. OrderRow(s.a) /\ OrderRow(t.a) /\ t.a = [s.a EXCEPT !.txn = t.a.txn]
      /\ "a" \in DOMAIN s /\ "a" \in DOMAIN t
  BY DEF Twin, OrderRow
<1>1. x = [s EXCEPT !.a = a] /\ y = [t EXCEPT !.a = b]  BY <1>0, KnownIs
<1> HIDE DEF v, w, x, y
<1>2. OrderRow(a) /\ a.txn = v /\ b.txn = w /\ b = [a EXCEPT !.txn = w]
      /\ a.refunded = s.a.refunded /\ a.booked = s.a.booked /\ a.grant = s.a.grant
  BY <1>0 DEF OrderRow
<1> HIDE DEF a, b
<1>3. /\ x \in [a : {a}, u : {s.u}, seen : BOOLEAN, taken : {s.taken}] /\ x.seen = s.seen
      /\ y \in [a : {b}, u : {s.u}, seen : {s.seen}, taken : {s.taken}]
  BY <1>1 DEF Twin
<1>4. x.a = a /\ x.u = s.u /\ x.taken = s.taken /\ y.a = b  BY <1>3
<1>5. Twin(x, y)  BY <1>2, <1>3, <1>4 DEF Twin
<1> QED  BY <1>2, <1>4, <1>5 DEF v, w, x, y, Turned

LEMMA TwinEntry ==
  ASSUME NEW s, NEW t, Twin(s, t), NEW p, NEW r
  PROVE  /\ Twin(Entry(s, p, r), Entry(t, p, r))
         /\ Turned(s, Entry(s, p, r), p, Status(s.a.refunded + Amount[r]))
         /\ Turned(t, Entry(t, p, r), p, Status(s.a.refunded + Amount[r]))
<1> DEFINE k == Known(s, p, "captured")
           l == Known(t, p, "captured")
           total == s.a.refunded + Amount[r]
           status == Status(total)
           v == [k.a.txn EXCEPT ![p] = status]
           w == [l.a.txn EXCEPT ![p] = status]
           a == [k.a EXCEPT !.booked = k.a.booked \cup {r}, !.refunded = total, !.txn = v,
                            !.status = status]
           b == [l.a EXCEPT !.booked = l.a.booked \cup {r}, !.refunded = total, !.txn = w,
                            !.status = status]
           x == Entry(s, p, r)
           y == Entry(t, p, r)
<1>0. /\ Twin(k, l) /\ k.a.txn = [s.a.txn EXCEPT ![p] = KnownAs(s.a.txn[p])]
      /\ l.a.txn = [t.a.txn EXCEPT ![p] = KnownAs(t.a.txn[p])]
  <2>1. Twin(k, l) /\ Turned(s, k, p, KnownAs(s.a.txn[p]))
        /\ Turned(t, l, p, KnownAs(t.a.txn[p]))
    BY TwinKnown
  <2> HIDE DEF k, l
  <2> QED  BY <2>1 DEF Turned
<1>1. t.a.refunded = s.a.refunded /\ l.a.booked = k.a.booked  BY <1>0, TwinSame
<1>2. x = [k EXCEPT !.a.booked = @ \cup {r}, !.a.refunded = total, !.a.txn[p] = status,
                    !.a.status = status]
      /\ y = [l EXCEPT !.a.booked = @ \cup {r}, !.a.refunded = total, !.a.txn[p] = status,
                       !.a.status = status]
  BY <1>1 DEF Entry
<1> HIDE DEF k, l, total, status, x, y
<1>3. OrderRow(k.a) /\ OrderRow(l.a) /\ l.a = [k.a EXCEPT !.txn = l.a.txn]
      /\ k \in [a : {k.a}, u : {k.u}, seen : BOOLEAN, taken : {k.taken}]
      /\ l \in [a : {l.a}, u : {k.u}, seen : {k.seen}, taken : {k.taken}] /\ UserRow(k.u)
  BY <1>0 DEF Twin, OrderRow
<1>4. x = [k EXCEPT !.a = a] /\ y = [l EXCEPT !.a = b]  BY <1>2, <1>3 DEF OrderRow
<1>5. v = [s.a.txn EXCEPT ![p] = status] /\ w = [t.a.txn EXCEPT ![p] = status]
  BY <1>0
<1> HIDE DEF v, w
<1>6. OrderRow(a) /\ a.txn = v /\ b.txn = w /\ b = [a EXCEPT !.txn = w]
  BY <1>1, <1>3 DEF OrderRow
<1> HIDE DEF a, b
<1>7. /\ x \in [a : {a}, u : {k.u}, seen : BOOLEAN, taken : {k.taken}] /\ x.seen = k.seen
      /\ y \in [a : {b}, u : {k.u}, seen : {k.seen}, taken : {k.taken}]
  BY <1>3, <1>4
<1>8. x.a = a /\ x.u = k.u /\ x.taken = k.taken /\ y.a = b  BY <1>7
<1>9. Twin(x, y)  BY <1>3, <1>6, <1>7, <1>8 DEF Twin
<1> QED  BY <1>5, <1>6, <1>8, <1>9 DEF x, y, total, status, Turned

\* A refund does to the transaction of a twin what is known of that one, or what the
\* total of the refunds says.
LEMMA TwinRefunded ==
  ASSUME ConstantsOK, BInv, NEW o \in Orders, NEW s, Seeing(o, s), NEW t, Twin(s, t), NEW p,
         NEW r \in repaid[o]
  PROVE  /\ Twin(Refunded(s, o, p, r), Refunded(t, o, p, r))
         /\ IF r \in s.a.booked
            THEN /\ Turned(s, Refunded(s, o, p, r), p, KnownAs(s.a.txn[p]))
                 /\ Turned(t, Refunded(t, o, p, r), p, KnownAs(t.a.txn[p]))
            ELSE /\ Turned(s, Refunded(s, o, p, r), p, Status(s.a.refunded + Amount[r]))
                 /\ Turned(t, Refunded(t, o, p, r), p, Status(s.a.refunded + Amount[r]))
<1>1. t.a.booked = s.a.booked /\ t.a.refunded = s.a.refunded  BY TwinSame
<1>2. CASE r \in s.a.booked
  <2>1. Refunded(s, o, p, r) = Known(s, p, "captured")
        /\ Refunded(t, o, p, r) = Known(t, p, "captured")
    BY <1>1, <1>2, RefundedIs
  <2> QED  BY <1>2, <2>1, TwinKnown, Zenon
<1>3. CASE r \notin s.a.booked
  <2> DEFINE status == Status(s.a.refunded + Amount[r])
             x == Entry(s, p, r)
             y == Entry(t, p, r)
             g == Granted(x, o)
             h == Granted(y, o)
  <2>1. Twin(x, y) /\ x.a.txn = [s.a.txn EXCEPT ![p] = status]
        /\ y.a.txn = [t.a.txn EXCEPT ![p] = status]
    <3>1. Twin(x, y) /\ Turned(s, x, p, status) /\ Turned(t, y, p, status)  BY TwinEntry
    <3> HIDE DEF x, y, status
    <3> QED  BY <3>1 DEF Turned
  <2>2. x.seen => x.a.grant \in {"active"} \cup Over
    <3>1. Seeing(o, x)  BY <1>3, EntrySound
    <3> HIDE DEF x
    <3> QED  BY <3>1 DEF Seeing, Sound, RowRight, FullRow
  <2>3. \/ /\ Refunded(s, o, p, r) = Revoked(x, o)
           /\ Refunded(t, o, p, r) = Revoked(y, o)
        \/ /\ Refunded(s, o, p, r) = Adjusted(Flush(g), o)
           /\ Refunded(t, o, p, r) = Adjusted(Flush(h), o)
    BY <1>1, <1>3, RefundedIs
  <2> HIDE DEF x, y, status
  <2>4. TwinStep(x, y, Revoked(x, o), Revoked(y, o))  BY <2>1, <2>2, TwinRevoked
  <2>5. TwinStep(x, y, g, h)  BY <2>1, TwinGranted
  <2> HIDE DEF g, h
  <2>6. TwinStep(g, h, Flush(g), Flush(h))  BY <2>5, TwinFlush DEF TwinStep
  <2>7. TwinStep(Flush(g), Flush(h), Adjusted(Flush(g), o), Adjusted(Flush(h), o))
    BY <2>6, TwinAdjusted DEF TwinStep
  <2>8. TwinStep(x, y, Adjusted(Flush(g), o), Adjusted(Flush(h), o))
    BY <2>5, <2>6, <2>7 DEF TwinStep
  <2> QED  BY <1>3, <2>1, <2>3, <2>4, <2>8 DEF TwinStep, status, Turned
<1> QED  BY <1>2, <1>3

\* What a refund event writes that has read status is what one would write that reads
\* the transaction now, except that it leaves the transaction or captures it again.
Hints(o, t, h, status) ==
    /\ Seeing(o, t) /\ h.u = t.u /\ FullRow(h.a) /\ h.a = [t.a EXCEPT !.txn = h.a.txn]
    /\ \A q \in Payments : \/ h.a.txn[q] \in {t.a.txn[q], account[o].txn[q]}
                           \/ status \notin Taken /\ h.a.txn[q] = "captured"

LEMMA HintedDoes ==
  ASSUME ConstantsOK, BInv, NEW o \in Orders, NEW p, NEW r \in repaid[o], NEW status
  PROVE  Hints(o, Refunded(Books(o), o, p, r),
               Written(Refunded(Hinted(o, p, status), o, p, r), o, p, status), status)
<1> DEFINE now == Books(o)
           t == Refunded(now, o, p, r)
           stale == Hinted(o, p, status)
           y == Refunded(stale, o, p, r)
           v == IF y.a.txn[p] = status THEN account[o].txn[p] ELSE y.a.txn[p]
           w == [y.a.txn EXCEPT ![p] = v]
           h == Written(y, o, p, status)
           after == Status(now.a.refunded + Amount[r])
<1>1. Seeing(o, now) /\ Seeing(o, t) /\ now.a = account[o] /\ FullRow(account[o])
      /\ FullRow(t.a)
  <2>1. Seeing(o, now) /\ now.a = account[o]  BY NowRight DEF Books
  <2>2. Seeing(o, t)  BY <2>1, RefundedSound
  <2> HIDE DEF t, now
  <2> QED  BY <2>1, <2>2 DEF Seeing, Sound, RowRight
<1>2. Twin(now, stale) /\ stale.a.txn = [account[o].txn EXCEPT ![p] = status]
  <2>1. now \in [a : {now.a}, u : {now.u}, seen : BOOLEAN, taken : {now.taken}]
        /\ OrderRow(now.a) /\ UserRow(now.u)
    <3> HIDE DEF now
    <3> QED  BY <1>1 DEF Seeing, Sound, RowRight, FullRow
  <2> DEFINE a == [now.a EXCEPT !.txn = [account[o].txn EXCEPT ![p] = status]]
  <2>2. stale = [now EXCEPT !.a = a]  BY <1>1, <2>1 DEF Hinted, OrderRow
  <2> HIDE DEF now, stale
  <2>3. a.txn = [account[o].txn EXCEPT ![p] = status] /\ a = [now.a EXCEPT !.txn = a.txn]
    BY <2>1 DEF OrderRow
  <2> HIDE DEF a
  <2>4. stale \in [a : {a}, u : {now.u}, seen : {now.seen}, taken : {now.taken}]
    BY <2>1, <2>2
  <2>5. stale.a = a  BY <2>4
  <2> QED  BY <2>1, <2>3, <2>4, <2>5 DEF Twin
<1>3. /\ Twin(t, y)
      /\ IF r \in account[o].booked
         THEN t.a.txn = [account[o].txn EXCEPT ![p] = KnownAs(account[o].txn[p])]
              /\ y.a.txn = [stale.a.txn EXCEPT ![p] = KnownAs(stale.a.txn[p])]
         ELSE t.a.txn = [account[o].txn EXCEPT ![p] = after]
              /\ y.a.txn = [stale.a.txn EXCEPT ![p] = after]
  <2> HIDE DEF now, stale
  <2>1. /\ Twin(t, y)
        /\ IF r \in now.a.booked
           THEN t.a.txn = [now.a.txn EXCEPT ![p] = KnownAs(now.a.txn[p])]
                /\ y.a.txn = [stale.a.txn EXCEPT ![p] = KnownAs(stale.a.txn[p])]
           ELSE t.a.txn = [now.a.txn EXCEPT ![p] = after]
                /\ y.a.txn = [stale.a.txn EXCEPT ![p] = after]
    <3>1. /\ Twin(t, y)
          /\ IF r \in now.a.booked
             THEN Turned(now, t, p, KnownAs(now.a.txn[p]))
                  /\ Turned(stale, y, p, KnownAs(stale.a.txn[p]))
             ELSE Turned(now, t, p, after) /\ Turned(stale, y, p, after)
      BY <1>1, <1>2, TwinRefunded
    <3> QED  BY <3>1 DEF Turned
  <2> HIDE DEF t, y, after
  <2> QED  BY <1>1, <2>1
<1>4. after \in {"refunded", "partially_refunded"}  BY DEF Status
<1> HIDE DEF now, stale, t, y, after
<1>5. h.u = t.u /\ h.a = [t.a EXCEPT !.txn = w] /\ h.a.txn = w
  <2>1. OrderRow(t.a) /\ OrderRow(y.a) /\ y.a = [t.a EXCEPT !.txn = y.a.txn] /\ y.u = t.u
        /\ y \in [a : {y.a}, u : {y.u}, seen : BOOLEAN, taken : {y.taken}]
    BY <1>3 DEF Twin, OrderRow
  <2> DEFINE a == [y.a EXCEPT !.txn = w]
  <2>2. h = [y EXCEPT !.a = a]  BY <2>1 DEF Written, OrderRow
  <2> HIDE DEF w, h
  <2>3. a = [t.a EXCEPT !.txn = w] /\ a.txn = w  BY <2>1 DEF OrderRow
  <2> HIDE DEF a
  <2>4. h.a = a /\ h.u = y.u  BY <2>1, <2>2
  <2> QED  BY <2>1, <2>3, <2>4
<1> HIDE DEF h
<1>6. ASSUME NEW q \in Payments
      PROVE  /\ w[q] \in Txn
             /\ \/ w[q] \in {t.a.txn[q], account[o].txn[q]}
                \/ status \notin Taken /\ w[q] = "captured"
  <2>0. account[o].txn \in [Payments -> Txn] /\ t.a.txn \in [Payments -> Txn]
    BY <1>1 DEF FullRow
  <2>1. DOMAIN stale.a.txn = Payments /\ DOMAIN y.a.txn = Payments
    BY <1>2, <1>3, <2>0
  <2>2. CASE q # p
    <3>1. w[q] = account[o].txn[q]  BY <1>2, <1>3, <2>0, <2>1, <2>2
    <3> QED  BY <2>0, <3>1
  <2>3. CASE q = p
    <3>1. w[q] = v /\ stale.a.txn[p] = status
          /\ y.a.txn[p] = (IF r \in account[o].booked THEN KnownAs(status) ELSE after)
          /\ (r \notin account[o].booked => t.a.txn[p] = after)
      <4>1. stale.a.txn[p] = status /\ p \in Payments /\ w[q] = v
        BY <1>2, <2>0, <2>1, <2>3
      <4>2. CASE r \in account[o].booked
        <5>1. y.a.txn[p] = KnownAs(stale.a.txn[p])  BY <1>3, <2>1, <4>1, <4>2
        <5> QED  BY <4>1, <4>2, <5>1
      <4>3. CASE r \notin account[o].booked
        <5>1. y.a.txn[p] = after /\ t.a.txn[p] = after  BY <1>3, <2>0, <2>1, <4>1, <4>3
        <5> QED  BY <4>1, <4>3, <5>1
      <4> HIDE DEF v
      <4> QED  BY <4>1, <4>2, <4>3
    <3>2. account[o].txn[q] \in Txn /\ t.a.txn[q] \in Txn  BY <2>0
    <3>3. CASE y.a.txn[p] = status  BY <2>3, <3>1, <3>2, <3>3
    <3>4. CASE y.a.txn[p] # status
      <4>1. w[q] = y.a.txn[p]  BY <3>1, <3>4
      <4> HIDE DEF w, v
      <4>2. CASE r \notin account[o].booked
        <5>1. w[q] = t.a.txn[q]  BY <2>3, <3>1, <4>1, <4>2
        <5> QED  BY <3>2, <5>1
      <4>3. CASE r \in account[o].booked
        <5>1. w[q] = "captured" /\ status \notin Taken
          BY <3>1, <3>4, <4>1, <4>3 DEF KnownAs, Taken
        <5> QED  BY <5>1 DEF Txn
      <4> QED  BY <4>2, <4>3
    <3> QED  BY <3>3, <3>4
  <2> QED  BY <2>2, <2>3
<1>7. w \in [Payments -> Txn]
  <2>1. DOMAIN w = Payments /\ w = [q \in DOMAIN w |-> w[q]]
    BY <1>1, <1>2, <1>3 DEF FullRow
  <2> HIDE DEF w
  <2> QED  BY <1>6, <2>1
<1> HIDE DEF w
<1>8. FullRow(h.a)  BY <1>1, <1>5, <1>7 DEF FullRow, OrderRow
<1>9. Hints(o, t, h, status)  BY <1>1, <1>5, <1>6, <1>8 DEF Hints
<1> QED  BY <1>9, Zenon DEF h, t, y, stale, now

-----------------------------------------------------------------------------
(* The books in the initial states and after every action. *)

\* What a step must do to the books.
BooksStep ==
    RefundsTrue' /\ BooksTrue' /\ PremiumIsBacked'
    /\ \A o \in Orders : \/ Stays(account[o], account'[o])
                         \/ StaleRefund(o) /\ Reopens(account[o], account'[o])

\* A step that only reads the books.
LEMMA ReadingRight ==
  ASSUME BInv, RefundsTrue', UNCHANGED <<books, owner, repaid>>,
         ender' = [n \in Enders |-> ender'[n]],
         \A n \in Enders : ender[n].phase # "idle" => ender'[n].phase # "idle"
  PROVE  BooksStep
<1> USE DEF books
<1>1. BooksTrue'
  BY DEF BInv, BooksTrue, UserRow, FullRow, OrderRow, RefundsRight
<1>2. PremiumIsBacked'  BY DEF BInv, PremiumIsBacked
<1>3. \A o \in Orders : Stays(account[o], account'[o])  BY DEF Stays
<1> QED  BY <1>1, <1>2, <1>3 DEF BooksStep

\* A step that writes the books of one order.
LEMMA WritingBooks ==
  ASSUME BInv, RefundsTrue', UNCHANGED <<owner, repaid, ender>>, NEW o \in Orders,
         NEW r, NEW u, FullRow(r), UserRow(u), RefundsRight(o, r), Backed(o, r, u),
         Stays(account[o], r) \/ (StaleRefund(o) /\ Reopens(account[o], r)), account' = [account EXCEPT ![o] = r], user' = u
  PROVE  BooksStep
<1>1. account' = [x \in Orders |-> IF x = o THEN r ELSE account[x]]
  BY DEF BInv, IInv, RowsTyped
<1>2. BooksTrue'
  <2>1. \A x \in Orders : FullRow(account'[x]) /\ RefundsRight(x, account'[x])
    BY <1>1 DEF BInv, BooksTrue
  <2>2. \A x \in Orders : FullRow(account[x])' /\ RefundsRight(x, account[x])'
    BY <2>1 DEF FullRow, OrderRow, RefundsRight
  <2> QED  BY <2>2 DEF BInv, BooksTrue, UserRow
<1>3. PremiumIsBacked'
  <2>1. (\E x \in Premium : account'[x].grant = "active")
          <=> (OthersActive(o) # {} \/ (o \in Premium /\ r.grant = "active"))
    <3>1. Premium \subseteq Orders  BY ConstantsOK DEF ConstantsOK
    <3> QED  BY <1>1, <3>1 DEF OthersActive
  <2> QED  BY <2>1 DEF Backed, Undisturbed, PremiumIsBacked
<1>4. \A x \in Orders : \/ Stays(account[x], account'[x])
                        \/ StaleRefund(x) /\ Reopens(account[x], account'[x])
  <2>1. \A x \in Orders : Stays(account[x], account[x])  BY DEF Stays
  <2> QED  BY <1>1, <2>1
<1> QED  BY <1>2, <1>3, <1>4 DEF BooksStep

LEMMA WritingRight ==
  ASSUME BInv, RefundsTrue', UNCHANGED <<owner, repaid, ender>>, NEW o \in Orders,
         NEW r, NEW u, RowRight(o, r, u), account' = [account EXCEPT ![o] = r], user' = u
  PROVE  BooksStep
BY WritingBooks DEF RowRight

\* A transaction that is sound.
LEMMA BookRight ==
  ASSUME BInv, RefundsTrue', UNCHANGED <<owner, repaid, ender>>, NEW o \in Orders,
         NEW s, Sound(o, s), Book(o, s)
  PROVE  BooksStep
<1>1. RowRight(o, s.a, s.u) /\ account' = [account EXCEPT ![o] = s.a] /\ user' = s.u
  BY DEF Sound, Book
<1> QED  BY <1>1, WritingRight

\* The refunds that are known, after a step of a call.
LEMMA RefundsKept ==
  ASSUME BInv, UNCHANGED <<repaid, sent>>,
         \/ UNCHANGED reader
         \/ \E d \in Readers :
               \E c : /\ reader' = [reader EXCEPT ![d] = c]
                      /\ c.phase = "apply" => c.refunds \subseteq repaid[c.order]
  PROVE  RefundsTrue'
<1>1. CASE UNCHANGED reader  BY <1>1 DEF BInv, RefundsTrue
<1>2. CASE ~UNCHANGED reader
  <2>0. PICK d \in Readers :
           \E c : /\ reader' = [reader EXCEPT ![d] = c]
                  /\ c.phase = "apply" => c.refunds \subseteq repaid[c.order]
    BY <1>2
  <2>1. PICK c : /\ reader' = [reader EXCEPT ![d] = c]
                 /\ c.phase = "apply" => c.refunds \subseteq repaid[c.order]
    BY <2>0
  <2>2. reader = [x \in Readers |-> reader[x]]  BY DEF BInv, IInv, CallsTrue
  <2>3. \A x \in Readers : reader'[x] = IF x = d THEN c ELSE reader[x]
    BY <2>1, <2>2
  <2>4. ASSUME NEW x \in Readers, reader'[x].phase = "apply"
        PROVE  reader'[x].refunds \subseteq repaid[reader'[x].order]
    <3>1. CASE x = d  BY <2>1, <2>3, <2>4, <3>1
    <3>2. CASE x # d  BY <2>3, <2>4, <3>2 DEF BInv, RefundsTrue
    <3> QED  BY <3>1, <3>2
  <2> QED  BY <2>4 DEF BInv, RefundsTrue
<1> QED  BY <1>1, <1>2

LEMMA InitBooks == ASSUME ConstantsOK PROVE Init => BInv
<1> SUFFICES ASSUME Init PROVE BInv  OBVIOUS
<1>1. IInv  BY InitRight
<1>2. Total({}) = 0
  <2>1. Points([r \in {} |-> Amount[r]]) = {}  BY DEF Points
  <2> QED  BY <2>1, FS_EmptySet DEF Total, Sum
<1>3. Gross \in Nat /\ 0 # Gross  BY DEF ConstantsOK
<1>4. RefundsTrue
  BY <1>2, <1>3 DEF Init, RefundsTrue, NoCall
<1>5. \A o \in Orders : FullRow(account[o]) /\ RefundsRight(o, account[o])
                        /\ account[o].grant = "none"
  <2>1. FullRow(NoOrder) /\ NoOrder.booked = {} /\ NoOrder.refunded = 0
        /\ NoOrder.txn = [p \in Payments |-> "none"] /\ NoOrder.grant = "none"
    BY DEF NoOrder, FullRow, OrderRow, Txn
  <2> DEFINE n == [NoOrder EXCEPT !.status = "created", !.bound = TRUE]
  <2>2. FullRow(n) /\ n.booked = {} /\ n.refunded = 0 /\ n.txn = [p \in Payments |-> "none"]
        /\ n.grant = "none"
    BY <2>1 DEF FullRow, OrderRow
  <2>3. \A o \in Orders : account[o] = n \/ account[o] = NoOrder  BY DEF Init
  <2> HIDE DEF n
  <2> QED  BY <1>2, <2>1, <2>2, <2>3 DEF RefundsRight
<1>6. BooksTrue  BY <1>5 DEF Init, BooksTrue, UserRow
<1>7. PremiumIsBacked
  BY <1>5 DEF Init, PremiumIsBacked, ConstantsOK
<1> QED  BY <1>1, <1>4, <1>6, <1>7 DEF BInv

\* Other fields of a row are no matter of the books.
LEMMA OtherFields ==
  ASSUME NEW o, NEW r, NEW u, RowRight(o, r, u), NEW v, NEW b
  PROVE  /\ RowRight(o, [r EXCEPT !.status = v], u)
         /\ RowRight(o, [r EXCEPT !.status = v, !.bound = b], u)
<1>0. FullRow(r) /\ UserRow(u)  BY DEF RowRight
<1>1. ASSUME NEW t, FullRow(t), t.txn = r.txn, t.booked = r.booked, t.refunded = r.refunded,
             t.grant = r.grant
      PROVE  RowRight(o, t, u)
  <2>1. \A p \in Payments :
            /\ r.txn[p] \in Taken => t.txn[p] \in {r.txn[p], "partially_refunded", "refunded"}
            /\ r.txn[p] = "refunded" <=> t.txn[p] = "refunded"
    BY <1>1
  <2> QED  BY <1>0, <1>1, <2>1, SameGrant
<1>2. RowRight(o, [r EXCEPT !.status = v], u)
  <2> DEFINE t == [r EXCEPT !.status = v]
  <2>1. FullRow(t) /\ t.txn = r.txn /\ t.booked = r.booked /\ t.refunded = r.refunded
        /\ t.grant = r.grant
    BY <1>0 DEF FullRow, OrderRow
  <2> HIDE DEF t
  <2>2. RowRight(o, t, u)  BY <1>1, <2>1
  <2> QED  BY <2>2 DEF t
<1>3. RowRight(o, [r EXCEPT !.status = v, !.bound = b], u)
  <2> DEFINE t == [r EXCEPT !.status = v, !.bound = b]
  <2>1. FullRow(t) /\ t.txn = r.txn /\ t.booked = r.booked /\ t.refunded = r.refunded
        /\ t.grant = r.grant
    BY <1>0 DEF FullRow, OrderRow
  <2> HIDE DEF t
  <2>2. RowRight(o, t, u)  BY <1>1, <2>1
  <2> QED  BY <2>2 DEF t
<1> QED  BY <1>2, <1>3

\* The call that creates an order.
LEMMA CreatingBooks ==
  ASSUME BInv, NEW o \in Orders,
         CreateOrder(o) \/ RecordCreated(o) \/ RecordUnknown(o) \/ CrashCreating(o)
  PROVE  BooksStep
<1> USE DEF books, calls, provider, ends
<1>0. RefundsTrue' /\ UNCHANGED <<user, owner, repaid, ender>>
  <2>1. UNCHANGED <<user, owner, repaid, ender, sent, reader>>
    BY DEF CreateOrder, RecordCreated, RecordUnknown, CrashCreating
  <2> QED  BY <2>1, RefundsKept
<1>1. RowRight(o, account[o], user)  BY NowRight
<1>2. CASE CrashCreating(o)
  BY <1>0, <1>2, ReadingRight DEF CrashCreating, BInv, BooksTrue
<1>3. CASE \E v : account' = [account EXCEPT ![o] = [account[o] EXCEPT !.status = v]]
  <2>1. PICK v : account' = [account EXCEPT ![o] = [account[o] EXCEPT !.status = v]]
    BY <1>3
  <2>2. RowRight(o, [account[o] EXCEPT !.status = v], user)  BY <1>1, OtherFields
  <2> QED  BY <1>0, <2>1, <2>2, WritingRight
<1>4. CASE account' = [account EXCEPT ![o] =
                          [account[o] EXCEPT !.status = "created", !.bound = TRUE]]
  <2>1. RowRight(o, [account[o] EXCEPT !.status = "created", !.bound = TRUE], user)
    BY <1>1, OtherFields
  <2> QED  BY <1>0, <1>4, <2>1, WritingRight
<1> QED  BY <1>2, <1>3, <1>4 DEF CreateOrder, RecordCreated, RecordUnknown

\* The provider has no part in the books.
LEMMA ProviderBooks ==
  ASSUME BInv, NEW o \in Orders,
         \/ ProviderCreates(o) \/ Resume(o)
         \/ \E p \in Payments :
               FailPayment(o, p) \/ AuthorizePayment(o, p) \/ CapturePayment(o, p)
  PROVE  BooksStep
<1> USE DEF books, calls, provider, ends
<1>1. UNCHANGED <<books, owner, repaid, ender, reader>>
  BY DEF ProviderCreates, Resume, FailPayment, AuthorizePayment, CapturePayment
<1>2. \A e \in sent' : e \in sent \/ e[1] # "refund.processed"
  <2>1. CASE UNCHANGED sent  BY <2>1
  <2>2. ASSUME NEW p \in Payments, FailPayment(o, p) \/ CapturePayment(o, p)
        PROVE  \A e \in sent' : e \in sent \/ e[1] # "refund.processed"
    <3>1. \A e \in sent' : \/ e \in sent \/ e = <<"payment.failed", o, p>>
                           \/ e = <<"payment.captured", o, p>> \/ e = <<"order.paid", o, p>>
      BY <2>2 DEF FailPayment, CapturePayment
    <3> QED  BY <3>1
  <2> QED  BY <2>1, <2>2 DEF ProviderCreates, Resume, AuthorizePayment
<1>3. RefundsTrue'  BY <1>1, <1>2 DEF BInv, RefundsTrue
<1> QED  BY <1>1, <1>3, ReadingRight DEF BInv, BooksTrue

LEMMA RefundPaymentBooks ==
  ASSUME BInv, NEW o \in Orders, NEW r \in Refunds, RefundPayment(o, r)
  PROVE  BooksStep
<1> USE DEF books, calls, ends
<1>1. PICK entity : /\ repaid' = [repaid EXCEPT ![o] = @ \cup {r}]
                    /\ Total(repaid[o] \cup {r}) <= Gross
                    /\ sent' = sent \cup {<<"refund.processed", o, r, entity>>}
                    /\ UNCHANGED <<account, user, owner, creating, browser, reader, ender>>
  BY DEF RefundPayment
<1>2. repaid' = [x \in Orders |-> IF x = o THEN repaid[o] \cup {r} ELSE repaid[x]]
  BY <1>1 DEF BInv, RefundsTrue
<1>3. RefundsTrue'
  <2>1. \A x \in Orders : repaid'[x] \in SUBSET Refunds /\ Total(repaid'[x]) <= Gross
    BY <1>1, <1>2 DEF BInv, RefundsTrue
  <2>2. ASSUME NEW e \in sent', e[1] = "refund.processed" PROVE e[3] \in repaid'[e[2]]
    <3>1. e \in sent \/ e = <<"refund.processed", o, r, entity>>  BY <1>1
    <3>2. CASE e \in sent
      <4>1. e[2] \in Orders  BY <3>2 DEF BInv, IInv, EventsTrue
      <4> QED  BY <1>2, <2>2, <3>2, <4>1 DEF BInv, RefundsTrue
    <3>3. CASE e = <<"refund.processed", o, r, entity>>
      <4>1. e[2] = o /\ e[3] = r  BY <3>3
      <4> QED  BY <1>2, <4>1
    <3> QED  BY <3>1, <3>2, <3>3
  <2>3. ASSUME NEW d \in Readers, reader'[d].phase = "apply"
        PROVE  reader'[d].refunds \subseteq repaid'[reader'[d].order]
    <3>1. reader[d].order \in Orders /\ reader[d].refunds \subseteq repaid[reader[d].order]
      BY <1>1, <2>3 DEF BInv, IInv, CallsTrue, ReaderTrue, RefundsTrue
    <3> QED  BY <1>1, <1>2, <3>1
  <2> QED  BY <1>2, <2>1, <2>2, <2>3 DEF RefundsTrue
<1>4. BooksTrue'
  BY <1>1, <1>2 DEF BInv, BooksTrue, UserRow, FullRow, OrderRow, RefundsRight
<1>5. PremiumIsBacked'  BY <1>1 DEF BInv, PremiumIsBacked
<1>6. \A x \in Orders : Stays(account[x], account'[x])  BY <1>1 DEF Stays
<1> QED  BY <1>3, <1>4, <1>5, <1>6 DEF BooksStep

LEMMA CaptureBooks ==
  ASSUME BInv, NEW e \in sent, CaptureEvent(e)
  PROVE  BooksStep
<1> USE DEF books, calls, provider, ends
<1>1. e[2] \in Orders /\ RefundsTrue' /\ UNCHANGED <<owner, repaid, ender>>
  <2>1. UNCHANGED <<owner, repaid, sent, reader, ender>>  BY DEF CaptureEvent
  <2> QED  BY <2>1, RefundsKept DEF BInv, IInv, EventsTrue
<1>2. UNCHANGED books \/ Book(e[2], Captured(Books(e[2]), e[2], e[3]))
  BY DEF CaptureEvent
<1>3. CASE UNCHANGED books  BY <1>1, <1>3, ReadingRight DEF BInv, BooksTrue
<1>4. Sound(e[2], Captured(Books(e[2]), e[2], e[3]))
  <2>1. Seeing(e[2], Books(e[2]))  BY <1>1, NowRight
  <2> QED  BY <2>1, CapturedSound
<1> QED  BY <1>1, <1>2, <1>3, <1>4, BookRight

LEMMA RefundBooks ==
  ASSUME ConstantsOK, BInv, NEW e \in sent, RefundEvent(e)
  PROVE  BooksStep
<1> USE DEF books, calls, provider, ends
<1>1. e[2] \in Orders /\ RefundsTrue' /\ UNCHANGED <<owner, repaid, ender>>
  <2>1. UNCHANGED <<owner, repaid, sent, reader, ender>>  BY DEF RefundEvent
  <2> QED  BY <2>1, RefundsKept DEF BInv, IInv, EventsTrue
<1> DEFINE p == Repaying(e[2])
<1>2. UNCHANGED books \/ Book(e[2], Refunded(Books(e[2]), e[2], p, e[3]))
  BY DEF RefundEvent
<1>3. CASE UNCHANGED books  BY <1>1, <1>3, ReadingRight DEF BInv, BooksTrue
<1> HIDE DEF p
<1>4. Sound(e[2], Refunded(Books(e[2]), e[2], p, e[3]))
  <2>1. Seeing(e[2], Books(e[2]))  BY <1>1, NowRight
  <2>2. e[3] \in repaid[e[2]]  BY DEF RefundEvent, BInv, RefundsTrue
  <2>3. Seeing(e[2], Refunded(Books(e[2]), e[2], p, e[3]))
    BY <1>1, <2>1, <2>2, RefundedSound
  <2> QED  BY <2>3 DEF Seeing
<1> QED  BY <1>1, <1>2, <1>3, <1>4, BookRight

\* The transaction that a refund event finds first is no matter of the books.
LEMMA FindBooks ==
  ASSUME BInv, NEW e \in sent, FindTransaction(e)
  PROVE  BooksStep
<1> USE DEF books, calls, provider, ends
<1>1. UNCHANGED <<books, owner, repaid, sent, reader, ender>>  BY DEF FindTransaction
<1>2. RefundsTrue'  BY <1>1, RefundsKept
<1> QED  BY <1>1, <1>2, ReadingRight DEF BInv, BooksTrue

\* A refund event that has read a stale status books what a fresh one would book.
LEMMA HintedWrites ==
  ASSUME ConstantsOK, BInv, NEW e \in sent, HintedRefund(e)
  PROVE  LET o == e[2]
             t == Refunded(Books(o), o, Repaying(o), e[3])
         IN  /\ o \in Orders /\ e[3] \in repaid[o] /\ Seeing(o, t) /\ user' = t.u
             /\ \E row : /\ account' = [account EXCEPT ![o] = row] /\ FullRow(row)
                        /\ row = [t.a EXCEPT !.txn = row.txn]
                        /\ \A q \in Payments :
                              \/ row.txn[q] \in {t.a.txn[q], account[o].txn[q]}
                              \/ hint[e] \notin Taken /\ row.txn[q] = "captured"
<1> DEFINE o == e[2]
           p == Repaying(o)
           t == Refunded(Books(o), o, p, e[3])
           h == Written(Refunded(Hinted(o, p, hint[e]), o, p, e[3]), o, p, hint[e])
<1>1. o \in Orders /\ e[3] \in repaid[o]
  BY DEF HintedRefund, BInv, IInv, EventsTrue, RefundsTrue
<1>2. account' = [account EXCEPT ![o] = h.a] /\ user' = h.u  BY DEF HintedRefund, Book
<1>3. /\ Seeing(o, t) /\ h.u = t.u /\ FullRow(h.a) /\ h.a = [t.a EXCEPT !.txn = h.a.txn]
      /\ \A q \in Payments : \/ h.a.txn[q] \in {t.a.txn[q], account[o].txn[q]}
                             \/ hint[e] \notin Taken /\ h.a.txn[q] = "captured"
  <2>1. Hints(o, t, h, hint[e])  BY <1>1, HintedDoes
  <2> HIDE DEF t, h
  <2> QED  BY <2>1 DEF Hints
<1> HIDE DEF h
<1> QED  BY <1>1, <1>2, <1>3, Zenon

LEMMA HintedBooks ==
  ASSUME ConstantsOK, BInv, NEW e \in sent, HintedRefund(e)
  PROVE  BooksStep
<1> USE DEF books, calls, provider, ends
<1> DEFINE o == e[2]
           t == Refunded(Books(o), o, Repaying(o), e[3])
<1>1. RefundsTrue' /\ UNCHANGED <<owner, repaid, ender>>
  <2>1. UNCHANGED <<owner, repaid, sent, reader, ender>>  BY DEF HintedRefund
  <2> QED  BY <2>1, RefundsKept
<1>2. hint[e] \notin Taken => StaleRefund(o)
  <2>1. hint' = [x \in DOMAIN hint \ {e} |-> hint[x]] /\ e \in DOMAIN hint
    BY DEF HintedRefund
  <2>2. e \in DOMAIN hint \ DOMAIN hint'  BY <2>1
  <2> QED  BY <2>2 DEF StaleRefund, Taken
<1>3. PICK r : /\ o \in Orders /\ Seeing(o, t) /\ user' = t.u
               /\ account' = [account EXCEPT ![o] = r] /\ FullRow(r)
               /\ r = [t.a EXCEPT !.txn = r.txn]
               /\ \A q \in Payments : \/ r.txn[q] \in {t.a.txn[q], account[o].txn[q]}
                                      \/ hint[e] \notin Taken /\ r.txn[q] = "captured"
  BY HintedWrites, Zenon
<1> HIDE DEF o, t
<1>4. FullRow(t.a) /\ UserRow(t.u) /\ RefundsRight(o, t.a) /\ Stays(account[o], t.a)
      /\ Backed(o, t.a, t.u)
  BY <1>3 DEF Seeing, Sound, RowRight
<1>5. r.grant = t.a.grant /\ r.booked = t.a.booked /\ r.refunded = t.a.refunded
  <2>1. OrderRow(t.a)  BY <1>4 DEF FullRow
  <2> QED  BY <1>3, <2>1 DEF OrderRow
<1>6. RefundsRight(o, r)
  <2>1. ASSUME NEW q \in Payments, r.txn[q] = "refunded" PROVE t.a.txn[q] = "refunded"
    BY <1>3, <1>4, <2>1 DEF Stays
  <2> QED  BY <1>4, <1>5, <2>1 DEF RefundsRight
<1>7. Backed(o, r, t.u)  BY <1>4, <1>5 DEF Backed
<1>8. Stays(account[o], r) \/ (StaleRefund(o) /\ Reopens(account[o], r))
  <2>1. account[o].grant \in Over => r.grant \in Over  BY <1>4, <1>5 DEF Stays
  <2>2. ASSUME NEW q \in Payments, account[o].txn[q] \in Taken
        PROVE  \/ StaleRefund(o) /\ r.txn[q] = "captured"
               \/ /\ r.txn[q] \in {account[o].txn[q], "partially_refunded", "refunded"}
                  /\ account[o].txn[q] = "refunded" => r.txn[q] = "refunded"
    <3>1. /\ t.a.txn[q] \in {account[o].txn[q], "partially_refunded", "refunded"}
          /\ account[o].txn[q] = "refunded" => t.a.txn[q] = "refunded"
      BY <1>4, <2>2 DEF Stays
    <3> QED  BY <1>2, <1>3, <3>1
  <2>3. CASE StaleRefund(o)  BY <2>1, <2>2, <2>3 DEF Reopens
  <2>4. CASE ~StaleRefund(o)
    <3>1. \A q \in Payments : account[o].txn[q] = "refunded" => account[o].txn[q] \in Taken
      BY DEF Taken
    <3> QED  BY <2>1, <2>2, <2>4, <3>1 DEF Stays
  <2> QED  BY <2>3, <2>4
<1> QED  BY <1>1, <1>3, <1>4, <1>6, <1>7, <1>8, WritingBooks

\* A payment that fails is one that has not been taken.
LEMMA FailureBooks ==
  ASSUME BInv, NEW e \in sent, FailureEvent(e)
  PROVE  BooksStep
<1> USE DEF books, calls, provider, ends
<1> DEFINE o == e[2]
           s == Known(Books(o), e[3], "failed")
           x == IF s.a.status \in Open \ {"creation_unknown"} THEN "payment_failed"
                ELSE s.a.status
<1>1. o \in Orders /\ RefundsTrue' /\ UNCHANGED <<owner, repaid, ender>>
  <2>1. UNCHANGED <<owner, repaid, sent, reader, ender>>  BY DEF FailureEvent
  <2> QED  BY <2>1, RefundsKept DEF BInv, IInv, EventsTrue
<1>2. \/ UNCHANGED books
      \/ Book(o, [s EXCEPT !.a.status =
                    IF @ \in Open \ {"creation_unknown"} THEN "payment_failed" ELSE @])
         /\ account[o].txn[e[3]] \notin Taken
  BY DEF FailureEvent, FailureAccepted, Taken
<1>3. CASE UNCHANGED books  BY <1>1, <1>3, ReadingRight DEF BInv, BooksTrue
<1>4. CASE Book(o, [s EXCEPT !.a.status =
                    IF @ \in Open \ {"creation_unknown"} THEN "payment_failed" ELSE @])
           /\ account[o].txn[e[3]] \notin Taken
  <2>1. Sound(o, Books(o)) /\ Books(o).a = account[o]
    BY <1>1, NowRight DEF Books
  <2>2. Sound(o, s)
    <3>1. "failed" \in {"captured", "failed"}  OBVIOUS
    <3> HIDE DEF o
    <3> QED  BY <1>4, <2>1, <3>1, KnownSound
  <2>3. Book(o, [s EXCEPT !.a.status = x])
    <3> HIDE DEF o
    <3>1. "a" \in DOMAIN s /\ "status" \in DOMAIN s.a
      BY <2>2 DEF Sound, RowRight, FullRow, OrderRow
    <3> HIDE DEF s
    <3> QED  BY <1>4, <3>1
  <2> HIDE DEF x, s, o
  <2>4. Sound(o, [s EXCEPT !.a.status = x])  BY <2>2, StatusSound
  <2> QED  BY <1>1, <2>3, <2>4, BookRight
<1> QED  BY <1>2, <1>3, <1>4

\* checkout-result: only a payment that is new is written.
LEMMA BrowserBooks ==
  ASSUME BInv, NEW b \in Browsers,
         \/ ReadTransaction(b) \/ WriteResult(b)
         \/ \E o \in Orders, p \in Payments : ReadOrder(b, o, p)
  PROVE  BooksStep
<1> USE DEF books, calls, provider, ends
<1>0. RefundsTrue' /\ UNCHANGED <<user, owner, repaid, ender>>
  <2>1. UNCHANGED <<user, owner, repaid, sent, reader, ender>>
    BY DEF ReadTransaction, WriteResult, ReadOrder
  <2> QED  BY <2>1, RefundsKept
<1>1. CASE UNCHANGED account  BY <1>0, <1>1, ReadingRight DEF BInv, BooksTrue
<1>2. CASE WriteResult(b) /\ ~UNCHANGED account
  <2> DEFINE o == browser[b].order
             p == browser[b].pay
             a == account[o]
             r == Confirmed(a, browser[b])
             v == IF browser[b].phase = "insert" THEN "client_confirmed" ELSE a.txn[p]
             w == IF browser[b].status = "created" THEN "client_confirmed" ELSE a.status
  <2>1. o \in Orders /\ account' = [account EXCEPT ![o] = r]
        /\ (browser[b].phase = "insert" => a.txn[p] = "none")
    BY <1>2 DEF WriteResult, BInv, IInv, CallsTrue
  <2>2. RowRight(o, a, user) /\ FullRow(a) /\ UserRow(user)
    BY <2>1, NowRight DEF RowRight
  <2>3. r = [a EXCEPT !.txn = [a.txn EXCEPT ![p] = v], !.status = w]
    BY <2>2 DEF Confirmed, FullRow, OrderRow
  <2> HIDE DEF r, o, a, p
  <2>4. [a.txn EXCEPT ![p] = v] \in [Payments -> Txn]
        /\ \A q \in Payments : [a.txn EXCEPT ![p] = v][q] = IF q = p THEN v ELSE a.txn[q]
    <3>1. a.txn \in [Payments -> Txn]  BY <2>2 DEF FullRow
    <3>2. p \in Payments => v \in Txn  BY <3>1 DEF Txn
    <3> HIDE DEF v
    <3> QED  BY <3>1, <3>2
  <2>5. FullRow(r) /\ r.grant = a.grant /\ r.booked = a.booked /\ r.refunded = a.refunded
        /\ r.txn = [a.txn EXCEPT ![p] = v]
    <3> HIDE DEF v, w
    <3> QED  BY <2>2, <2>3, <2>4 DEF FullRow, OrderRow
  <2>6. \A q \in Payments :
            /\ a.txn[q] \in Taken => r.txn[q] \in {a.txn[q], "partially_refunded", "refunded"}
            /\ a.txn[q] = "refunded" <=> r.txn[q] = "refunded"
    <3>1. \A q \in Payments : r.txn[q] = IF q = p THEN v ELSE a.txn[q]  BY <2>4, <2>5
    <3>2. browser[b].phase = "insert" => a.txn[p] = "none"  BY <2>1
    <3>3. v # a.txn[p] => a.txn[p] = "none" /\ v = "client_confirmed"  BY <3>2
    <3> HIDE DEF v
    <3> QED  BY <3>1, <3>3 DEF Taken
  <2>7. RowRight(o, r, user)
    <3> HIDE DEF v, w
    <3> QED  BY <2>2, <2>5, <2>6, SameGrant
  <2> QED  BY <1>0, <2>1, <2>7, WritingRight
<1> QED  BY <1>1, <1>2 DEF ReadTransaction, ReadOrder

\* Reconciliation books the refunds it has read, which the provider still has.
LEMMA ReaderBooks ==
  ASSUME ConstantsOK, BInv, NEW d \in Readers,
         ApplyProof(d) \/ GiveUpReading(d) \/ \E o \in Orders : StartReading(d, o)
  PROVE  BooksStep
<1> USE DEF books, calls, provider, ends
<1>0. RefundsTrue' /\ UNCHANGED <<owner, repaid, ender>>
  <2>1. UNCHANGED <<owner, repaid, sent, ender>>
    BY DEF ApplyProof, GiveUpReading, StartReading
  <2>2. CASE reader' = [reader EXCEPT ![d] = NoCall]
    <3>1. NoCall.phase # "apply"  BY DEF NoCall
    <3> QED  BY <2>1, <2>2, <3>1, RefundsKept
  <2>3. ASSUME NEW o \in Orders, StartReading(d, o) PROVE RefundsTrue'
    <3> DEFINE c == [phase |-> "apply", order |-> o, paid |-> Successful(o),
                     refunds |-> repaid[o], ready |-> shop[o] = "open"]
    <3>1. reader' = [reader EXCEPT ![d] = c] /\ c.refunds = repaid[c.order]
      BY <2>3 DEF StartReading
    <3> HIDE DEF c
    <3> QED  BY <2>1, <3>1, RefundsKept
  <2> QED  BY <2>1, <2>2, <2>3 DEF ApplyProof, GiveUpReading
<1>1. CASE UNCHANGED books  BY <1>0, <1>1, ReadingRight DEF BInv, BooksTrue
<1>2. CASE ApplyProof(d) /\ ~UNCHANGED books
  <2> DEFINE o == reader[d].order
             R == reader[d].refunds
             bound == [Books(o) EXCEPT !.a.bound = TRUE]
             p == CHOOSE q \in reader[d].paid : TRUE
             x == IF reader[d].ready /\ bound.a.status \in Uncertain THEN "created"
                  ELSE IF ~reader[d].ready /\ bound.a.status \in Open THEN "creation_unknown"
                       ELSE bound.a.status
  <2>1. o \in Orders /\ R \in SUBSET repaid[o]
    BY <1>2 DEF ApplyProof, BInv, IInv, CallsTrue, ReaderTrue, RefundsTrue
  <2>2. Seeing(o, bound)
    <3>1. Seeing(o, Books(o))  BY <2>1, NowRight
    <3> HIDE DEF o
    <3> QED  BY <3>1, BoundSound
  <2>3. \/ Book(o, [bound EXCEPT !.a.status =
                      IF reader[d].ready /\ @ \in Uncertain THEN "created"
                      ELSE IF ~reader[d].ready /\ @ \in Open THEN "creation_unknown" ELSE @])
        \/ Book(o, Captured(bound, o, p)) \/ Book(o, AllRefunded(bound, o, p, R))
    BY <1>2 DEF ApplyProof
  <2>4. Sound(o, Captured(bound, o, p))
    <3> HIDE DEF o, bound, p
    <3> QED  BY <2>2, CapturedSound
  <2>5. Sound(o, AllRefunded(bound, o, p, R))
    <3> HIDE DEF o, bound, p, R
    <3>1. Seeing(o, AllRefunded(bound, o, p, R))  BY <2>1, <2>2, AllRefundedSound
    <3> QED  BY <3>1 DEF Seeing
  <2>6. CASE Book(o, [bound EXCEPT !.a.status =
                      IF reader[d].ready /\ @ \in Uncertain THEN "created"
                      ELSE IF ~reader[d].ready /\ @ \in Open THEN "creation_unknown" ELSE @])
    <3> HIDE DEF o, bound
    <3>1. "a" \in DOMAIN bound /\ "status" \in DOMAIN bound.a
      BY <2>2 DEF Seeing, Sound, RowRight, FullRow, OrderRow
    <3>2. Book(o, [bound EXCEPT !.a.status = x])  BY <2>6, <3>1
    <3> HIDE DEF x
    <3>3. Sound(o, [bound EXCEPT !.a.status = x])  BY <2>2, StatusSound DEF Seeing
    <3> QED  BY <1>0, <2>1, <3>2, <3>3, BookRight
  <2> HIDE DEF o, bound, p, R
  <2> QED  BY <1>0, <2>1, <2>3, <2>4, <2>5, <2>6, BookRight
<1> QED  BY <1>1, <1>2 DEF GiveUpReading, StartReading

\* Premium that the user ends does not come back.
LEMMA EnderBooks ==
  ASSUME BInv, NEW n \in Enders, StartEnding(n) \/ LockEntitlements(n) \/ EndPremium(n)
  PROVE  BooksStep
<1> USE DEF books, calls, provider, ends
<1>0. RefundsTrue' /\ UNCHANGED <<owner, repaid>>
  <2>1. UNCHANGED <<owner, repaid, sent, reader>>
    BY DEF StartEnding, LockEntitlements, EndPremium
  <2> QED  BY <2>1, RefundsKept
<1>1. ender = [x \in Enders |-> ender[x]]  BY DEF BInv, BooksTrue
<1>2. PICK c : ender' = [ender EXCEPT ![n] = c] /\ c.phase # "idle"
  <2>1. CASE StartEnding(n)
    <3>1. PICK v : ender' = [ender EXCEPT ![n] = [phase |-> "user", update |-> v]]
      BY <2>1 DEF StartEnding
    <3>2. [phase |-> "user", update |-> v].phase # "idle"  OBVIOUS
    <3> QED  BY <3>1, <3>2
  <2>2. CASE LockEntitlements(n)
    <3> DEFINE c == [phase |-> "locked", update |-> ender[n].update,
                     orders |-> {o \in Premium : account[o].grant = "active"}]
    <3>1. ender' = [ender EXCEPT ![n] = c] /\ c.phase # "idle"
      BY <1>1, <2>2 DEF LockEntitlements
    <3> QED  BY <3>1
  <2>3. CASE EndPremium(n)
    <3>1. ender' = [ender EXCEPT ![n] = [phase |-> "ended"]]  BY <2>3 DEF EndPremium
    <3>2. [phase |-> "ended"].phase # "idle"  OBVIOUS
    <3> QED  BY <3>1, <3>2
  <2> QED  BY <2>1, <2>2, <2>3
<1>3. ender' = [x \in Enders |-> ender'[x]]
      /\ \A x \in Enders : ender'[x] = IF x = n THEN c ELSE ender[x]
  BY <1>1, <1>2
<1>4. CASE UNCHANGED books
  BY <1>0, <1>2, <1>3, <1>4, ReadingRight
<1>5. CASE EndPremium(n) /\ ~UNCHANGED books
  <2>1. /\ account' = [o \in Orders |-> IF o \in ender[n].orders
                           THEN [account[o] EXCEPT !.grant = "ended_by_user"] ELSE account[o]]
        /\ user' = [user EXCEPT !.premium = IF ender[n].update THEN FALSE ELSE @]
    BY <1>5 DEF EndPremium
  <2>2. ASSUME NEW o \in Orders
        PROVE  FullRow(account[o])' /\ RefundsRight(o, account[o])'
               /\ Stays(account[o], account'[o])
    <3>1. FullRow(account[o]) /\ RefundsRight(o, account[o])  BY DEF BInv, BooksTrue
    <3> DEFINE r == account'[o]
    <3>2. r = account[o] \/ r = [account[o] EXCEPT !.grant = "ended_by_user"]  BY <2>1
    <3> HIDE DEF r
    <3>3. FullRow(r) /\ r.txn = account[o].txn /\ r.booked = account[o].booked
          /\ r.refunded = account[o].refunded /\ r.grant \in {account[o].grant, "ended_by_user"}
      BY <3>1, <3>2 DEF FullRow, OrderRow, Over
    <3>4. RefundsRight(o, r) /\ Stays(account[o], r)
      BY <3>1, <3>3 DEF RefundsRight, Stays, Over
    <3> QED  BY <1>0, <3>3, <3>4 DEF FullRow, OrderRow, RefundsRight, r
  <2>3. UserRow(user)'
    <3>1. UserRow(user)  BY DEF BInv, BooksTrue
    <3> QED  BY <2>1, <3>1 DEF UserRow
  <2>4. BooksTrue'  BY <1>3, <2>2, <2>3 DEF BooksTrue
  <2>5. PremiumIsBacked'  BY <1>2, <1>3 DEF PremiumIsBacked
  <2> QED  BY <1>0, <2>2, <2>4, <2>5 DEF BooksStep
<1> QED  BY <1>4, <1>5 DEF StartEnding, LockEntitlements

\* What is deleted with the account does not come back.
LEMMA EraserBooks ==
  ASSUME BInv, NEW x \in Erasers,
         StartErasing(x) \/ ReadOrders(x) \/ EraseAccount(x) \/ GiveUpErasing(x)
  PROVE  BooksStep
<1> USE DEF books, calls, provider, ends
<1>0. RefundsTrue' /\ UNCHANGED <<repaid, user, ender>>
  <2>1. UNCHANGED <<repaid, sent, reader, user, ender>>
    BY DEF StartErasing, ReadOrders, EraseAccount, GiveUpErasing
  <2> QED  BY <2>1, RefundsKept
<1>1. CASE UNCHANGED <<books, owner>>
  BY <1>0, <1>1, ReadingRight DEF BInv, BooksTrue
<1>2. CASE EraseAccount(x)
  <2>1. ~owner'
    /\ account' = [o \in Orders |->
          [account[o] EXCEPT
              !.status = IF o \in eraser[x].open THEN "customer_deleted" ELSE @,
              !.grant = IF o \in eraser[x].active THEN "ended_account_deleted" ELSE @]]
    BY <1>2 DEF EraseAccount
  <2>2. ASSUME NEW o \in Orders
        PROVE  FullRow(account[o])' /\ RefundsRight(o, account[o])'
               /\ Stays(account[o], account'[o])
    <3>1. FullRow(account[o]) /\ RefundsRight(o, account[o])  BY DEF BInv, BooksTrue
    <3> DEFINE r == account'[o]
               v == IF o \in eraser[x].open THEN "customer_deleted" ELSE account[o].status
               g == IF o \in eraser[x].active THEN "ended_account_deleted" ELSE account[o].grant
    <3>2. r = [account[o] EXCEPT !.status = v, !.grant = g]
      BY <2>1, <3>1 DEF FullRow, OrderRow
    <3>3. g \in {account[o].grant, "ended_account_deleted"}  OBVIOUS
    <3> HIDE DEF r, v, g
    <3>4. FullRow(r) /\ r.txn = account[o].txn /\ r.booked = account[o].booked
          /\ r.refunded = account[o].refunded /\ r.grant = g
      BY <3>1, <3>2, <3>3 DEF FullRow, OrderRow, Over
    <3>5. RefundsRight(o, r) /\ Stays(account[o], r)
      BY <3>1, <3>3, <3>4 DEF RefundsRight, Stays, Over
    <3> QED  BY <1>0, <3>4, <3>5 DEF FullRow, OrderRow, RefundsRight, r
  <2>3. BooksTrue'  BY <1>0, <2>2 DEF BInv, BooksTrue, UserRow
  <2>4. PremiumIsBacked'  BY <2>1 DEF PremiumIsBacked
  <2> QED  BY <1>0, <2>2, <2>3, <2>4 DEF BooksStep
<1> QED  BY <1>1, <1>2 DEF StartErasing, ReadOrders, GiveUpErasing

LEMMA StepBooks ==
  ASSUME ConstantsOK, BInv, [Next]_vars
  PROVE  BInv' /\ \A o \in Orders : \/ Stays(account[o], account'[o])
                                    \/ StaleRefund(o) /\ Reopens(account[o], account'[o])
<1>1. ASSUME NEW o \in Orders,
             \/ CreateOrder(o) \/ RecordCreated(o) \/ RecordUnknown(o) \/ CrashCreating(o)
             \/ ProviderCreates(o) \/ Resume(o)
      PROVE  BooksStep
  BY <1>1, CreatingBooks, ProviderBooks
<1>2. ASSUME NEW o \in Orders, NEW p \in Payments,
             FailPayment(o, p) \/ AuthorizePayment(o, p) \/ CapturePayment(o, p)
      PROVE  BooksStep
  BY <1>2, ProviderBooks
<1>3. ASSUME NEW o \in Orders, NEW r \in Refunds, RefundPayment(o, r) PROVE BooksStep
  BY <1>3, RefundPaymentBooks
<1>4. ASSUME NEW b \in Browsers,
             \/ ReadTransaction(b) \/ WriteResult(b)
             \/ \E o \in Orders, p \in Payments : ReadOrder(b, o, p)
      PROVE  BooksStep
  BY <1>4, BrowserBooks
<1>5. ASSUME NEW d \in Readers,
             ApplyProof(d) \/ GiveUpReading(d) \/ \E o \in Orders : StartReading(d, o)
      PROVE  BooksStep
  BY <1>5, ReaderBooks
<1>6. ASSUME NEW e \in sent, Webhook(e) PROVE BooksStep
  BY <1>6, CaptureBooks, FailureBooks, RefundBooks, FindBooks, HintedBooks
  DEF Webhook
<1>7. ASSUME NEW n \in Enders, StartEnding(n) \/ LockEntitlements(n) \/ EndPremium(n)
      PROVE  BooksStep
  BY <1>7, EnderBooks
<1>8. ASSUME NEW x \in Erasers,
             StartErasing(x) \/ ReadOrders(x) \/ EraseAccount(x) \/ GiveUpErasing(x)
      PROVE  BooksStep
  BY <1>8, EraserBooks
<1>9. ASSUME UNCHANGED vars PROVE BooksStep
  <2>1. UNCHANGED <<books, owner, repaid, sent, reader, ender>>
    BY <1>9 DEF vars, books, calls, provider, ends
  <2>2. RefundsTrue'  BY <2>1, RefundsKept
  <2>3. ender' = [n \in Enders |-> ender'[n]]  BY <2>1 DEF BInv, BooksTrue
  <2>4. \A n \in Enders : ender[n].phase # "idle" => ender'[n].phase # "idle"  BY <2>1
  <2>5. UNCHANGED <<books, owner, repaid>>  BY <2>1
  <2> QED  BY <2>2, <2>3, <2>4, <2>5, ReadingRight
<1>10. BooksStep
  BY <1>1, <1>2, <1>3, <1>4, <1>5, <1>6, <1>7, <1>8, <1>9 DEF Next
<1>11. IInv'  BY StepRight DEF BInv
<1> QED  BY <1>10, <1>11 DEF BooksStep, BInv

-----------------------------------------------------------------------------

\* The books name only refunds of the provider, each once, and while nobody ends
\* Premium the tier of the user is what the entitlements say.
THEOREM PaymentsBooks == Spec => []BInv
<1>1. ASSUME ConstantsOK PROVE Init => BInv  BY <1>1, InitBooks
<1>2. ASSUME ConstantsOK PROVE BInv /\ [Next]_vars => BInv'  BY <1>2, StepBooks
<1> QED  BY <1>1, <1>2, ConstantsOK, PTL DEF Spec

\* Events in any order, repeated events and proofs of reconciliation, which apply
\* several refunds at once, book every refund of the provider at most once.
THEOREM PaymentsRefundsBookedOnce == Spec => []RefundsBookedOnce
<1>1. BInv => RefundsBookedOnce
  BY DEF BInv, BooksTrue, RefundsRight, RefundsBookedOnce
<1> QED  BY <1>1, PaymentsBooks, PTL

\* The tier of the user and the ledger of entitlements agree, however captures and
\* refunds of several orders are mixed.
THEOREM PaymentsPremiumIsBacked == Spec => []PremiumIsBacked
<1>1. BInv => PremiumIsBacked  BY DEF BInv
<1> QED  BY <1>1, PaymentsBooks, PTL

\* Late captures, late failures and late answers of the browser bring back neither
\* access nor a transaction that was refunded; a refund event that is stale brings back
\* the transaction as captured, but never access.
THEOREM PaymentsRefundStays == Spec => RefundStays
<1> DEFINE Stay(o) ==
      /\ account[o].grant \notin {"none", "active"} => account'[o].grant # "active"
      /\ \A p \in Payments :
            account[o].txn[p] \in {"captured", "partially_refunded", "refunded"} =>
               \/ StaleRefund(o) /\ account'[o].txn[p] = "captured"
               \/ /\ account'[o].txn[p] \in {account[o].txn[p], "partially_refunded", "refunded"}
                  /\ account[o].txn[p] = "refunded" => account'[o].txn[p] = "refunded"
<1>1. ASSUME BInv, [Next]_vars PROVE [\A o \in Orders : Stay(o)]_vars
  <2>1. ASSUME NEW o \in Orders PROVE Stay(o)
    <3>1. \/ Stays(account[o], account'[o])
          \/ StaleRefund(o) /\ Reopens(account[o], account'[o])
      BY <1>1, ConstantsOK, StepBooks
    <3>2. account[o].grant \in {"none", "active"} \cup Over
      BY <1>1 DEF BInv, BooksTrue, FullRow
    <3> QED  BY <3>1, <3>2 DEF Stays, Reopens, Taken, Over
  <2> QED  BY <2>1
<1>2. BInv /\ [Next]_vars => [\A o \in Orders : Stay(o)]_vars  BY <1>1
<1> QED  BY <1>2, PaymentsBooks, PTL DEF Spec, RefundStays

-----------------------------------------------------------------------------
(* What the operators of a transaction do to the credits. *)

\* t has what granting and taking back leave alone, and may differ from s in credits ...
Near(s, t) ==
    /\ t.seen = s.seen /\ t.taken = s.taken
    /\ t.a.refunded = s.a.refunded /\ t.a.bound = s.a.bound

\* ... or not.
Same(s, t) ==
    Near(s, t) /\ t.u = s.u /\ t.a.grant = s.a.grant /\ t.a.taken = s.a.taken

LEMMA KnownSame ==
  ASSUME NEW o, NEW s, Sound(o, s), NEW p, NEW x
  PROVE  Same(s, Known(s, p, x)) /\ Known(s, p, x).a.status = s.a.status
<1> DEFINE v == IF x = "captured" /\ s.a.txn[p] \in {"partially_refunded", "refunded"}
                THEN s.a.txn[p] ELSE x
           row == [s.a EXCEPT !.txn = [s.a.txn EXCEPT ![p] = v]]
           k == Known(s, p, x)
<1>1. s \in [a : {s.a}, u : {s.u}, seen : BOOLEAN, taken : {s.taken}] /\ OrderRow(s.a)
  BY DEF Sound, RowRight, FullRow
<1>2. k = [s EXCEPT !.a = row]  BY <1>1 DEF Known, OrderRow
<1> HIDE DEF v
<1>3. row.grant = s.a.grant /\ row.taken = s.a.taken /\ row.refunded = s.a.refunded
      /\ row.bound = s.a.bound /\ row.status = s.a.status
  BY <1>1 DEF OrderRow
<1> HIDE DEF row
<1>4. k.a = row /\ k.u = s.u /\ k.seen = s.seen /\ k.taken = s.taken  BY <1>1, <1>2
<1> QED  BY <1>3, <1>4 DEF Same, Near

LEMMA FieldSame ==
  ASSUME NEW o, NEW s, Sound(o, s), NEW x
  PROVE  /\ Same(s, [s EXCEPT !.a.status = x]) /\ [s EXCEPT !.a.status = x].a.status = x
<1>1. s \in [a : {s.a}, u : {s.u}, seen : BOOLEAN, taken : {s.taken}] /\ OrderRow(s.a)
  BY DEF Sound, RowRight, FullRow
<1> DEFINE row == [s.a EXCEPT !.status = x]
           t == [s EXCEPT !.a.status = x]
<1>2. t = [s EXCEPT !.a = row]  BY <1>1 DEF OrderRow
<1>3. row.grant = s.a.grant /\ row.taken = s.a.taken /\ row.refunded = s.a.refunded
      /\ row.bound = s.a.bound /\ row.status = x
  BY <1>1 DEF OrderRow
<1> HIDE DEF row
<1>4. t.a = row /\ t.u = s.u /\ t.seen = s.seen /\ t.taken = s.taken  BY <1>1, <1>2
<1> QED  BY <1>3, <1>4 DEF Same, Near

LEMMA BoundDoes ==
  ASSUME NEW o, NEW s, Sound(o, s)
  PROVE  LET t == [s EXCEPT !.a.bound = TRUE]
         IN  /\ t.u = s.u /\ t.seen = s.seen /\ t.taken = s.taken
             /\ t.a = [s.a EXCEPT !.bound = TRUE] /\ t.a.status = s.a.status
             /\ t.a.grant = s.a.grant /\ t.a.taken = s.a.taken /\ t.a.refunded = s.a.refunded
<1> DEFINE t == [s EXCEPT !.a.bound = TRUE]
           row == [s.a EXCEPT !.bound = TRUE]
<1>1. s \in [a : {s.a}, u : {s.u}, seen : BOOLEAN, taken : {s.taken}] /\ OrderRow(s.a)
  BY DEF Sound, RowRight, FullRow
<1>2. t = [s EXCEPT !.a = row]  BY <1>1 DEF OrderRow
<1>3. row.grant = s.a.grant /\ row.taken = s.a.taken /\ row.refunded = s.a.refunded
      /\ row.status = s.a.status
  BY <1>1 DEF OrderRow
<1> HIDE DEF row
<1>4. t.a = row /\ t.u = s.u /\ t.seen = s.seen /\ t.taken = s.taken  BY <1>1, <1>2
<1> HIDE DEF t
<1> QED  BY <1>3, <1>4 DEF t, row

\* The credits of an order are taken back.
TakesBack(s, o) == o \notin Premium /\ owner /\ s.seen /\ TakenBack(s) > 0
Took(s, t, x) == t.a.taken = s.a.taken + x /\ t.u.credits = s.u.credits - x

LEMMA ShareIs ==
  ASSUME ConstantsOK
  PROVE  /\ \A n \in Nat : Share(n) \in Nat
         /\ Share(0) = 0 /\ Share(Gross) = Quantity
         /\ \A m, n \in Nat : m <= n => Share(m) <= Share(n)
         /\ \A n \in 0..Gross : Share(n) <= Quantity
<1>0. Gross \in Nat \ {0} /\ Quantity \in Nat \ {0}  BY DEF ConstantsOK
<1>1. ASSUME NEW a \in Nat, NEW g \in Nat \ {0}
      PROVE  (a \div g) \in Int /\ g * (a \div g) <= a /\ a < g * (a \div g) + g
  OBVIOUS
<1>2. ASSUME NEW g \in Nat \ {0}, NEW d \in Int, NEW e \in Int, g * d < g * e + g
      PROVE  d <= e
  BY <1>2
<1>3. ASSUME NEW n \in Nat
      PROVE  /\ n * Quantity \in Nat /\ Share(n) \in Int
             /\ Gross * Share(n) <= n * Quantity + Gross - 1
             /\ n * Quantity + Gross - 1 < Gross * Share(n) + Gross
  <2>1. n * Quantity \in Nat /\ n * Quantity + Gross - 1 \in Nat  BY <1>0
  <2> QED  BY <1>0, <1>1, <2>1 DEF Share
<1>4. ASSUME NEW m \in Nat, NEW n \in Nat, m <= n PROVE Share(m) <= Share(n)
  <2>1. m * Quantity <= n * Quantity  BY <1>0, <1>4
  <2>2. Gross * Share(m) \in Int /\ Gross * Share(n) \in Int /\ n * Quantity \in Int
        /\ m * Quantity \in Int
    BY <1>0, <1>3
  <2>3. /\ Gross * Share(m) <= m * Quantity + Gross - 1
        /\ n * Quantity + Gross - 1 < Gross * Share(n) + Gross
    BY <1>3
  <2> DEFINE a == Gross * Share(m)  b == Gross * Share(n)  c == m * Quantity  d == n * Quantity
  <2>4. a < b + Gross
    <3>1. a \in Int /\ b \in Int /\ c \in Int /\ d \in Int /\ c <= d
          /\ a <= c + Gross - 1 /\ d + Gross - 1 < b + Gross
      BY <2>1, <2>2, <2>3
    <3> HIDE DEF a, b, c, d
    <3> QED  BY <1>0, <3>1
  <2> QED  BY <1>0, <1>2, <1>3, <2>4
<1>5. Share(0) = 0
  <2>1. Gross * Share(0) <= Gross - 1 /\ Gross - 1 < Gross * Share(0) + Gross /\ Share(0) \in Int
    BY <1>0, <1>3
  <2>2. Gross * Share(0) < Gross * 0 + Gross /\ Gross * 0 < Gross * Share(0) + Gross
    BY <1>0, <2>1
  <2> QED  BY <1>0, <1>2, <2>1, <2>2
<1>6. Share(Gross) = Quantity
  <2>1. Gross * Share(Gross) <= Gross * Quantity + Gross - 1 /\ Share(Gross) \in Int
        /\ Gross * Quantity + Gross - 1 < Gross * Share(Gross) + Gross
    BY <1>0, <1>3
  <2>2. Gross * Share(Gross) < Gross * Quantity + Gross
        /\ Gross * Quantity < Gross * Share(Gross) + Gross
    BY <1>0, <2>1
  <2>3. Share(Gross) <= Quantity  BY <1>0, <1>2, <2>1, <2>2
  <2>4. Quantity <= Share(Gross)  BY <1>0, <1>2, <2>1, <2>2
  <2>5. Share(Gross) \in Int /\ Quantity \in Int  BY <1>0, <2>1
  <2> QED  BY ONLY <2>3, <2>4, <2>5
<1>7. ASSUME NEW n \in Nat PROVE Share(n) \in Nat
  <2>1. Share(0) <= Share(n) /\ Share(n) \in Int  BY <1>3, <1>4
  <2> QED  BY ONLY <1>5, <2>1
<1>8. \A n \in 0..Gross : Share(n) <= Quantity
  BY <1>0, <1>4, <1>6
<1> QED  BY <1>4, <1>5, <1>6, <1>7, <1>8

LEMMA AdjustedDoes ==
  ASSUME ConstantsOK, NEW o, NEW s, Sound(o, s), s.taken \in Int
  PROVE  LET t == Adjusted(s, o)
         IN  /\ Near(s, t) /\ t.a.grant = s.a.grant /\ t.a.status = s.a.status
             /\ TakenBack(s) \in Int
             /\ IF TakesBack(s, o) THEN Took(s, t, TakenBack(s)) ELSE t = s
<1> DEFINE x == TakenBack(s)
           t == [s EXCEPT !.u.credits = @ - x, !.a.taken = @ + x]
           row == [s.a EXCEPT !.taken = s.a.taken + x]
           man == [s.u EXCEPT !.credits = s.u.credits - x]
<1>0. s \in [a : {s.a}, u : {s.u}, seen : BOOLEAN, taken : {s.taken}]
      /\ OrderRow(s.a) /\ UserRow(s.u) /\ s.a.refunded \in Nat
  BY DEF Sound, RowRight, FullRow
<1>1. x \in Int  BY <1>0, ShareIs DEF TakenBack
<1>2. Adjusted(s, o) = IF TakesBack(s, o) THEN t ELSE s
  BY <1>1 DEF Adjusted, TakesBack
<1> HIDE DEF x
<1>3. t = [s EXCEPT !.u = man, !.a = row]  BY <1>0 DEF UserRow, OrderRow
<1>4. row.grant = s.a.grant /\ row.taken = s.a.taken + x /\ row.refunded = s.a.refunded
      /\ row.bound = s.a.bound /\ row.status = s.a.status /\ man.credits = s.u.credits - x
  BY <1>0 DEF OrderRow, UserRow
<1> HIDE DEF row, man
<1>5. t.a = row /\ t.u = man /\ t.seen = s.seen /\ t.taken = s.taken  BY <1>0, <1>3
<1> HIDE DEF t
<1>6. /\ Near(s, t) /\ t.a.grant = s.a.grant /\ t.a.status = s.a.status /\ Took(s, t, x)
  BY <1>4, <1>5 DEF Near, Took
<1> QED  BY <1>1, <1>2, <1>6 DEF Near, x

LEMMA GrantedDoes ==
  ASSUME NEW o, NEW s, Sound(o, s)
  PROVE  LET t == Granted(s, o)
         IN  /\ Near(s, t) /\ t.a.taken = s.a.taken
             /\ s.seen => t = s
             /\ ~s.seen /\ ~owner => t.a.grant = s.a.grant /\ t.u = s.u
             /\ ~s.seen /\ owner =>
                   /\ t.a.grant = "active" /\ t.a.status = s.a.status
                   /\ t.u.credits = IF o \in Premium THEN s.u.credits ELSE s.u.credits + Quantity
<1>0. s \in [a : {s.a}, u : {s.u}, seen : BOOLEAN, taken : {s.taken}]
      /\ OrderRow(s.a) /\ UserRow(s.u)
  BY DEF Sound, RowRight, FullRow
<1>1. CASE s.seen
  BY <1>1 DEF Granted, GrantNeeded, Near
<1>2. CASE ~s.seen /\ ~owner
  <2>1. Granted(s, o) = [s EXCEPT !.a.status = "paid_unfulfilled"]
    BY <1>2 DEF Granted, GrantNeeded, Unfulfilled
  <2> QED  BY <1>2, <2>1, FieldSame DEF Same
<1>3. CASE ~s.seen /\ owner
  <2> DEFINE g == IF o \in Premium THEN s.u.credits ELSE s.u.credits + Quantity
             b == IF o \in Premium THEN TRUE ELSE s.u.premium
             row == [s.a EXCEPT !.grant = "active"]
             man == [s.u EXCEPT !.credits = g, !.premium = b]
             t == Granted(s, o)
  <2>1. t = [s EXCEPT !.a = row, !.u = man]
    <3>1. o \in Premium => t = [s EXCEPT !.a.grant = "active", !.u.premium = TRUE]
      BY <1>3 DEF Granted, GrantNeeded
    <3>2. o \notin Premium => t = [s EXCEPT !.a.grant = "active", !.u.credits = @ + Quantity]
      BY <1>3 DEF Granted, GrantNeeded
    <3> HIDE DEF t
    <3>3. CASE o \in Premium
      <4>1. g = s.u.credits /\ b = TRUE  BY <3>3
      <4>2. man = [s.u EXCEPT !.premium = TRUE]  BY <1>0, <4>1 DEF UserRow
      <4> QED  BY <1>0, <3>1, <3>3, <4>2 DEF OrderRow, UserRow
    <3>4. CASE o \notin Premium
      <4>1. g = s.u.credits + Quantity /\ b = s.u.premium  BY <3>4
      <4>2. man = [s.u EXCEPT !.credits = s.u.credits + Quantity]  BY <1>0, <4>1 DEF UserRow
      <4> QED  BY <1>0, <3>2, <3>4, <4>2 DEF OrderRow, UserRow
    <3> QED  BY <3>3, <3>4
  <2> HIDE DEF g, b, t
  <2>2. row.grant = "active" /\ row.taken = s.a.taken /\ row.refunded = s.a.refunded
        /\ row.bound = s.a.bound /\ row.status = s.a.status /\ man.credits = g
    BY <1>0 DEF OrderRow, UserRow
  <2> HIDE DEF row, man
  <2>3. t.a = row /\ t.u = man /\ t.seen = s.seen /\ t.taken = s.taken  BY <1>0, <2>1
  <2> QED  BY <1>3, <2>2, <2>3 DEF Near, g, t
<1> QED  BY <1>0, <1>1, <1>2, <1>3

LEMMA FlushDoes ==
  ASSUME NEW o, NEW s, Sound(o, s)
  PROVE  LET t == Flush(s)
         IN  t.a = s.a /\ t.u = s.u /\ t.taken = s.a.taken /\ t.seen = (s.a.grant # "none")
BY DEF Sound, Flush

LEMMA EntryDoes ==
  ASSUME NEW o, NEW s, Sound(o, s), NEW p, NEW r
  PROVE  LET t == Entry(s, p, r)
             total == s.a.refunded + Amount[r]
         IN  /\ t.u = s.u /\ t.seen = s.seen /\ t.taken = s.taken /\ t.a.grant = s.a.grant
             /\ t.a.taken = s.a.taken /\ t.a.refunded = total /\ t.a.bound = s.a.bound
             /\ t.a.status = Status(total)
<1> DEFINE k == Known(s, p, "captured")
           t == Entry(s, p, r)
           total == s.a.refunded + Amount[r]
           row == [k.a EXCEPT !.booked = @ \cup {r}, !.refunded = total,
                              !.txn = [k.a.txn EXCEPT ![p] = Status(total)],
                              !.status = Status(total)]
<1>1. Same(s, k) /\ OrderRow(k.a)
  <2>1. "captured" \in {"captured", "failed"}  OBVIOUS
  <2>2. Sound(o, k)  BY <2>1, KnownSound
  <2>3. OrderRow(k.a)
    <3> HIDE DEF k
    <3> QED  BY <2>2 DEF Sound, RowRight, FullRow
  <2> QED  BY <2>3, KnownSame
<1>2. t \in [a : {row}, u : {k.u}, seen : {k.seen}, taken : {k.taken}]  BY EntryIs
<1> HIDE DEF k, t, total
<1>3. row.grant = k.a.grant /\ row.taken = k.a.taken /\ row.refunded = total
      /\ row.bound = k.a.bound /\ row.status = Status(total)
  BY <1>1 DEF OrderRow
<1> HIDE DEF row
<1>4. t.a = row /\ t.u = k.u /\ t.seen = k.seen /\ t.taken = k.taken  BY <1>2
<1> QED  BY <1>1, <1>3, <1>4 DEF Same, Near, t, total

LEMMA RevokedDoes ==
  ASSUME ConstantsOK, NEW o, NEW s, Seeing(o, s), s.taken \in Int
  PROVE  LET t == Revoked(s, o)
         IN  /\ Near(s, t) /\ t.a.status = s.a.status /\ TakenBack(s) \in Int
             /\ t.a.grant = IF s.a.grant = "none" THEN "none" ELSE "refunded"
             /\ IF s.a.grant = "active" /\ TakesBack(s, o) THEN Took(s, t, TakenBack(s))
                ELSE t.a.taken = s.a.taken /\ t.u.credits = s.u.credits
<1> DEFINE r == [s EXCEPT !.a.grant = "refunded"]
           row == [s.a EXCEPT !.grant = "refunded"]
<1>0. s \in [a : {s.a}, u : {s.u}, seen : BOOLEAN, taken : {s.taken}] /\ Sound(o, s)
      /\ FullRow(s.a) /\ UserRow(s.u) /\ (s.seen <=> s.a.grant # "none")
  BY DEF Seeing, Sound, RowRight
<1>1. r = [s EXCEPT !.a = row]  BY <1>0 DEF FullRow, OrderRow
<1>2. row.grant = "refunded" /\ row.taken = s.a.taken /\ row.refunded = s.a.refunded
      /\ row.bound = s.a.bound /\ row.status = s.a.status
  BY <1>0 DEF FullRow, OrderRow
<1>3. r.a = row /\ r.u = s.u /\ r.seen = s.seen /\ r.taken = s.taken
  <2> HIDE DEF row
  <2> QED  BY <1>0, <1>1
<1> HIDE DEF row
<1>4. TakenBack(r) = TakenBack(s) /\ TakesBack(r, o) = TakesBack(s, o) /\ TakenBack(s) \in Int
  <2>1. TakenBack(r) = TakenBack(s)  BY <1>2, <1>3 DEF TakenBack
  <2>2. TakenBack(s) \in Int  BY <1>0, ShareIs DEF TakenBack, FullRow
  <2> QED  BY <1>3, <2>1, <2>2 DEF TakesBack
<1>5. CASE ~s.seen \/ s.a.grant = "refunded"
  BY <1>0, <1>4, <1>5 DEF Revoked, Near
<1>6. CASE s.seen /\ s.a.grant \notin {"active", "refunded"}
  <2>1. Revoked(s, o) = r  BY <1>0, <1>6 DEF Revoked, FullRow, Over
  <2> HIDE DEF r
  <2> QED  BY <1>0, <1>2, <1>3, <1>4, <1>6, <2>1 DEF Near
<1>7. CASE s.seen /\ s.a.grant = "active" /\ ~owner
  <2>1. Revoked(s, o) = r  BY <1>7 DEF Revoked
  <2> HIDE DEF r
  <2> QED  BY <1>0, <1>2, <1>3, <1>4, <1>7, <2>1 DEF Near, TakesBack
<1>8. CASE s.seen /\ s.a.grant = "active" /\ owner /\ o \in Premium
  <2> DEFINE v == OthersActive(o) # {}
             t == [r EXCEPT !.u.premium = v]
             man == [s.u EXCEPT !.premium = v]
  <2>1. Revoked(s, o) = t  BY <1>8 DEF Revoked
  <2>2. r \in [a : {row}, u : {s.u}, seen : BOOLEAN, taken : {s.taken}]
    BY <1>0, <1>1
  <2> HIDE DEF v, r
  <2>3. t = [r EXCEPT !.u = man] /\ man.credits = s.u.credits
    BY <1>0, <2>2 DEF UserRow
  <2> HIDE DEF man
  <2>4. t.a = row /\ t.u = man /\ t.seen = s.seen /\ t.taken = s.taken  BY <1>3, <2>2, <2>3
  <2> HIDE DEF t
  <2> QED  BY <1>0, <1>2, <1>4, <1>8, <2>1, <2>3, <2>4 DEF Near, TakesBack
<1>9. CASE s.seen /\ s.a.grant = "active" /\ owner /\ o \notin Premium
  <2>1. Sound(o, r)
    <3>1. r.u = s.u /\ r.taken = s.taken /\ "refunded" \in Over  BY <1>3 DEF Over
    <3>2. r \in [a : {[s.a EXCEPT !.grant = "refunded"]}, u : {s.u}, seen : {s.seen},
                 taken : {s.taken}]
      BY <1>0, <1>1 DEF row
    <3>3. Undisturbed => (s.u.premium <=> OthersActive(o) # {})
      BY <1>9 DEF Seeing, Sound, RowRight, Backed
    <3> HIDE DEF r
    <3> QED  BY <1>0, <1>9, <3>1, <3>2, <3>3, GrantSound
  <2>2. Revoked(s, o) = Adjusted(r, o)  BY <1>9 DEF Revoked
  <2> HIDE DEF r
  <2>3. Near(r, Adjusted(r, o)) /\ Adjusted(r, o).a.grant = r.a.grant
        /\ Adjusted(r, o).a.status = r.a.status
        /\ IF TakesBack(r, o) THEN Took(r, Adjusted(r, o), TakenBack(r)) ELSE Adjusted(r, o) = r
    BY <1>3, <2>1, AdjustedDoes
  <2> QED  BY <1>2, <1>3, <1>4, <1>9, <2>2, <2>3 DEF Near, Took
<1> QED  BY <1>0, <1>5, <1>6, <1>7, <1>8, <1>9

\* What order o of the row r has brought the owner in credits.
Owed(r) == IF r.grant = "none" THEN 0 ELSE Quantity
Worth(o, r) == IF o \in Premium THEN 0 ELSE Owed(r) - r.taken

\* r and u are what order o and the user may become: the credits change as the worth does.
Cash(o, r, u) ==
    /\ r.taken \in Nat /\ u.credits \in Int /\ (r.grant = "none" => r.taken = 0)
    /\ owner => u.credits - Worth(o, r) = user.credits - Worth(o, account[o])

\* The transaction s may be committed.
Cashed(o, s) == Cash(o, s.a, s.u) /\ s.taken \in Int /\ (s.seen => s.a.grant # "none")

LEMMA SameCashed ==
  ASSUME NEW o, NEW s, NEW t, Cashed(o, s), Same(s, t)
  PROVE  Cashed(o, t)
BY DEF Cashed, Cash, Same, Near, Worth, Owed

LEMMA BoundCashed ==
  ASSUME NEW o, NEW s, Sound(o, s), Cashed(o, s)
  PROVE  Cashed(o, [s EXCEPT !.a.bound = TRUE])
BY BoundDoes DEF Cashed, Cash, Worth, Owed

LEMMA AdjustedCashed ==
  ASSUME ConstantsOK, NEW o, NEW s, Sound(o, s), Cashed(o, s)
  PROVE  Cashed(o, Adjusted(s, o))
<1> DEFINE t == Adjusted(s, o)
           x == TakenBack(s)
<1>1. /\ Near(s, t) /\ t.a.grant = s.a.grant /\ x \in Int
      /\ IF TakesBack(s, o) THEN Took(s, t, x) ELSE t = s
  BY AdjustedDoes DEF Cashed
<1>2. CASE ~TakesBack(s, o)  BY <1>1, <1>2
<1>3. CASE TakesBack(s, o)
  <2>1. s.a.grant # "none" /\ o \notin Premium /\ x > 0
    BY <1>3 DEF TakesBack, Cashed
  <2> HIDE DEF t, x
  <2>2. t.a.taken \in Nat /\ t.u.credits \in Int
    BY <1>1, <1>3, <2>1 DEF Took, Cashed, Cash
  <2>3. t.u.credits - Worth(o, t.a) = s.u.credits - Worth(o, s.a)
    <3>1. Worth(o, t.a) = Quantity - (s.a.taken + x) /\ Worth(o, s.a) = Quantity - s.a.taken
      BY <1>1, <1>3, <2>1 DEF Worth, Owed, Took
    <3>2. t.u.credits = s.u.credits - x  BY <1>1, <1>3 DEF Took
    <3>3. s.u.credits \in Int /\ s.a.taken \in Int /\ Quantity \in Int
      BY DEF Cashed, Cash, ConstantsOK
    <3> QED  BY <1>1, <3>1, <3>2, <3>3
  <2> QED  BY <1>1, <2>1, <2>2, <2>3 DEF Cashed, Cash, Near, t
<1> QED  BY <1>2, <1>3

LEMMA GrantedCashed ==
  ASSUME ConstantsOK, NEW o, NEW s, Seeing(o, s), Cashed(o, s)
  PROVE  Cashed(o, Granted(s, o))
<1> DEFINE t == Granted(s, o)
<1>1. /\ Near(s, t) /\ t.a.taken = s.a.taken
      /\ s.seen => t = s
      /\ ~s.seen /\ ~owner => t.a.grant = s.a.grant /\ t.u = s.u
      /\ ~s.seen /\ owner =>
            /\ t.a.grant = "active"
            /\ t.u.credits = IF o \in Premium THEN s.u.credits ELSE s.u.credits + Quantity
  BY GrantedDoes DEF Seeing
<1>2. s.seen <=> s.a.grant # "none"  BY DEF Seeing
<1>3. Quantity \in Int /\ s.u.credits \in Int /\ s.a.taken \in Nat
      /\ (s.a.grant = "none" => s.a.taken = 0)
  BY DEF Cashed, Cash, ConstantsOK
<1> HIDE DEF t
<1>4. CASE s.seen  BY <1>1, <1>4 DEF t
<1>5. CASE ~s.seen /\ ~owner  BY <1>1, <1>5 DEF Cashed, Cash, Near, t
<1>6. CASE ~s.seen /\ owner
  <2>1. t.u.credits - Worth(o, t.a) = s.u.credits - Worth(o, s.a)
    BY <1>1, <1>2, <1>3, <1>6 DEF Worth, Owed
  <2>2. t.u.credits \in Int  BY <1>1, <1>3, <1>6
  <2> QED  BY <1>1, <1>3, <1>6, <2>1, <2>2 DEF Cashed, Cash, Near, t
<1> QED  BY <1>4, <1>5, <1>6

LEMMA FlushCashed ==
  ASSUME NEW o, NEW s, Sound(o, s), Cashed(o, s)
  PROVE  Cashed(o, Flush(s))
<1> DEFINE t == Flush(s)
<1>1. t.a = s.a /\ t.u = s.u /\ t.taken = s.a.taken /\ t.seen = (s.a.grant # "none")
  BY FlushDoes
<1> HIDE DEF t
<1>2. Cash(o, t.a, t.u)  BY <1>1 DEF Cashed
<1>3. t.taken \in Int  BY <1>1 DEF Cashed, Cash
<1>4. t.seen => t.a.grant # "none"  BY <1>1, Zenon
<1> QED  BY <1>2, <1>3, <1>4 DEF Cashed, t

LEMMA RevokedCashed ==
  ASSUME ConstantsOK, NEW o, NEW s, Seeing(o, s), Cashed(o, s)
  PROVE  Cashed(o, Revoked(s, o))
<1> DEFINE t == Revoked(s, o)
           x == TakenBack(s)
<1>1. /\ Near(s, t) /\ x \in Int
      /\ t.a.grant = IF s.a.grant = "none" THEN "none" ELSE "refunded"
      /\ IF s.a.grant = "active" /\ TakesBack(s, o) THEN Took(s, t, x)
         ELSE t.a.taken = s.a.taken /\ t.u.credits = s.u.credits
  BY RevokedDoes DEF Cashed
<1>2. Quantity \in Int /\ s.u.credits \in Int /\ s.a.taken \in Nat
      /\ (s.a.grant = "none" => s.a.taken = 0)
  BY DEF Cashed, Cash, ConstantsOK
<1> HIDE DEF t
<1>3. Owed(t.a) = Owed(s.a) /\ (t.a.grant = "none" <=> s.a.grant = "none")
  BY <1>1 DEF Owed
<1>4. CASE ~(s.a.grant = "active" /\ TakesBack(s, o))
  BY <1>1, <1>2, <1>3, <1>4 DEF Cashed, Cash, Near, Worth, t
<1>5. CASE s.a.grant = "active" /\ TakesBack(s, o)
  <2>1. o \notin Premium /\ x > 0  BY <1>5 DEF TakesBack
  <2>2. Owed(s.a) = Quantity  BY <1>5 DEF Owed
  <2> HIDE DEF x
  <2>3. t.a.taken \in Nat /\ t.u.credits \in Int  BY <1>1, <1>2, <1>5, <2>1 DEF Took
  <2>4. t.u.credits - Worth(o, t.a) = s.u.credits - Worth(o, s.a)
    BY <1>1, <1>2, <1>3, <1>5, <2>1, <2>2 DEF Took, Worth
  <2> QED  BY <1>1, <1>3, <1>5, <2>3, <2>4 DEF Cashed, Cash, Near, t
<1> QED  BY <1>4, <1>5

LEMMA EntryCashed ==
  ASSUME NEW o, NEW s, Sound(o, s), Cashed(o, s), NEW p, NEW r
  PROVE  Cashed(o, Entry(s, p, r))
<1> DEFINE t == Entry(s, p, r)
<1>1. /\ t.u = s.u /\ t.seen = s.seen /\ t.taken = s.taken /\ t.a.grant = s.a.grant
      /\ t.a.taken = s.a.taken
  BY EntryDoes
<1> HIDE DEF t
<1>2. Cashed(o, t)  BY <1>1 DEF Cashed, Cash, Worth, Owed
<1> QED  BY <1>2 DEF t

LEMMA RefundedCashed ==
  ASSUME ConstantsOK, BInv, NEW o \in Orders, NEW s, Seeing(o, s), Cashed(o, s), NEW p,
         NEW r \in repaid[o]
  PROVE  Cashed(o, Refunded(s, o, p, r))
<1> DEFINE new == Entry(s, p, r)
<1>0. Sound(o, s)  BY DEF Seeing
<1>1. CASE r \in s.a.booked
  <2>1. Cashed(o, Known(s, p, "captured"))  BY <1>0, KnownSame, SameCashed
  <2> QED  BY <1>1, <2>1, RefundedIs
<1>2. CASE r \notin s.a.booked
  <2>1. Seeing(o, new) /\ Cashed(o, new)  BY <1>0, <1>2, EntrySound, EntryCashed
  <2>2. Refunded(s, o, p, r) \in {Revoked(new, o), Adjusted(Flush(Granted(new, o)), o)}
    BY <1>2, RefundedIs
  <2> HIDE DEF new
  <2>3. Cashed(o, Revoked(new, o))  BY <2>1, RevokedCashed
  <2>4. Sound(o, Granted(new, o)) /\ Cashed(o, Granted(new, o))
    BY <2>1, GrantedSound, GrantedCashed
  <2>5. Sound(o, Flush(Granted(new, o))) /\ Cashed(o, Flush(Granted(new, o)))
    BY <2>4, FlushSound, FlushCashed DEF Seeing
  <2>6. Cashed(o, Adjusted(Flush(Granted(new, o)), o))  BY <2>5, AdjustedCashed
  <2> QED  BY <2>2, <2>3, <2>6
<1> QED  BY <1>1, <1>2

LEMMA CapturedCashed ==
  ASSUME ConstantsOK, NEW o, NEW s, Seeing(o, s), Cashed(o, s), NEW p
  PROVE  Cashed(o, Captured(s, o, p))
<1> DEFINE k == Known(s, p, "captured")
           l == [k EXCEPT !.a.status = "paid"]
<1>1. Seeing(o, k) /\ Sound(o, k) /\ Cashed(o, k)
  <2>1. Sound(o, s) /\ "captured" \in {"captured", "failed"}  BY DEF Seeing
  <2> QED  BY <2>1, KnownSound, KnownSame, SameCashed
<1> HIDE DEF k
<1>2. Seeing(o, l) /\ Cashed(o, l)  BY <1>1, StatusSound, FieldSame, SameCashed
<1> HIDE DEF l
<1>3. Cashed(o, Adjusted(Granted(k, o), o))
  BY <1>1, GrantedSound, GrantedCashed, AdjustedCashed
<1>4. Cashed(o, Adjusted(Granted(l, o), o))
  BY <1>2, GrantedSound, GrantedCashed, AdjustedCashed
<1>5. Captured(s, o, p) \in {k, Adjusted(Granted(k, o), o), Adjusted(Granted(l, o), o)}
  BY DEF Captured, k, l
<1> QED  BY <1>1, <1>3, <1>4, <1>5

LEMMA AllRefundedCashed ==
  ASSUME ConstantsOK, BInv, NEW o \in Orders, NEW s, Seeing(o, s), Cashed(o, s), NEW p,
         NEW R \in SUBSET repaid[o]
  PROVE  Cashed(o, AllRefunded(s, o, p, R))
<1>1. IsFiniteSet(R)
  BY FS_Subset DEF BInv, RefundsTrue, ConstantsOK
<1>2. PICK f : Applies(f, s, o, p, R)  BY <1>1, AllRefundedDoes
<1> DEFINE T == {Q \in SUBSET R : Seeing(o, f[Q]) /\ Cashed(o, f[Q])}
<1>3. {} \in T  BY <1>2 DEF Applies
<1>4. ASSUME NEW Q \in SUBSET R, Q # {}, Q \ {Pick(Q)} \in T
      PROVE  Q \in T
  <2>1. f[Q] = Refunded(f[Q \ {Pick(Q)}], o, p, Pick(Q)) /\ Pick(Q) \in repaid[o]
    BY <1>2, <1>4 DEF Applies
  <2>2. Seeing(o, f[Q]) /\ Cashed(o, f[Q])  BY <1>4, <2>1, RefundedSound, RefundedCashed
  <2> QED  BY <2>2
<1>5. R \in T
  <2> HIDE DEF T
  <2> QED  BY <1>1, <1>3, <1>4, EverySubset
<1> QED  BY <1>2, <1>5 DEF Applies

-----------------------------------------------------------------------------
(* The credits in the initial states and after every action. *)

Bundles == Orders \ Premium

\* The owner has what the orders brought, less what was taken back of them.
Recorded ==
    owner => user.credits = Sum([o \in Bundles |-> Owed(account[o])])
                            - Sum([o \in Bundles |-> account[o].taken])

\* Only entitlements to Premium are locked by a call that ends it.
LocksTrue == \A n \in Enders : ender[n].phase = "locked" => ender[n].orders \subseteq Premium

CreditsTyped ==
    /\ user.credits \in Int
    /\ \A o \in Orders : /\ account[o].taken \in Nat
                         /\ account[o].grant = "none" => account[o].taken = 0

CInv == BInv /\ LocksTrue /\ CreditsTyped /\ Recorded

\* What a step must do to the credits.
CreditsStep == LocksTrue' /\ CreditsTyped' /\ Recorded'

LEMMA NowCashed ==
  ASSUME CInv, NEW o \in Orders
  PROVE  Cashed(o, Books(o)) /\ Cash(o, account[o], user)
<1>1. Cash(o, account[o], user)  BY DEF CInv, CreditsTyped, Cash
<1> DEFINE s == Books(o)
<1>2. s.a = account[o] /\ s.u = user /\ s.taken = account[o].taken
      /\ s.seen = (account[o].grant # "none")
  BY DEF Books
<1> HIDE DEF s
<1>3. s.seen => s.a.grant # "none"  BY <1>2, Zenon
<1>4. Cash(o, s.a, s.u) /\ s.taken \in Int  BY <1>1, <1>2 DEF Cash
<1> QED  BY <1>1, <1>3, <1>4 DEF Cashed, s

LEMMA ReadingCash ==
  ASSUME CInv, LocksTrue', UNCHANGED books, owner' => owner
  PROVE  CreditsStep
<1>1. CreditsTyped'  BY DEF CInv, CreditsTyped, books
<1>2. Recorded'  BY DEF CInv, Recorded, books, Owed
<1> QED  BY <1>1, <1>2 DEF CreditsStep

LEMMA WritingCash ==
  ASSUME ConstantsOK, CInv, UNCHANGED <<owner, ender>>, NEW o \in Orders,
         NEW r, NEW u, Cash(o, r, u), account' = [account EXCEPT ![o] = r], user' = u
  PROVE  CreditsStep
<1>0. account' = [x \in Orders |-> IF x = o THEN r ELSE account[x]]
  BY DEF CInv, BInv, IInv, RowsTyped
<1>1. LocksTrue'  BY DEF CInv, LocksTrue
<1>2. CreditsTyped'  BY <1>0 DEF CInv, CreditsTyped, Cash
<1>3. Recorded'
  <2> DEFINE f == [x \in Bundles |-> Owed(account[x])]
             g == [x \in Bundles |-> account[x].taken]
             h == [x \in Bundles |-> Owed(account'[x])]
             k == [x \in Bundles |-> account'[x].taken]
  <2>1. IsFiniteSet(Bundles)  BY FS_Subset DEF ConstantsOK, Bundles
  <2>2. f \in [Bundles -> Nat] /\ g \in [Bundles -> Nat] /\ h \in [Bundles -> Nat]
        /\ k \in [Bundles -> Nat]
    <3>1. \A x : Owed(x) \in Nat  BY DEF Owed, ConstantsOK
    <3>2. \A x \in Orders : account[x].taken \in Nat /\ account'[x].taken \in Nat
      BY <1>2 DEF CInv, CreditsTyped
    <3> QED  BY <3>1, <3>2 DEF Bundles
  <2>3. user.credits \in Int /\ u.credits \in Int /\ Sum(f) \in Nat /\ Sum(g) \in Nat
    <3> HIDE DEF f, g
    <3> QED  BY <2>1, <2>2, SumIsNat DEF CInv, CreditsTyped, Cash
  <2>4. owner => user.credits = Sum(f) - Sum(g)  BY DEF CInv, Recorded
  <2>5. Recorded' <=> (owner => u.credits = Sum(h) - Sum(k))
    BY DEF Recorded, Owed
  <2>6. CASE o \in Premium
    <3>1. h = f /\ k = g  BY <1>0, <2>6 DEF Bundles
    <3>2. owner => u.credits = user.credits
      <4>1. owner => u.credits - 0 = user.credits - 0  BY <2>6 DEF Cash, Worth
      <4> QED  BY <2>3, <4>1
    <3> HIDE DEF f, g, h, k
    <3> QED  BY <2>4, <2>5, <3>1, <3>2
  <2>7. CASE o \notin Premium
    <3>1. o \in Bundles /\ (\A y \in Bundles \ {o} : h[y] = f[y] /\ k[y] = g[y])
      BY <1>0, <2>7 DEF Bundles
    <3>2. f[o] = Owed(account[o]) /\ g[o] = account[o].taken
          /\ h[o] = Owed(r) /\ k[o] = r.taken
      BY <1>0, <3>1
    <3> HIDE DEF f, g, h, k
    <3>3. Sum(h) = Sum(f) - f[o] + h[o] /\ Sum(k) = Sum(g) - g[o] + k[o]
      <4>1. Sum(h) = Sum(f) - f[o] + h[o]  BY <2>1, <2>2, <3>1, SumOfChange
      <4>2. Sum(k) = Sum(g) - g[o] + k[o]  BY <2>1, <2>2, <3>1, SumOfChange
      <4> QED  BY <4>1, <4>2
    <3>4. owner => u.credits - (h[o] - k[o]) = user.credits - (f[o] - g[o])
      BY <2>7, <3>2 DEF Cash, Worth
    <3>5. f[o] \in Nat /\ g[o] \in Nat /\ h[o] \in Nat /\ k[o] \in Nat  BY <2>2, <3>1
    <3>6. ASSUME owner PROVE u.credits = Sum(h) - Sum(k)
      <4>1. user.credits = Sum(f) - Sum(g)
            /\ u.credits - (h[o] - k[o]) = user.credits - (f[o] - g[o])
        BY <2>4, <3>4, <3>6
      <4>2. ASSUME NEW a \in Int, NEW b \in Int, NEW c \in Int, NEW d \in Int, NEW i \in Int,
                   NEW j \in Int, NEW v \in Int, v - (i - j) = a - b - (c - d)
            PROVE  v = (a - c + i) - (b - d + j)
        BY <4>2
      <4>3. u.credits - (h[o] - k[o]) = Sum(f) - Sum(g) - (f[o] - g[o])  BY <4>1
      <4>4. u.credits = (Sum(f) - f[o] + h[o]) - (Sum(g) - g[o] + k[o])
        BY ONLY <2>3, <3>5, <4>2, <4>3
      <4> QED  BY <3>3, <4>4
    <3> QED  BY <2>5, <3>6
  <2> QED  BY <2>6, <2>7
<1> QED  BY <1>1, <1>2, <1>3 DEF CreditsStep

\* A step that writes the books of one order and leaves entitlement and credits alone ...
LEMMA QuietCash ==
  ASSUME ConstantsOK, CInv, UNCHANGED <<owner, ender, user>>, NEW o \in Orders,
         NEW r, r.grant = account[o].grant, r.taken = account[o].taken,
         account' = [account EXCEPT ![o] = r]
  PROVE  CreditsStep
<1>1. Cash(o, r, user)  BY NowCashed DEF Cash, Worth, Owed
<1> QED  BY <1>1, WritingCash

\* ... or commits a transaction.
LEMMA BookCash ==
  ASSUME ConstantsOK, CInv, UNCHANGED <<owner, ender>>, NEW o \in Orders,
         NEW s, Cashed(o, s), Book(o, s)
  PROVE  CreditsStep
BY WritingCash DEF Cashed, Book

LEMMA InitCash == ASSUME ConstantsOK PROVE Init => CInv
<1> SUFFICES ASSUME Init PROVE CInv  OBVIOUS
<1>1. BInv  BY InitBooks
<1>2. LocksTrue  BY DEF Init, LocksTrue, NoCall
<1>3. \A o \in Orders : account[o].taken = 0 /\ account[o].grant = "none"
  <2>1. NoOrder.taken = 0 /\ NoOrder.grant = "none"  BY DEF NoOrder
  <2> DEFINE n == [NoOrder EXCEPT !.status = "created", !.bound = TRUE]
  <2>2. n.taken = 0 /\ n.grant = "none"  BY DEF NoOrder
  <2>3. \A o \in Orders : account[o] = n \/ account[o] = NoOrder  BY DEF Init
  <2> HIDE DEF n
  <2> QED  BY <2>1, <2>2, <2>3
<1>4. CreditsTyped  BY <1>3 DEF Init, CreditsTyped
<1>5. Recorded
  <2> DEFINE f == [o \in Bundles |-> Owed(account[o])]
             g == [o \in Bundles |-> account[o].taken]
  <2>1. f = g  BY <1>3 DEF Bundles, Owed
  <2>2. f \in [Bundles -> Nat]  BY <1>3 DEF Bundles, Owed
  <2>3. IsFiniteSet(Bundles)  BY FS_Subset DEF ConstantsOK, Bundles
  <2> HIDE DEF f
  <2>4. Sum(f) \in Nat  BY <2>2, <2>3, SumIsNat
  <2>5. Sum(f) - Sum(f) = 0  BY <2>4
  <2> QED  BY <2>1, <2>5 DEF Init, Recorded, f
<1> QED  BY <1>1, <1>2, <1>4, <1>5 DEF CInv

LEMMA WebhookCash ==
  ASSUME ConstantsOK, CInv, NEW e \in sent, Webhook(e)
  PROVE  CreditsStep
<1> USE DEF books, calls, provider, ends
<1> DEFINE o == e[2]
<1>1. o \in Orders /\ BInv  BY DEF CInv, BInv, IInv, EventsTrue
<1>2. UNCHANGED <<owner, ender>> /\ LocksTrue'
  BY DEF Webhook, CaptureEvent, FailureEvent, RefundEvent, FindTransaction, HintedRefund, CInv,
     LocksTrue
<1>3. Sound(o, Books(o)) /\ Seeing(o, Books(o)) /\ Cashed(o, Books(o))
  <2> HIDE DEF o
  <2> QED  BY <1>1, NowRight, NowCashed
<1>4. CASE UNCHANGED books  BY <1>2, <1>4, ReadingCash
<1>5. CASE CaptureEvent(e) /\ ~UNCHANGED books
  <2>1. Book(o, Captured(Books(o), o, e[3]))  BY <1>5 DEF CaptureEvent
  <2> HIDE DEF o
  <2>2. Cashed(o, Captured(Books(o), o, e[3]))  BY <1>3, CapturedCashed
  <2> QED  BY <1>1, <1>2, <2>1, <2>2, BookCash
<1>6. CASE RefundEvent(e) /\ ~UNCHANGED books
  <2> DEFINE p == Repaying(o)
  <2>1. Book(o, Refunded(Books(o), o, p, e[3])) /\ e[3] \in repaid[o]
    BY <1>6 DEF RefundEvent, CInv, BInv, RefundsTrue
  <2> HIDE DEF o, p
  <2>2. Cashed(o, Refunded(Books(o), o, p, e[3]))  BY <1>1, <1>3, <2>1, RefundedCashed
  <2> QED  BY <1>1, <1>2, <2>1, <2>2, BookCash
<1>7. CASE FailureEvent(e) /\ ~UNCHANGED books
  <2> DEFINE s == Known(Books(o), e[3], "failed")
             x == IF s.a.status \in Open \ {"creation_unknown"} THEN "payment_failed"
                  ELSE s.a.status
             t == [s EXCEPT !.a.status = x]
  <2>1. Book(o, [s EXCEPT !.a.status =
                    IF @ \in Open \ {"creation_unknown"} THEN "payment_failed" ELSE @])
        /\ account[o].txn[e[3]] \notin Taken
    BY <1>7 DEF FailureEvent, FailureAccepted, Taken
  <2>2. Sound(o, s) /\ Cashed(o, s)
    <3>1. "failed" \in {"captured", "failed"}  OBVIOUS
    <3>2. Books(o).a = account[o]  BY DEF Books
    <3> HIDE DEF o
    <3> QED  BY <1>3, <2>1, <3>1, <3>2, KnownSound, KnownSame, SameCashed
  <2>3. "a" \in DOMAIN s /\ "status" \in DOMAIN s.a
    <3> HIDE DEF o, s
    <3> QED  BY <2>2 DEF Sound, RowRight, FullRow, OrderRow
  <2> HIDE DEF s, o
  <2>4. Book(o, t)  BY <2>1, <2>3
  <2> HIDE DEF x
  <2>5. Cashed(o, t)  BY <2>2, FieldSame, SameCashed
  <2> HIDE DEF t
  <2> QED  BY <1>1, <1>2, <2>4, <2>5, BookCash
<1>8. CASE HintedRefund(e)
  <2> DEFINE t == Refunded(Books(o), o, Repaying(o), e[3])
  <2>1. PICK r : /\ e[3] \in repaid[o] /\ Seeing(o, t) /\ user' = t.u
                 /\ account' = [account EXCEPT ![o] = r] /\ r = [t.a EXCEPT !.txn = r.txn]
    BY <1>1, <1>8, HintedWrites, Zenon
  <2> HIDE DEF o
  <2>2. Cashed(o, t)  BY <1>1, <1>3, <2>1, RefundedCashed
  <2> HIDE DEF t
  <2>3. OrderRow(t.a)  BY <2>1 DEF Seeing, Sound, RowRight, FullRow
  <2>4. r.grant = t.a.grant /\ r.taken = t.a.taken  BY <2>1, <2>3 DEF OrderRow
  <2>5. Cash(o, r, t.u)  BY <2>2, <2>4 DEF Cashed, Cash, Worth, Owed
  <2> QED  BY <1>1, <1>2, <2>1, <2>5, WritingCash
<1>9. CASE FindTransaction(e)  BY <1>4, <1>9 DEF FindTransaction
<1> QED  BY <1>4, <1>5, <1>6, <1>7, <1>8, <1>9 DEF Webhook

LEMMA ReaderCash ==
  ASSUME ConstantsOK, CInv, NEW d \in Readers,
         ApplyProof(d) \/ GiveUpReading(d) \/ \E o \in Orders : StartReading(d, o)
  PROVE  CreditsStep
<1> USE DEF books, calls, provider, ends
<1>1. UNCHANGED <<owner, ender>> /\ LocksTrue'
  BY DEF ApplyProof, GiveUpReading, StartReading, CInv, LocksTrue
<1>2. CASE UNCHANGED books  BY <1>1, <1>2, ReadingCash
<1>3. CASE ApplyProof(d) /\ ~UNCHANGED books
  <2> DEFINE o == reader[d].order
             R == reader[d].refunds
             bound == [Books(o) EXCEPT !.a.bound = TRUE]
             p == CHOOSE q \in reader[d].paid : TRUE
             x == IF reader[d].ready /\ bound.a.status \in Uncertain THEN "created"
                  ELSE IF ~reader[d].ready /\ bound.a.status \in Open THEN "creation_unknown"
                       ELSE bound.a.status
             t == [bound EXCEPT !.a.status = x]
  <2>1. o \in Orders /\ R \in SUBSET repaid[o] /\ BInv
    BY <1>3 DEF ApplyProof, CInv, BInv, IInv, CallsTrue, ReaderTrue, RefundsTrue
  <2>2. Seeing(o, bound) /\ Cashed(o, bound) /\ Sound(o, bound)
    <3>1. Seeing(o, Books(o)) /\ Cashed(o, Books(o))
      <4> HIDE DEF o
      <4> QED  BY <2>1, NowRight, NowCashed
    <3>2. Sound(o, Books(o))  BY <3>1 DEF Seeing
    <3> HIDE DEF o
    <3> QED  BY <3>1, <3>2, BoundSound, BoundCashed DEF Seeing
  <2>3. \/ Book(o, [bound EXCEPT !.a.status =
                      IF reader[d].ready /\ @ \in Uncertain THEN "created"
                      ELSE IF ~reader[d].ready /\ @ \in Open THEN "creation_unknown" ELSE @])
        \/ Book(o, Captured(bound, o, p)) \/ Book(o, AllRefunded(bound, o, p, R))
    BY <1>3 DEF ApplyProof
  <2>4. Cashed(o, Captured(bound, o, p)) /\ Cashed(o, AllRefunded(bound, o, p, R))
    <3> HIDE DEF o, bound, p, R
    <3> QED  BY <2>1, <2>2, CapturedCashed, AllRefundedCashed
  <2>5. CASE Book(o, [bound EXCEPT !.a.status =
                      IF reader[d].ready /\ @ \in Uncertain THEN "created"
                      ELSE IF ~reader[d].ready /\ @ \in Open THEN "creation_unknown" ELSE @])
    <3> HIDE DEF o, bound
    <3>1. "a" \in DOMAIN bound /\ "status" \in DOMAIN bound.a
      BY <2>2 DEF Sound, RowRight, FullRow, OrderRow
    <3>2. Book(o, t)  BY <2>5, <3>1
    <3> HIDE DEF x
    <3>3. Cashed(o, t)  BY <2>2, FieldSame, SameCashed
    <3> HIDE DEF t
    <3> QED  BY <1>1, <2>1, <3>2, <3>3, BookCash
  <2> HIDE DEF o, bound, p, R
  <2> QED  BY <1>1, <2>1, <2>3, <2>4, <2>5, BookCash
<1> QED  BY <1>2, <1>3 DEF GiveUpReading, StartReading

LEMMA CallCash ==
  ASSUME ConstantsOK, CInv, NEW o \in Orders,
         CreateOrder(o) \/ RecordCreated(o) \/ RecordUnknown(o) \/ CrashCreating(o)
  PROVE  CreditsStep
<1> USE DEF books, calls, provider, ends
<1>1. UNCHANGED <<owner, ender, user>> /\ LocksTrue'
  BY DEF CreateOrder, RecordCreated, RecordUnknown, CrashCreating, CInv, LocksTrue
<1>2. CASE UNCHANGED account  BY <1>1, <1>2, ReadingCash
<1>3. FullRow(account[o])  BY DEF CInv, BInv, BooksTrue
<1>4. CASE \E v : account' = [account EXCEPT ![o] = [account[o] EXCEPT !.status = v]]
  <2>1. PICK v : account' = [account EXCEPT ![o] = [account[o] EXCEPT !.status = v]]
    BY <1>4
  <2> DEFINE r == [account[o] EXCEPT !.status = v]
  <2>2. r.grant = account[o].grant /\ r.taken = account[o].taken
    BY <1>3 DEF FullRow, OrderRow
  <2> QED  BY <1>1, <2>1, <2>2, QuietCash
<1>5. CASE account' = [account EXCEPT ![o] =
                          [account[o] EXCEPT !.status = "created", !.bound = TRUE]]
  <2> DEFINE r == [account[o] EXCEPT !.status = "created", !.bound = TRUE]
  <2>1. r.grant = account[o].grant /\ r.taken = account[o].taken
    BY <1>3 DEF FullRow, OrderRow
  <2> QED  BY <1>1, <1>5, <2>1, QuietCash
<1> QED  BY <1>2, <1>4, <1>5 DEF CreateOrder, RecordCreated, RecordUnknown, CrashCreating

LEMMA BrowserCash ==
  ASSUME ConstantsOK, CInv, NEW b \in Browsers,
         \/ ReadTransaction(b) \/ WriteResult(b)
         \/ \E o \in Orders, p \in Payments : ReadOrder(b, o, p)
  PROVE  CreditsStep
<1> USE DEF books, calls, provider, ends
<1>1. UNCHANGED <<owner, ender, user>> /\ LocksTrue'
  BY DEF ReadTransaction, WriteResult, ReadOrder, CInv, LocksTrue
<1>2. CASE UNCHANGED account  BY <1>1, <1>2, ReadingCash
<1>3. CASE WriteResult(b) /\ ~UNCHANGED account
  <2> DEFINE o == browser[b].order
             r == Confirmed(account[o], browser[b])
  <2>1. o \in Orders /\ account' = [account EXCEPT ![o] = r]
    BY <1>3 DEF WriteResult, CInv, BInv, IInv, CallsTrue
  <2>2. FullRow(account[o])  BY <2>1 DEF CInv, BInv, BooksTrue
  <2>3. r.grant = account[o].grant /\ r.taken = account[o].taken
    BY <2>2 DEF Confirmed, FullRow, OrderRow
  <2> HIDE DEF o, r
  <2> QED  BY <1>1, <2>1, <2>3, QuietCash
<1> QED  BY <1>2, <1>3 DEF ReadTransaction, ReadOrder

\* A call that ends Premium leaves credits alone.
LEMMA EnderCash ==
  ASSUME ConstantsOK, CInv, NEW n \in Enders,
         StartEnding(n) \/ LockEntitlements(n) \/ EndPremium(n)
  PROVE  CreditsStep
<1> USE DEF books, calls, provider, ends
<1>0. ender = [m \in Enders |-> ender[m]]  BY DEF CInv, BInv, BooksTrue
<1>1. LocksTrue' /\ UNCHANGED owner
  <2>1. CASE StartEnding(n)
    <3>1. PICK v : ender' = [ender EXCEPT ![n] = [phase |-> "user", update |-> v]]
      BY <2>1 DEF StartEnding
    <3>2. [phase |-> "user", update |-> v].phase # "locked"  OBVIOUS
    <3> QED  BY <1>0, <2>1, <3>1, <3>2 DEF StartEnding, CInv, LocksTrue
  <2>2. CASE LockEntitlements(n)
    <3> DEFINE c == [phase |-> "locked", update |-> ender[n].update,
                     orders |-> {o \in Premium : account[o].grant = "active"}]
    <3>1. ender' = [ender EXCEPT ![n] = c] /\ c.orders \subseteq Premium
      BY <1>0, <2>2 DEF LockEntitlements
    <3> HIDE DEF c
    <3> QED  BY <1>0, <2>2, <3>1 DEF LockEntitlements, CInv, LocksTrue
  <2>3. CASE EndPremium(n)
    <3>1. ender' = [ender EXCEPT ![n] = [phase |-> "ended"]]  BY <2>3 DEF EndPremium
    <3>2. [phase |-> "ended"].phase # "locked"  OBVIOUS
    <3> QED  BY <1>0, <2>3, <3>1, <3>2 DEF EndPremium, CInv, LocksTrue
  <2> QED  BY <2>1, <2>2, <2>3
<1>2. CASE UNCHANGED books  BY <1>1, <1>2, ReadingCash
<1>3. CASE EndPremium(n) /\ ~UNCHANGED books
  <2>1. /\ account' = [o \in Orders |-> IF o \in ender[n].orders
                           THEN [account[o] EXCEPT !.grant = "ended_by_user"] ELSE account[o]]
        /\ user' = [user EXCEPT !.premium = IF ender[n].update THEN FALSE ELSE @]
        /\ ender[n].orders \subseteq Premium
    BY <1>3 DEF EndPremium, CInv, LocksTrue
  <2>2. user'.credits = user.credits
    <3>1. UserRow(user)  BY DEF CInv, BInv, BooksTrue
    <3> QED  BY <2>1, <3>1 DEF UserRow
  <2>3. \A o \in Bundles : account'[o] = account[o]  BY <2>1 DEF Bundles
  <2>4. ASSUME NEW o \in Orders
        PROVE  account'[o].taken = account[o].taken
               /\ (account'[o].grant = "none" => account[o].grant = "none")
    <3>1. FullRow(account[o])  BY DEF CInv, BInv, BooksTrue
    <3> QED  BY <2>1, <3>1 DEF FullRow, OrderRow
  <2>5. CreditsTyped'  BY <2>2, <2>4 DEF CInv, CreditsTyped
  <2>6. Recorded'  BY <1>1, <2>2, <2>3 DEF CInv, Recorded, Owed
  <2> QED  BY <1>1, <2>5, <2>6 DEF CreditsStep
<1> QED  BY <1>2, <1>3 DEF StartEnding, LockEntitlements

LEMMA EraserCash ==
  ASSUME ConstantsOK, CInv, NEW x \in Erasers,
         StartErasing(x) \/ ReadOrders(x) \/ EraseAccount(x) \/ GiveUpErasing(x)
  PROVE  CreditsStep
<1> USE DEF books, calls, provider, ends
<1>1. UNCHANGED <<user, ender>> /\ LocksTrue'
  BY DEF StartErasing, ReadOrders, EraseAccount, GiveUpErasing, CInv, LocksTrue
<1>2. CASE UNCHANGED <<books, owner>>  BY <1>1, <1>2, ReadingCash
<1>3. CASE EraseAccount(x)
  <2>1. ~owner'
    /\ account' = [o \in Orders |->
          [account[o] EXCEPT
              !.status = IF o \in eraser[x].open THEN "customer_deleted" ELSE @,
              !.grant = IF o \in eraser[x].active THEN "ended_account_deleted" ELSE @]]
    BY <1>3 DEF EraseAccount
  <2>2. ASSUME NEW o \in Orders
        PROVE  account'[o].taken = account[o].taken
               /\ (account'[o].grant = "none" => account[o].grant = "none")
    <3>1. FullRow(account[o])  BY DEF CInv, BInv, BooksTrue
    <3> QED  BY <2>1, <3>1 DEF FullRow, OrderRow
  <2>3. CreditsTyped'  BY <1>1, <2>2 DEF CInv, CreditsTyped
  <2>4. Recorded'  BY <2>1 DEF Recorded
  <2> QED  BY <1>1, <2>3, <2>4 DEF CreditsStep
<1> QED  BY <1>2, <1>3 DEF StartErasing, ReadOrders, GiveUpErasing

LEMMA StepCash == ASSUME ConstantsOK, CInv, [Next]_vars PROVE CInv'
<1> USE DEF books, calls, provider, ends
<1>1. ASSUME NEW o \in Orders,
             CreateOrder(o) \/ RecordCreated(o) \/ RecordUnknown(o) \/ CrashCreating(o)
      PROVE  CreditsStep
  BY <1>1, CallCash
<1>2. ASSUME NEW o \in Orders,
             \/ ProviderCreates(o) \/ Resume(o)
             \/ \E p \in Payments :
                   FailPayment(o, p) \/ AuthorizePayment(o, p) \/ CapturePayment(o, p)
             \/ \E r \in Refunds : RefundPayment(o, r)
      PROVE  CreditsStep
  <2>1. UNCHANGED <<account, user, owner, ender>>
    BY <1>2 DEF ProviderCreates, Resume, FailPayment, AuthorizePayment, CapturePayment,
       RefundPayment
  <2>2. LocksTrue'  BY <2>1 DEF CInv, LocksTrue
  <2> QED  BY <2>1, <2>2, ReadingCash
<1>3. ASSUME NEW b \in Browsers,
             \/ ReadTransaction(b) \/ WriteResult(b)
             \/ \E o \in Orders, p \in Payments : ReadOrder(b, o, p)
      PROVE  CreditsStep
  BY <1>3, BrowserCash
<1>4. ASSUME NEW d \in Readers,
             ApplyProof(d) \/ GiveUpReading(d) \/ \E o \in Orders : StartReading(d, o)
      PROVE  CreditsStep
  BY <1>4, ReaderCash
<1>5. ASSUME NEW e \in sent, Webhook(e) PROVE CreditsStep
  BY <1>5, WebhookCash
<1>6. ASSUME NEW n \in Enders, StartEnding(n) \/ LockEntitlements(n) \/ EndPremium(n)
      PROVE  CreditsStep
  BY <1>6, EnderCash
<1>7. ASSUME NEW x \in Erasers,
             StartErasing(x) \/ ReadOrders(x) \/ EraseAccount(x) \/ GiveUpErasing(x)
      PROVE  CreditsStep
  BY <1>7, EraserCash
<1>8. ASSUME UNCHANGED vars PROVE CreditsStep
  <2>1. UNCHANGED <<account, user, owner, ender>>  BY <1>8 DEF vars
  <2>2. LocksTrue'  BY <2>1 DEF CInv, LocksTrue
  <2> QED  BY <2>1, <2>2, ReadingCash
<1>9. CreditsStep
  BY <1>1, <1>2, <1>3, <1>4, <1>5, <1>6, <1>7, <1>8 DEF Next
<1>10. BInv'  BY StepBooks DEF CInv
<1> QED  BY <1>9, <1>10 DEF CreditsStep, CInv

\* Whatever the calls and events do to each other, no grant and no refund of an order is
\* lost or counted twice in the credits of its owner.
THEOREM PaymentsCreditsRecorded == Spec => []Recorded
<1>1. ASSUME ConstantsOK PROVE Init => CInv  BY <1>1, InitCash
<1>2. ASSUME ConstantsOK PROVE CInv /\ [Next]_vars => CInv'  BY <1>2, StepCash
<1>3. CInv => Recorded  BY DEF CInv
<1> QED  BY <1>1, <1>2, <1>3, ConstantsOK, PTL DEF Spec

-----------------------------------------------------------------------------
(* Credits and money.  Two faults of the code, which the runs show, break the tie of the
   credits to the money: a stale status, written over that of an order which was refunded
   in full, lets a late capture grant again, and a proof with several refunds takes too
   much back.  Where neither can happen there is no other way to break it. *)

\* No call works on an order that it read before, except the one that creates it.
WebhooksOnly == Browsers = {} /\ Readers = {}

NeverInFull == \A R \in SUBSET Refunds : Total(R) # Gross

\* No stale status is written over that of an order which was refunded in full.
StatusKept == WebhooksOnly \/ NeverInFull

\* A proof never holds two refunds.
OneAtATime == Readers = {} \/ \A r, x \in Refunds : r = x

\* What was taken back is the share of the refunds, and an order that was refunded before
\* anything was granted is known to be.
ExactRow(r) ==
    /\ r.grant = "none" => r.refunded \in {0, Gross}
    /\ r.grant # "none" => r.taken = Share(r.refunded)
    /\ r.grant \in {"none", "active", "refunded"}
    /\ r.grant = "refunded" => r.refunded = Gross
    /\ r.refunded = Gross => r.status = "refunded"

\* With only webhooks, nothing is paid before the call that creates the order has ended.
Unpaid(r, call) ==
    /\ r.status = "absent" \/ call = "calling" => ~r.bound
    /\ ~r.bound => r.refunded = 0 /\ \A p \in Payments : r.txn[p] = "none"

Exact ==
    owner => \A o \in Bundles : /\ ExactRow(account[o])
                                /\ WebhooksOnly => Unpaid(account[o], creating[o])

\* An order that is paid has a payment that succeeded, so a refund event finds no
\* transaction of an order that is not bound.
PaidTrue == \A o \in Orders : shop[o] = "paid" => \E p \in Payments : pay[o][p] = "captured"

HintsBound ==
    WebhooksOnly /\ owner =>
        \A e \in DOMAIN hint : e[2] \in Bundles => account[e[2]].bound

XInv == CInv /\ Exact /\ PaidTrue /\ HintsBound

\* With only webhooks, the orders that are bound stay so.
ExactStep ==
    Exact' /\ (WebhooksOnly /\ owner' =>
                  \A o \in Bundles : account[o].bound => account'[o].bound)

\* A transaction on a bundle that has neither granted nor taken back anything yet.
Begun(o, s) ==
    owner /\ o \in Bundles /\ Seeing(o, s) /\ s.taken = s.a.taken /\ s.taken \in Nat
    /\ (s.a.grant = "none" => s.a.taken = 0)

\* Granting, and no refund since the order was read.
LEMMA GrantExact ==
  ASSUME ConstantsOK, NEW o, NEW s, Begun(o, s), ExactRow(s.a), s.a.refunded # Gross
  PROVE  LET t == Adjusted(Granted(s, o), o)
         IN  ExactRow(t.a) /\ t.a.bound = s.a.bound /\ t.a.status = s.a.status
<1> DEFINE g == Granted(s, o)
           t == Adjusted(g, o)
<1>1. Sound(o, s) /\ (s.seen <=> s.a.grant # "none") /\ owner /\ o \notin Premium
      /\ s.a.refunded \in Nat
  BY DEF Begun, Seeing, Bundles, Sound, RowRight, FullRow
<1>2. /\ Near(s, g) /\ g.a.taken = s.a.taken /\ (s.seen => g = s)
      /\ ~s.seen => g.a.grant = "active" /\ g.a.status = s.a.status
  BY <1>1, GrantedDoes
<1>3. Sound(o, g)  BY GrantedSound DEF Begun
<1> HIDE DEF g
<1>4. g.taken \in Nat  BY <1>2 DEF Near, Begun
<1>5. /\ Near(g, t) /\ t.a.grant = g.a.grant /\ t.a.status = g.a.status
      /\ IF TakesBack(g, o) THEN Took(g, t, TakenBack(g)) ELSE t = g
  BY <1>3, <1>4, AdjustedDoes
<1> HIDE DEF t
<1>6. ~TakesBack(g, o) /\ g.a.grant # "none"
      /\ g.a.taken = Share(g.a.refunded) /\ g.a.grant \in {"active", "refunded"}
  <2>1. CASE s.seen
    <3>1. g = s /\ s.taken = Share(s.a.refunded)  BY <1>1, <1>2, <2>1 DEF ExactRow, Begun
    <3>2. TakenBack(s) = 0  BY <1>1, <3>1, ShareIs DEF TakenBack
    <3> QED  BY <1>1, <2>1, <3>1, <3>2 DEF TakesBack, ExactRow, Begun
  <2>2. CASE ~s.seen
    <3>1. s.a.refunded = 0 /\ s.a.taken = 0  BY <1>1, <2>2 DEF ExactRow, Begun
    <3>2. ~g.seen  BY <1>2, <2>2 DEF Near
    <3>3. Share(0) = 0  BY ShareIs
    <3> QED  BY <1>2, <2>2, <3>1, <3>2, <3>3 DEF TakesBack, Near
  <2> QED  BY <2>1, <2>2
<1>7. t = g /\ t.a.refunded = s.a.refunded /\ t.a.bound = s.a.bound
      /\ t.a.status = s.a.status
  BY <1>2, <1>5, <1>6 DEF Near
<1>8. g.a.grant = "refunded" => s.a.refunded = Gross
  BY <1>2 DEF ExactRow
<1> QED  BY <1>6, <1>7, <1>8 DEF ExactRow, t, g

LEMMA CapturedExact ==
  ASSUME ConstantsOK, NEW o, NEW s, Begun(o, s), ExactRow(s.a), NEW p
  PROVE  LET t == Captured(s, o, p)
         IN  ExactRow(t.a) /\ t.a.bound = s.a.bound /\ t.a.status \in {s.a.status, "paid"}
<1> DEFINE k == Known(s, p, "captured")
           l == [k EXCEPT !.a.status = "paid"]
           t == Captured(s, o, p)
<1>1. Seeing(o, k) /\ Sound(o, k) /\ Same(s, k) /\ k.a.status = s.a.status
  <2>1. Sound(o, s) /\ Seeing(o, s) /\ "captured" \in {"captured", "failed"}
    BY DEF Seeing, Begun
  <2> QED  BY <2>1, KnownSound, KnownSame
<1>2. t = CASE k.a.status = "partially_refunded" -> Adjusted(Granted(k, o), o)
            [] k.a.status \in {"paid", "refunded", "paid_unfulfilled"} -> k
            [] OTHER -> Adjusted(Granted(l, o), o)
  BY DEF Captured
<1> HIDE DEF k, t
<1>3. Begun(o, k) /\ ExactRow(k.a) /\ k.a.bound = s.a.bound
  BY <1>1 DEF Begun, Same, Near, ExactRow
<1>4. Seeing(o, l) /\ Same(k, l) /\ l.a.status = "paid"
  BY <1>1, StatusSound, FieldSame
<1> HIDE DEF l
<1>5. Begun(o, l) /\ l.a.bound = s.a.bound /\ (k.a.refunded # Gross => ExactRow(l.a))
      /\ l.a.refunded = k.a.refunded
  BY <1>3, <1>4 DEF Begun, Same, Near, ExactRow
<1>6. k.a.refunded = Gross => k.a.status = "refunded"  BY <1>3 DEF ExactRow
<1>7. CASE k.a.status = "partially_refunded"
  <2>1. t = Adjusted(Granted(k, o), o) /\ k.a.refunded # Gross  BY <1>2, <1>6, <1>7
  <2> QED  BY <1>1, <1>3, <2>1, GrantExact DEF t
<1>8. CASE k.a.status \in {"paid", "refunded", "paid_unfulfilled"}
  BY <1>1, <1>2, <1>3, <1>8 DEF t
<1>9. CASE k.a.status \notin {"partially_refunded", "paid", "refunded", "paid_unfulfilled"}
  <2>1. t = Adjusted(Granted(l, o), o) /\ k.a.refunded # Gross  BY <1>2, <1>6, <1>9
  <2>2. ExactRow(t.a) /\ t.a.bound = l.a.bound /\ t.a.status = l.a.status
    BY <1>5, <2>1, GrantExact
  <2> QED  BY <1>4, <1>5, <2>2 DEF t
<1> QED  BY <1>7, <1>8, <1>9

LEMMA RefundedExact ==
  ASSUME ConstantsOK, BInv, NEW o \in Orders, NEW s, Begun(o, s), ExactRow(s.a), NEW p,
         NEW r \in repaid[o]
  PROVE  LET t == Refunded(s, o, p, r)
         IN  /\ ExactRow(t.a) /\ t.a.bound = s.a.bound
             /\ t.a.status \in {s.a.status, "refunded", "partially_refunded"}
<1> DEFINE t == Refunded(s, o, p, r)
           new == Entry(s, p, r)
           total == s.a.refunded + Amount[r]
<1>0. Sound(o, s) /\ Seeing(o, s) /\ owner /\ o \notin Premium
      /\ (s.seen <=> s.a.grant # "none") /\ s.taken = s.a.taken /\ s.taken \in Nat
      /\ (s.a.grant = "none" => s.a.taken = 0)
  BY DEF Seeing, Begun, Bundles
<1>1. CASE r \in s.a.booked
  <2>1. t = Known(s, p, "captured")  BY <1>1, RefundedIs
  <2>2. Same(s, Known(s, p, "captured")) /\ Known(s, p, "captured").a.status = s.a.status
    BY <1>0, KnownSame
  <2> HIDE DEF t
  <2>3. ExactRow(t.a) /\ t.a.bound = s.a.bound /\ t.a.status = s.a.status
    BY <2>1, <2>2 DEF Same, Near, ExactRow
  <2> QED  BY <2>3 DEF t
<1>2. CASE r \notin s.a.booked
  <2>1. Seeing(o, new) /\ s.a.refunded \in Nat /\ Amount[r] \in Nat \ {0} /\ total <= Gross
    BY <1>0, <1>2, EntrySound
  <2>2. /\ new.u = s.u /\ new.seen = s.seen /\ new.taken = s.taken
        /\ new.a.grant = s.a.grant /\ new.a.taken = s.a.taken /\ new.a.refunded = total
        /\ new.a.bound = s.a.bound /\ new.a.status = Status(total)
    BY <1>0, EntryDoes
  <2>3. t = IF total = Gross THEN Revoked(new, o) ELSE Adjusted(Flush(Granted(new, o)), o)
    BY <1>2, RefundedIs
  <2>4. total \in 1..Gross /\ s.a.refunded < total /\ Gross \in Nat /\ Quantity \in Nat
    BY <2>1 DEF ConstantsOK
  <2>5. Share(s.a.refunded) \in Nat /\ Share(total) \in Nat
        /\ Share(s.a.refunded) <= Share(total) /\ Share(total) <= Quantity
    BY <2>1, <2>4, ShareIs
  <2> HIDE DEF t, new, total
  <2>6. s.a.grant \in {"none", "active"} /\ (s.a.grant = "none" => s.a.refunded = 0)
    <3>1. s.a.refunded # Gross  BY <2>1, <2>4
    <3> QED  BY <3>1 DEF ExactRow
  <2>7. CASE total = Gross
    <3> DEFINE x == TakenBack(new)
    <3>1. /\ Near(new, t) /\ t.a.status = new.a.status
          /\ t.a.grant = IF new.a.grant = "none" THEN "none" ELSE "refunded"
          /\ IF new.a.grant = "active" /\ TakesBack(new, o) THEN Took(new, t, x)
             ELSE t.a.taken = new.a.taken
      <4>1. new.taken \in Int  BY <1>0, <2>2
      <4> QED  BY <2>1, <2>3, <2>7, <4>1, RevokedDoes
    <3>2. x = Share(total) - s.a.taken /\ (TakesBack(new, o) <=> s.seen /\ x > 0)
      BY <1>0, <2>2 DEF TakenBack, TakesBack
    <3>3. s.a.grant # "none" => t.a.taken = Share(total)
      <4> SUFFICES ASSUME s.a.grant = "active" PROVE t.a.taken = Share(total)
        BY <2>6
      <4>1. s.a.taken = Share(s.a.refunded) /\ s.seen  BY <1>0 DEF ExactRow
      <4>2. x \in Nat /\ x + s.a.taken = Share(total)  BY <2>5, <3>2, <4>1
      <4> HIDE DEF x
      <4>3. CASE x > 0  BY <1>0, <2>2, <3>1, <3>2, <4>1, <4>2, <4>3 DEF Took
      <4>4. CASE x = 0  BY <1>0, <2>2, <3>1, <3>2, <4>1, <4>2, <4>4
      <4> QED  BY <4>2, <4>3, <4>4
    <3>4. t.a.refunded = Gross /\ t.a.status = "refunded" /\ t.a.bound = s.a.bound
      BY <2>2, <2>7, <3>1 DEF Near, Status
    <3> QED  BY <2>2, <2>6, <2>7, <3>1, <3>3, <3>4 DEF ExactRow, t
  <2>8. CASE total # Gross
    <3> DEFINE g == Granted(new, o)
               f == Flush(g)
               x == TakenBack(f)
    <3>0. Sound(o, new) /\ Sound(o, g) /\ Sound(o, f)
      <4>1. Sound(o, g)  BY <2>1, GrantedSound
      <4> HIDE DEF g
      <4> QED  BY <2>1, <4>1, FlushSound DEF Seeing
    <3>1. /\ Near(new, g) /\ g.a.taken = s.a.taken /\ (s.seen => g = new)
          /\ ~s.seen => g.a.grant = "active" /\ g.a.status = new.a.status
      BY <1>0, <2>2, <3>0, GrantedDoes
    <3>2. f.a = g.a /\ f.taken = g.a.taken /\ f.seen = (g.a.grant # "none")
      BY <3>0, FlushDoes
    <3> HIDE DEF g
    <3>3. g.a.grant = "active" /\ g.a.status = Status(total) /\ g.a.bound = s.a.bound
          /\ g.a.refunded = total
      BY <1>0, <2>2, <2>6, <3>1 DEF Near
    <3> HIDE DEF f
    <3>4. f.seen /\ f.taken = s.a.taken /\ f.taken \in Int /\ f.a.taken = s.a.taken
      <4>1. f.seen  BY <3>2, <3>3, Zenon
      <4> QED  BY <1>0, <3>1, <3>2, <4>1
    <3>5. /\ Near(f, t) /\ t.a.grant = f.a.grant /\ t.a.status = f.a.status
          /\ IF TakesBack(f, o) THEN Took(f, t, x) ELSE t = f
      BY <2>3, <2>8, <3>0, <3>4, AdjustedDoes DEF f, g
    <3>6. x = Share(total) - s.a.taken /\ (TakesBack(f, o) <=> x > 0)
      BY <1>0, <3>2, <3>3, <3>4 DEF TakenBack, TakesBack
    <3>7. s.a.taken = Share(s.a.refunded)
      <4>1. CASE s.a.grant = "none"  BY <1>0, <2>6, <4>1, ShareIs
      <4>2. CASE s.a.grant # "none"  BY <4>2 DEF ExactRow
      <4> QED  BY <4>1, <4>2
    <3>8. x \in Nat /\ x + s.a.taken = Share(total)  BY <2>5, <3>6, <3>7
    <3> HIDE DEF x
    <3>9. t.a.taken = Share(total)
      <4>1. CASE x > 0
        <5>1. t.a.taken = f.a.taken + x  BY <3>5, <3>6, <4>1 DEF Took
        <5> QED  BY <1>0, <3>4, <3>8, <5>1
      <4>2. CASE x = 0  BY <1>0, <3>1, <3>2, <3>5, <3>6, <3>8, <4>2
      <4> QED  BY <3>8, <4>1, <4>2
    <3>10. t.a.refunded = total /\ t.a.bound = s.a.bound /\ t.a.grant = "active"
           /\ t.a.status = "partially_refunded"
      BY <2>8, <3>2, <3>3, <3>5 DEF Near, Status
    <3> QED  BY <2>8, <3>9, <3>10 DEF ExactRow, t
  <2> QED  BY <2>7, <2>8
<1> QED  BY <1>1, <1>2

LEMMA AllRefundedExact ==
  ASSUME ConstantsOK, BInv, NEW o \in Orders, NEW s, Begun(o, s), ExactRow(s.a), NEW p,
         NEW R \in SUBSET repaid[o], \A r, x \in Refunds : r = x
  PROVE  ExactRow(AllRefunded(s, o, p, R).a)
<1>1. R \subseteq Refunds /\ IsFiniteSet(R)
  BY FS_Subset DEF BInv, RefundsTrue, ConstantsOK
<1>2. PICK f : Applies(f, s, o, p, R)  BY <1>1, AllRefundedDoes
<1>3. CASE R = {}  BY <1>2, <1>3 DEF Applies
<1>4. CASE R # {}
  <2>1. Pick(R) \in R /\ f[R] = Refunded(f[R \ {Pick(R)}], o, p, Pick(R)) /\ f[{}] = s
    BY <1>2, <1>4 DEF Applies
  <2>2. R \ {Pick(R)} = {}  BY <1>1, <2>1
  <2>3. f[R] = Refunded(s, o, p, Pick(R)) /\ Pick(R) \in repaid[o]  BY <2>1, <2>2
  <2> QED  BY <1>2, <2>3, RefundedExact DEF Applies
<1> QED  BY <1>3, <1>4

LEMMA NowExact ==
  ASSUME XInv, owner, NEW o \in Bundles
  PROVE  /\ Begun(o, Books(o)) /\ ExactRow(account[o]) /\ o \in Orders
         /\ WebhooksOnly => Unpaid(account[o], creating[o])
         /\ NeverInFull => account[o].refunded # Gross
<1>1. o \in Orders /\ BInv  BY DEF XInv, CInv, Bundles
<1>2. FullRow(account[o]) /\ RefundsRight(o, account[o]) /\ Seeing(o, Books(o))
  BY <1>1, NowRight DEF BInv, BooksTrue
<1>3. Books(o).a = account[o] /\ Books(o).taken = account[o].taken  BY DEF Books
<1>4. account[o].taken \in Nat /\ (account[o].grant = "none" => account[o].taken = 0)
  BY <1>1 DEF XInv, CInv, CreditsTyped
<1>5. NeverInFull => account[o].refunded # Gross
  BY <1>2 DEF NeverInFull, FullRow, RefundsRight
<1> QED  BY <1>1, <1>2, <1>3, <1>4, <1>5 DEF Begun, XInv, Exact

LEMMA ReadingExact ==
  ASSUME XInv, UNCHANGED <<account, creating>>, owner' => owner
  PROVE  ExactStep
BY DEF XInv, Exact, ExactRow, Unpaid, ExactStep

\* A step that writes the books of one order.
LEMMA WritingExact ==
  ASSUME XInv, owner' => owner, NEW o \in Orders, NEW r, account' = [account EXCEPT ![o] = r],
         \A x \in Orders \ {o} : creating'[x] = creating[x],
         owner /\ o \in Bundles =>
            ExactRow(r) /\ (WebhooksOnly => Unpaid(r, creating'[o])
                                           /\ (account[o].bound => r.bound))
  PROVE  ExactStep
<1>1. account' = [x \in Orders |-> IF x = o THEN r ELSE account[x]]
  BY DEF XInv, CInv, BInv, IInv, RowsTyped
<1>2. ASSUME owner, NEW x \in Bundles
      PROVE  ExactRow(account'[x]) /\ (WebhooksOnly => Unpaid(account'[x], creating'[x]))
  <2>1. x \in Orders  BY DEF Bundles
  <2>2. CASE x = o  BY <1>1, <1>2, <2>1, <2>2
  <2>3. CASE x # o
    <3>1. account'[x] = account[x] /\ creating'[x] = creating[x]  BY <1>1, <2>1, <2>3
    <3> QED  BY <1>2, <3>1 DEF XInv, Exact
  <2> QED  BY <2>2, <2>3
<1>3. ASSUME owner, WebhooksOnly, NEW x \in Bundles, account[x].bound
      PROVE  account'[x].bound
  <2>1. x \in Orders  BY DEF Bundles
  <2> QED  BY <1>1, <1>3, <2>1
<1> QED  BY <1>2, <1>3 DEF Exact, ExactRow, Unpaid, ExactStep

\* A status that is written while the order is not refunded in full.
LEMMA StatusExact ==
  ASSUME XInv, owner, NEW o \in Bundles, NEW r, r.grant = account[o].grant,
         r.taken = account[o].taken, r.refunded = account[o].refunded, r.refunded # Gross
  PROVE  ExactRow(r)
BY NowExact DEF ExactRow

LEMMA InitExact == ASSUME ConstantsOK PROVE Init => XInv
<1> SUFFICES ASSUME Init PROVE XInv  OBVIOUS
<1>1. NoOrder.grant = "none" /\ NoOrder.refunded = 0 /\ NoOrder.status = "absent"
      /\ NoOrder.bound = FALSE /\ \A p \in Payments : NoOrder.txn[p] = "none"
  BY DEF NoOrder
<1>2. Gross # 0  BY DEF ConstantsOK
<1>3. \A o \in Bundles : account[o] = NoOrder  BY DEF Init, Bundles
<1>4. Exact
  <2>1. ExactRow(NoOrder)  BY <1>1, <1>2 DEF ExactRow
  <2>2. \A c : Unpaid(NoOrder, c)  BY <1>1 DEF Unpaid
  <2> QED  BY <1>3, <2>1, <2>2 DEF Exact
<1>5. PaidTrue /\ HintsBound  BY DEF Init, PaidTrue, HintsBound
<1> QED  BY <1>4, <1>5, InitCash DEF XInv

\* An order whose creation is recorded has not been refunded in full.
LEMMA CallExact ==
  ASSUME ConstantsOK, StatusKept, XInv, NEW o \in Orders,
         CreateOrder(o) \/ RecordCreated(o) \/ RecordUnknown(o) \/ CrashCreating(o)
  PROVE  ExactStep
<1> USE DEF books, calls, provider, ends
<1>0. creating \in [Orders -> {"idle", "calling", "ended"}] /\ FullRow(account[o])
  BY DEF XInv, CInv, BInv, IInv, ProviderTyped, BooksTrue
<1>1. UNCHANGED owner /\ \A x \in Orders \ {o} : creating'[x] = creating[x]
  BY <1>0 DEF CreateOrder, RecordCreated, RecordUnknown, CrashCreating
<1>2. Gross # 0  BY DEF ConstantsOK
<1>3. CASE CreateOrder(o)
  <2> DEFINE r == [account[o] EXCEPT !.status = "initializing"]
  <2>1. account' = [account EXCEPT ![o] = r] /\ account[o].status = "absent"
    BY <1>3 DEF CreateOrder
  <2>2. r.grant = account[o].grant /\ r.taken = account[o].taken
        /\ r.refunded = account[o].refunded /\ r.bound = account[o].bound /\ r.txn = account[o].txn
        /\ r.status = "initializing"
    BY <1>0 DEF FullRow, OrderRow
  <2> HIDE DEF r
  <2>3. ASSUME owner, o \in Bundles
        PROVE  ExactRow(r) /\ (WebhooksOnly => Unpaid(r, creating'[o])
                                              /\ (account[o].bound => r.bound))
    <3>1. r.refunded # Gross  BY <2>1, <2>2, <2>3, NowExact DEF ExactRow
    <3>2. WebhooksOnly => Unpaid(r, creating'[o])
      BY <2>1, <2>2, <2>3, NowExact DEF Unpaid
    <3> QED  BY <2>2, <2>3, <3>1, <3>2, StatusExact
  <2> QED  BY <1>1, <2>1, <2>3, WritingExact
<1>4. CASE RecordCreated(o)
  <2> DEFINE r == [account[o] EXCEPT !.status = "created", !.bound = TRUE]
  <2>1. account' = [account EXCEPT ![o] = r] /\ creating[o] = "calling"
        /\ creating'[o] = "ended"
    BY <1>0, <1>4 DEF RecordCreated
  <2>2. r.grant = account[o].grant /\ r.taken = account[o].taken
        /\ r.refunded = account[o].refunded /\ r.bound = TRUE /\ r.status = "created"
    BY <1>0 DEF FullRow, OrderRow
  <2> HIDE DEF r
  <2>3. ASSUME owner, o \in Bundles
        PROVE  ExactRow(r) /\ (WebhooksOnly => Unpaid(r, creating'[o])
                                              /\ (account[o].bound => r.bound))
    <3>1. r.refunded # Gross
      BY <1>2, <2>1, <2>2, <2>3, NowExact DEF Unpaid, StatusKept
    <3>2. Unpaid(r, creating'[o])  BY <2>1, <2>2 DEF Unpaid
    <3> QED  BY <2>2, <2>3, <3>1, <3>2, StatusExact
  <2> QED  BY <1>1, <2>1, <2>3, WritingExact
<1>5. CASE RecordUnknown(o)
  <2> DEFINE r == [account[o] EXCEPT !.status = "creation_unknown"]
  <2>1. account' = [account EXCEPT ![o] = r] /\ creating[o] = "calling"
        /\ creating'[o] = "ended"
    BY <1>0, <1>5 DEF RecordUnknown
  <2>2. r.grant = account[o].grant /\ r.taken = account[o].taken
        /\ r.refunded = account[o].refunded /\ r.bound = account[o].bound /\ r.txn = account[o].txn
        /\ r.status = "creation_unknown"
    BY <1>0 DEF FullRow, OrderRow
  <2> HIDE DEF r
  <2>3. ASSUME owner, o \in Bundles
        PROVE  ExactRow(r) /\ (WebhooksOnly => Unpaid(r, creating'[o])
                                              /\ (account[o].bound => r.bound))
    <3>1. r.refunded # Gross
      BY <1>2, <2>1, <2>2, <2>3, NowExact DEF Unpaid, StatusKept
    <3>2. WebhooksOnly => Unpaid(r, creating'[o])
      BY <2>1, <2>2, <2>3, NowExact DEF Unpaid
    <3> QED  BY <2>2, <2>3, <3>1, <3>2, StatusExact
  <2> QED  BY <1>1, <2>1, <2>3, WritingExact
<1>6. CASE CrashCreating(o)
  <2>1. UNCHANGED account /\ creating'[o] = "ended"
    BY <1>0, <1>6 DEF CrashCreating
  <2>2. account' = [account EXCEPT ![o] = account[o]]
    BY <2>1 DEF XInv, CInv, BInv, IInv, RowsTyped
  <2>3. ASSUME owner, o \in Bundles
        PROVE  ExactRow(account[o]) /\ (WebhooksOnly => Unpaid(account[o], creating'[o]))
    BY <2>1, <2>3, NowExact DEF Unpaid
  <2> QED  BY <1>1, <2>2, <2>3, WritingExact
<1> QED  BY <1>3, <1>4, <1>5, <1>6

LEMMA BrowserExact ==
  ASSUME StatusKept, XInv, NEW b \in Browsers,
         \/ ReadTransaction(b) \/ WriteResult(b)
         \/ \E o \in Orders, p \in Payments : ReadOrder(b, o, p)
  PROVE  ExactStep
<1> USE DEF books, calls, provider, ends
<1>1. UNCHANGED <<owner, creating>> /\ ~WebhooksOnly /\ NeverInFull
  BY DEF ReadTransaction, WriteResult, ReadOrder, StatusKept, WebhooksOnly
<1>2. CASE UNCHANGED account  BY <1>1, <1>2, ReadingExact
<1>3. CASE WriteResult(b) /\ ~UNCHANGED account
  <2> DEFINE o == browser[b].order
             r == Confirmed(account[o], browser[b])
  <2>1. o \in Orders /\ account' = [account EXCEPT ![o] = r]
    BY <1>3 DEF WriteResult, XInv, CInv, BInv, IInv, CallsTrue
  <2>2. FullRow(account[o])  BY <2>1 DEF XInv, CInv, BInv, BooksTrue
  <2>3. r.grant = account[o].grant /\ r.taken = account[o].taken
        /\ r.refunded = account[o].refunded
    BY <2>2 DEF Confirmed, FullRow, OrderRow
  <2> HIDE DEF o, r
  <2>4. owner /\ o \in Bundles => ExactRow(r)
    BY <1>1, <2>3, NowExact, StatusExact
  <2> QED  BY <1>1, <2>1, <2>4, WritingExact
<1> QED  BY <1>2, <1>3 DEF ReadTransaction, ReadOrder

\* Captures and refunds, in any order, keep credits and refunds together.
LEMMA WebhookExact ==
  ASSUME ConstantsOK, XInv, NEW e \in sent, Webhook(e)
  PROVE  ExactStep
<1> USE DEF books, calls, provider, ends
<1> DEFINE o == e[2]
<1>1. o \in Orders /\ BInv /\ UNCHANGED <<owner, creating>>
  BY DEF XInv, CInv, BInv, IInv, EventsTrue, Webhook, CaptureEvent, FailureEvent, RefundEvent,
     FindTransaction, HintedRefund
<1>2. CASE UNCHANGED account  BY <1>1, <1>2, ReadingExact
<1>3. ASSUME owner, o \in Bundles
      PROVE  /\ Begun(o, Books(o)) /\ ExactRow(Books(o).a) /\ Books(o).a = account[o]
             /\ WebhooksOnly => Unpaid(account[o], creating[o])
  <2> HIDE DEF o
  <2>1. Books(o).a = account[o]  BY DEF Books
  <2> QED  BY <1>3, <2>1, NowExact
\* The books of an order that is bound stay so.
<1>4. ASSUME NEW r, account' = [account EXCEPT ![o] = r],
             owner /\ o \in Bundles /\ WebhooksOnly => account[o].bound,
             owner /\ o \in Bundles =>
                ExactRow(r) /\ r.bound = account[o].bound
                /\ (r.status = account[o].status \/ r.status # "absent")
      PROVE  ExactStep
  <2> HIDE DEF o
  <2>1. ASSUME owner, o \in Bundles, WebhooksOnly
        PROVE  Unpaid(r, creating[o]) /\ (account[o].bound => r.bound)
    BY <1>3, <1>4, <2>1 DEF Unpaid
  <2> QED  BY <1>1, <1>4, <2>1, WritingExact
<1>5. CASE CaptureEvent(e) /\ ~UNCHANGED account
  <2> DEFINE r == Captured(Books(o), o, e[3]).a
  <2>1. account' = [account EXCEPT ![o] = r] /\ account[o].bound
    BY <1>5 DEF CaptureEvent, Book
  <2>2. ASSUME owner, o \in Bundles
        PROVE  ExactRow(r) /\ r.bound = account[o].bound
               /\ (r.status = account[o].status \/ r.status # "absent")
    <3> HIDE DEF o
    <3> QED  BY <1>3, <2>2, CapturedExact
  <2> HIDE DEF r, o
  <2> QED  BY <1>4, <2>1, <2>2
<1>6. CASE RefundEvent(e) /\ ~UNCHANGED account
  <2> DEFINE p == Repaying(o)
             r == Refunded(Books(o), o, p, e[3]).a
  <2>1. account' = [account EXCEPT ![o] = r] /\ account[o].bound /\ e[3] \in repaid[o]
    BY <1>6 DEF RefundEvent, Book, XInv, CInv, BInv, RefundsTrue
  <2>2. ASSUME owner, o \in Bundles
        PROVE  ExactRow(r) /\ r.bound = account[o].bound
               /\ (r.status = account[o].status \/ r.status # "absent")
    <3>1. Books(o).a = account[o]  BY DEF Books
    <3> HIDE DEF o, p
    <3>2. Begun(o, Books(o)) /\ ExactRow(Books(o).a) /\ o \in Orders /\ e[3] \in repaid[o]
      BY <1>1, <2>1, <2>2, <3>1, NowExact
    <3>3. /\ ExactRow(r) /\ r.bound = Books(o).a.bound
          /\ r.status \in {Books(o).a.status, "refunded", "partially_refunded"}
      BY <1>1, <3>2, RefundedExact
    <3> QED  BY <3>1, <3>3
  <2> HIDE DEF r, o
  <2> QED  BY <1>4, <2>1, <2>2
<1>7. CASE FailureEvent(e) /\ ~UNCHANGED account
  <2> DEFINE s == Known(Books(o), e[3], "failed")
             x == IF s.a.status \in Open \ {"creation_unknown"} THEN "payment_failed"
                  ELSE s.a.status
             r == [s EXCEPT !.a.status = x].a
  <2>1. Book(o, [s EXCEPT !.a.status =
                    IF @ \in Open \ {"creation_unknown"} THEN "payment_failed" ELSE @])
        /\ account[o].txn[e[3]] \notin Taken /\ account[o].bound
    BY <1>7 DEF FailureEvent, FailureAccepted, Taken
  <2>2. Sound(o, s) /\ Same(Books(o), s) /\ s.a.status = account[o].status
        /\ Books(o).a = account[o]
    <3>1. "failed" \in {"captured", "failed"}  OBVIOUS
    <3>2. Books(o).a = account[o]  BY DEF Books
    <3> HIDE DEF o
    <3>3. Sound(o, Books(o))  BY <1>1, NowRight
    <3> QED  BY <2>1, <3>1, <3>2, <3>3, KnownSound, KnownSame
  <2>3. "a" \in DOMAIN s /\ "status" \in DOMAIN s.a
    <3> HIDE DEF o, s
    <3> QED  BY <2>2 DEF Sound, RowRight, FullRow, OrderRow
  <2> HIDE DEF s, o
  <2>4. account' = [account EXCEPT ![o] = r]  BY <2>1, <2>3 DEF Book
  <2>5. x = account[o].status \/ (x = "payment_failed" /\ account[o].status \in Open)
    BY <2>2
  <2> HIDE DEF x
  <2>6. r.grant = account[o].grant /\ r.taken = account[o].taken
        /\ r.refunded = account[o].refunded /\ r.bound = account[o].bound /\ r.status = x
    BY <2>2, FieldSame DEF Same, Near
  <2> HIDE DEF r
  <2>7. ASSUME owner, o \in Bundles PROVE ExactRow(r)
    <3>1. ExactRow(account[o])  BY <2>7, NowExact
    <3>2. x = account[o].status \/ account[o].refunded # Gross
      BY <2>5, <3>1 DEF ExactRow, Open, Uncertain
    <3> QED  BY <2>6, <3>1, <3>2 DEF ExactRow
  <2> QED  BY <1>4, <2>1, <2>4, <2>5, <2>6, <2>7
<1>8. CASE HintedRefund(e)
  <2> DEFINE t == Refunded(Books(o), o, Repaying(o), e[3])
  <2>1. PICK r : /\ e[3] \in repaid[o] /\ Seeing(o, t) /\ r = [t.a EXCEPT !.txn = r.txn]
                 /\ account' = [account EXCEPT ![o] = r]
    BY <1>1, <1>8, HintedWrites, Zenon
  <2>2. e \in DOMAIN hint  BY <1>8 DEF HintedRefund
  <2>3. ASSUME owner, o \in Bundles
        PROVE  ExactRow(r) /\ r.bound = account[o].bound
               /\ (r.status = account[o].status \/ r.status # "absent")
    <3>1. Books(o).a = account[o]  BY DEF Books
    <3> HIDE DEF o
    <3>2. Begun(o, Books(o)) /\ ExactRow(Books(o).a) /\ o \in Orders /\ e[3] \in repaid[o]
      BY <1>1, <2>1, <2>3, <3>1, NowExact
    <3>3. /\ ExactRow(t.a) /\ t.a.bound = Books(o).a.bound
          /\ t.a.status \in {Books(o).a.status, "refunded", "partially_refunded"}
      BY <1>1, <3>2, RefundedExact
    <3> HIDE DEF t
    <3>4. OrderRow(t.a)  BY <2>1 DEF Seeing, Sound, RowRight, FullRow
    <3>5. r.grant = t.a.grant /\ r.taken = t.a.taken /\ r.refunded = t.a.refunded
          /\ r.status = t.a.status /\ r.bound = t.a.bound
      BY <2>1, <3>4 DEF OrderRow
    <3> QED  BY <3>1, <3>3, <3>5 DEF ExactRow
  <2>4. ASSUME owner, o \in Bundles, WebhooksOnly PROVE account[o].bound
    BY <2>2, <2>4 DEF XInv, HintsBound
  <2> HIDE DEF o, t
  <2> QED  BY <1>4, <2>1, <2>3, <2>4
<1>9. CASE FindTransaction(e)  BY <1>2, <1>9 DEF FindTransaction
<1> QED  BY <1>2, <1>5, <1>6, <1>7, <1>8, <1>9 DEF Webhook

LEMMA ReaderExact ==
  ASSUME ConstantsOK, StatusKept, OneAtATime, XInv, NEW d \in Readers,
         ApplyProof(d) \/ GiveUpReading(d) \/ \E o \in Orders : StartReading(d, o)
  PROVE  ExactStep
<1> USE DEF books, calls, provider, ends
<1>1. UNCHANGED <<owner, creating>> /\ ~WebhooksOnly /\ NeverInFull
      /\ (\A r, x \in Refunds : r = x)
  BY DEF ApplyProof, GiveUpReading, StartReading, StatusKept, WebhooksOnly, OneAtATime
<1>2. CASE UNCHANGED account  BY <1>1, <1>2, ReadingExact
<1>3. CASE ApplyProof(d) /\ ~UNCHANGED account
  <2> DEFINE o == reader[d].order
             R == reader[d].refunds
             bound == [Books(o) EXCEPT !.a.bound = TRUE]
             p == CHOOSE q \in reader[d].paid : TRUE
             x == IF reader[d].ready /\ bound.a.status \in Uncertain THEN "created"
                  ELSE IF ~reader[d].ready /\ bound.a.status \in Open THEN "creation_unknown"
                       ELSE bound.a.status
             t == [bound EXCEPT !.a.status = x]
  <2>1. o \in Orders /\ R \in SUBSET repaid[o] /\ BInv
    BY <1>3 DEF ApplyProof, XInv, CInv, BInv, IInv, CallsTrue, ReaderTrue, RefundsTrue
  <2>2. Seeing(o, bound) /\ Sound(o, bound)
        /\ bound.taken = account[o].taken /\ bound.a.taken = account[o].taken
        /\ bound.a.grant = account[o].grant /\ bound.a.refunded = account[o].refunded
        /\ bound.a.status = account[o].status
    <3>1. Books(o).a = account[o] /\ Books(o).taken = account[o].taken  BY DEF Books
    <3> HIDE DEF o
    <3>2. Seeing(o, Books(o)) /\ Sound(o, Books(o))  BY <2>1, NowRight
    <3> QED  BY <3>1, <3>2, BoundSound, BoundDoes DEF Seeing
  <2>3. \/ Book(o, [bound EXCEPT !.a.status =
                      IF reader[d].ready /\ @ \in Uncertain THEN "created"
                      ELSE IF ~reader[d].ready /\ @ \in Open THEN "creation_unknown" ELSE @])
        \/ Book(o, Captured(bound, o, p)) \/ Book(o, AllRefunded(bound, o, p, R))
    BY <1>3 DEF ApplyProof
  <2> HIDE DEF o, bound, p, R
  <2>4. ASSUME owner, o \in Bundles
        PROVE  Begun(o, bound) /\ ExactRow(bound.a) /\ bound.a.refunded # Gross
    <3>1. ExactRow(account[o]) /\ Begun(o, Books(o)) /\ account[o].refunded # Gross
      BY <1>1, <2>4, NowExact
    <3>2. account[o].taken \in Nat /\ (account[o].grant = "none" => account[o].taken = 0)
      BY <2>1 DEF XInv, CInv, CreditsTyped
    <3> QED  BY <2>2, <2>4, <3>1, <3>2 DEF Begun, ExactRow
  <2>5. ASSUME NEW s, account' = [account EXCEPT ![o] = s.a],
               owner /\ o \in Bundles => ExactRow(s.a)
        PROVE  ExactStep
    BY <1>1, <2>1, <2>5, WritingExact
  <2>6. CASE Book(o, [bound EXCEPT !.a.status =
                      IF reader[d].ready /\ @ \in Uncertain THEN "created"
                      ELSE IF ~reader[d].ready /\ @ \in Open THEN "creation_unknown" ELSE @])
    <3>1. "a" \in DOMAIN bound /\ "status" \in DOMAIN bound.a
      BY <2>2 DEF Sound, RowRight, FullRow, OrderRow
    <3>2. account' = [account EXCEPT ![o] = t.a]  BY <2>6, <3>1 DEF Book
    <3> HIDE DEF x
    <3>3. Same(bound, t)  BY <2>2, FieldSame
    <3> HIDE DEF t
    <3>4. owner /\ o \in Bundles => ExactRow(t.a)
      BY <2>4, <3>3 DEF Same, Near, ExactRow
    <3> QED  BY <2>5, <3>2, <3>4
  <2>7. CASE Book(o, Captured(bound, o, p))
    <3>1. account' = [account EXCEPT ![o] = Captured(bound, o, p).a]  BY <2>7 DEF Book
    <3>2. owner /\ o \in Bundles => ExactRow(Captured(bound, o, p).a)
      BY <2>4, CapturedExact
    <3> QED  BY <2>5, <3>1, <3>2
  <2>8. CASE Book(o, AllRefunded(bound, o, p, R))
    <3>1. account' = [account EXCEPT ![o] = AllRefunded(bound, o, p, R).a]  BY <2>8 DEF Book
    <3>2. owner /\ o \in Bundles => ExactRow(AllRefunded(bound, o, p, R).a)
      BY <1>1, <2>1, <2>4, AllRefundedExact
    <3> QED  BY <2>5, <3>1, <3>2
  <2> QED  BY <2>3, <2>6, <2>7, <2>8
<1> QED  BY <1>2, <1>3 DEF GiveUpReading, StartReading

\* What the steps may do to the account, to the payments and to the events in progress.
LEMMA NextDoes ==
  ASSUME [Next]_vars
  PROVE  /\ owner' => owner
         /\ UNCHANGED hint \/ \E e \in sent : FindTransaction(e) \/ HintedRefund(e)
         /\ \/ UNCHANGED <<shop, pay>>
            \/ \E o \in Orders :
                  \/ ProviderCreates(o)
                  \/ \E p \in Payments :
                        FailPayment(o, p) \/ AuthorizePayment(o, p) \/ CapturePayment(o, p)
<1> USE DEF books, events, calls, provider, ends
<1>1. ASSUME NEW o \in Orders,
             \/ CreateOrder(o) \/ RecordCreated(o) \/ RecordUnknown(o) \/ CrashCreating(o)
             \/ Resume(o) \/ \E r \in Refunds : RefundPayment(o, r)
      PROVE  UNCHANGED <<owner, hint, shop, pay>>
  BY <1>1 DEF CreateOrder, RecordCreated, RecordUnknown, CrashCreating, Resume, RefundPayment
<1>2. ASSUME NEW o \in Orders,
             \/ ProviderCreates(o)
             \/ \E p \in Payments :
                   FailPayment(o, p) \/ AuthorizePayment(o, p) \/ CapturePayment(o, p)
      PROVE  UNCHANGED <<owner, hint>>
  BY <1>2 DEF ProviderCreates, FailPayment, AuthorizePayment, CapturePayment
<1>3. ASSUME NEW b \in Browsers,
             \/ ReadTransaction(b) \/ WriteResult(b)
             \/ \E o \in Orders, p \in Payments : ReadOrder(b, o, p)
      PROVE  UNCHANGED <<owner, hint, shop, pay>>
  BY <1>3 DEF ReadTransaction, WriteResult, ReadOrder
<1>4. ASSUME NEW d \in Readers,
             ApplyProof(d) \/ GiveUpReading(d) \/ \E o \in Orders : StartReading(d, o)
      PROVE  UNCHANGED <<owner, hint, shop, pay>>
  BY <1>4 DEF ApplyProof, GiveUpReading, StartReading
<1>5. ASSUME NEW e \in sent, Webhook(e)
      PROVE  /\ UNCHANGED <<owner, shop, pay>>
             /\ UNCHANGED hint \/ FindTransaction(e) \/ HintedRefund(e)
  BY <1>5 DEF Webhook, CaptureEvent, FailureEvent, RefundEvent, FindTransaction, HintedRefund
<1>6. ASSUME NEW n \in Enders, StartEnding(n) \/ LockEntitlements(n) \/ EndPremium(n)
      PROVE  UNCHANGED <<owner, hint, shop, pay>>
  BY <1>6 DEF StartEnding, LockEntitlements, EndPremium
<1>7. ASSUME NEW x \in Erasers,
             StartErasing(x) \/ ReadOrders(x) \/ EraseAccount(x) \/ GiveUpErasing(x)
      PROVE  (owner' => owner) /\ UNCHANGED <<hint, shop, pay>>
  <2>1. CASE EraseAccount(x)  BY <2>1 DEF EraseAccount
  <2>2. CASE ~EraseAccount(x)
    BY <1>7, <2>2 DEF StartErasing, ReadOrders, GiveUpErasing
  <2> QED  BY <2>1, <2>2
<1>8. ASSUME UNCHANGED vars PROVE UNCHANGED <<owner, hint, shop, pay>>
  BY <1>8 DEF vars
<1> QED  BY <1>1, <1>2, <1>3, <1>4, <1>5, <1>6, <1>7, <1>8 DEF Next

LEMMA PaidStep == ASSUME IInv, PaidTrue, [Next]_vars PROVE PaidTrue'
<1>1. CASE UNCHANGED <<shop, pay>>  BY <1>1 DEF PaidTrue
<1>2. ASSUME NEW o \in Orders, ProviderCreates(o) PROVE PaidTrue'
  BY <1>2 DEF ProviderCreates, PaidTrue, IInv, ProviderTyped
<1>3. ASSUME NEW o \in Orders, NEW p \in Payments,
             FailPayment(o, p) \/ AuthorizePayment(o, p) \/ CapturePayment(o, p)
      PROVE  PaidTrue'
  <2>1. PICK v : pay' = [pay EXCEPT ![o][p] = v] /\ (pay[o][p] = "captured" => v = "captured")
    BY <1>3 DEF FailPayment, AuthorizePayment, CapturePayment
  <2>2. \A x \in Orders, q \in Payments :
           pay'[x][q] = IF x = o /\ q = p THEN v ELSE pay[x][q]
    BY <2>1 DEF IInv, PayTrue
  <2>3. \A x \in Orders : shop'[x] = "paid" =>
           shop[x] = "paid" \/ (x = o /\ pay'[o][p] = "captured")
    BY <1>3, <2>2 DEF FailPayment, AuthorizePayment, CapturePayment, Attempted, IInv,
       ProviderTyped, PayTrue
  <2> QED  BY <2>1, <2>2, <2>3 DEF PaidTrue
<1> QED  BY <1>1, <1>2, <1>3, NextDoes

LEMMA HintsStep == ASSUME XInv, ExactStep, [Next]_vars PROVE HintsBound'
<1> USE DEF books
<1> SUFFICES ASSUME WebhooksOnly, owner, owner', NEW e \in DOMAIN hint', e[2] \in Bundles
             PROVE  account'[e[2]].bound
  BY NextDoes DEF HintsBound, Bundles, WebhooksOnly
<1>1. CASE e \in DOMAIN hint  BY <1>1 DEF XInv, HintsBound, ExactStep
<1>2. CASE e \notin DOMAIN hint
  <2>1. PICK d \in sent : FindTransaction(d) \/ HintedRefund(d)  BY <1>2, NextDoes
  <2>2. d = e /\ FindTransaction(e)
    <3>1. CASE FindTransaction(d)
      <4>1. DOMAIN hint' \subseteq DOMAIN hint \cup {d}  BY <3>1 DEF FindTransaction
      <4> QED  BY <1>2, <3>1, <4>1
    <3>2. CASE HintedRefund(d)
      <4>1. DOMAIN hint' = DOMAIN hint \ {d}  BY <3>2 DEF HintedRefund
      <4> QED  BY <1>2, <4>1
    <3> QED  BY <2>1, <3>1, <3>2
  <2>3. account[e[2]].txn[Repaying(e[2])] # "none" /\ UNCHANGED account
        /\ e[1] = "refund.processed"
    BY <1>2, <2>2 DEF FindTransaction
  <2>4. e[2] \in Orders /\ shop[e[2]] = "paid"
    BY <2>1, <2>2, <2>3 DEF XInv, CInv, BInv, IInv, EventsTrue
  <2>5. Repaying(e[2]) \in Payments  BY <2>4 DEF XInv, PaidTrue, Repaying
  <2> QED  BY <2>3, <2>5 DEF XInv, Exact, Unpaid
<1> QED  BY <1>1, <1>2

LEMMA StepExact ==
  ASSUME ConstantsOK, StatusKept, OneAtATime, XInv, [Next]_vars
  PROVE  XInv'
<1> USE DEF books, calls, provider, ends
<1>1. ASSUME NEW o \in Orders,
             CreateOrder(o) \/ RecordCreated(o) \/ RecordUnknown(o) \/ CrashCreating(o)
      PROVE  ExactStep
  BY <1>1, CallExact
<1>2. ASSUME NEW o \in Orders,
             \/ ProviderCreates(o) \/ Resume(o)
             \/ \E p \in Payments :
                   FailPayment(o, p) \/ AuthorizePayment(o, p) \/ CapturePayment(o, p)
             \/ \E r \in Refunds : RefundPayment(o, r)
      PROVE  ExactStep
  <2>1. UNCHANGED <<account, owner, creating>>
    BY <1>2 DEF ProviderCreates, Resume, FailPayment, AuthorizePayment, CapturePayment,
       RefundPayment
  <2> QED  BY <2>1, ReadingExact
<1>3. ASSUME NEW b \in Browsers,
             \/ ReadTransaction(b) \/ WriteResult(b)
             \/ \E o \in Orders, p \in Payments : ReadOrder(b, o, p)
      PROVE  ExactStep
  BY <1>3, BrowserExact
<1>4. ASSUME NEW d \in Readers,
             ApplyProof(d) \/ GiveUpReading(d) \/ \E o \in Orders : StartReading(d, o)
      PROVE  ExactStep
  BY <1>4, ReaderExact
<1>5. ASSUME NEW e \in sent, Webhook(e) PROVE ExactStep
  BY <1>5, WebhookExact
<1>6. ASSUME NEW n \in Enders, StartEnding(n) \/ LockEntitlements(n) \/ EndPremium(n)
      PROVE  ExactStep
  <2>1. UNCHANGED <<owner, creating>>
    BY <1>6 DEF StartEnding, LockEntitlements, EndPremium
  <2>2. CASE UNCHANGED account  BY <2>1, <2>2, ReadingExact
  <2>3. CASE EndPremium(n) /\ ~UNCHANGED account
    <3>1. /\ account' = [o \in Orders |-> IF o \in ender[n].orders
                             THEN [account[o] EXCEPT !.grant = "ended_by_user"] ELSE account[o]]
          /\ ender[n].orders \subseteq Premium
      BY <2>3 DEF EndPremium, XInv, CInv, LocksTrue
    <3>2. \A o \in Bundles : account'[o] = account[o]  BY <3>1 DEF Bundles
    <3> QED  BY <2>1, <3>2 DEF XInv, Exact, ExactRow, Unpaid, ExactStep
  <2> QED  BY <1>6, <2>2, <2>3 DEF StartEnding, LockEntitlements
<1>7. ASSUME NEW x \in Erasers,
             StartErasing(x) \/ ReadOrders(x) \/ EraseAccount(x) \/ GiveUpErasing(x)
      PROVE  ExactStep
  <2>1. CASE UNCHANGED <<account, owner, creating>>  BY <2>1, ReadingExact
  <2>2. CASE EraseAccount(x)  BY <2>2 DEF EraseAccount, Exact, ExactStep
  <2> QED  BY <1>7, <2>1, <2>2 DEF StartErasing, ReadOrders, GiveUpErasing
<1>8. ASSUME UNCHANGED vars PROVE ExactStep
  <2>1. UNCHANGED <<account, owner, creating>>  BY <1>8 DEF vars
  <2> QED  BY <2>1, ReadingExact
<1>9. ExactStep
  BY <1>1, <1>2, <1>3, <1>4, <1>5, <1>6, <1>7, <1>8 DEF Next
<1>10. CInv'  BY StepCash DEF XInv
<1>11. PaidTrue' /\ HintsBound'  BY <1>9, PaidStep, HintsStep DEF XInv, CInv, BInv
<1> QED  BY <1>9, <1>10, <1>11 DEF XInv, ExactStep

\* The books say what is left of every order.
LEMMA CreditsAre == ASSUME ConstantsOK, XInv PROVE CreditsFollowMoney
<1> DEFINE Left(o) == IF account[o].grant = "none" THEN 0
                      ELSE Quantity - Share(account[o].refunded)
           owed == [o \in Bundles |-> Owed(account[o])]
           back == [o \in Bundles |-> account[o].taken]
           left == [o \in Bundles |-> Left(o)]
<1> SUFFICES ASSUME owner PROVE user.credits = Sum(left)
  BY DEF CreditsFollowMoney, Bundles
<1>1. ASSUME NEW o \in Bundles
      PROVE  /\ Owed(account[o]) \in Nat /\ account[o].taken \in Nat /\ Left(o) \in Nat
             /\ Owed(account[o]) = Left(o) + account[o].taken
  <2>1. o \in Orders /\ ExactRow(account[o]) /\ Quantity \in Nat /\ Gross \in Nat
        /\ account[o].taken \in Nat /\ (account[o].grant = "none" => account[o].taken = 0)
    BY NowExact DEF XInv, CInv, CreditsTyped, ConstantsOK
  <2>2. account[o].refunded \in 0..Gross
    <3>1. account[o].booked \in SUBSET repaid[o] /\ repaid[o] \in SUBSET Refunds
          /\ Total(repaid[o]) <= Gross /\ account[o].refunded = Total(account[o].booked)
          /\ account[o].refunded \in Nat
      BY <2>1 DEF XInv, CInv, BInv, BooksTrue, RefundsTrue, RefundsRight, FullRow
    <3>2. Total(account[o].booked) <= Total(repaid[o]) /\ Total(repaid[o]) \in Nat
      BY <3>1, TotalOfSubset
    <3> QED  BY <2>1, <3>1, <3>2
  <2>3. Share(account[o].refunded) \in Nat /\ Share(account[o].refunded) <= Quantity
    BY <2>2, ShareIs
  <2> QED  BY <2>1, <2>3 DEF ExactRow, Owed
<1>2. owed \in [Bundles -> Nat] /\ back \in [Bundles -> Nat] /\ left \in [Bundles -> Nat]
      /\ \A o \in Bundles : owed[o] = left[o] + back[o]
  BY <1>1
<1>3. IsFiniteSet(Bundles)  BY FS_Subset DEF ConstantsOK, Bundles
<1>4. user.credits = Sum(owed) - Sum(back)  BY DEF XInv, CInv, Recorded
<1> HIDE DEF owed, back, left
<1>5. Sum(owed) = Sum(left) + Sum(back) /\ Sum(left) \in Nat /\ Sum(back) \in Nat
  BY <1>2, <1>3, SumOfSums, SumIsNat
<1> QED  BY <1>4, <1>5

\* Webhooks in any order and repeated, for captures and for refunds in part and in whole,
\* keep the credits equal to what the owner paid for and was not paid back; and so do
\* browsers and reconciliation where refunds are not in full and do not come together.
THEOREM PaymentsCreditsFollowMoney ==
  ASSUME StatusKept, OneAtATime
  PROVE  Spec => []CreditsFollowMoney
<1>1. ASSUME ConstantsOK PROVE Init => XInv  BY <1>1, InitExact
<1>2. XInv /\ [Next]_vars => XInv'  BY ConstantsOK, StepExact
<1>3. XInv => CreditsFollowMoney  BY ConstantsOK, CreditsAre
<1> QED  BY <1>1, <1>2, <1>3, ConstantsOK, PTL DEF Spec
=============================================================================
