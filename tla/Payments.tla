------------------------------ MODULE Payments ------------------------------
(* Prepaid orders of one owner: checkout (routers/billing.py), the events of the
   payment provider (billing/service.py) and reconciliation by reading from the
   provider (billing/reconciliation.py).

   The provider delivers events late, in any order and again until they are
   accepted.  A webhook that finds the order by its own id locks it before it reads
   more, and then the owner, and is one step.  Other calls are not: a refund event
   that does not name the order reads the transaction before it has the lock,
   checkout-result, the end of Premium and the deletion of the account read without
   a lock, and the call that creates an order writes when the provider has answered.

   Orders for Premium are of a catalog that is closed: they exist from the start
   and may still be paid.  Orders for credits are of one SKU.  Left out: fees,
   taxes and dates, the expiry of Premium, the spending of credits, the analysis
   units of a bundle (treated as its credits are), and orders for the credit
   pass, whose lots are in CreditLedger. *)
EXTENDS Integers, FiniteSets, Sums

CONSTANTS
    Orders,
    Premium,   \* the orders for Premium access, the others are for credits
    Quantity,  \* credits of an order
    Gross,     \* price of an order
    Payments,  \* attempts to pay an order
    Refunds,   \* refunds of an order
    Amount,    \* what a refund pays back
    Browsers,  \* concurrent checkout-result calls
    Readers,   \* concurrent reconciliation calls
    Enders,    \* calls that end Premium
    Erasers    \* calls that delete the account

ASSUME ConstantsOK ==
    /\ Premium \subseteq Orders /\ IsFiniteSet(Orders) /\ IsFiniteSet(Refunds)
    /\ Quantity \in Nat \ {0} /\ Gross \in Nat \ {0}
    /\ Amount \in [Refunds -> 1..Gross]

VARIABLES
    account,   \* an order with its transactions, refunds and entitlement
    user,      \* users: job_service_credits and whether the tier is premium
    owner,     \* whether the account exists
    received,  \* payment_events: how the events that arrived were processed
    hint,      \* refund events being processed: the transaction as it was first read
    creating,  \* state of the call that creates an order
    browser,   \* state of every checkout-result call
    reader,    \* state of every reconciliation call
    ender,     \* state of every call that ends Premium
    eraser,    \* state of every call that deletes the account
    shop,      \* provider: the order there
    shown,     \* orders whose checkout the customer has seen
    pay,       \* provider: attempts to pay an order
    repaid,    \* provider: processed refunds of an order
    sent       \* provider: events so far

books == <<account, user>>
events == <<received, hint>>
ends == <<ender, eraser>>
calls == <<creating, browser, reader, ends>>
provider == <<shop, shown, pay, repaid, sent>>
vars == <<books, owner, events, calls, provider>>

Uncertain == {"initializing", "creation_unknown"}
Open == Uncertain \cup {"created", "client_confirmed", "payment_failed"}
Settled == {"paid", "partially_refunded", "refunded"}

NoOrder == [status |-> "absent", bound |-> FALSE, txn |-> [p \in Payments |-> "none"],
            refunded |-> 0, booked |-> {}, grant |-> "none", taken |-> 0]
NoCall == [phase |-> "idle"]

Init ==
    /\ account = [o \in Orders |-> IF o \in Premium
                      THEN [NoOrder EXCEPT !.status = "created", !.bound = TRUE] ELSE NoOrder]
    /\ user = [credits |-> 0, premium |-> FALSE]
    /\ owner = TRUE
    /\ received = << >> /\ hint = << >>
    /\ creating = [o \in Orders |-> IF o \in Premium THEN "ended" ELSE "idle"]
    /\ browser = [b \in Browsers |-> NoCall]
    /\ reader = [d \in Readers |-> NoCall]
    /\ ender = [n \in Enders |-> NoCall] /\ eraser = [x \in Erasers |-> NoCall]
    /\ shop = [o \in Orders |-> IF o \in Premium THEN "open" ELSE "none"]
    /\ shown = Premium
    /\ pay = [o \in Orders |-> [p \in Payments |-> "none"]]
    /\ repaid = [o \in Orders |-> {}]
    /\ sent = {}

-----------------------------------------------------------------------------
(* What an event does to the books.  A transaction s = [a |-> the order, u |-> the
   user, ...] finds in its queries only what it has flushed: seen, whether there
   is an entitlement, and taken, the credits taken back. *)

Books(o) == [a |-> account[o], u |-> user,
             seen |-> account[o].grant # "none", taken |-> account[o].taken]
Flush(s) == [s EXCEPT !.seen = s.a.grant # "none", !.taken = s.a.taken]
Book(o, s) == account' = [account EXCEPT ![o] = s.a] /\ user' = s.u

\* An order whose entitlement is locked by a call that ends Premium.
Locked(o) == \E n \in Enders : ender[n].phase = "locked" /\ o \in ender[n].orders

\* _payment_transaction: a capture does not undo a refund.
Known(s, p, status) ==
    [s EXCEPT !.a.txn[p] =
        IF status = "captured" /\ @ \in {"partially_refunded", "refunded"} THEN @ ELSE status]

GrantNeeded(s) == ~s.seen

UnfulfilledQuietly(s) == s \* slip: an order without an owner is paid and forgotten
Unfulfilled(s) == [s EXCEPT !.a.status = "paid_unfulfilled"]

\* _grant_entitlement: once per order.
Granted(s, o) ==
    CASE ~GrantNeeded(s) -> s
      [] GrantNeeded(s) /\ ~owner -> Unfulfilled(s)
      [] GrantNeeded(s) /\ owner /\ o \in Premium ->
            [s EXCEPT !.a.grant = "active", !.u.premium = TRUE]
      [] GrantNeeded(s) /\ owner /\ o \notin Premium ->
            [s EXCEPT !.a.grant = "active", !.u.credits = @ + Quantity]

\* The credits of an order that its refunds pay back, rounded up.
Share(refunded) == (refunded * Quantity + Gross - 1) \div Gross

TakenBackWhole(s) == Share(s.a.refunded) \* slip: what was taken before is forgotten
TakenBack(s) == Share(s.a.refunded) - s.taken

\* _adjust_service_credit_refund: spent credits become debt.
Adjusted(s, o) ==
    IF o \in Premium \/ ~owner \/ ~s.seen \/ TakenBack(s) <= 0 THEN s
    ELSE [s EXCEPT !.u.credits = @ - TakenBack(s), !.a.taken = @ + TakenBack(s)]

OthersActiveSelf(o) == \* slip: the order that is refunded counts itself
    {x \in Premium : account[x].grant = "active"}
OthersActive(o) == {x \in Premium \ {o} : account[x].grant = "active"}

\* _revoke_entitlement
Revoked(s, o) ==
    CASE ~s.seen \/ s.a.grant = "refunded" -> s
      [] s.seen /\ s.a.grant \in {"ended_by_user", "ended_account_deleted"} ->
            [s EXCEPT !.a.grant = "refunded"]
      [] s.seen /\ s.a.grant = "active" ->
            LET t == [s EXCEPT !.a.grant = "refunded"]
            IN  IF ~owner THEN t
                ELSE IF o \in Premium THEN [t EXCEPT !.u.premium = OthersActive(o) # {}]
                ELSE Adjusted(t, o)

\* _process_capture
Captured(s, o, p) ==
    LET t == Known(s, p, "captured")
    IN  CASE t.a.status = "partially_refunded" -> Adjusted(Granted(t, o), o)
          [] t.a.status \in {"paid", "refunded", "paid_unfulfilled"} -> t
          [] OTHER -> Adjusted(Granted([t EXCEPT !.a.status = "paid"], o), o)

BookedNever(s, r) == FALSE \* slip: a refund that was booked is booked again
Booked(s, r) == r \in s.a.booked

\* _process_refund
Refunded(s, o, p, r) ==
    LET t == Known(s, p, "captured")
        total == s.a.refunded + Amount[r]
        status == IF total = Gross THEN "refunded" ELSE "partially_refunded"
        new == [t EXCEPT !.a.booked = @ \cup {r}, !.a.refunded = total, !.a.txn[p] = status,
                         !.a.status = status]
    IN  IF Booked(s, r) THEN t
        ELSE IF total = Gross THEN Revoked(new, o) ELSE Adjusted(Flush(Granted(new, o)), o)

\* One refund of the proof after the other.
AllRefunded(s, o, p, R) ==
    LET after[Q \in SUBSET R] ==
            IF Q = {} THEN s
            ELSE LET r == CHOOSE x \in Q : TRUE IN Refunded(after[Q \ {r}], o, p, r)
    IN  after[R]

-----------------------------------------------------------------------------
(* Checkout. *)

\* An order that keeps its owner from creating another.
Blocks(x) ==
    \/ account[x].status \in Uncertain
    \/ account[x].status \in Open /\ x \notin Premium

\* create_order: the owner is locked until the order is committed.
CreateOrder(o) ==
    /\ owner /\ account[o].status = "absent"
    /\ \A x \in Orders : ~Blocks(x)
    /\ account' = [account EXCEPT ![o].status = "initializing"]
    /\ creating' = [creating EXCEPT ![o] = "calling"]
    /\ UNCHANGED <<user, owner, events, browser, reader, ends, provider>>

\* The request reaches the provider, perhaps after the call was given up.
ProviderCreates(o) ==
    /\ creating[o] # "idle" /\ shop[o] = "none"
    /\ shop' = [shop EXCEPT ![o] = "open"]
    /\ UNCHANGED <<books, owner, events, calls, shown, pay, repaid, sent>>

\* The last write of create_order looks at no status.
RecordCreated(o) ==
    /\ creating[o] = "calling" /\ shop[o] # "none"
    /\ creating' = [creating EXCEPT ![o] = "ended"]
    /\ account' = [account EXCEPT ![o].status = "created", ![o].bound = TRUE]
    /\ shown' = IF owner THEN shown \cup {o} ELSE shown
    /\ UNCHANGED <<user, owner, events, browser, reader, ends, shop, pay, repaid, sent>>

RecordUnknown(o) ==
    /\ creating[o] = "calling"
    /\ creating' = [creating EXCEPT ![o] = "ended"]
    /\ account' = [account EXCEPT ![o].status = "creation_unknown"]
    /\ UNCHANGED <<user, owner, events, browser, reader, ends, provider>>

CrashCreating(o) ==
    /\ creating[o] = "calling"
    /\ creating' = [creating EXCEPT ![o] = "ended"]
    /\ UNCHANGED <<books, owner, events, browser, reader, ends, provider>>

\* create_order for an order that exists.
Resume(o) ==
    /\ owner /\ account[o].status = "created" /\ o \notin shown
    /\ shown' = shown \cup {o}
    /\ UNCHANGED <<books, owner, events, calls, shop, pay, repaid, sent>>

\* checkout-result: the order is read first, without a lock ...
ReadOrder(b, o, p) ==
    /\ owner /\ browser[b].phase = "idle"
    /\ account[o].bound /\ pay[o][p] \in {"authorized", "captured"}
    /\ browser' = [browser EXCEPT ![b] =
                      [phase |-> "read", order |-> o, pay |-> p, status |-> account[o].status]]
    /\ UNCHANGED <<books, owner, events, creating, reader, ends, provider>>

\* ... then the transaction ...
ReadTransaction(b) ==
    /\ browser[b].phase = "read"
    /\ browser' = [browser EXCEPT ![b] =
          [phase |-> IF account[@.order].txn[@.pay] = "none" THEN "insert" ELSE "update",
           order |-> @.order, pay |-> @.pay, status |-> @.status]]
    /\ UNCHANGED <<books, owner, events, creating, reader, ends, provider>>

Confirmed(a, call) ==
    [a EXCEPT !.txn[call.pay] = IF call.phase = "insert" THEN "client_confirmed" ELSE @,
              !.status = IF call.status = "created" THEN "client_confirmed" ELSE @]

\* ... and both are written; a transaction that was inserted meanwhile fails the
\* commit, and an unchanged status is not written.
WriteResult(b) ==
    LET o == browser[b].order  p == browser[b].pay
    IN  /\ browser[b].phase \in {"insert", "update"}
        /\ browser' = [browser EXCEPT ![b] = NoCall]
        /\ IF browser[b].phase = "insert" /\ account[o].txn[p] # "none" THEN UNCHANGED account
           ELSE account' = [account EXCEPT ![o] = Confirmed(@, browser[b])]
        /\ UNCHANGED <<user, owner, events, creating, reader, ends, provider>>

-----------------------------------------------------------------------------
(* Webhooks. *)

FreshOnce(e) == e \notin DOMAIN received \* slip: an event that could not be applied is a duplicate
Fresh(e) == e \notin {x \in DOMAIN received : received[x] # "retryable"}

Answer(e, status) == received' = [x \in DOMAIN received \cup {e} |-> IF x = e THEN status ELSE received[x]]

\* payment.captured and order.paid
CaptureEvent(e) ==
    LET o == e[2]  p == e[3]
        other == \E q \in Payments \ {p} :
                    account[o].txn[q] \in {"captured", "partially_refunded", "refunded"}
    IN  /\ e \in sent /\ e[1] \in {"payment.captured", "order.paid"} /\ Fresh(e) /\ ~Locked(o)
        /\ IF account[o].bound /\ ~other
           THEN Book(o, Captured(Books(o), o, p)) /\ Answer(e, "processed")
           ELSE UNCHANGED books /\ Answer(e, IF other THEN "rejected" ELSE "retryable")
        /\ UNCHANGED <<owner, hint, calls, provider>>

FailureStaleAccepted(o, p) == TRUE \* slip: a late failure undoes a capture
FailureAccepted(o, p) == account[o].txn[p] \notin {"captured", "partially_refunded", "refunded"}

\* payment.failed
FailureEvent(e) ==
    LET o == e[2]  p == e[3]
        s == Known(Books(o), p, "failed")
    IN  /\ e \in sent /\ e[1] = "payment.failed" /\ Fresh(e)
        /\ IF account[o].bound /\ FailureAccepted(o, p)
           THEN /\ Book(o, [s EXCEPT !.a.status =
                              IF @ \in Open \ {"creation_unknown"} THEN "payment_failed" ELSE @])
                /\ Answer(e, "processed")
           ELSE UNCHANGED books /\ Answer(e, IF account[o].bound THEN "rejected" ELSE "retryable")
        /\ UNCHANGED <<owner, hint, calls, provider>>

\* The payment that a refund pays back: the one that succeeded.
Repaying(o) == CHOOSE p \in Payments : pay[o][p] = "captured"

\* refund.processed with its payment, which names the order.
RefundEvent(e) ==
    LET o == e[2]  r == e[3]
    IN  /\ e \in sent /\ e[1] = "refund.processed" /\ e[4] = "payment" /\ Fresh(e) /\ ~Locked(o)
        /\ IF account[o].bound
           THEN Book(o, Refunded(Books(o), o, Repaying(o), r)) /\ Answer(e, "processed")
           ELSE UNCHANGED books /\ Answer(e, "retryable")
        /\ UNCHANGED <<owner, hint, calls, provider>>

\* Without a payment the order is found by its transaction, which is read before
\* the order is locked; once more if the event is delivered after a crash.
FindTransaction(e) ==
    LET o == e[2]  status == account[o].txn[Repaying(o)]
    IN  /\ e \in sent /\ e[1] = "refund.processed" /\ e[4] = "no payment" /\ Fresh(e)
        /\ IF status = "none" THEN Answer(e, "retryable") /\ UNCHANGED hint
           ELSE hint' = [x \in DOMAIN hint \cup {e} |-> IF x = e THEN status ELSE hint[x]]
                /\ UNCHANGED received
        /\ UNCHANGED <<books, owner, calls, provider>>

\* The session keeps the transaction as it first read it, and writes its status if
\* that differs from what it has read.
Hinted(o, p, status) == [Books(o) EXCEPT !.a.txn[p] = status]
Written(s, o, p, status) ==
    [s EXCEPT !.a.txn[p] = IF @ = status THEN account[o].txn[p] ELSE @]

\* The rest of refund.processed, once the order is locked.
HintedRefund(e) ==
    LET o == e[2]  p == Repaying(o)  status == hint[e]
    IN  /\ e \in sent /\ e[1] = "refund.processed" /\ e \in DOMAIN hint /\ ~Locked(o)
        /\ Book(o, Written(Refunded(Hinted(o, p, status), o, p, e[3]), o, p, status))
        /\ Answer(e, "processed")
        /\ hint' = [x \in DOMAIN hint \ {e} |-> hint[x]]
        /\ UNCHANGED <<owner, calls, provider>>

-----------------------------------------------------------------------------
(* Reconciliation reads from the provider and applies what it proves. *)

Successful(o) == {p \in Payments : shop[o] = "paid" /\ pay[o][p] = "captured"}

StartReading(d, o) ==
    /\ owner /\ reader[d].phase = "idle"
    /\ account[o].status \notin Settled \cup {"absent", "paid_unfulfilled"}
    /\ shop[o] # "none"
    /\ reader' = [reader EXCEPT ![d] =
          [phase |-> "apply", order |-> o,
           paid |-> Successful(o),
           refunds |-> repaid[o], ready |-> shop[o] = "open"]]
    /\ UNCHANGED <<books, owner, events, creating, browser, ends, provider>>

StillOpen(o) == account[o].status \notin Settled \cup {"paid_unfulfilled"}

ApplyProof(d) ==
    LET o == reader[d].order  proof == reader[d]
        bound == [Books(o) EXCEPT !.a.bound = TRUE]
        p == CHOOSE q \in proof.paid : TRUE
        unpaid == [bound EXCEPT !.a.status =
                      IF proof.ready /\ @ \in Uncertain THEN "created"
                      ELSE IF ~proof.ready /\ @ \in Open THEN "creation_unknown" ELSE @]
    IN  /\ proof.phase = "apply" /\ ~Locked(o)
        /\ reader' = [reader EXCEPT ![d] = NoCall]
        /\ IF ~owner \/ ~StillOpen(o) THEN UNCHANGED books
           ELSE Book(o, IF proof.paid = {} THEN unpaid
                        ELSE IF proof.refunds = {} THEN Captured(bound, o, p)
                        ELSE AllRefunded(bound, o, p, proof.refunds))
        /\ UNCHANGED <<owner, events, creating, browser, ends, provider>>

\* Busy locks, missing answers and crashes end the call without an effect.
GiveUpReading(d) ==
    /\ reader[d].phase = "apply"
    /\ reader' = [reader EXCEPT ![d] = NoCall]
    /\ UNCHANGED <<books, owner, events, creating, browser, ends, provider>>

-----------------------------------------------------------------------------
(* The owner and the provider. *)

\* end_premium: the user was read when the call was authorized.  A tier that was
\* free, unless the session had to forget it, makes no update.
StartEnding(n) ==
    /\ owner /\ ender[n].phase = "idle"
    /\ \E update \in {user.premium, TRUE} :
          ender' = [ender EXCEPT ![n] = [phase |-> "user", update |-> update]]
    /\ UNCHANGED <<books, owner, events, creating, browser, reader, eraser, provider>>

\* _end_premium_access: the active entitlements are locked ...
LockEntitlements(n) ==
    LET active == {o \in Premium : account[o].grant = "active"}
    IN  /\ ender[n].phase = "user"
        /\ \A o \in active : ~Locked(o)
        /\ ender' = [ender EXCEPT ![n] =
                        [phase |-> "locked", update |-> @.update, orders |-> active]]
        /\ UNCHANGED <<books, owner, events, creating, browser, reader, eraser, provider>>

\* ... and written with the user.
EndPremium(n) ==
    /\ ender[n].phase = "locked"
    /\ ender' = [ender EXCEPT ![n] = [phase |-> "ended"]]
    /\ IF owner \/ ~ender[n].update
       THEN /\ account' = [o \in Orders |-> IF o \in ender[n].orders
                              THEN [account[o] EXCEPT !.grant = "ended_by_user"] ELSE account[o]]
            /\ user' = [user EXCEPT !.premium = IF ender[n].update THEN FALSE ELSE @]
       ELSE UNCHANGED books
    /\ UNCHANGED <<owner, events, creating, browser, reader, eraser, provider>>

\* erase_account_sql: entitlements and orders are read without locks ...
StartErasing(x) ==
    /\ owner /\ eraser[x].phase = "idle"
    /\ eraser' = [eraser EXCEPT ![x] =
          [phase |-> "active", active |-> {o \in Orders : account[o].grant = "active"}]]
    /\ UNCHANGED <<books, owner, events, creating, browser, reader, ender, provider>>

ReadOrders(x) ==
    /\ eraser[x].phase = "active"
    /\ eraser' = [eraser EXCEPT ![x] =
          [phase |-> "orders", active |-> @.active,
           granted |-> {o \in Orders : account[o].grant # "none"},
           open |-> {o \in Orders :
                       account[o].status \in {"initializing", "created", "client_confirmed"}}]]
    /\ UNCHANGED <<books, owner, events, creating, browser, reader, ender, provider>>

\* ... and written; an entitlement inserted meanwhile still refers to the user and
\* keeps the user from being deleted.
EraseAccount(x) ==
    /\ eraser[x].phase = "orders" /\ eraser' = [eraser EXCEPT ![x] = NoCall]
    /\ \A o \in eraser[x].active : ~Locked(o)
    /\ \A o \in Orders \ eraser[x].granted : account[o].grant = "none"
    /\ owner' = FALSE
    /\ account' = [o \in Orders |->
          [account[o] EXCEPT
              !.status = IF o \in eraser[x].open THEN "customer_deleted" ELSE @,
              !.grant = IF o \in eraser[x].active THEN "ended_account_deleted" ELSE @]]
    /\ UNCHANGED <<user, events, creating, browser, reader, ender, provider>>

GiveUpErasing(x) ==
    /\ eraser[x].phase \in {"active", "orders"} /\ eraser' = [eraser EXCEPT ![x] = NoCall]
    /\ UNCHANGED <<books, owner, events, creating, browser, reader, ender, provider>>

Attempted(o) == shop' = [shop EXCEPT ![o] = IF @ = "open" THEN "attempted" ELSE @]

FailPayment(o, p) ==
    /\ o \in shown /\ shop[o] \in {"open", "attempted"} /\ pay[o][p] = "none"
    /\ pay' = [pay EXCEPT ![o][p] = "failed"]
    /\ sent' = sent \cup {<<"payment.failed", o, p>>}
    /\ Attempted(o)
    /\ UNCHANGED <<books, owner, events, calls, shown, repaid>>

\* A payment that failed may be authorized later; one payment of an order succeeds.
AuthorizePayment(o, p) ==
    /\ o \in shown /\ shop[o] \in {"open", "attempted"} /\ pay[o][p] \in {"none", "failed"}
    /\ \A q \in Payments : pay[o][q] # "authorized"
    /\ pay' = [pay EXCEPT ![o][p] = "authorized"]
    /\ Attempted(o)
    /\ UNCHANGED <<books, owner, events, calls, shown, repaid, sent>>

CapturePayment(o, p) ==
    /\ pay[o][p] = "authorized"
    /\ pay' = [pay EXCEPT ![o][p] = "captured"]
    /\ shop' = [shop EXCEPT ![o] = "paid"]
    /\ sent' = sent \cup {<<"payment.captured", o, p>>, <<"order.paid", o, p>>}
    /\ UNCHANGED <<books, owner, events, calls, shown, repaid>>

Total(R) == Sum([r \in R |-> Amount[r]])

RefundPayment(o, r) ==
    /\ shop[o] = "paid" /\ r \notin repaid[o]
    /\ Total(repaid[o] \cup {r}) <= Gross
    /\ repaid' = [repaid EXCEPT ![o] = @ \cup {r}]
    /\ \E entity \in {"payment", "no payment"} :
          sent' = sent \cup {<<"refund.processed", o, r, entity>>}
    /\ UNCHANGED <<books, owner, events, calls, shop, shown, pay>>

-----------------------------------------------------------------------------
Webhook(e) ==
    CaptureEvent(e) \/ FailureEvent(e) \/ RefundEvent(e) \/ FindTransaction(e) \/ HintedRefund(e)

Next ==
    \/ \E o \in Orders :
        \/ CreateOrder(o) \/ ProviderCreates(o) \/ RecordCreated(o) \/ RecordUnknown(o)
        \/ CrashCreating(o) \/ Resume(o)
        \/ \E p \in Payments : FailPayment(o, p) \/ AuthorizePayment(o, p) \/ CapturePayment(o, p)
        \/ \E r \in Refunds : RefundPayment(o, r)
        \/ \E d \in Readers : StartReading(d, o)
        \/ \E b \in Browsers, p \in Payments : ReadOrder(b, o, p)
    \/ \E b \in Browsers : ReadTransaction(b) \/ WriteResult(b)
    \/ \E d \in Readers : ApplyProof(d) \/ GiveUpReading(d)
    \/ \E e \in sent : Webhook(e)
    \/ \E n \in Enders : StartEnding(n) \/ LockEntitlements(n) \/ EndPremium(n)
    \/ \E x \in Erasers :
          StartErasing(x) \/ ReadOrders(x) \/ EraseAccount(x) \/ GiveUpErasing(x)

\* The provider repeats an event until it is accepted; a started transaction goes on.
Fairness ==
    /\ \A n \in Enders : WF_vars(EndPremium(n))
    /\ \A o \in Orders, kind \in {"payment.captured", "order.paid"}, p \in Payments :
          WF_vars(CaptureEvent(<<kind, o, p>>))
    /\ \A o \in Orders, r \in Refunds :
          /\ WF_vars(RefundEvent(<<"refund.processed", o, r, "payment">>))
          /\ WF_vars(FindTransaction(<<"refund.processed", o, r, "no payment">>))
          /\ WF_vars(HintedRefund(<<"refund.processed", o, r, "no payment">>))

Spec == Init /\ [][Next]_vars
FairSpec == Spec /\ Fairness

-----------------------------------------------------------------------------
(* Properties. *)

\* Credits follow the money whatever the order of events (_grant_entitlement,
\* _adjust_service_credit_refund): every order that was granted counts once, less
\* the share of its refunds.
CreditsFollowMoney ==
    LET Left(o) == IF account[o].grant = "none" THEN 0 ELSE Quantity - Share(account[o].refunded)
    IN owner => user.credits = Sum([o \in Orders \ Premium |-> Left(o)])

\* The entitlement ledger is the "authoritative ... record of paid access"
\* (EntitlementLedger): as long as no call has tried to end Premium, the owner has
\* it exactly when an entitlement is active.
PremiumIsBacked ==
    owner /\ (\A n \in Enders : ender[n].phase = "idle") =>
        (user.premium <=> \E o \in Premium : account[o].grant = "active")

\* Events, repeated events and proofs book each refund of the provider once
\* (_process_refund).
RefundsBookedOnce ==
    \A o \in Orders :
        /\ account[o].booked \subseteq repaid[o]
        /\ account[o].refunded = Total(account[o].booked)

\* create_order: an owner never has two orders of a SKU that can both be paid.
OnePayableOrder ==
    \A o, x \in Orders \ Premium :
        o # x => ~(shop[o] \in {"open", "attempted"} /\ shop[x] \in {"open", "attempted"})

\* A refund event that read the transaction before it was captured or refunded is
\* committed now.
StaleRefund(o) ==
    \E e \in DOMAIN hint \ DOMAIN hint' :
        e[2] = o /\ hint[e] \notin {"captured", "partially_refunded", "refunded"}

\* "Refund is terminal" (_payment_transaction): late captures, late failures and stale
\* calls bring back neither access nor the transaction, which only a refund event that
\* is stale may show as captured again.
RefundStays ==
    [][\A o \in Orders :
          /\ account[o].grant \notin {"none", "active"} => account'[o].grant # "active"
          /\ \A p \in Payments :
                account[o].txn[p] \in {"captured", "partially_refunded", "refunded"} =>
                   \/ StaleRefund(o) /\ account'[o].txn[p] = "captured"
                   \/ /\ account'[o].txn[p] \in {account[o].txn[p], "partially_refunded", "refunded"}
                      /\ account[o].txn[p] = "refunded" => account'[o].txn[p] = "refunded"]_vars

\* A checkout-result that read the order before the owner was erased writes its
\* stale status over whatever the order has become.
HiddenByBrowser(o) == ~owner /\ account[o].status = "client_confirmed"

\* Whoever has paid gets access, or the money back, or is on the list of orders
\* that support has to fulfil, unless the browser of a deleted owner hides it.
PaidIsFulfilled ==
    \A o \in Orders : \A p \in Payments :
        pay[o][p] = "captured" ~> \/ account[o].grant # "none"
                                  \/ account[o].refunded = Gross
                                  \/ account[o].status = "paid_unfulfilled"
                                  \/ HiddenByBrowser(o)

\* Every refund is booked in the end, also one whose event arrives before the
\* payment is known (RETRYABLE_EVENT_STATUSES).
RefundsArrive ==
    \A o \in Orders, r \in Refunds : r \in repaid[o] ~> r \in account[o].booked

\* "Revoke the proportional grant" (_adjust_service_credit_refund): an order never
\* loses more credits than its refunds have paid back.
ProportionalRevocation ==
    \A o \in Orders : account[o].taken <= Share(account[o].refunded)

\* A refund "is terminal and late capture does not grant"
\* (tests/test_razorpay_billing.py).
NoAccessAfterFullRefund ==
    \A o \in Orders : account[o].refunded = Gross => account[o].grant # "active"
=============================================================================
