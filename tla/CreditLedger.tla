---------------------------- MODULE CreditLedger ----------------------------
(* The credit ledger of one owner, backend/app/domains/credits/service.py:
   grant lots with an expiry, reservations that take credits from the lots and
   are settled later, and refunds that revoke the credits of a purchase.

   Every operation locks the owner first (_lock_account), so it is one step.
   Its stamp is read before the lock is granted, so a later operation may carry
   an earlier stamp: an operation uses any time of the last Lag units.

   A lot is named by its source: <<s>> is the lot granted for source s, <<g, r>>
   the lot that restores what reservation r did not use of its parent g. *)
EXTENDS Integers, Sums

CONSTANTS
    Sources,       \* fulfilled payments, approved migrations
    Quantity,      \* credits a source grants
    Reservations,  \* operations that reserve credits
    Price,         \* credits an operation reserves
    Never,         \* expires_at IS NULL
    Pass,          \* PASS_LIFETIME
    Restoration,   \* RESTORATION_LIFETIME
    Lag,           \* how old a stamp can be once the owner is locked
    Horizon        \* bound of the clock

ASSUME ConstantsOK ==
    /\ IsFiniteSet(Sources) /\ IsFiniteSet(Reservations)
    /\ Quantity \in [Sources -> Nat \ {0}] /\ Price \in [Reservations -> Nat \ {0}]
    /\ Never \notin Nat
    /\ Pass \in Nat \ {0} /\ Restoration \in Nat \ {0}
    /\ Lag \in Nat /\ Horizon \in Nat

VARIABLES
    clock,    \* utcnow()
    lots,     \* credit_grants, a function on the names of the lots there are
    debt,     \* credit_accounts.debt_credits
    holds,    \* credit_reservations with their credit_allocations
    refunds,  \* what the revoke events of an origin record
    book      \* sum of the amounts of all credit_events

vars == <<clock, lots, debt, holds, refunds, book>>

Lot == [origin: Sources, quantity: Nat, remaining: Nat, expired: Nat, offset: Nat,
        issued: Nat, expires: Nat \cup {Never}]

Hold(state, taken, used, created) ==
    [state |-> state, taken |-> taken, used |-> used, created |-> created]
NoHold == Hold("none", << >>, << >>, 0)
NoRefund == [target |-> 0, removed |-> 0, absorbed |-> 0, owed |-> 0]

Init ==
    /\ clock = 0
    /\ lots = << >>
    /\ debt = 0
    /\ holds = [r \in Reservations |-> NoHold]
    /\ refunds = [s \in Sources |-> NoRefund]
    /\ book = 0

-----------------------------------------------------------------------------
(* Helpers. *)

Lesser(a, b) == IF a < b THEN a ELSE b
Greater(a, b) == IF a < b THEN b ELSE a

Stamps == {t \in 0..clock : t + Lag >= clock}

Remaining(ls) == Sum([g \in DOMAIN ls |-> ls[g].remaining])

\* The lots of an origin, the restored ones included.
Family(s) == {g \in DOMAIN lots : lots[g].origin = s}
Expired(ls, s) == Sum([g \in Family(s) |-> ls[g].expired])

\* Slip for the mutation tests: a lot is still good at its very expiry.
LapsedAfter(lot, t) == lot.expires # Never /\ lot.expires < t

Lapsed(lot, t) == lot.expires # Never /\ lot.expires <= t

\* _expire: a lot past its expiry loses what is left of it.
SweptLot(lot, t) ==
    IF Lapsed(lot, t) THEN [lot EXCEPT !.remaining = 0, !.expired = @ + lot.remaining] ELSE lot

Swept(t) == [g \in DOMAIN lots |-> SweptLot(lots[g], t)]

\* The amount of the expiry events of a sweep.
SweptAmount(t) == Remaining(lots) - Remaining(Swept(t))

\* Slip: first come first served, whatever expires.
EarlierIssued(a, b) == a.issued < b.issued

\* ORDER BY expires_at NULLS LAST, issued_at; ids, the last criterion, are random.
Earlier(a, b) ==
    \/ a.expires # Never /\ (b.expires = Never \/ a.expires < b.expires)
    \/ a.expires = b.expires /\ a.issued < b.issued

\* The loops "take min(remaining, what this lot has), go on with the next lot"
\* over lots in the order above: how much each may end up giving.
Greedy(cap, amount) ==
    {take \in [DOMAIN cap -> UNION {0..cap[g] : g \in DOMAIN cap}] :
        /\ \A g \in DOMAIN cap : take[g] <= cap[g]
        /\ Sum(take) = Lesser(amount, Sum(cap))
        /\ \A g, h \in DOMAIN cap : g # h =>
              \/ take[g] = 0
              \/ take[h] = cap[h]
              \/ ~Earlier(lots[h], lots[g]) /\ (take[h] = 0 \/ take[g] = cap[g])}

-----------------------------------------------------------------------------
(* Operations. *)

Expire(stamp) ==
    /\ lots' = Swept(stamp)
    /\ book' = book - SweptAmount(stamp)
    /\ UNCHANGED <<clock, debt, holds, refunds>>

\* A new lot pays debt before it is usable.
NewLot(origin, quantity, paid, stamp, expires) ==
    [origin |-> origin, quantity |-> quantity, remaining |-> quantity - paid, expired |-> 0,
     offset |-> paid, issued |-> stamp, expires |-> expires]

\* grant_credits and the grant of fulfill_purchase_quote.  A repeated source
\* returns its lot, after the sweep: that is Expire.
Grant(s, stamp, expires) ==
    /\ <<s>> \notin DOMAIN lots
    /\ \E paid \in 0..Quantity[s] :
        /\ paid = Lesser(debt, Quantity[s])
        /\ debt' = debt - paid
        /\ lots' = [g \in DOMAIN lots \cup {<<s>>} |->
                       IF g = <<s>> THEN NewLot(s, Quantity[s], paid, stamp, expires)
                       ELSE SweptLot(lots[g], stamp)]
    /\ book' = book - SweptAmount(stamp) + Quantity[s]
    /\ UNCHANGED <<clock, holds, refunds>>

Available(stamp) == Greater(0, Remaining(Swept(stamp)) - debt)

\* What the lots that may fund a reservation hold.
Usable(stamp) ==
    [g \in {h \in DOMAIN lots : lots[h].remaining > 0 /\ ~Lapsed(lots[h], stamp)} |->
        lots[g].remaining]

\* reserve_credits; a repeated request returns its reservation unchanged.
Reserve(r, stamp) ==
    /\ holds[r].state = "none"
    /\ Price[r] <= Available(stamp)
    /\ \E take \in Greedy(Usable(stamp), Price[r]) :
        /\ lots' = [g \in DOMAIN lots |->
                       IF g \in DOMAIN take
                       THEN [SweptLot(lots[g], stamp) EXCEPT !.remaining = @ - take[g]]
                       ELSE SweptLot(lots[g], stamp)]
        /\ LET taken == [g \in {h \in DOMAIN take : take[h] > 0} |-> take[g]]
           IN  holds' = [holds EXCEPT ![r] =
                            Hold("reserved", taken, [g \in DOMAIN taken |-> 0], stamp)]
    /\ book' = book - SweptAmount(stamp) - Price[r]
    /\ UNCHANGED <<clock, debt, refunds>>

Settleable(r) == holds[r].state = "reserved"

\* Slip: whatever was committed, everything is given back.
UnusedAll(r, used) == holds[r].taken

\* What a settlement releases, lot by lot.
Unused(r, used) ==
    [g \in {h \in DOMAIN used : used[h] < holds[r].taken[h]} |-> holds[r].taken[g] - used[g]]

RestoredUntil(lot, stamp) ==
    IF lot.expires = Never THEN Never ELSE Greater(lot.expires, stamp + Restoration)

\* Slip: restored credits leave the debt alone.
DebtPaymentsNone(released) == {[g \in DOMAIN released |-> 0]}

\* How the restored lots, created one by one, pay debt.
DebtPayments(released) == Greedy(released, debt)

\* settle_reservation; a repeated settlement changes nothing, or is an error
\* when its outcome differs.
Settle(r, stamp, committed) ==
    /\ Settleable(r)
    /\ \E used \in Greedy(holds[r].taken, committed) :
       LET released == Unused(r, used)
           restored == {<<g, r>> : g \in DOMAIN released}
       IN \E paid \in DebtPayments(released) :
            /\ lots' = [g \in DOMAIN lots \cup restored |->
                           IF g \in restored
                           THEN NewLot(lots[g[1]].origin, released[g[1]], paid[g[1]], stamp,
                                       RestoredUntil(lots[g[1]], stamp))
                           ELSE SweptLot(lots[g], stamp)]
            /\ debt' = debt - Sum(paid)
            /\ holds' = [holds EXCEPT ![r] = Hold("settled", @.taken, used, @.created)]
            /\ book' = book - SweptAmount(stamp) + Sum(released)
    /\ UNCHANGED <<clock, refunds>>

\* Slips: earlier refunds of the origin are forgotten; expiry absorbs nothing.
AbsorbedAfresh(s, stamp, rest) == Lesser(rest, Expired(Swept(stamp), s))

\* Credits of the origin that expired unused and no earlier refund counted.
Absorbed(s, stamp, rest) ==
    Lesser(rest, Greater(0, Expired(Swept(stamp), s) - refunds[s].absorbed))

\* Slip: the event debits what an expiry event has debited already.
RevokedAmountFull(delta, absorbed) == delta

RevokedAmount(delta, absorbed) == delta - absorbed

\* revoke_origin: raise the cumulative refund of an origin to target.  With
\* nothing to add it only sweeps: that is Expire.
Revoke(s, stamp, target) ==
    /\ <<s>> \in DOMAIN lots
    /\ target > refunds[s].target
    /\ LET delta == target - refunds[s].target
       IN \E removed \in Greedy([g \in Family(s) |-> SweptLot(lots[g], stamp).remaining], delta) :
          LET rest == delta - Sum(removed)
              absorbed == Absorbed(s, stamp, rest)
          IN /\ lots' = [g \in DOMAIN lots |->
                            IF g \in Family(s)
                            THEN [SweptLot(lots[g], stamp) EXCEPT !.remaining = @ - removed[g]]
                            ELSE SweptLot(lots[g], stamp)]
             /\ debt' = debt + (rest - absorbed)
             /\ refunds' = [refunds EXCEPT ![s] =
                   [target |-> target, removed |-> @.removed + Sum(removed),
                    absorbed |-> @.absorbed + absorbed, owed |-> @.owed + (rest - absorbed)]]
             /\ book' = book - SweptAmount(stamp) - RevokedAmount(delta, absorbed)
    /\ UNCHANGED <<clock, holds>>

Tick ==
    /\ clock < Horizon
    /\ clock' = clock + 1
    /\ UNCHANGED <<lots, debt, holds, refunds, book>>

Next ==
    \/ Tick
    \/ \E stamp \in Stamps :
        \/ Expire(stamp)
        \/ \E s \in Sources, expires \in {Never, stamp + Pass} : Grant(s, stamp, expires)
        \/ \E r \in Reservations : Reserve(r, stamp)
        \/ \E r \in Reservations : \E committed \in 0..Price[r] : Settle(r, stamp, committed)
        \/ \E s \in Sources : \E target \in 1..Quantity[s] : Revoke(s, stamp, target)

Spec == Init /\ [][Next]_vars
-----------------------------------------------------------------------------
(* Properties. *)

HoldOK(hold) ==
    /\ hold.state \in {"none", "reserved", "settled"} /\ hold.created \in Nat
    /\ DOMAIN hold.taken \subseteq DOMAIN lots
    /\ hold.taken \in [DOMAIN hold.taken -> Nat \ {0}]
    /\ hold.used \in [DOMAIN hold.taken -> Nat]
    /\ \A g \in DOMAIN hold.taken : hold.used[g] <= hold.taken[g]

\* The row constraints of models.py: a lot never has or loses more than it
\* granted, a reservation takes and uses what its lots gave.
TypeOK ==
    /\ clock \in Nat
    /\ lots \in [DOMAIN lots -> Lot]
    /\ \A g \in DOMAIN lots : lots[g].remaining + lots[g].expired <= lots[g].quantity
    /\ DOMAIN holds = Reservations
    /\ \A r \in Reservations : HoldOK(holds[r])

\* The event journal reconstructs the balance: the amounts of all events add up
\* to what _balance reads from the lots and the debt.
LedgerReconciles == book = Remaining(lots) - debt

\* What the lots of an origin still have, lost to expiry or paid as debt.
Kept(s) == Sum([g \in Family(s) |-> lots[g].remaining + lots[g].expired + lots[g].offset])

\* What a reservation keeps from lots: all it took while open, then what it used.
Booked(r) == IF holds[r].state = "reserved" THEN holds[r].taken ELSE holds[r].used
InHold(r, s) == Sum([g \in DOMAIN Booked(r) \cap Family(s) |-> Booked(r)[g]])
InHolds(s) == Sum([r \in Reservations |-> InHold(r, s)])

\* No credit of a purchase is lost or made twice: what was granted is still in a
\* lot, expired, paid debt, was refunded, or sits in a reservation.
OriginConserved ==
    \A s \in {q \in Sources : <<q>> \in DOMAIN lots} :
        Quantity[s] = Kept(s) + InHolds(s) + refunds[s].removed

\* Debt is exactly what refunds could not take back minus what later lots paid
\* for; each refund is split into removed, absorbed and owed credits, and expiry
\* absorbs no more than expired.
DebtExplained ==
    /\ debt \in Nat
    /\ debt = Sum([s \in Sources |-> refunds[s].owed]) - Sum([g \in DOMAIN lots |-> lots[g].offset])
    /\ \A s \in Sources :
        /\ refunds[s].target = refunds[s].removed + refunds[s].absorbed + refunds[s].owed
        /\ refunds[s].absorbed <= Expired(lots, s)

\* "Spent or reserved refunded credits become debt", nothing else: a refund
\* that creates debt has emptied every lot of the purchase and counted every
\* credit of it that expired unused.  And it is paid first: a new or restored lot
\* is usable only once no debt is left, also when one settlement restores several.
DebtComesLastGoesFirst ==
    [][/\ \A s \in Sources : refunds'[s].owed > refunds[s].owed =>
             /\ \A g \in Family(s) : lots'[g].remaining = 0
             /\ refunds'[s].absorbed = Expired(lots', s)
       /\ \A g \in DOMAIN lots' \ DOMAIN lots : lots'[g].remaining > 0 => debt' = 0]_vars

\* A reservation spends the credits that expire first: it leaves nothing in a
\* lot that expires before one it takes from.
SoonestExpiryFirst ==
    [][\A r \in Reservations : holds[r].state = "none" =>
          \A g \in DOMAIN holds'[r].taken, h \in DOMAIN lots :
              /\ lots[h].expires # Never
              /\ lots[g].expires = Never \/ lots[h].expires < lots[g].expires
              => lots'[h].remaining = 0]_vars

\* No expired credit ever funds work, whatever stamps operations carry.
FundedByLiveLots ==
    \A r \in Reservations : \A g \in DOMAIN holds[r].taken :
        lots[g].expires = Never \/ lots[g].expires > holds[r].created

\* The outcome of a settled reservation never changes, and what a reservation
\* took from its lots does not either.
OutcomeIsFinal ==
    [][\A r \in Reservations :
          /\ holds[r].state = "settled" => holds'[r] = holds[r]
          /\ holds[r].state = "reserved" =>
                holds'[r].state # "none" /\ holds'[r].taken = holds[r].taken]_vars

Drains(old, new) ==
    /\ new.remaining <= old.remaining /\ new.expired >= old.expired
    /\ new.origin = old.origin /\ new.quantity = old.quantity /\ new.offset = old.offset
    /\ new.issued = old.issued /\ new.expires = old.expires

\* A lot never regains credits: releases and refunds make new lots or debt, the
\* terms of a lot stay, and what expired stays expired.
LotsOnlyDrain ==
    [][\A g \in DOMAIN lots : g \in DOMAIN lots' /\ Drains(lots[g], lots'[g])]_vars
=============================================================================
