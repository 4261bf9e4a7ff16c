------------------------- MODULE CreditLedgerProofs -------------------------
(* What holds of the credit ledger for every finite set of sources and
   reservations, every price and every clock: first of single lots and single
   reservations, then of the sums that make its books balance. *)
EXTENDS CreditLedger, FiniteSetTheorems, TLAPS

\* A restored lot belongs to a settled reservation, so that settling an open
\* reservation creates lots and overwrites none.
RestoredAreSettled ==
    \A g \in DOMAIN lots : \A r \in Reservations :
        g = <<g[1], r>> => holds[r].state = "settled"

IInv == TypeOK /\ RestoredAreSettled /\ FundedByLiveLots

\* What every step does to the lots.
LotOK(lot) == lot \in Lot /\ lot.remaining + lot.expired <= lot.quantity

LotsStep ==
    /\ lots' \in [DOMAIN lots' -> Lot]
    /\ \A g \in DOMAIN lots' : LotOK(lots'[g])
    /\ \A g \in DOMAIN lots : g \in DOMAIN lots' /\ Drains(lots[g], lots'[g])

-----------------------------------------------------------------------------
(* Helpers. *)

\* What the greedy loops take from a lot is there.
LEMMA GreedyTakes ==
    ASSUME NEW D, NEW cap \in [D -> Nat], NEW amount, NEW take \in Greedy(cap, amount)
    PROVE  take \in [D -> Nat] /\ \A g \in D : take[g] <= cap[g]
<1>1. DOMAIN cap = D
  OBVIOUS
<1>2. take \in [D -> UNION {0..cap[g] : g \in D}] /\ \A g \in D : take[g] <= cap[g]
  BY <1>1 DEF Greedy
<1>3. ASSUME NEW g \in D PROVE take[g] \in Nat
  <2>1. PICK h \in D : take[g] \in 0..cap[h]
    BY <1>2
  <2> QED BY <2>1
<1> QED BY <1>2, <1>3

\* The sweep keeps a lot well formed and only drains it.
LEMMA SweepDrains ==
    ASSUME NEW lot, LotOK(lot), NEW t
    PROVE  LotOK(SweptLot(lot, t)) /\ Drains(lot, SweptLot(lot, t))
<1> DEFINE cleared == [lot EXCEPT !.remaining = 0]
           expired == [cleared EXCEPT !.expired = @ + lot.remaining]
<1>1. LotOK(expired) /\ Drains(lot, expired)
  <2>1. lot.remaining \in Nat /\ lot.expired \in Nat /\ lot.quantity \in Nat
    BY DEF LotOK, Lot
  <2>2. cleared \in Lot /\ cleared.remaining = 0 /\ cleared.expired = lot.expired
        /\ cleared.quantity = lot.quantity /\ cleared.origin = lot.origin
        /\ cleared.offset = lot.offset /\ cleared.issued = lot.issued
        /\ cleared.expires = lot.expires
    BY DEF LotOK, Lot
  <2> HIDE DEF cleared
  <2>3. expired \in Lot /\ expired.remaining = 0 /\ expired.expired = lot.expired + lot.remaining
        /\ expired.quantity = lot.quantity /\ expired.origin = lot.origin
        /\ expired.offset = lot.offset /\ expired.issued = lot.issued
        /\ expired.expires = lot.expires
    BY <2>1, <2>2 DEF Lot
  <2> HIDE DEF expired
  <2> QED BY <2>1, <2>3 DEF LotOK, Drains
<1>2. LotOK(lot) /\ Drains(lot, lot)
  BY DEF LotOK, Lot, Drains
<1>3. SweptLot(lot, t) \in {expired, lot}
  BY DEF SweptLot
<1> HIDE DEF expired
<1> QED BY <1>1, <1>2, <1>3

\* So does taking credits it still has.
LEMMA TakingDrains ==
    ASSUME NEW old, LotOK(old), NEW lot, LotOK(lot), Drains(old, lot),
           NEW n \in Nat, n <= lot.remaining
    PROVE  LotOK([lot EXCEPT !.remaining = @ - n]) /\ Drains(old, [lot EXCEPT !.remaining = @ - n])
BY DEF LotOK, Lot, Drains

\* A new lot is well formed when it pays no more debt than it has.
LEMMA NewLotOK ==
    ASSUME NEW s \in Sources, NEW q \in Nat, NEW paid \in Nat, paid <= q,
           NEW t \in Nat, NEW e \in Nat \cup {Never}
    PROVE  LotOK(NewLot(s, q, paid, t, e))
BY DEF LotOK, Lot, NewLot

-----------------------------------------------------------------------------
(* Steps. *)

\* The lots after a sweep, from which some give credits.
LEMMA SweepAndTake ==
    ASSUME TypeOK, NEW stamp, NEW D \in SUBSET DOMAIN lots, NEW take \in [D -> Nat],
           \A g \in D : take[g] <= SweptLot(lots[g], stamp).remaining,
           NEW g \in DOMAIN lots,
           NEW new, new = IF g \in D THEN [SweptLot(lots[g], stamp) EXCEPT !.remaining = @ - take[g]]
                          ELSE SweptLot(lots[g], stamp)
    PROVE  LotOK(new) /\ Drains(lots[g], new)
<1>1. LotOK(lots[g])
  BY DEF TypeOK, LotOK
<1>2. LotOK(SweptLot(lots[g], stamp)) /\ Drains(lots[g], SweptLot(lots[g], stamp))
  BY <1>1, SweepDrains
<1> HIDE DEF LotOK, Drains
<1>3. CASE g \in D
  BY <1>1, <1>2, <1>3, TakingDrains
<1>4. CASE g \notin D
  BY <1>2, <1>4
<1> QED BY <1>3, <1>4

Funded(r) ==
    \A g \in DOMAIN holds[r].taken :
        lots[g].expires = Never \/ lots[g].expires > holds[r].created

\* What is left to show of a step once its effect on the lots is known: the
\* reservations it writes are in order, and the lots it adds are named rightly.
LEMMA Preserved ==
    ASSUME IInv, LotsStep, clock' \in Nat, DOMAIN holds' = Reservations,
           \A r \in Reservations :
               \/ holds'[r] = holds[r]
               \/ HoldOK(holds[r])' /\ Funded(r)' /\ holds[r].state # "settled",
           \A g \in DOMAIN lots' \ DOMAIN lots : \A r \in Reservations :
               g = <<g[1], r>> => holds'[r].state = "settled"
    PROVE  IInv'
<1>1. TypeOK'
  <2>1. \A g \in DOMAIN lots' : lots'[g].remaining + lots'[g].expired <= lots'[g].quantity
    BY DEF LotsStep, LotOK
  <2>2. ASSUME NEW r \in Reservations, holds'[r] = holds[r] PROVE HoldOK(holds[r])'
    BY <2>2 DEF IInv, TypeOK, HoldOK, LotsStep
  <2> QED BY <2>1, <2>2 DEF TypeOK, LotsStep
<1>2. RestoredAreSettled'
  BY DEF IInv, RestoredAreSettled
<1>3. FundedByLiveLots'
  <2>1. ASSUME NEW r \in Reservations, holds'[r] = holds[r] PROVE Funded(r)'
    <3>1. DOMAIN holds[r].taken \subseteq DOMAIN lots
      BY DEF IInv, TypeOK, HoldOK
    <3>2. \A g \in DOMAIN holds[r].taken : lots'[g].expires = lots[g].expires
      BY <3>1 DEF LotsStep, Drains
    <3> QED BY <2>1, <3>2 DEF IInv, FundedByLiveLots, Funded
  <2>2. \A r \in Reservations : Funded(r)'
    BY <2>1
  <2> QED BY <2>2 DEF FundedByLiveLots, Funded
<1> QED BY <1>1, <1>2, <1>3 DEF IInv

\* The lots after a step that adds none: swept, and some give credits.
LEMMA NoNewLots ==
    ASSUME TypeOK, NEW stamp, NEW D \in SUBSET DOMAIN lots, NEW take \in [D -> Nat],
           \A g \in D : take[g] <= SweptLot(lots[g], stamp).remaining,
           lots' = [g \in DOMAIN lots |->
                       IF g \in D THEN [SweptLot(lots[g], stamp) EXCEPT !.remaining = @ - take[g]]
                       ELSE SweptLot(lots[g], stamp)]
    PROVE  LotsStep /\ DOMAIN lots' = DOMAIN lots
<1>1. ASSUME NEW g \in DOMAIN lots PROVE LotOK(lots'[g]) /\ Drains(lots[g], lots'[g])
  BY SweepAndTake
<1> QED BY <1>1 DEF LotsStep, LotOK

LEMMA ExpireStep ==
    ASSUME IInv, NEW stamp, Expire(stamp)
    PROVE  IInv' /\ LotsStep
<1>1. lots' = [g \in DOMAIN lots |->
                  IF g \in {} THEN [SweptLot(lots[g], stamp) EXCEPT !.remaining = @ - << >>[g]]
                  ELSE SweptLot(lots[g], stamp)]
  BY DEF Expire, Swept
<1>2. << >> \in [{} -> Nat]
  OBVIOUS
<1>3. LotsStep /\ DOMAIN lots' = DOMAIN lots
  BY <1>1, <1>2, NoNewLots DEF IInv
<1> QED BY <1>3, Preserved DEF Expire, IInv, TypeOK

LEMMA GrantStep ==
    ASSUME IInv, NEW stamp \in Nat, NEW s \in Sources, NEW e \in Nat \cup {Never},
           Grant(s, stamp, e)
    PROVE  IInv' /\ LotsStep
<1>1. PICK paid \in 0..Quantity[s] :
        lots' = [g \in DOMAIN lots \cup {<<s>>} |->
                    IF g = <<s>> THEN NewLot(s, Quantity[s], paid, stamp, e)
                    ELSE SweptLot(lots[g], stamp)]
  BY DEF Grant
<1>2. Quantity[s] \in Nat /\ paid \in Nat /\ paid <= Quantity[s]
  BY ConstantsOK
<1>3. LotOK(lots'[<<s>>])
  <2>1. LotOK(NewLot(s, Quantity[s], paid, stamp, e))
    BY <1>2, NewLotOK
  <2> QED BY <1>1, <2>1
<1>4. ASSUME NEW g \in DOMAIN lots PROVE LotOK(lots'[g]) /\ Drains(lots[g], lots'[g])
  <2>1. lots'[g] = SweptLot(lots[g], stamp) /\ LotOK(lots[g])
    BY <1>1 DEF Grant, IInv, TypeOK, LotOK
  <2> QED BY <2>1, SweepDrains
<1>5. LotsStep
  BY <1>1, <1>3, <1>4 DEF LotsStep, LotOK
<1>6. \A g \in DOMAIN lots' \ DOMAIN lots : \A r : g # <<g[1], r>>
  BY <1>1
<1> QED BY <1>5, <1>6, Preserved DEF Grant, IInv, TypeOK

LEMMA ReserveStep ==
    ASSUME IInv, NEW stamp \in Nat, NEW r \in Reservations, Reserve(r, stamp)
    PROVE  IInv' /\ LotsStep
<1> DEFINE D == {h \in DOMAIN lots : lots[h].remaining > 0 /\ ~Lapsed(lots[h], stamp)}
<1>1. Usable(stamp) \in [D -> Nat] /\ \A g \in D : Usable(stamp)[g] = lots[g].remaining
  BY DEF Usable, IInv, TypeOK, Lot
<1>2. PICK take \in Greedy(Usable(stamp), Price[r]) :
        /\ lots' = [g \in DOMAIN lots |->
                       IF g \in DOMAIN take
                       THEN [SweptLot(lots[g], stamp) EXCEPT !.remaining = @ - take[g]]
                       ELSE SweptLot(lots[g], stamp)]
        /\ LET taken == [g \in {h \in DOMAIN take : take[h] > 0} |-> take[g]]
           IN  holds' = [holds EXCEPT ![r] =
                            Hold("reserved", taken, [g \in DOMAIN taken |-> 0], stamp)]
  BY DEF Reserve
<1>3. take \in [D -> Nat] /\ \A g \in D : take[g] <= lots[g].remaining
  <2> HIDE DEF D
  <2> QED BY <1>1, GreedyTakes
<1> DEFINE taken == [g \in {h \in D : take[h] > 0} |-> take[g]]
<1>4. holds' = [holds EXCEPT ![r] = Hold("reserved", taken, [g \in DOMAIN taken |-> 0], stamp)]
  BY <1>2, <1>3
<1>5. LotsStep /\ DOMAIN lots' = DOMAIN lots
  <2>1. \A g \in D : take[g] <= SweptLot(lots[g], stamp).remaining
    BY <1>3 DEF SweptLot
  <2>2. D \in SUBSET DOMAIN lots /\ DOMAIN take = D
    BY <1>3
  <2> HIDE DEF D
  <2> QED BY <1>2, <1>3, <2>1, <2>2, NoNewLots DEF IInv
<1>6. HoldOK(holds[r])'
  <2>1. holds'[r] = Hold("reserved", taken, [g \in DOMAIN taken |-> 0], stamp)
    BY <1>4 DEF IInv, TypeOK
  <2>2. DOMAIN taken \subseteq DOMAIN lots' /\ taken \in [DOMAIN taken -> Nat \ {0}]
    BY <1>3, <1>5
  <2>3. \A g \in DOMAIN taken : 0 <= taken[g]
    BY <2>2
  <2> HIDE DEF taken
  <2> QED BY <2>1, <2>2, <2>3 DEF HoldOK, Hold
<1>7. Funded(r)'
  <2>1. holds'[r].taken = taken /\ holds'[r].created = stamp
    BY <1>4 DEF IInv, TypeOK, Hold
  <2>2. ASSUME NEW g \in DOMAIN taken
        PROVE  lots'[g].expires = Never \/ lots'[g].expires > stamp
    <3>1. g \in DOMAIN lots /\ ~Lapsed(lots[g], stamp)
      BY <2>2
    <3>2. lots'[g].expires = lots[g].expires /\ lots[g].expires \in Nat \cup {Never}
      BY <1>5, <3>1 DEF LotsStep, Drains, IInv, TypeOK, Lot
    <3> QED BY <3>1, <3>2 DEF Lapsed
  <2> QED BY <2>1, <2>2 DEF Funded
<1>8. holds[r].state # "settled" /\ DOMAIN holds' = Reservations /\ clock' \in Nat
      /\ \A q \in Reservations : q # r => holds'[q] = holds[q]
  BY <1>4 DEF Reserve, IInv, TypeOK
<1> QED BY <1>5, <1>6, <1>7, <1>8, Preserved

LEMMA RevokeStep ==
    ASSUME IInv, NEW stamp \in Nat, NEW s \in Sources, NEW target \in Nat,
           Revoke(s, stamp, target)
    PROVE  IInv' /\ LotsStep
<1> DEFINE cap == [g \in Family(s) |-> SweptLot(lots[g], stamp).remaining]
<1>1. PICK removed \in Greedy(cap, target - refunds[s].target) :
        lots' = [g \in DOMAIN lots |->
                    IF g \in Family(s)
                    THEN [SweptLot(lots[g], stamp) EXCEPT !.remaining = @ - removed[g]]
                    ELSE SweptLot(lots[g], stamp)]
  BY DEF Revoke
<1>2. Family(s) \in SUBSET DOMAIN lots
  BY DEF Family
<1>3. cap \in [Family(s) -> Nat]
  <2>1. ASSUME NEW g \in DOMAIN lots PROVE SweptLot(lots[g], stamp).remaining \in Nat
    <3>1. LotOK(lots[g])
      BY DEF IInv, TypeOK, LotOK
    <3> QED BY <3>1, SweepDrains DEF LotOK, Lot
  <2> QED BY <1>2, <2>1
<1>4. removed \in [Family(s) -> Nat]
      /\ \A g \in Family(s) : removed[g] <= SweptLot(lots[g], stamp).remaining
  BY <1>3, GreedyTakes
<1>5. LotsStep /\ DOMAIN lots' = DOMAIN lots
  BY <1>1, <1>2, <1>4, NoNewLots DEF IInv
<1> QED BY <1>5, Preserved DEF Revoke, IInv, TypeOK

LEMMA SettleStep ==
    ASSUME IInv, NEW stamp \in Nat, NEW r \in Reservations, NEW committed,
           Settle(r, stamp, committed)
    PROVE  IInv' /\ LotsStep
<1> DEFINE taken == holds[r].taken
           D == DOMAIN taken
<1>1. taken \in [D -> Nat \ {0}] /\ D \subseteq DOMAIN lots
  BY DEF IInv, TypeOK, HoldOK
<1>2. PICK used \in Greedy(taken, committed) :
        \E paid \in DebtPayments(Unused(r, used)) :
          /\ lots' = [g \in DOMAIN lots \cup {<<h, r>> : h \in DOMAIN Unused(r, used)} |->
                         IF g \in {<<h, r>> : h \in DOMAIN Unused(r, used)}
                         THEN NewLot(lots[g[1]].origin, Unused(r, used)[g[1]], paid[g[1]], stamp,
                                     RestoredUntil(lots[g[1]], stamp))
                         ELSE SweptLot(lots[g], stamp)]
          /\ holds' = [holds EXCEPT ![r] = Hold("settled", @.taken, used, @.created)]
  BY DEF Settle
<1>3. used \in [D -> Nat] /\ \A g \in D : used[g] <= taken[g]
  <2>1. taken \in [D -> Nat]
    BY <1>1
  <2> HIDE DEF taken, D
  <2> QED BY <2>1, GreedyTakes
<1> DEFINE released == Unused(r, used)
           E == {h \in D : used[h] < taken[h]}
           restored == {<<h, r>> : h \in E}
<1>4. E \subseteq D /\ released \in [E -> Nat] /\ DOMAIN released = E
  BY <1>1, <1>3 DEF Unused
<1>5. PICK paid \in Greedy(released, debt) :
        lots' = [g \in DOMAIN lots \cup restored |->
                    IF g \in restored
                    THEN NewLot(lots[g[1]].origin, released[g[1]], paid[g[1]], stamp,
                                RestoredUntil(lots[g[1]], stamp))
                    ELSE SweptLot(lots[g], stamp)]
  BY <1>2, <1>4 DEF DebtPayments
<1>6. holds' = [holds EXCEPT ![r] = Hold("settled", taken, used, holds[r].created)]
  BY <1>2
<1>7. paid \in [E -> Nat] /\ \A g \in E : paid[g] <= released[g]
  <2> HIDE DEF released, E
  <2> QED BY <1>4, <1>5, GreedyTakes
<1> HIDE DEF released, E, taken, D
<1>8. holds[r].state = "reserved"
  BY DEF Settle, Settleable
<1>9. restored \cap DOMAIN lots = {}
  BY <1>8 DEF IInv, RestoredAreSettled
<1>10. ASSUME NEW h \in E PROVE LotOK(lots'[<<h, r>>])
  <2>1. lots'[<<h, r>>] = NewLot(lots[h].origin, released[h], paid[h], stamp,
                                 RestoredUntil(lots[h], stamp))
    BY <1>5
  <2>2. lots[h] \in Lot
    BY <1>1, <1>4 DEF IInv, TypeOK
  <2>3. RestoredUntil(lots[h], stamp) \in Nat \cup {Never}
    BY <2>2, ConstantsOK DEF RestoredUntil, Greater, Lot
  <2>4. lots[h].origin \in Sources
    BY <2>2 DEF Lot
  <2>5. released[h] \in Nat /\ paid[h] \in Nat /\ paid[h] <= released[h]
    BY <1>4, <1>7
  <2> QED BY <2>1, <2>3, <2>4, <2>5, NewLotOK
<1>11. ASSUME NEW g \in DOMAIN lots PROVE LotOK(lots'[g]) /\ Drains(lots[g], lots'[g])
  <2>1. lots'[g] = SweptLot(lots[g], stamp) /\ LotOK(lots[g])
    BY <1>5, <1>9 DEF IInv, TypeOK, LotOK
  <2> QED BY <2>1, SweepDrains
<1>12. DOMAIN lots' = DOMAIN lots \cup restored
  BY <1>5
<1>13. LotsStep
  <2>1. \A g \in DOMAIN lots' : LotOK(lots'[g])
    BY <1>10, <1>11, <1>12
  <2>2. lots' \in [DOMAIN lots' -> Lot]
    BY <1>5, <2>1 DEF LotOK
  <2> QED BY <1>11, <1>12, <2>1, <2>2 DEF LotsStep
<1>14. holds'[r] = Hold("settled", taken, used, holds[r].created)
       /\ DOMAIN holds' = Reservations
       /\ \A q \in Reservations : q # r => holds'[q] = holds[q]
  BY <1>6 DEF IInv, TypeOK
<1>15. HoldOK(holds[r])'
  <2>1. holds[r].created \in Nat
    BY DEF IInv, TypeOK, HoldOK
  <2> QED BY <1>1, <1>3, <1>12, <1>14, <2>1 DEF HoldOK, Hold, D
<1>16. Funded(r)'
  <2>1. holds'[r].taken = taken /\ holds'[r].created = holds[r].created
    BY <1>14 DEF Hold
  <2>2. ASSUME NEW g \in D PROVE lots'[g].expires = lots[g].expires
    BY <1>1, <1>11 DEF Drains
  <2>3. \A g \in D : lots[g].expires = Never \/ lots[g].expires > holds[r].created
    BY DEF IInv, FundedByLiveLots, taken, D
  <2> QED BY <2>1, <2>2, <2>3 DEF Funded, D
<1>17. \A g \in DOMAIN lots' \ DOMAIN lots : \A q \in Reservations :
         g = <<g[1], q>> => holds'[q].state = "settled"
  BY <1>12, <1>14 DEF Hold
<1>18. clock' \in Nat
  BY DEF Settle, IInv, TypeOK
<1> QED BY <1>8, <1>13, <1>14, <1>15, <1>16, <1>17, <1>18, Preserved

-----------------------------------------------------------------------------
(* The specification. *)

LEMMA StampsAreNat == ASSUME clock \in Nat, NEW t \in Stamps PROVE t \in Nat
BY DEF Stamps

LEMMA NextStep ==
    ASSUME IInv, [Next]_vars
    PROVE  IInv' /\ \A g \in DOMAIN lots : g \in DOMAIN lots' /\ Drains(lots[g], lots'[g])
<1>1. \A g \in DOMAIN lots : Drains(lots[g], lots[g])
  BY DEF IInv, TypeOK, Lot, Drains
<1>2. CASE UNCHANGED <<lots, holds>> /\ clock' \in Nat
  BY <1>1, <1>2 DEF IInv, TypeOK, HoldOK, RestoredAreSettled, FundedByLiveLots
<1>3. CASE UNCHANGED vars
  BY <1>2, <1>3 DEF vars, IInv, TypeOK
<1>4. CASE Tick
  BY <1>2, <1>4 DEF Tick, IInv, TypeOK
<1>5. ASSUME NEW stamp \in Stamps, Expire(stamp) PROVE IInv' /\ LotsStep
  BY <1>5, ExpireStep
<1>6. \A t \in Stamps : t \in Nat
  BY StampsAreNat DEF IInv, TypeOK
<1>7. ASSUME NEW stamp \in Stamps, NEW s \in Sources, NEW e \in {Never, stamp + Pass},
             Grant(s, stamp, e)
      PROVE  IInv' /\ LotsStep
  <2>1. e \in Nat \cup {Never}
    BY <1>6, ConstantsOK
  <2> QED BY <1>6, <1>7, <2>1, GrantStep
<1>8. ASSUME NEW stamp \in Stamps, NEW r \in Reservations, Reserve(r, stamp)
      PROVE  IInv' /\ LotsStep
  BY <1>6, <1>8, ReserveStep
<1>9. ASSUME NEW stamp \in Stamps, NEW r \in Reservations, NEW c, Settle(r, stamp, c)
      PROVE  IInv' /\ LotsStep
  BY <1>6, <1>9, SettleStep
<1>10. ASSUME NEW stamp \in Stamps, NEW s \in Sources, NEW target \in 1..Quantity[s],
              Revoke(s, stamp, target)
       PROVE  IInv' /\ LotsStep
  <2>1. target \in Nat
    BY ConstantsOK
  <2> QED BY <1>6, <1>10, <2>1, RevokeStep
<1>11. CASE \E stamp \in Stamps :
        \/ Expire(stamp)
        \/ \E s \in Sources, e \in {Never, stamp + Pass} : Grant(s, stamp, e)
        \/ \E r \in Reservations : Reserve(r, stamp)
        \/ \E r \in Reservations : \E c \in 0..Price[r] : Settle(r, stamp, c)
        \/ \E s \in Sources : \E target \in 1..Quantity[s] : Revoke(s, stamp, target)
  <2>1. IInv' /\ LotsStep
    BY <1>5, <1>7, <1>8, <1>9, <1>10, <1>11
  <2> QED BY <2>1 DEF LotsStep
<1> QED BY <1>3, <1>4, <1>11 DEF Next

\* The inductive invariant.
THEOREM LedgerInvariance == Spec => []IInv
<1>1. Init => IInv
  <2> SUFFICES ASSUME Init PROVE IInv
    OBVIOUS
  <2>1. DOMAIN lots = {} /\ lots \in [{} -> Lot]
    BY DEF Init
  <2>2. DOMAIN holds = Reservations /\ \A r \in Reservations : HoldOK(holds[r])
    <3>1. << >> \in [{} -> Nat \ {0}] /\ << >> \in [{} -> Nat] /\ DOMAIN << >> = {}
      OBVIOUS
    <3>2. HoldOK(NoHold)
      BY <3>1 DEF HoldOK, NoHold, Hold
    <3> QED BY <3>2 DEF Init
  <2>3. FundedByLiveLots
    BY DEF Init, FundedByLiveLots, NoHold, Hold
  <2> QED BY <2>1, <2>2, <2>3 DEF Init, IInv, TypeOK, RestoredAreSettled
<1>2. IInv /\ [Next]_vars => IInv'
  BY NextStep
<1> QED BY <1>1, <1>2, PTL DEF Spec

\* The rows of the ledger satisfy the constraints models.py puts on them, for
\* every set of sources and reservations and every clock.
THEOREM LedgerTypeCorrect == Spec => []TypeOK
<1>1. IInv => TypeOK
  BY DEF IInv
<1> QED BY <1>1, LedgerInvariance, PTL

\* Only lots that are good at the reservation's stamp fund it, in whatever order
\* stamps arrive at the owner's lock.
THEOREM LedgerFundedByLive == Spec => []FundedByLiveLots
<1>1. IInv => FundedByLiveLots
  BY DEF IInv
<1> QED BY <1>1, LedgerInvariance, PTL

\* Lots never regain credits or change their terms.
THEOREM LedgerOnlyDrains == Spec => LotsOnlyDrain
<1>1. IInv /\ [Next]_vars
      => [\A g \in DOMAIN lots : g \in DOMAIN lots' /\ Drains(lots[g], lots'[g])]_vars
  BY NextStep
<1> QED BY <1>1, LedgerInvariance, PTL DEF Spec, LotsOnlyDrain

\* What a settled reservation used is final, and what an open one took is kept.
THEOREM LedgerOutcomeFinal == Spec => OutcomeIsFinal
<1> DEFINE Final == \A r \in Reservations :
                       /\ holds[r].state = "settled" => holds'[r] = holds[r]
                       /\ holds[r].state = "reserved" =>
                             holds'[r].state # "none" /\ holds'[r].taken = holds[r].taken
<1>1. ASSUME IInv, [Next]_vars PROVE [Final]_vars
  <2>1. DOMAIN holds = Reservations
    BY <1>1 DEF IInv, TypeOK
  <2>2. ASSUME NEW r \in Reservations, NEW t, Reserve(r, t) PROVE Final
    BY <2>1, <2>2 DEF Reserve, Hold
  <2>3. ASSUME NEW r \in Reservations, NEW t, NEW c, Settle(r, t, c) PROVE Final
    BY <2>1, <2>3 DEF Settle, Settleable, Hold
  <2>4. CASE holds' = holds
    BY <2>4
  <2>5. CASE UNCHANGED vars
    BY <2>5
  <2>6. CASE Next
    <3>1. ASSUME NEW t, Expire(t) PROVE holds' = holds
      BY <3>1 DEF Expire
    <3>2. ASSUME NEW t, NEW s, NEW e, Grant(s, t, e) PROVE holds' = holds
      BY <3>2 DEF Grant
    <3>3. ASSUME NEW t, NEW s, NEW n, Revoke(s, t, n) PROVE holds' = holds
      BY <3>3 DEF Revoke
    <3>4. CASE Tick
      BY <2>4, <3>4 DEF Tick
    <3> HIDE DEF Final
    <3> QED BY <2>2, <2>3, <2>4, <2>6, <3>1, <3>2, <3>3, <3>4 DEF Next
  <2> QED BY <1>1, <2>5, <2>6
<1> QED BY <1>1, LedgerInvariance, PTL DEF Spec, OutcomeIsFinal

\* Without a reservation nothing is taken.
NothingTaken == \A r \in Reservations : holds[r].state = "none" => DOMAIN holds[r].taken = {}

SoonestStep ==
    \A r \in Reservations : holds[r].state = "none" =>
        \A g \in DOMAIN holds'[r].taken, h \in DOMAIN lots :
            /\ lots[h].expires # Never
            /\ lots[g].expires = Never \/ lots[h].expires < lots[g].expires
            => lots'[h].remaining = 0

\* A reservation that leaves something in a lot takes nothing from later ones: the
\* lot may fund it, since it has not lapsed, and the loop empties it first.
LEMMA ReserveSoonest ==
    ASSUME IInv, NothingTaken, NEW stamp \in Nat, NEW r \in Reservations, Reserve(r, stamp)
    PROVE  SoonestStep /\ NothingTaken'
<1> DEFINE D == {h \in DOMAIN lots : lots[h].remaining > 0 /\ ~Lapsed(lots[h], stamp)}
           cap == Usable(stamp)
<1>1. /\ DOMAIN cap = D /\ \A g \in D : cap[g] = lots[g].remaining
      /\ cap \in [D -> Nat]
  BY DEF Usable, IInv, TypeOK, Lot
<1>2. PICK take \in Greedy(cap, Price[r]) :
        /\ lots' = [g \in DOMAIN lots |->
                       IF g \in DOMAIN take
                       THEN [SweptLot(lots[g], stamp) EXCEPT !.remaining = @ - take[g]]
                       ELSE SweptLot(lots[g], stamp)]
        /\ LET taken == [g \in {h \in DOMAIN take : take[h] > 0} |-> take[g]]
           IN  holds' = [holds EXCEPT ![r] =
                            Hold("reserved", taken, [g \in DOMAIN taken |-> 0], stamp)]
  BY DEF Reserve
<1>3. take \in [D -> Nat]
  <2> HIDE DEF D, cap
  <2> QED BY <1>1, GreedyTakes
<1>4. \A g, h \in D : g # h =>
          take[g] = 0 \/ take[h] = cap[h] \/ ~Earlier(lots[h], lots[g])
  <2> HIDE DEF D, cap
  <2> QED BY <1>1, <1>2 DEF Greedy
<1> DEFINE taken == [g \in {h \in D : take[h] > 0} |-> take[g]]
<1>5. /\ holds'[r] = Hold("reserved", taken, [g \in DOMAIN taken |-> 0], stamp)
      /\ \A q \in Reservations \ {r} : holds'[q] = holds[q]
  BY <1>2, <1>3 DEF IInv, TypeOK
<1>6. holds'[r].state = "reserved" /\ DOMAIN holds'[r].taken = {h \in D : take[h] > 0}
  BY <1>5 DEF Hold
<1>7. ASSUME NEW g \in D, take[g] > 0, NEW h \in DOMAIN lots, lots[h].expires # Never,
             lots[g].expires = Never \/ lots[h].expires < lots[g].expires
      PROVE  lots'[h].remaining = 0
  <2>1. LotOK(lots[h]) /\ lots[h].remaining \in Nat /\ lots[h].expires \in Nat
        /\ lots[g].expires \in Nat \cup {Never} /\ take[g] \in Nat
    BY <1>3, <1>7 DEF IInv, TypeOK, LotOK, Lot
  <2>2. CASE h \in D
    <3>1. Earlier(lots[h], lots[g]) /\ g # h
      BY <1>7, <2>1 DEF Earlier
    <3>2. take[h] = lots[h].remaining
      BY <1>1, <1>4, <1>7, <2>1, <2>2, <3>1
    <3>3. lots'[h] = [lots[h] EXCEPT !.remaining = @ - take[h]]
      BY <1>2, <1>3, <2>2 DEF SweptLot
    <3> QED BY <2>1, <3>2, <3>3 DEF LotOK, Lot
  <2>3. CASE h \notin D
    <3>1. lots'[h] = SweptLot(lots[h], stamp)
      BY <1>2, <1>3, <2>3
    <3> QED BY <2>1, <2>3, <3>1 DEF SweptLot, LotOK, Lot
  <2> QED BY <2>2, <2>3
<1>8. SoonestStep
  <2> SUFFICES ASSUME NEW q \in Reservations, holds[q].state = "none",
                      NEW g \in DOMAIN holds'[q].taken, NEW h \in DOMAIN lots,
                      lots[h].expires # Never,
                      lots[g].expires = Never \/ lots[h].expires < lots[g].expires
               PROVE  lots'[h].remaining = 0
    BY DEF SoonestStep
  <2>1. q = r
    BY <1>5 DEF NothingTaken
  <2>2. g \in D /\ take[g] > 0
    BY <1>6, <2>1
  <2> HIDE DEF D
  <2> QED BY <1>7, <2>2
<1>9. NothingTaken'
  BY <1>5, <1>6 DEF NothingTaken
<1> QED BY <1>8, <1>9

\* A step that leaves alone the holds that are, or become, empty.
HoldsKept ==
    \A r \in Reservations :
        holds[r].state = "none" \/ holds'[r].state = "none" => holds'[r] = holds[r]

\* Nothing but a reservation takes credits into a hold.
LEMMA StepSoonest ==
    ASSUME IInv, NothingTaken, [Next]_vars
    PROVE  NothingTaken' /\ SoonestStep
<1>1. CASE HoldsKept
  BY <1>1 DEF HoldsKept, NothingTaken, SoonestStep
<1>2. CASE holds' = holds
  BY <1>1, <1>2 DEF HoldsKept
<1>3. CASE UNCHANGED vars
  BY <1>2, <1>3 DEF vars
<1>4. CASE Tick
  BY <1>2, <1>4 DEF Tick
<1>5. ASSUME NEW stamp, Expire(stamp) PROVE holds' = holds
  BY <1>5 DEF Expire
<1>6. ASSUME NEW stamp, NEW s, NEW e, Grant(s, stamp, e) PROVE holds' = holds
  BY <1>6 DEF Grant
<1>7. ASSUME NEW stamp, NEW s, NEW target, Revoke(s, stamp, target) PROVE holds' = holds
  BY <1>7 DEF Revoke
<1>8. ASSUME NEW stamp \in Stamps, NEW r \in Reservations, Reserve(r, stamp)
      PROVE  NothingTaken' /\ SoonestStep
  <2>1. stamp \in Nat
    BY StampsAreNat DEF IInv, TypeOK
  <2> QED BY <1>8, <2>1, ReserveSoonest
<1>9. ASSUME NEW stamp, NEW r \in Reservations, NEW c, Settle(r, stamp, c) PROVE HoldsKept
  BY <1>9 DEF Settle, Settleable, Hold, HoldsKept, IInv, TypeOK
<1> QED BY <1>1, <1>2, <1>3, <1>4, <1>5, <1>6, <1>7, <1>8, <1>9 DEF Next

\* Credits that expire first are spent first, for any lots, prices and stamps.
THEOREM LedgerSoonestFirst == Spec => SoonestExpiryFirst
<1>1. Init => NothingTaken
  BY DEF Init, NothingTaken, NoHold, Hold
<1>2. IInv /\ NothingTaken /\ [Next]_vars => NothingTaken' /\ [SoonestStep]_vars
  BY StepSoonest
<1>3. SoonestExpiryFirst <=> [][SoonestStep]_vars
  BY PTL DEF SoonestExpiryFirst, SoonestStep
<1> QED BY <1>1, <1>2, <1>3, LedgerInvariance, PTL DEF Spec

-----------------------------------------------------------------------------
(* Sums of numbers, from the theorems on finite sets. *)

LEMMA Disjoint ==
    ASSUME NEW A, NEW B, IsFiniteSet(A), IsFiniteSet(B), A \cap B = {}
    PROVE  /\ IsFiniteSet(A \cup B)
           /\ Cardinality(A \cup B) = Cardinality(A) + Cardinality(B)
<1>1. Cardinality(A \cap B) = 0 /\ Cardinality(A) \in Nat /\ Cardinality(B) \in Nat
  BY FS_EmptySet, FS_CardinalityType
<1>2. IsFiniteSet(A \cup B)
      /\ Cardinality(A \cup B) = Cardinality(A) + Cardinality(B) - Cardinality(A \cap B)
  BY FS_Union
<1> QED BY <1>1, <1>2

LEMMA SameSize ==
    ASSUME NEW A, NEW B, IsFiniteSet(A), NEW m \in [A -> B],
           \A a, c \in A : m[a] = m[c] => a = c,
           \A b \in B : \E a \in A : m[a] = b
    PROVE  IsFiniteSet(B) /\ Cardinality(B) = Cardinality(A)
<1>1. m \in Bijection(A, B)
  BY DEF Bijection, Injection, Surjection, IsInjective
<1> QED BY <1>1, FS_Bijection DEF ExistsBijection

LEMMA UnitsAre ==
    ASSUME NEW f, NEW x, NEW n
    PROVE  <<x, n>> \in Points(f) <=> x \in DOMAIN f /\ n \in 1..f[x]
BY DEF Points

LEMMA UnitsPairs ==
    ASSUME NEW f, NEW u \in Points(f)
    PROVE  /\ u = <<u[1], u[2]>> /\ u[1] \in DOMAIN f /\ u[2] \in 1..f[u[1]]
BY DEF Points

\* A sum over a finite set is a number.
LEMMA SumIsNat ==
    ASSUME NEW D, IsFiniteSet(D), NEW f \in [D -> Nat]
    PROVE  IsFiniteSet(Points(f)) /\ Sum(f) \in Nat
<1> DEFINE part == [x \in D |-> {x} \X (1..f[x])]
           parts == {part[x] : x \in D}
<1>1. IsFiniteSet(parts)
  <2>0. part \in [D -> parts] /\ \A t \in parts : \E x \in D : part[x] = t
    <3> HIDE DEF part
    <3>1. DOMAIN part = D /\ part = [x \in D |-> part[x]]
      BY DEF part
    <3> QED BY <3>1
  <2>1. part \in Surjection(D, parts)
    <3> HIDE DEF parts, part
    <3> QED BY <2>0 DEF Surjection
  <2> QED BY <2>1, FS_Surjection
<1>2. ASSUME NEW x \in D PROVE IsFiniteSet(part[x])
  <2>0. 1 \in Int /\ f[x] \in Int
    OBVIOUS
  <2>1. IsFiniteSet({x}) /\ IsFiniteSet(1..f[x])
    BY <2>0, FS_Singleton, FS_Interval
  <2> QED BY <2>1, FS_Product
<1>3. Points(f) = UNION parts
  BY DEF Points
<1>4. IsFiniteSet(Points(f))
  <2> HIDE DEF part
  <2> QED BY <1>1, <1>2, <1>3, FS_UNION
<1> QED BY <1>4, FS_CardinalityType DEF Sum

LEMMA SumOfNothing == ASSUME NEW f, DOMAIN f = {} PROVE Sum(f) = 0
<1>1. Points(f) = {}
  BY DEF Points
<1> QED BY <1>1, FS_EmptySet DEF Sum

LEMMA SumOfOne == ASSUME NEW x, NEW f \in [{x} -> Nat] PROVE Sum(f) = f[x]
<1>1. Points(f) = {x} \X (1..f[x])
  BY DEF Points
<1>2. IsFiniteSet({x}) /\ Cardinality({x}) = 1
  BY FS_Singleton
<1>3. IsFiniteSet(1..f[x]) /\ Cardinality(1..f[x]) = f[x]
  BY FS_Interval
<1>4. Cardinality({x} \X (1..f[x])) = Cardinality({x}) * Cardinality(1..f[x])
  BY <1>2, <1>3, FS_Product
<1> QED BY <1>1, <1>2, <1>3, <1>4 DEF Sum

\* The sum over two sets that have nothing in common.
LEMMA SumOfUnion ==
    ASSUME NEW A, NEW B, IsFiniteSet(A), IsFiniteSet(B), A \cap B = {},
           NEW D, D = A \cup B, NEW f \in [D -> Nat], NEW g \in [A -> Nat], NEW h \in [B -> Nat],
           \A x \in A : f[x] = g[x], \A x \in B : f[x] = h[x]
    PROVE  Sum(f) = Sum(g) + Sum(h)
<1>1. IsFiniteSet(Points(g)) /\ IsFiniteSet(Points(h))
  BY SumIsNat
<1>2. Points(f) = Points(g) \cup Points(h) /\ Points(g) \cap Points(h) = {}
  BY DEF Points
<1> QED BY <1>1, <1>2, Disjoint DEF Sum

\* The sum of sums.
LEMMA SumOfSums ==
    ASSUME NEW D, IsFiniteSet(D), NEW f \in [D -> Nat], NEW g \in [D -> Nat],
           NEW h \in [D -> Nat], \A x \in D : f[x] = g[x] + h[x]
    PROVE  Sum(f) = Sum(g) + Sum(h)
<1> DEFINE above == {u \in Points(f) : u[2] > g[u[1]]}
           lift == [u \in Points(h) |-> <<u[1], u[2] + g[u[1]]>>]
<1>1. IsFiniteSet(Points(f)) /\ IsFiniteSet(Points(g)) /\ IsFiniteSet(Points(h))
  BY SumIsNat
<1>2. lift \in [Points(h) -> above]
  <2>1. ASSUME NEW u \in Points(h) PROVE <<u[1], u[2] + g[u[1]]>> \in above
    <3>1. u[1] \in D /\ u[2] \in 1..h[u[1]]
      BY UnitsPairs
    <3>2. u[2] + g[u[1]] \in 1..f[u[1]] /\ u[2] + g[u[1]] > g[u[1]]
      BY <3>1
    <3> QED BY <3>1, <3>2, UnitsAre
  <2> QED BY <2>1
<1>3. ASSUME NEW u \in Points(h), NEW v \in Points(h), lift[u] = lift[v] PROVE u = v
  <2>1. /\ u = <<u[1], u[2]>> /\ v = <<v[1], v[2]>> /\ u[1] \in D
        /\ u[2] \in Int /\ v[2] \in Int
    BY UnitsPairs
  <2>2. u[1] = v[1] /\ u[2] + g[u[1]] = v[2] + g[v[1]]
    BY <1>3
  <2>3. g[u[1]] \in Int
    BY <2>1
  <2> QED BY <2>1, <2>2, <2>3
<1>4. ASSUME NEW v \in above PROVE \E u \in Points(h) : lift[u] = v
  <2>1. v = <<v[1], v[2]>> /\ v[1] \in D /\ v[2] \in 1..f[v[1]] /\ v[2] > g[v[1]]
    BY <1>4, UnitsPairs
  <2>2. v[2] - g[v[1]] \in 1..h[v[1]] /\ v[2] = (v[2] - g[v[1]]) + g[v[1]]
    BY <2>1
  <2>3. <<v[1], v[2] - g[v[1]]>> \in Points(h)
    BY <2>1, <2>2, UnitsAre
  <2> QED BY <2>1, <2>2, <2>3
<1>5. IsFiniteSet(above) /\ Cardinality(above) = Sum(h)
  <2> HIDE DEF lift, above
  <2> QED BY <1>1, <1>2, <1>3, <1>4, SameSize DEF Sum
<1>6. Points(f) = Points(g) \cup above /\ Points(g) \cap above = {}
  <2>1. ASSUME NEW u \in Points(f) PROVE u \in Points(g) \/ u \in above
    <3>1. u = <<u[1], u[2]>> /\ u[1] \in D /\ u[2] \in 1..f[u[1]] /\ g[u[1]] \in Nat
      BY UnitsPairs
    <3> QED BY <3>1, UnitsAre
  <2>2. ASSUME NEW u \in Points(g) PROVE u \in Points(f) /\ u \notin above
    <3>1. u = <<u[1], u[2]>> /\ u[1] \in D /\ u[2] \in 1..g[u[1]]
      BY UnitsPairs
    <3>2. u[2] \in 1..f[u[1]] /\ ~(u[2] > g[u[1]])
      BY <3>1
    <3> QED BY <3>1, <3>2, UnitsAre
  <2> QED BY <2>1, <2>2
<1> QED
  <2> HIDE DEF above
  <2> QED BY <1>1, <1>5, <1>6, Disjoint DEF Sum

\* Nothing but zeros sums to zero, and a sum that reaches its bound reaches it everywhere.
LEMMA SumOfLess ==
    ASSUME NEW D, IsFiniteSet(D), NEW f \in [D -> Nat], NEW g \in [D -> Nat],
           \A x \in D : g[x] <= f[x]
    PROVE  Sum(g) <= Sum(f) /\ (Sum(g) = Sum(f) => \A x \in D : g[x] = f[x])
<1>1. Points(g) \subseteq Points(f)
  <2>1. ASSUME NEW u \in Points(g) PROVE u \in Points(f)
    <3>1. u = <<u[1], u[2]>> /\ u[1] \in D /\ u[2] \in 1..g[u[1]]
      BY UnitsPairs
    <3>2. u[2] \in 1..f[u[1]]
      BY <3>1
    <3> QED BY <3>1, <3>2, UnitsAre
  <2> QED BY <2>1
<1>2. Sum(g) <= Sum(f) /\ (Sum(f) = Sum(g) => Points(f) = Points(g))
  BY <1>1, SumIsNat, FS_Subset DEF Sum
<1>3. ASSUME Points(f) = Points(g), NEW x \in D PROVE g[x] = f[x]
  <2>1. CASE f[x] = 0
    BY <2>1
  <2>2. CASE f[x] # 0
    <3>1. <<x, f[x]>> \in Points(f)
      BY <2>2, UnitsAre
    <3>2. f[x] \in 1..g[x]
      BY <1>3, <3>1, UnitsAre
    <3> QED BY <3>2
  <2> QED BY <2>1, <2>2
<1> QED BY <1>2, <1>3

LEMMA SumOfZeros ==
    ASSUME NEW D, IsFiniteSet(D), NEW f \in [D -> Nat], \A x \in D : f[x] = 0
    PROVE  Sum(f) = 0
<1>1. \A x \in D : f[x] = f[x] + f[x]
  OBVIOUS
<1>2. Sum(f) = Sum(f) + Sum(f) /\ Sum(f) \in Nat
  BY <1>1, SumOfSums, SumIsNat
<1>3. \A n \in Nat : n = n + n => n = 0
  OBVIOUS
<1> QED BY <1>2, <1>3

\* What is zero may be left out.
LEMMA SumOfRest ==
    ASSUME NEW D, IsFiniteSet(D), NEW f \in [D -> Nat], NEW A \in SUBSET D,
           NEW g \in [A -> Nat], \A x \in A : g[x] = f[x], \A x \in D \ A : f[x] = 0
    PROVE  Sum(f) = Sum(g)
<1> DEFINE h == [x \in D \ A |-> 0]
<1>1. IsFiniteSet(A) /\ IsFiniteSet(D \ A) /\ A \cup (D \ A) = D /\ A \cap (D \ A) = {}
  BY FS_Subset
<1>2. h \in [D \ A -> Nat] /\ \A x \in D \ A : f[x] = h[x]
  OBVIOUS
<1>3. Sum(h) = 0
  BY <1>1, <1>2, SumOfZeros
<1>4. Sum(f) = Sum(g) + Sum(h)
  <2> HIDE DEF h
  <2> QED BY <1>1, <1>2, SumOfUnion
<1> QED BY <1>1, <1>3, <1>4, SumIsNat

\* A sum does not depend on the names of what it is over.
LEMMA SumRenamed ==
    ASSUME NEW D, IsFiniteSet(D), NEW f \in [D -> Nat], NEW E, NEW g \in [E -> Nat],
           NEW m \in [D -> E], \A x, y \in D : m[x] = m[y] => x = y,
           \A y \in E : \E x \in D : m[x] = y, \A x \in D : g[m[x]] = f[x]
    PROVE  IsFiniteSet(E) /\ Sum(g) = Sum(f)
<1> DEFINE move == [u \in Points(f) |-> <<m[u[1]], u[2]>>]
<1>1. IsFiniteSet(Points(f))
  BY SumIsNat
<1>2. move \in [Points(f) -> Points(g)]
  BY UnitsPairs, UnitsAre
<1>3. \A u, v \in Points(f) : move[u] = move[v] => u = v
  BY UnitsPairs
<1>4. ASSUME NEW v \in Points(g) PROVE \E u \in Points(f) : move[u] = v
  <2>1. v = <<v[1], v[2]>> /\ v[1] \in E /\ v[2] \in 1..g[v[1]]
    BY UnitsPairs
  <2>2. PICK x \in D : m[x] = v[1]
    BY <2>1
  <2>3. <<x, v[2]>> \in Points(f)
    BY <2>1, <2>2, UnitsAre
  <2> QED BY <2>1, <2>2, <2>3
<1>5. IsFiniteSet(E)
  BY SameSize
<1> QED
  <2> HIDE DEF move
  <2> QED BY <1>1, <1>2, <1>3, <1>4, <1>5, SameSize DEF Sum

\* The sum after a change of one summand.
LEMMA SumOfChange ==
    ASSUME NEW D, IsFiniteSet(D), NEW f \in [D -> Nat], NEW g \in [D -> Nat], NEW x \in D,
           \A y \in D \ {x} : g[y] = f[y]
    PROVE  Sum(g) = Sum(f) - f[x] + g[x]
<1> DEFINE rest == [y \in D \ {x} |-> f[y]]
           old == [y \in {x} |-> f[y]]
           new == [y \in {x} |-> g[y]]
<1>1. IsFiniteSet({x}) /\ IsFiniteSet(D \ {x}) /\ D = {x} \cup (D \ {x})
  BY FS_Singleton, FS_Subset
<1>2. old \in [{x} -> Nat] /\ new \in [{x} -> Nat] /\ rest \in [D \ {x} -> Nat]
  OBVIOUS
<1>3. Sum(f) = Sum(old) + Sum(rest) /\ Sum(g) = Sum(new) + Sum(rest)
  <2>1. /\ \A y \in {x} : f[y] = old[y] /\ g[y] = new[y]
        /\ \A y \in D \ {x} : f[y] = rest[y] /\ g[y] = rest[y]
    OBVIOUS
  <2> HIDE DEF old, new, rest
  <2>2. Sum(f) = Sum(old) + Sum(rest)
    BY <1>1, <1>2, <2>1, SumOfUnion
  <2>3. Sum(g) = Sum(new) + Sum(rest)
    BY <1>1, <1>2, <2>1, SumOfUnion
  <2> QED BY <2>2, <2>3
<1>4. Sum(old) = f[x] /\ Sum(new) = g[x] /\ Sum(rest) \in Nat
  BY <1>1, <1>2, SumOfOne, SumIsNat
<1> QED BY <1>3, <1>4

\* The sum after some have given and some were added.
LEMMA SumOfStep ==
    ASSUME NEW A, NEW N, IsFiniteSet(A), IsFiniteSet(N), A \cap N = {}, NEW D, D = A \cup N,
           NEW old \in [A -> Nat], NEW gone \in [A -> Nat], NEW new \in [D -> Nat],
           NEW add \in [N -> Nat],
           \A x \in A : new[x] + gone[x] = old[x], \A x \in N : new[x] = add[x]
    PROVE  /\ Sum(new) + Sum(gone) = Sum(old) + Sum(add)
           /\ Sum(new) \in Nat /\ Sum(gone) \in Nat /\ Sum(old) \in Nat /\ Sum(add) \in Nat
<1> DEFINE left == [x \in A |-> new[x]]
<1>1. left \in [A -> Nat] /\ \A x \in A : new[x] = left[x]
  OBVIOUS
<1> HIDE DEF left
<1>2. Sum(new) = Sum(left) + Sum(add)
  BY ONLY <1>1, SumOfUnion, IsFiniteSet(A), IsFiniteSet(N), A \cap N = {}, D = A \cup N,
     new \in [D -> Nat], add \in [N -> Nat], \A x \in N : new[x] = add[x]
<1>3. Sum(old) = Sum(left) + Sum(gone)
  <2>1. \A x \in A : old[x] = left[x] + gone[x]
    BY <1>1
  <2> QED BY <1>1, <2>1, SumOfSums
<1>4. Sum(left) \in Nat /\ Sum(gone) \in Nat /\ Sum(add) \in Nat
  BY <1>1, SumIsNat
<1> QED BY <1>2, <1>3, <1>4

-----------------------------------------------------------------------------
(* What a step does to the sums over lots. *)

LEMMA SweptIs ==
    ASSUME NEW lot, LotOK(lot), NEW t
    PROVE  /\ SweptLot(lot, t).remaining \in Nat /\ SweptLot(lot, t).expired \in Nat
           /\ SweptLot(lot, t).remaining + SweptLot(lot, t).expired = lot.remaining + lot.expired
           /\ SweptLot(lot, t).remaining = IF Lapsed(lot, t) THEN 0 ELSE lot.remaining
           /\ SweptLot(lot, t).expired >= lot.expired
<1>1. LotOK(SweptLot(lot, t)) /\ Drains(lot, SweptLot(lot, t))
  BY SweepDrains
<1>2. lot.remaining \in Nat /\ lot.expired \in Nat
  BY DEF LotOK, Lot
<1>3. SweptLot(lot, t).remaining = IF Lapsed(lot, t) THEN 0 ELSE lot.remaining
  BY DEF SweptLot, LotOK, Lot
<1>4. SweptLot(lot, t).expired = IF Lapsed(lot, t) THEN lot.expired + lot.remaining ELSE lot.expired
  <2> DEFINE cleared == [lot EXCEPT !.remaining = 0]
  <2>1. cleared.expired = lot.expired /\ DOMAIN cleared = DOMAIN lot
        /\ "expired" \in DOMAIN cleared
    BY DEF LotOK, Lot
  <2>2. [cleared EXCEPT !.expired = @ + lot.remaining].expired = lot.expired + lot.remaining
    <3> HIDE DEF cleared
    <3> QED BY <2>1
  <2> QED BY <2>2 DEF SweptLot
<1> QED BY <1>1, <1>2, <1>3, <1>4 DEF LotOK, Lot, Drains

New == DOMAIN lots' \ DOMAIN lots

\* Lots are swept and give credits; new lots pay debt with what they do not keep.
Moves(stamp, take) ==
    /\ take \in [DOMAIN lots -> Nat]
    /\ IsFiniteSet(New)
    /\ \A g \in DOMAIN lots :
        /\ lots'[g].remaining + take[g] = SweptLot(lots[g], stamp).remaining
        /\ lots'[g].expired = SweptLot(lots[g], stamp).expired
    /\ \A g \in New :
        /\ lots'[g].expired = 0
        /\ lots'[g].remaining + lots'[g].offset = lots'[g].quantity

\* What is known of single lots in a step.
LEMMA LotsInStep ==
    ASSUME IInv, LotsStep, IsFiniteSet(DOMAIN lots), NEW stamp, NEW take, Moves(stamp, take)
    PROVE  /\ DOMAIN lots' = DOMAIN lots \cup New /\ DOMAIN lots \cap New = {}
           /\ IsFiniteSet(DOMAIN lots') /\ IsFiniteSet(New)
           /\ DOMAIN Swept(stamp) = DOMAIN lots /\ take \in [DOMAIN lots -> Nat]
           /\ \A g \in DOMAIN lots :
                /\ lots[g] \in Lot /\ lots'[g] \in Lot
                /\ Swept(stamp)[g].remaining \in Nat /\ Swept(stamp)[g].expired \in Nat
                /\ lots'[g].remaining + take[g] = Swept(stamp)[g].remaining
                /\ lots'[g].expired = Swept(stamp)[g].expired
                /\ Swept(stamp)[g].remaining + Swept(stamp)[g].expired
                     = lots[g].remaining + lots[g].expired
                /\ Swept(stamp)[g].expired >= lots[g].expired
                /\ lots'[g].origin = lots[g].origin /\ lots'[g].offset = lots[g].offset
           /\ \A g \in New :
                /\ lots'[g] \in Lot /\ lots'[g].expired = 0
                /\ lots'[g].remaining + lots'[g].offset = lots'[g].quantity
<1>1. DOMAIN lots' = DOMAIN lots \cup New /\ DOMAIN lots \cap New = {}
  BY DEF New, LotsStep
<1>2. IsFiniteSet(New) /\ take \in [DOMAIN lots -> Nat]
  BY DEF Moves
<1>3. IsFiniteSet(DOMAIN lots')
  BY <1>1, <1>2, Disjoint
<1>4. DOMAIN Swept(stamp) = DOMAIN lots
      /\ \A g \in DOMAIN lots : Swept(stamp)[g] = SweptLot(lots[g], stamp)
  BY DEF Swept
<1>5. ASSUME NEW g \in DOMAIN lots
      PROVE  /\ lots[g] \in Lot /\ lots'[g] \in Lot
             /\ lots'[g].origin = lots[g].origin /\ lots'[g].offset = lots[g].offset
             /\ LotOK(lots[g])
  BY DEF LotsStep, LotOK, Drains, IInv, TypeOK
<1>6. \A g \in DOMAIN lots :
        /\ Swept(stamp)[g].remaining \in Nat /\ Swept(stamp)[g].expired \in Nat
        /\ Swept(stamp)[g].remaining + Swept(stamp)[g].expired
             = lots[g].remaining + lots[g].expired
        /\ Swept(stamp)[g].expired >= lots[g].expired
  BY <1>4, <1>5, SweptIs
<1>7. \A g \in DOMAIN lots :
        /\ lots'[g].remaining + take[g] = Swept(stamp)[g].remaining
        /\ lots'[g].expired = Swept(stamp)[g].expired
  BY <1>4 DEF Moves
<1>8. \A g \in New : /\ lots'[g] \in Lot /\ lots'[g].expired = 0
                     /\ lots'[g].remaining + lots'[g].offset = lots'[g].quantity
  BY <1>1 DEF Moves, LotsStep
<1> QED BY <1>1, <1>2, <1>3, <1>4, <1>5, <1>6, <1>7, <1>8

LEMMA RemainingInStep ==
    ASSUME IInv, LotsStep, IsFiniteSet(DOMAIN lots), NEW stamp, NEW take, Moves(stamp, take)
    PROVE  /\ Remaining(lots') + Sum(take)
                = Remaining(Swept(stamp)) + Sum([g \in New |-> lots'[g].remaining])
           /\ Remaining(lots') \in Nat /\ Sum(take) \in Nat /\ Remaining(Swept(stamp)) \in Nat
           /\ Sum([g \in New |-> lots'[g].remaining]) \in Nat
<1> DEFINE old == [g \in DOMAIN lots |-> Swept(stamp)[g].remaining]
           new == [g \in DOMAIN lots' |-> lots'[g].remaining]
           add == [g \in New |-> lots'[g].remaining]
<1>1. /\ old \in [DOMAIN lots -> Nat] /\ take \in [DOMAIN lots -> Nat]
      /\ new \in [DOMAIN lots' -> Nat] /\ add \in [New -> Nat]
      /\ \A g \in DOMAIN lots : new[g] + take[g] = old[g]
      /\ \A g \in New : new[g] = add[g]
  BY LotsInStep DEF Lot
<1>2. Remaining(Swept(stamp)) = Sum(old) /\ Remaining(lots') = Sum(new)
  BY LotsInStep DEF Remaining
<1> HIDE DEF old, new
<1>3. /\ Sum(new) + Sum(take) = Sum(old) + Sum(add)
      /\ Sum(new) \in Nat /\ Sum(take) \in Nat /\ Sum(old) \in Nat /\ Sum(add) \in Nat
  <2>1. /\ IsFiniteSet(DOMAIN lots) /\ IsFiniteSet(New) /\ DOMAIN lots \cap New = {}
        /\ DOMAIN lots' = DOMAIN lots \cup New
    BY LotsInStep
  <2> HIDE DEF add
  <2> QED BY <1>1, <2>1, SumOfStep
<1> QED BY <1>2, <1>3

LEMMA OffsetInStep ==
    ASSUME IInv, LotsStep, IsFiniteSet(DOMAIN lots), NEW stamp, NEW take, Moves(stamp, take)
    PROVE  /\ Sum([g \in DOMAIN lots' |-> lots'[g].offset])
                = Sum([g \in DOMAIN lots |-> lots[g].offset]) + Sum([g \in New |-> lots'[g].offset])
           /\ Sum([g \in DOMAIN lots |-> lots[g].offset]) \in Nat
           /\ Sum([g \in New |-> lots'[g].offset]) \in Nat
<1> DEFINE old == [g \in DOMAIN lots |-> lots[g].offset]
           new == [g \in DOMAIN lots' |-> lots'[g].offset]
           add == [g \in New |-> lots'[g].offset]
<1>1. /\ old \in [DOMAIN lots -> Nat] /\ new \in [DOMAIN lots' -> Nat] /\ add \in [New -> Nat]
      /\ \A g \in DOMAIN lots : new[g] = old[g]
      /\ \A g \in New : new[g] = add[g]
  BY LotsInStep DEF Lot
<1>2. Sum(new) = Sum(old) + Sum(add) /\ Sum(old) \in Nat /\ Sum(add) \in Nat
  <2>1. /\ IsFiniteSet(DOMAIN lots) /\ IsFiniteSet(New) /\ DOMAIN lots \cap New = {}
        /\ DOMAIN lots' = DOMAIN lots \cup New
    BY LotsInStep
  <2> HIDE DEF old, new, add
  <2>2. Sum(new) = Sum(old) + Sum(add)
    BY ONLY <1>1, <2>1, SumOfUnion
  <2>3. Sum(old) \in Nat /\ Sum(add) \in Nat
    BY <1>1, <2>1, SumIsNat
  <2> QED BY <2>2, <2>3
<1> QED BY <1>2

\* The lots of an origin after a step.
LEMMA FamilyInStep ==
    ASSUME IInv, LotsStep, IsFiniteSet(DOMAIN lots), NEW stamp, NEW take, Moves(stamp, take),
           NEW s
    PROVE  /\ Family(s)' = Family(s) \cup (New \cap Family(s)')
           /\ Family(s) \cap (New \cap Family(s)') = {}
           /\ Family(s) \subseteq DOMAIN lots /\ Family(s)' \subseteq DOMAIN lots'
           /\ IsFiniteSet(Family(s)) /\ IsFiniteSet(New \cap Family(s)')
<1>1. /\ Family(s) \subseteq DOMAIN lots /\ Family(s)' \subseteq DOMAIN lots'
      /\ New \cap Family(s)' \subseteq New
  BY DEF Family
<1>2. IsFiniteSet(Family(s)) /\ IsFiniteSet(New \cap Family(s)')
  BY <1>1, LotsInStep, FS_Subset
<1> QED BY <1>1, <1>2, LotsInStep DEF Family

\* A refund sees what the sweep expired; nothing else expires.
LEMMA ExpiredInStep ==
    ASSUME IInv, LotsStep, IsFiniteSet(DOMAIN lots), NEW stamp, NEW take, Moves(stamp, take),
           NEW s
    PROVE  /\ Expired(lots, s)' = Expired(Swept(stamp), s)
           /\ Expired(lots, s) <= Expired(Swept(stamp), s)
           /\ Expired(lots, s) \in Nat /\ Expired(Swept(stamp), s) \in Nat
<1> DEFINE old == [g \in Family(s) |-> lots[g].expired]
           swept == [g \in Family(s) |-> Swept(stamp)[g].expired]
           new == [g \in Family(s)' |-> lots'[g].expired]
<1>1. /\ old \in [Family(s) -> Nat] /\ swept \in [Family(s) -> Nat]
      /\ new \in [Family(s)' -> Nat]
      /\ \A g \in Family(s) : old[g] <= swept[g] /\ swept[g] = new[g]
  <2>1. Family(s) \subseteq DOMAIN lots /\ Family(s) \subseteq Family(s)'
        /\ Family(s)' \subseteq DOMAIN lots'
    BY FamilyInStep
  <2>2. ASSUME NEW g \in DOMAIN lots
        PROVE  /\ lots[g].expired \in Nat /\ Swept(stamp)[g].expired \in Nat
               /\ lots[g].expired <= Swept(stamp)[g].expired
               /\ lots'[g].expired = Swept(stamp)[g].expired
    BY LotsInStep DEF Lot
  <2>3. \A g \in DOMAIN lots' : lots'[g].expired \in Nat
    BY DEF LotsStep, Lot
  <2> QED BY <2>1, <2>2, <2>3
<1>2. \A g \in Family(s)' \ Family(s) : new[g] = 0
  BY LotsInStep, FamilyInStep
<1>3. IsFiniteSet(Family(s)) /\ IsFiniteSet(Family(s)')
  BY LotsInStep, FamilyInStep, FS_Subset
<1> HIDE DEF old, swept, new
<1>4. Sum(new) = Sum(swept)
  <2>1. Family(s) \in SUBSET (Family(s)')
    BY FamilyInStep
  <2> QED BY <1>1, <1>2, <1>3, <2>1, SumOfRest
<1>5. Sum(old) <= Sum(swept) /\ Sum(old) \in Nat /\ Sum(swept) \in Nat
  BY <1>1, <1>3, SumOfLess, SumIsNat
<1> QED BY <1>4, <1>5 DEF Expired, old, swept, new

LEMMA KeptInStep ==
    ASSUME IInv, LotsStep, IsFiniteSet(DOMAIN lots), NEW stamp, NEW take, Moves(stamp, take),
           NEW s
    PROVE  /\ Kept(s)' + Sum([g \in Family(s) |-> take[g]])
                = Kept(s) + Sum([g \in New \cap Family(s)' |-> lots'[g].quantity])
           /\ Kept(s) \in Nat /\ Kept(s)' \in Nat /\ Sum([g \in Family(s) |-> take[g]]) \in Nat
           /\ Sum([g \in New \cap Family(s)' |-> lots'[g].quantity]) \in Nat
<1> DEFINE N == New \cap Family(s)'
           old == [g \in Family(s) |-> lots[g].remaining + lots[g].expired + lots[g].offset]
           new == [g \in Family(s)' |-> lots'[g].remaining + lots'[g].expired + lots'[g].offset]
           gone == [g \in Family(s) |-> take[g]]
           add == [g \in N |-> lots'[g].quantity]
<1>0. ASSUME NEW g \in Family(s)
      PROVE  /\ take[g] \in Nat /\ lots[g] \in Lot /\ lots'[g] \in Lot /\ g \in Family(s)'
             /\ lots'[g].remaining + take[g] = Swept(stamp)[g].remaining
             /\ lots'[g].expired = Swept(stamp)[g].expired
             /\ Swept(stamp)[g].remaining + Swept(stamp)[g].expired
                  = lots[g].remaining + lots[g].expired
             /\ lots'[g].offset = lots[g].offset
  <2>1. g \in DOMAIN lots /\ g \in Family(s)'
    BY FamilyInStep
  <2> QED BY <2>1, LotsInStep
<1>1. /\ old \in [Family(s) -> Nat] /\ new \in [Family(s)' -> Nat]
      /\ gone \in [Family(s) -> Nat] /\ add \in [N -> Nat]
  <2>1. \A g \in N : lots'[g] \in Lot
    BY LotsInStep
  <2>2. \A g \in Family(s)' : lots'[g] \in Lot
    BY <1>0, <2>1, FamilyInStep
  <2> QED BY <1>0, <2>1, <2>2 DEF Lot
<1>2. \A g \in Family(s) : new[g] + gone[g] = old[g]
  BY <1>0 DEF Lot
<1>3. \A g \in N : new[g] = add[g]
  BY LotsInStep DEF Lot
<1>4. /\ Sum(new) + Sum(gone) = Sum(old) + Sum(add)
      /\ Sum(new) \in Nat /\ Sum(gone) \in Nat /\ Sum(old) \in Nat /\ Sum(add) \in Nat
  <2>1. /\ IsFiniteSet(Family(s)) /\ IsFiniteSet(N) /\ Family(s) \cap N = {}
        /\ Family(s)' = Family(s) \cup N
    BY FamilyInStep
  <2> HIDE DEF N, old, new, gone, add
  <2> QED BY <1>1, <1>2, <1>3, <2>1, SumOfStep
<1> QED BY <1>4 DEF Kept

-----------------------------------------------------------------------------
(* The books: the sums of the properties, and what makes them inductive. *)

Granted(s) == IF <<s>> \in DOMAIN lots THEN Quantity[s] ELSE 0

\* OriginConserved, also of the sources that have granted nothing yet.
Conserved == \A s \in Sources : Granted(s) = Kept(s) + InHolds(s) + refunds[s].removed

Refund == [target: Nat, removed: Nat, absorbed: Nat, owed: Nat]

Owing == Sum([s \in Sources |-> refunds[s].owed])
Paid == Sum([g \in DOMAIN lots |-> lots[g].offset])

Books ==
    /\ IsFiniteSet(DOMAIN lots) /\ refunds \in [Sources -> Refund] /\ NothingTaken
    /\ LedgerReconciles /\ DebtExplained /\ Conserved

\* What the loops take: all that is asked, or all there is.
LEMMA GreedySum ==
    ASSUME NEW D, IsFiniteSet(D), NEW cap \in [D -> Nat], NEW amount \in Nat,
           NEW take \in Greedy(cap, amount)
    PROVE  /\ Sum(take) \in Nat /\ Sum(cap) \in Nat /\ Sum(take) <= amount
           /\ Sum(take) = amount \/ \A g \in D : take[g] = cap[g]
           /\ amount <= Sum(cap) => Sum(take) = amount
<1>1. take \in [D -> Nat] /\ \A g \in D : take[g] <= cap[g]
  BY GreedyTakes
<1>2. Sum(take) = Lesser(amount, Sum(cap))
  BY DEF Greedy
<1>3. Sum(take) \in Nat /\ Sum(cap) \in Nat
  BY <1>1, SumIsNat
<1>4. Sum(take) = Sum(cap) => \A g \in D : take[g] = cap[g]
  BY <1>1, SumOfLess
<1> QED BY <1>2, <1>3, <1>4 DEF Lesser

\* What a reservation holds is a number, of the lots there are.
LEMMA PartIsNat ==
    ASSUME NEW D, IsFiniteSet(D), NEW b, DOMAIN b \subseteq D, b \in [DOMAIN b -> Nat], NEW F
    PROVE  IsFiniteSet(DOMAIN b \cap F) /\ Sum([g \in DOMAIN b \cap F |-> b[g]]) \in Nat
<1>1. IsFiniteSet(DOMAIN b \cap F)
  BY FS_Subset
<1> DEFINE f == [g \in DOMAIN b \cap F |-> b[g]]
<1>2. f \in [DOMAIN b \cap F -> Nat]
  OBVIOUS
<1> HIDE DEF f
<1>3. Sum(f) \in Nat
  BY <1>1, <1>2, SumIsNat
<1> QED BY <1>1, <1>3 DEF f

LEMMA BookedIs ==
    ASSUME NEW r, HoldOK(holds[r])
    PROVE  DOMAIN Booked(r) \subseteq DOMAIN lots /\ Booked(r) \in [DOMAIN Booked(r) -> Nat]
BY DEF HoldOK, Booked

LEMMA HoldsNat ==
    ASSUME TypeOK, IsFiniteSet(DOMAIN lots), NEW s
    PROVE  [r \in Reservations |-> InHold(r, s)] \in [Reservations -> Nat] /\ InHolds(s) \in Nat
<1>1. \A r \in Reservations : InHold(r, s) \in Nat
  BY BookedIs, PartIsNat DEF TypeOK, InHold
<1> DEFINE f == [r \in Reservations |-> InHold(r, s)]
<1>2. f \in [Reservations -> Nat]
  BY <1>1
<1>3. Sum(f) \in Nat
  <2> HIDE DEF f
  <2> QED BY <1>2, ConstantsOK, SumIsNat
<1> QED BY <1>2, <1>3 DEF InHolds

LEMMA HoldsNatNext ==
    ASSUME TypeOK', IsFiniteSet(DOMAIN lots'), NEW s
    PROVE  [r \in Reservations |-> InHold(r, s)'] \in [Reservations -> Nat] /\ InHolds(s)' \in Nat
<1>1. ASSUME NEW r \in Reservations PROVE InHold(r, s)' \in Nat
  <2>1. DOMAIN Booked(r)' \subseteq DOMAIN lots' /\ Booked(r)' \in [DOMAIN Booked(r)' -> Nat]
    BY DEF TypeOK, HoldOK, Booked
  <2>2. Sum([g \in DOMAIN Booked(r)' \cap Family(s)' |-> Booked(r)'[g]]) \in Nat
    BY <2>1, PartIsNat
  <2> QED BY <2>2 DEF InHold
<1> DEFINE f == [r \in Reservations |-> InHold(r, s)']
<1>2. f \in [Reservations -> Nat]
  BY <1>1
<1>3. Sum(f) \in Nat
  <2> HIDE DEF f
  <2> QED BY <1>2, ConstantsOK, SumIsNat
<1> QED BY <1>2, <1>3 DEF InHolds

\* New lots give nothing to a reservation that stays as it is.
LEMMA HoldStays ==
    ASSUME IInv, LotsStep, IsFiniteSet(DOMAIN lots), NEW r \in Reservations,
           holds'[r] = holds[r], NEW s
    PROVE  InHold(r, s)' = InHold(r, s)
<1>1. Booked(r)' = Booked(r)
  BY DEF Booked
<1>2. DOMAIN Booked(r) \subseteq DOMAIN lots
  BY BookedIs DEF IInv, TypeOK
<1>3. DOMAIN Booked(r) \cap Family(s)' = DOMAIN Booked(r) \cap Family(s)
  BY <1>2 DEF Family, LotsStep, Drains
<1>4. InHold(r, s)' = Sum([g \in DOMAIN Booked(r)' \cap Family(s)' |-> Booked(r)'[g]])
  BY DEF InHold
<1> QED BY <1>1, <1>3, <1>4 DEF InHold

LEMMA HoldsStay ==
    ASSUME IInv, LotsStep, IsFiniteSet(DOMAIN lots), UNCHANGED holds, NEW s
    PROVE  InHolds(s)' = InHolds(s)
<1>1. \A r \in Reservations : InHold(r, s)' = InHold(r, s)
  BY HoldStays
<1>2. InHolds(s)' = Sum([r \in Reservations |-> InHold(r, s)'])
  BY DEF InHolds
<1> QED BY <1>1, <1>2 DEF InHolds

LEMMA OneHoldMoves ==
    ASSUME IInv, TypeOK', LotsStep, IsFiniteSet(DOMAIN lots), IsFiniteSet(DOMAIN lots'),
           NEW r \in Reservations, \A q \in Reservations \ {r} : holds'[q] = holds[q], NEW s
    PROVE  /\ InHolds(s)' = InHolds(s) - InHold(r, s) + InHold(r, s)'
           /\ InHolds(s) \in Nat /\ InHold(r, s) \in Nat /\ InHold(r, s)' \in Nat
<1> DEFINE f == [q \in Reservations |-> InHold(q, s)]
           g == [q \in Reservations |-> InHold(q, s)']
<1>1. f \in [Reservations -> Nat] /\ InHolds(s) \in Nat
  BY HoldsNat DEF IInv
<1>3. g \in [Reservations -> Nat]
  BY HoldsNatNext
<1>4. \A q \in Reservations \ {r} : InHold(q, s)' = InHold(q, s)
  BY HoldStays
<1>5. \A q \in Reservations \ {r} : g[q] = f[q]
  BY <1>4
<1>6. InHolds(s)' = Sum(g) /\ InHolds(s) = Sum(f)
  BY DEF InHolds
<1>7. f[r] = InHold(r, s) /\ g[r] = InHold(r, s)'
  OBVIOUS
<1> HIDE DEF f, g
<1>8. Sum(g) = Sum(f) - f[r] + g[r]
  BY <1>1, <1>3, <1>5, SumOfChange, ConstantsOK
<1>9. f[r] \in Nat /\ g[r] \in Nat
  BY <1>1, <1>3
<1> QED BY <1>1, <1>6, <1>7, <1>8, <1>9

\* The sums of the books are numbers.
LEMMA BooksAreNumbers ==
    ASSUME IInv, Books, NEW stamp
    PROVE  /\ IsFiniteSet(DOMAIN lots) /\ refunds \in [Sources -> Refund]
           /\ debt \in Nat /\ book \in Int /\ Owing \in Nat
           /\ Remaining(lots) \in Nat /\ Remaining(Swept(stamp)) \in Nat
           /\ SweptAmount(stamp) \in Int
           /\ \A s \in Sources : InHolds(s) \in Nat /\ Granted(s) \in Nat
<1>1. IsFiniteSet(DOMAIN lots) /\ refunds \in [Sources -> Refund] /\ debt \in Nat
  BY DEF Books, DebtExplained
<1> DEFINE f == [g \in DOMAIN lots |-> lots[g].remaining]
           w == [g \in DOMAIN lots |-> SweptLot(lots[g], stamp).remaining]
           o == [s \in Sources |-> refunds[s].owed]
<1>2. \A g \in DOMAIN lots : LotOK(lots[g]) /\ lots[g].remaining \in Nat
  BY DEF IInv, TypeOK, LotOK, Lot
<1>3. f \in [DOMAIN lots -> Nat] /\ w \in [DOMAIN lots -> Nat]
  BY <1>2, SweptIs
<1>4. o \in [Sources -> Nat]
  BY <1>1 DEF Refund
<1>5. Remaining(lots) = Sum(f) /\ Remaining(Swept(stamp)) = Sum(w) /\ Owing = Sum(o)
  BY DEF Remaining, Swept, Owing
<1> HIDE DEF f, w, o
<1>6. Sum(f) \in Nat /\ Sum(w) \in Nat /\ Sum(o) \in Nat
  BY <1>1, <1>3, <1>4, ConstantsOK, SumIsNat
<1>7. book \in Int /\ SweptAmount(stamp) \in Int
  BY <1>1, <1>5, <1>6 DEF Books, LedgerReconciles, SweptAmount
<1>8. \A s \in Sources : InHolds(s) \in Nat /\ Granted(s) \in Nat
  BY <1>1, HoldsNat, ConstantsOK DEF Granted, IInv
<1> QED BY <1>1, <1>5, <1>6, <1>7, <1>8

LEMMA BooksKept ==
    ASSUME IInv, LotsStep, Books, NothingTaken', NEW stamp, NEW take, Moves(stamp, take),
           refunds' \in [Sources -> Refund],
           book' = book - SweptAmount(stamp) - Sum(take)
                     + Sum([g \in New |-> lots'[g].remaining]) - (debt' - debt),
           debt' \in Nat,
           debt' = debt + (Owing' - Owing) - Sum([g \in New |-> lots'[g].offset]),
           \A s \in Sources :
               \/ refunds'[s] = refunds[s]
               \/ /\ refunds'[s].target
                       = refunds'[s].removed + refunds'[s].absorbed + refunds'[s].owed
                  /\ refunds'[s].absorbed <= Expired(Swept(stamp), s),
           \A s \in Sources :
               Granted(s)' - Granted(s)
                 = Sum([g \in New \cap Family(s)' |-> lots'[g].quantity])
                     - Sum([g \in Family(s) |-> take[g]])
                     + (InHolds(s)' - InHolds(s)) + (refunds'[s].removed - refunds[s].removed),
           TypeOK'
    PROVE  Books'
<1>0. IsFiniteSet(DOMAIN lots) /\ IsFiniteSet(DOMAIN lots')
  BY LotsInStep DEF Books
<1>1. LedgerReconciles'
  <2> DEFINE nr == Sum([g \in New |-> lots'[g].remaining])
  <2>1. /\ Remaining(lots') + Sum(take) = Remaining(Swept(stamp)) + nr
        /\ Remaining(lots') \in Nat /\ Sum(take) \in Nat /\ Remaining(Swept(stamp)) \in Nat
        /\ nr \in Nat
    BY <1>0, RemainingInStep
  <2>2. Remaining(lots) \in Nat
    BY BooksAreNumbers
  <2>3. book = Remaining(lots) - debt /\ debt \in Nat
    BY DEF Books, LedgerReconciles, DebtExplained
  <2>4. book' = book - (Remaining(lots) - Remaining(Swept(stamp))) - Sum(take)
                 + nr - (debt' - debt)
    BY DEF SweptAmount
  <2> HIDE DEF nr
  <2>5. book' = Remaining(lots') - debt'
    BY ONLY <2>1, <2>2, <2>3, <2>4, debt' \in Nat
  <2> QED BY <2>5 DEF LedgerReconciles
<1>2. DebtExplained'
  <2> DEFINE no == Sum([g \in New |-> lots'[g].offset])
  <2>1. Paid' = Paid + no /\ Paid \in Nat /\ no \in Nat
    BY <1>0, OffsetInStep DEF Paid
  <2>2. debt = Owing - Paid /\ debt \in Nat
    BY DEF Books, DebtExplained, Owing, Paid
  <2>3. debt' = debt + (Owing' - Owing) - no
    OBVIOUS
  <2>4. Owing \in Nat /\ Owing' \in Nat
    <3> DEFINE f == [s \in Sources |-> refunds[s].owed]
               g == [s \in Sources |-> refunds'[s].owed]
    <3>1. f \in [Sources -> Nat] /\ g \in [Sources -> Nat]
      BY DEF Books, Refund
    <3>2. Sum(f) \in Nat /\ Sum(g) \in Nat
      <4> HIDE DEF f, g
      <4> QED BY <3>1, ConstantsOK, SumIsNat
    <3> QED BY <3>2 DEF Owing
  <2> HIDE DEF no
  <2>5. debt' = Owing' - Paid'
    BY <2>1, <2>2, <2>3, <2>4
  <2>6. ASSUME NEW s \in Sources
        PROVE  /\ refunds'[s].target
                    = refunds'[s].removed + refunds'[s].absorbed + refunds'[s].owed
               /\ refunds'[s].absorbed <= Expired(lots, s)'
    <3>1. /\ Expired(lots, s)' = Expired(Swept(stamp), s)
          /\ Expired(lots, s) <= Expired(Swept(stamp), s)
          /\ Expired(lots, s) \in Nat /\ Expired(Swept(stamp), s) \in Nat
      BY <1>0, ExpiredInStep
    <3>2. /\ refunds[s].target = refunds[s].removed + refunds[s].absorbed + refunds[s].owed
          /\ refunds[s].absorbed <= Expired(lots, s) /\ refunds[s].absorbed \in Nat
      BY DEF Books, DebtExplained, Refund
    <3>3. \/ refunds'[s] = refunds[s]
          \/ /\ refunds'[s].target
                  = refunds'[s].removed + refunds'[s].absorbed + refunds'[s].owed
             /\ refunds'[s].absorbed <= Expired(Swept(stamp), s)
      OBVIOUS
    <3> QED BY <3>1, <3>2, <3>3
  <2> QED BY <2>5, <2>6 DEF DebtExplained, Owing, Paid
<1>3. Conserved'
  <2> SUFFICES ASSUME NEW s \in Sources
               PROVE  Granted(s)' = Kept(s)' + InHolds(s)' + refunds'[s].removed
    BY DEF Conserved
  <2> DEFINE q == Sum([g \in New \cap Family(s)' |-> lots'[g].quantity])
             t == Sum([g \in Family(s) |-> take[g]])
  <2>1. Kept(s)' + t = Kept(s) + q /\ Kept(s) \in Nat /\ Kept(s)' \in Nat /\ t \in Nat /\ q \in Nat
    BY <1>0, KeptInStep
  <2>2. Granted(s)' - Granted(s) = q - t + (InHolds(s)' - InHolds(s))
          + (refunds'[s].removed - refunds[s].removed)
    OBVIOUS
  <2>3. Granted(s) = Kept(s) + InHolds(s) + refunds[s].removed
    BY DEF Books, Conserved
  <2>4. refunds[s].removed \in Nat /\ refunds'[s].removed \in Nat
    BY DEF Books, Refund
  <2>5. InHolds(s) \in Nat /\ InHolds(s)' \in Nat
    BY <1>0, HoldsNat, HoldsNatNext DEF IInv
  <2>6. Granted(s)' \in Int
    BY ConstantsOK DEF Granted
  <2> HIDE DEF q, t
  <2> QED BY <2>1, <2>2, <2>3, <2>4, <2>5, <2>6
<1> QED BY <1>0, <1>1, <1>2, <1>3 DEF Books

-----------------------------------------------------------------------------
(* Every operation keeps the books, and debt comes last and goes first. *)

DebtStep ==
    /\ \A s \in Sources : refunds'[s].owed > refunds[s].owed =>
         /\ \A g \in Family(s) : lots'[g].remaining = 0
         /\ refunds'[s].absorbed = Expired(lots', s)
    /\ \A g \in DOMAIN lots' \ DOMAIN lots : lots'[g].remaining > 0 => debt' = 0

\* Where no lot is new nothing is added.
LEMMA NothingNew ==
    ASSUME DOMAIN lots' = DOMAIN lots
    PROVE  /\ New = {} /\ IsFiniteSet(New)
           /\ Sum([g \in New |-> lots'[g].remaining]) = 0
           /\ Sum([g \in New |-> lots'[g].offset]) = 0
           /\ \A s : /\ Sum([g \in New \cap Family(s)' |-> lots'[g].quantity]) = 0
                     /\ Granted(s)' = Granted(s)
<1>1. New = {} /\ IsFiniteSet(New)
  BY FS_EmptySet DEF New
<1>2. \A f : DOMAIN f = {} => Sum(f) = 0
  BY SumOfNothing
<1>3. /\ Sum([g \in New |-> lots'[g].remaining]) = 0
      /\ Sum([g \in New |-> lots'[g].offset]) = 0
      /\ \A s : Sum([g \in New \cap Family(s)' |-> lots'[g].quantity]) = 0
  BY <1>1, <1>2
<1> QED BY <1>1, <1>3 DEF Granted

\* Where no lot gives nothing is taken.
LEMMA NothingGiven ==
    ASSUME IsFiniteSet(DOMAIN lots), NEW take, take = [g \in DOMAIN lots |-> 0]
    PROVE  take \in [DOMAIN lots -> Nat] /\ Sum(take) = 0
           /\ \A s : Sum([g \in Family(s) |-> take[g]]) = 0
<1>1. take \in [DOMAIN lots -> Nat] /\ Sum(take) = 0
  BY SumOfZeros
<1>2. ASSUME NEW s PROVE Sum([g \in Family(s) |-> take[g]]) = 0
  <2> DEFINE f == [g \in Family(s) |-> take[g]]
  <2>1. IsFiniteSet(Family(s)) /\ Family(s) \subseteq DOMAIN lots
    BY FS_Subset DEF Family
  <2>2. f \in [Family(s) -> Nat] /\ \A g \in Family(s) : f[g] = 0
    BY <2>1
  <2> HIDE DEF f
  <2>3. Sum(f) = 0
    BY <2>1, <2>2, SumOfZeros
  <2> QED BY <2>3 DEF f
<1> QED BY <1>1, <1>2

LEMMA ExpireBooks ==
    ASSUME IInv, IInv', LotsStep, Books, NothingTaken', NEW stamp, Expire(stamp)
    PROVE  Books' /\ DebtStep
<1> DEFINE take == [g \in DOMAIN lots |-> 0]
<1>1. IsFiniteSet(DOMAIN lots) /\ DOMAIN lots' = DOMAIN lots
  BY DEF Books, Expire, Swept
<1>2. take \in [DOMAIN lots -> Nat] /\ Sum(take) = 0
      /\ \A s : Sum([g \in Family(s) |-> take[g]]) = 0
  BY <1>1, NothingGiven
<1>3. \A g \in DOMAIN lots : lots'[g].remaining \in Nat
  BY <1>1 DEF IInv, TypeOK, Lot
<1>4. \A g \in DOMAIN lots : take[g] = 0 /\ lots'[g] = SweptLot(lots[g], stamp)
  BY DEF Expire, Swept
<1> HIDE DEF take
<1>5. Moves(stamp, take)
  BY <1>1, <1>2, <1>3, <1>4, NothingNew DEF Moves
<1>6. refunds' = refunds /\ debt' = debt /\ Owing' = Owing /\ holds' = holds
  BY DEF Expire, Owing
<1>7. book' = book - SweptAmount(stamp)
  BY DEF Expire
<1>8. /\ debt \in Nat /\ refunds \in [Sources -> Refund] /\ SweptAmount(stamp) \in Int
      /\ book \in Int /\ Owing \in Int
      /\ \A s \in Sources : InHolds(s) \in Nat /\ Granted(s) \in Nat
  BY <1>1, BooksAreNumbers
<1>9. \A s \in Sources : InHolds(s)' = InHolds(s)
  BY <1>1, <1>6, HoldsStay
<1>10. Books'
  <2>1. /\ Sum([g \in New |-> lots'[g].remaining]) = 0
        /\ Sum([g \in New |-> lots'[g].offset]) = 0
        /\ \A s : /\ Sum([g \in New \cap Family(s)' |-> lots'[g].quantity]) = 0
                  /\ Granted(s)' = Granted(s)
    BY <1>1, NothingNew
  <2>2. book' = book - SweptAmount(stamp) - Sum(take)
                  + Sum([g \in New |-> lots'[g].remaining]) - (debt' - debt)
    BY <1>2, <1>6, <1>7, <1>8, <2>1
  <2>3. debt' = debt + (Owing' - Owing) - Sum([g \in New |-> lots'[g].offset])
    BY <1>6, <1>8, <2>1
  <2>4. \A s \in Sources :
          Granted(s)' - Granted(s)
            = Sum([g \in New \cap Family(s)' |-> lots'[g].quantity])
                - Sum([g \in Family(s) |-> take[g]])
                + (InHolds(s)' - InHolds(s)) + (refunds'[s].removed - refunds[s].removed)
    <3> SUFFICES ASSUME NEW s \in Sources
                 PROVE  Granted(s)' - Granted(s)
                          = 0 - 0 + (InHolds(s)' - InHolds(s))
                              + (refunds'[s].removed - refunds[s].removed)
      BY <1>2, <2>1
    <3>1. refunds[s].removed \in Nat
      BY <1>8 DEF Refund
    <3> QED BY <1>6, <1>8, <1>9, <2>1, <3>1
  <2>5. TypeOK'
    BY DEF IInv
  <2> QED BY <1>5, <1>6, <1>8, <2>2, <2>3, <2>4, <2>5, BooksKept
<1>11. DebtStep
  BY <1>1, <1>6, <1>8 DEF DebtStep, Refund
<1> QED BY <1>10, <1>11

LEMMA GrantBooks ==
    ASSUME IInv, IInv', LotsStep, Books, NothingTaken', NEW stamp, NEW s \in Sources, NEW e,
           Grant(s, stamp, e)
    PROVE  Books' /\ DebtStep
<1> DEFINE take == [g \in DOMAIN lots |-> 0]
<1>1. PICK paid \in 0..Quantity[s] :
        /\ paid = Lesser(debt, Quantity[s])
        /\ debt' = debt - paid
        /\ lots' = [g \in DOMAIN lots \cup {<<s>>} |->
                       IF g = <<s>> THEN NewLot(s, Quantity[s], paid, stamp, e)
                       ELSE SweptLot(lots[g], stamp)]
  BY DEF Grant
<1>2. /\ debt \in Nat /\ refunds \in [Sources -> Refund] /\ SweptAmount(stamp) \in Int
      /\ book \in Int /\ Owing \in Int
      /\ \A q \in Sources : InHolds(q) \in Nat /\ Granted(q) \in Nat
      /\ IsFiniteSet(DOMAIN lots) /\ Quantity[s] \in Nat /\ paid \in Nat /\ debt' \in Nat
  BY <1>1, BooksAreNumbers, ConstantsOK DEF Lesser
<1>3. take \in [DOMAIN lots -> Nat] /\ Sum(take) = 0
      /\ \A q : Sum([g \in Family(q) |-> take[g]]) = 0
  BY <1>2, NothingGiven
<1>4. /\ <<s>> \notin DOMAIN lots /\ New = {<<s>>} /\ IsFiniteSet(New)
      /\ DOMAIN lots' = DOMAIN lots \cup {<<s>>}
  <2>1. <<s>> \notin DOMAIN lots
    BY DEF Grant
  <2>2. DOMAIN lots' = DOMAIN lots \cup {<<s>>}
    BY <1>1
  <2>3. IsFiniteSet({<<s>>})
    BY FS_Singleton
  <2> QED BY <2>1, <2>2, <2>3 DEF New
<1>5. /\ lots'[<<s>>].remaining = Quantity[s] - paid /\ lots'[<<s>>].offset = paid
      /\ lots'[<<s>>].quantity = Quantity[s] /\ lots'[<<s>>].expired = 0
      /\ lots'[<<s>>].origin = s
  BY <1>1 DEF NewLot
<1>6. \A g \in DOMAIN lots : /\ take[g] = 0 /\ lots'[g] = SweptLot(lots[g], stamp)
                             /\ lots'[g].remaining \in Nat
  BY <1>1, <1>4 DEF IInv, TypeOK, Lot
<1> HIDE DEF take
<1>7. Moves(stamp, take)
  BY <1>2, <1>3, <1>4, <1>5, <1>6 DEF Moves
<1>8. refunds' = refunds /\ Owing' = Owing /\ holds' = holds
      /\ book' = book - SweptAmount(stamp) + Quantity[s]
  BY DEF Grant, Owing
<1>9. \A q \in Sources : InHolds(q)' = InHolds(q)
  BY <1>2, <1>8, HoldsStay
<1>10. /\ Sum([g \in New |-> lots'[g].remaining]) = Quantity[s] - paid
       /\ Sum([g \in New |-> lots'[g].offset]) = paid
  <2> DEFINE f == [g \in {<<s>>} |-> lots'[g].remaining]
             h == [g \in {<<s>>} |-> lots'[g].offset]
  <2>1. f \in [{<<s>>} -> Nat] /\ h \in [{<<s>>} -> Nat]
        /\ f[<<s>>] = Quantity[s] - paid /\ h[<<s>>] = paid
    BY <1>1, <1>2, <1>5
  <2> HIDE DEF f, h
  <2>2. Sum(f) = Quantity[s] - paid /\ Sum(h) = paid
    BY <2>1, SumOfOne
  <2> QED BY <1>4, <2>2 DEF f, h
<1>11. ASSUME NEW q \in Sources
       PROVE  Granted(q)' - Granted(q) = Sum([g \in New \cap Family(q)' |-> lots'[g].quantity])
  <2>1. CASE q = s
    <3> DEFINE f == [g \in {<<s>>} |-> lots'[g].quantity]
    <3>1. New \cap Family(q)' = {<<s>>}
      BY <1>4, <1>5, <2>1 DEF Family
    <3>2. f \in [{<<s>>} -> Nat] /\ f[<<s>>] = Quantity[s]
      BY <1>2, <1>5
    <3> HIDE DEF f
    <3>3. Sum(f) = Quantity[s]
      BY <3>2, SumOfOne
    <3>4. Granted(q)' = Quantity[s] /\ Granted(q) = 0
      BY <1>4, <2>1 DEF Granted
    <3> QED BY <1>2, <3>1, <3>3, <3>4 DEF f
  <2>2. CASE q # s
    <3>1. New \cap Family(q)' = {}
      BY <1>4, <1>5, <2>2 DEF Family
    <3>2. \A f : DOMAIN f = {} => Sum(f) = 0
      BY SumOfNothing
    <3>3. Sum([g \in New \cap Family(q)' |-> lots'[g].quantity]) = 0
      BY <3>1, <3>2
    <3>4. Granted(q)' = Granted(q)
      BY <1>4, <2>2 DEF Granted
    <3> QED BY <1>2, <3>3, <3>4
  <2> QED BY <2>1, <2>2
<1>12. Books'
  <2>2. book' = book - SweptAmount(stamp) - Sum(take)
                  + Sum([g \in New |-> lots'[g].remaining]) - (debt' - debt)
    BY <1>1, <1>2, <1>3, <1>8, <1>10
  <2>3. debt' = debt + (Owing' - Owing) - Sum([g \in New |-> lots'[g].offset])
    BY <1>1, <1>2, <1>8, <1>10
  <2>4. \A q \in Sources :
          Granted(q)' - Granted(q)
            = Sum([g \in New \cap Family(q)' |-> lots'[g].quantity])
                - Sum([g \in Family(q) |-> take[g]])
                + (InHolds(q)' - InHolds(q)) + (refunds'[q].removed - refunds[q].removed)
    <3> SUFFICES ASSUME NEW q \in Sources
                 PROVE  Granted(q)' - Granted(q)
                          = (Granted(q)' - Granted(q)) - 0 + (InHolds(q)' - InHolds(q))
                              + (refunds'[q].removed - refunds[q].removed)
      BY <1>3, <1>11
    <3>1. refunds[q].removed \in Nat /\ Granted(q)' \in Int
      BY <1>2, ConstantsOK DEF Refund, Granted
    <3> QED BY <1>2, <1>8, <1>9, <3>1
  <2>5. TypeOK'
    BY DEF IInv
  <2> QED BY <1>2, <1>7, <1>8, <2>2, <2>3, <2>4, <2>5, BooksKept
<1>13. DebtStep
  <2>1. ASSUME lots'[<<s>>].remaining > 0 PROVE debt' = 0
    BY <1>1, <1>2, <1>5, <2>1 DEF Lesser
  <2> QED BY <1>2, <1>4, <1>8, <2>1 DEF DebtStep, Refund
<1> QED BY <1>12, <1>13

LEMMA ReserveBooks ==
    ASSUME IInv, IInv', LotsStep, Books, NothingTaken', NEW stamp \in Nat, NEW r \in Reservations,
           Reserve(r, stamp)
    PROVE  Books' /\ DebtStep
<1> DEFINE D == {h \in DOMAIN lots : lots[h].remaining > 0 /\ ~Lapsed(lots[h], stamp)}
           cap == Usable(stamp)
<1>1. /\ D \subseteq DOMAIN lots /\ cap \in [D -> Nat] /\ \A g \in D : cap[g] = lots[g].remaining
  BY DEF Usable, IInv, TypeOK, Lot
<1>2. PICK give \in Greedy(cap, Price[r]) :
        /\ lots' = [g \in DOMAIN lots |->
                       IF g \in DOMAIN give
                       THEN [SweptLot(lots[g], stamp) EXCEPT !.remaining = @ - give[g]]
                       ELSE SweptLot(lots[g], stamp)]
        /\ LET taken == [g \in {h \in DOMAIN give : give[h] > 0} |-> give[g]]
           IN  holds' = [holds EXCEPT ![r] =
                            Hold("reserved", taken, [g \in DOMAIN taken |-> 0], stamp)]
  BY DEF Reserve
<1>3. give \in [D -> Nat] /\ \A g \in D : give[g] <= lots[g].remaining
  <2> HIDE DEF D, cap
  <2> QED BY <1>1, GreedyTakes
<1> DEFINE E == {h \in D : give[h] > 0}
           taken == [g \in E |-> give[g]]
           take == [g \in DOMAIN lots |-> IF g \in D THEN give[g] ELSE 0]
<1>4. holds' = [holds EXCEPT ![r] = Hold("reserved", taken, [g \in E |-> 0], stamp)]
  BY <1>2, <1>3
<1>5. /\ debt \in Nat /\ refunds \in [Sources -> Refund] /\ SweptAmount(stamp) \in Int
      /\ book \in Int /\ Owing \in Int /\ Remaining(Swept(stamp)) \in Nat
      /\ \A q \in Sources : InHolds(q) \in Nat /\ Granted(q) \in Nat
      /\ IsFiniteSet(DOMAIN lots) /\ Price[r] \in Nat \ {0}
  BY BooksAreNumbers, ConstantsOK
<1>6. DOMAIN lots' = DOMAIN lots /\ IsFiniteSet(D) /\ E \subseteq D /\ IsFiniteSet(DOMAIN lots')
  BY <1>1, <1>2, <1>5, FS_Subset
<1>7. ASSUME NEW g \in DOMAIN lots
      PROVE  /\ lots'[g].remaining + take[g] = SweptLot(lots[g], stamp).remaining
             /\ lots'[g].expired = SweptLot(lots[g], stamp).expired
             /\ take[g] \in Nat /\ take[g] > 0 <=> g \in E
             /\ SweptLot(lots[g], stamp).remaining = IF g \in D THEN cap[g] ELSE 0
             /\ SweptLot(lots[g], stamp).remaining \in Nat
  <2>1. LotOK(lots[g])
    BY DEF IInv, TypeOK, LotOK
  <2>2. /\ SweptLot(lots[g], stamp).remaining = IF Lapsed(lots[g], stamp) THEN 0 ELSE lots[g].remaining
        /\ SweptLot(lots[g], stamp).remaining \in Nat
        /\ SweptLot(lots[g], stamp) \in Lot /\ lots[g].remaining \in Nat
    BY <2>1, SweptIs, SweepDrains DEF LotOK, Lot
  <2>3. CASE g \in D
    <3>1. lots'[g] = [SweptLot(lots[g], stamp) EXCEPT !.remaining = @ - give[g]]
          /\ take[g] = give[g] /\ give[g] \in Nat
      BY <1>2, <1>3, <2>3
    <3>2. lots'[g].remaining = SweptLot(lots[g], stamp).remaining - give[g]
          /\ lots'[g].expired = SweptLot(lots[g], stamp).expired
      BY <2>2, <3>1 DEF Lot
    <3> QED BY <1>1, <2>2, <2>3, <3>1, <3>2
  <2>4. CASE g \notin D
    <3>1. lots'[g] = SweptLot(lots[g], stamp) /\ take[g] = 0
      BY <1>2, <1>3, <2>4
    <3>2. SweptLot(lots[g], stamp).remaining = 0
      BY <2>2, <2>4
    <3> QED BY <1>6, <2>4, <3>1, <3>2
  <2> QED BY <2>3, <2>4
<1>8. take \in [DOMAIN lots -> Nat]
  BY <1>3
<1>9. Moves(stamp, take)
  <2> HIDE DEF take
  <2> QED BY <1>6, <1>7, <1>8, NothingNew DEF Moves
<1>10. Sum(take) = Price[r]
  <2> DEFINE w == [g \in DOMAIN lots |-> SweptLot(lots[g], stamp).remaining]
  <2>1. /\ Remaining(Swept(stamp)) = Sum(w) /\ w \in [DOMAIN lots -> Nat]
        /\ \A g \in D : cap[g] = w[g]
        /\ \A g \in DOMAIN lots \ D : w[g] = 0
    BY <1>6, <1>7 DEF Remaining, Swept
  <2>2. \A g \in D : give[g] = take[g]
    BY <1>6
  <2>3. \A g \in DOMAIN lots \ D : take[g] = 0
    OBVIOUS
  <2> HIDE DEF w, take, D, cap
  <2>4. Sum(w) = Sum(cap)
    BY <1>1, <1>5, <2>1, SumOfRest
  <2>5. Sum(take) = Sum(give)
    BY <1>1, <1>3, <1>5, <1>8, <2>2, <2>3, SumOfRest
  <2>6. Price[r] <= Sum(cap)
    BY <1>5, <2>1, <2>4 DEF Reserve, Available, Greater
  <2> QED BY <1>1, <1>2, <1>5, <1>6, <2>5, <2>6, GreedySum
<1>11. refunds' = refunds /\ Owing' = Owing /\ debt' = debt
       /\ book' = book - SweptAmount(stamp) - Price[r]
  BY DEF Reserve, Owing
<1>12. ASSUME NEW q
       PROVE  InHold(r, q) = 0 /\ InHold(r, q)' = Sum([g \in Family(q) |-> take[g]])
  <2>1. DOMAIN Booked(r) \cap Family(q) = {}
    BY DEF Booked, Books, NothingTaken, Reserve, IInv, TypeOK, HoldOK
  <2>2. InHold(r, q) = 0
    BY <2>1, SumOfNothing DEF InHold
  <2>3. Booked(r)' = taken
    BY <1>4 DEF Booked, Hold, IInv, TypeOK
  <2>4. Family(q)' = Family(q) /\ Family(q) \subseteq DOMAIN lots /\ IsFiniteSet(Family(q))
    BY <1>5, <1>6, FS_Subset DEF Family, LotsStep, Drains
  <2> DEFINE f == [g \in Family(q) |-> take[g]]
             h == [g \in E \cap Family(q) |-> taken[g]]
  <2>5. /\ f \in [Family(q) -> Nat] /\ h \in [E \cap Family(q) -> Nat]
        /\ \A g \in E \cap Family(q) : h[g] = f[g]
        /\ \A g \in Family(q) \ (E \cap Family(q)) : f[g] = 0
    BY <1>3, <1>7, <1>8, <2>4
  <2>6. InHold(r, q)' = Sum(h)
    BY <2>3, <2>4 DEF InHold
  <2>7. Sum(f) = Sum(h)
    <3> HIDE DEF f, h, E
    <3> QED BY <2>4, <2>5, SumOfRest
  <2> QED BY <2>2, <2>6, <2>7
<1>13. \A q \in Reservations \ {r} : holds'[q] = holds[q]
  BY <1>4 DEF IInv, TypeOK
<1>14. TypeOK'
  BY DEF IInv
<1> HIDE DEF take
<1>15. ASSUME NEW q \in Sources
       PROVE  /\ InHolds(q)' = InHolds(q) + Sum([g \in Family(q) |-> take[g]])
              /\ Sum([g \in Family(q) |-> take[g]]) \in Nat
  <2>1. /\ InHolds(q)' = InHolds(q) - InHold(r, q) + InHold(r, q)'
        /\ InHolds(q) \in Nat /\ InHold(r, q)' \in Nat
    BY <1>5, <1>6, <1>13, <1>14, OneHoldMoves
  <2> QED BY <1>12, <2>1
<1>16. Books'
  <2>1. /\ Sum([g \in New |-> lots'[g].remaining]) = 0
        /\ Sum([g \in New |-> lots'[g].offset]) = 0
        /\ \A q : /\ Sum([g \in New \cap Family(q)' |-> lots'[g].quantity]) = 0
                  /\ Granted(q)' = Granted(q)
    BY <1>6, NothingNew
  <2>2. book' = book - SweptAmount(stamp) - Sum(take)
                  + Sum([g \in New |-> lots'[g].remaining]) - (debt' - debt)
    BY <1>5, <1>10, <1>11, <2>1
  <2>3. debt' = debt + (Owing' - Owing) - Sum([g \in New |-> lots'[g].offset])
    BY <1>5, <1>11, <2>1
  <2>4. \A q \in Sources :
          Granted(q)' - Granted(q)
            = Sum([g \in New \cap Family(q)' |-> lots'[g].quantity])
                - Sum([g \in Family(q) |-> take[g]])
                + (InHolds(q)' - InHolds(q)) + (refunds'[q].removed - refunds[q].removed)
    <3> TAKE q \in Sources
    <3> DEFINE t == Sum([g \in Family(q) |-> take[g]])
    <3>1. refunds'[q].removed = refunds[q].removed /\ refunds[q].removed \in Nat
      BY <1>5, <1>11 DEF Refund
    <3>2. InHolds(q)' = InHolds(q) + t /\ t \in Nat /\ InHolds(q) \in Nat
          /\ Granted(q)' = Granted(q) /\ Granted(q) \in Nat
      BY <1>5, <1>15, <2>1
    <3>3. Sum([g \in New \cap Family(q)' |-> lots'[g].quantity]) = 0
      BY <2>1
    <3> HIDE DEF t
    <3>4. Granted(q)' - Granted(q)
            = 0 - t + (InHolds(q)' - InHolds(q)) + (refunds'[q].removed - refunds[q].removed)
      BY <3>1, <3>2
    <3> QED BY <3>3, <3>4 DEF t
  <2> QED BY <1>5, <1>9, <1>11, <1>14, <2>2, <2>3, <2>4, BooksKept
<1>17. DebtStep
  BY <1>5, <1>6, <1>11 DEF DebtStep, Refund
<1> QED BY <1>16, <1>17

LEMMA SettleBooks ==
    ASSUME IInv, IInv', LotsStep, Books, NothingTaken', NEW stamp \in Nat, NEW r \in Reservations,
           NEW committed \in Nat, Settle(r, stamp, committed)
    PROVE  Books' /\ DebtStep
<1> DEFINE taken == holds[r].taken
           D == DOMAIN taken
<1>1. taken \in [D -> Nat] /\ D \subseteq DOMAIN lots /\ holds[r].state = "reserved"
  BY DEF IInv, TypeOK, HoldOK, Settle, Settleable
<1>2. PICK used \in Greedy(taken, committed) :
        LET released == Unused(r, used)
            restored == {<<g, r>> : g \in DOMAIN released}
        IN \E paid \in DebtPayments(released) :
             /\ lots' = [g \in DOMAIN lots \cup restored |->
                            IF g \in restored
                            THEN NewLot(lots[g[1]].origin, released[g[1]], paid[g[1]], stamp,
                                        RestoredUntil(lots[g[1]], stamp))
                            ELSE SweptLot(lots[g], stamp)]
             /\ debt' = debt - Sum(paid)
             /\ holds' = [holds EXCEPT ![r] = Hold("settled", @.taken, used, @.created)]
             /\ book' = book - SweptAmount(stamp) + Sum(released)
  BY DEF Settle
<1>3. used \in [D -> Nat] /\ \A g \in D : used[g] <= taken[g]
  <2> HIDE DEF taken, D
  <2> QED BY <1>1, GreedyTakes
<1> DEFINE released == Unused(r, used)
           E == {h \in D : used[h] < taken[h]}
           restored == {<<h, r>> : h \in E}
           take == [g \in DOMAIN lots |-> 0]
<1>4. /\ E \subseteq D /\ released \in [E -> Nat] /\ DOMAIN released = E
      /\ \A g \in E : released[g] = taken[g] - used[g]
  BY <1>1, <1>3 DEF Unused
<1>5. PICK paid \in Greedy(released, debt) :
        /\ lots' = [g \in DOMAIN lots \cup restored |->
                       IF g \in restored
                       THEN NewLot(lots[g[1]].origin, released[g[1]], paid[g[1]], stamp,
                                   RestoredUntil(lots[g[1]], stamp))
                       ELSE SweptLot(lots[g], stamp)]
        /\ debt' = debt - Sum(paid)
        /\ book' = book - SweptAmount(stamp) + Sum(released)
  BY <1>2, <1>4 DEF DebtPayments
<1>6. holds' = [holds EXCEPT ![r] = Hold("settled", taken, used, holds[r].created)]
  BY <1>2
<1> HIDE DEF released, taken, D, take
<1>7. /\ debt \in Nat /\ refunds \in [Sources -> Refund] /\ SweptAmount(stamp) \in Int
      /\ book \in Int /\ Owing \in Int
      /\ \A q \in Sources : InHolds(q) \in Nat /\ Granted(q) \in Nat
      /\ IsFiniteSet(DOMAIN lots)
  BY BooksAreNumbers
<1>8. IsFiniteSet(D) /\ IsFiniteSet(E)
  <2>1. IsFiniteSet(D) /\ E \subseteq D
    BY <1>1, <1>7, FS_Subset
  <2> QED BY <2>1, FS_Subset
<1>9. paid \in [E -> Nat] /\ \A g \in E : paid[g] <= released[g]
  <2> HIDE DEF E
  <2> QED BY <1>4, <1>5, GreedyTakes
<1>10. /\ Sum(paid) \in Nat /\ Sum(released) \in Nat /\ Sum(paid) <= debt
       /\ Sum(paid) = debt \/ \A g \in E : paid[g] = released[g]
  <2> HIDE DEF E
  <2> QED BY <1>4, <1>5, <1>7, <1>8, GreedySum
<1>11. restored \cap DOMAIN lots = {}
  BY <1>1 DEF IInv, RestoredAreSettled
<1>12. DOMAIN lots' = DOMAIN lots \cup restored /\ New = restored
  BY <1>5, <1>11 DEF New
<1>13. ASSUME NEW h \in E
       PROVE  /\ lots'[<<h, r>>].remaining = released[h] - paid[h]
              /\ lots'[<<h, r>>].offset = paid[h] /\ lots'[<<h, r>>].expired = 0
              /\ lots'[<<h, r>>].quantity = released[h]
              /\ lots'[<<h, r>>].origin = lots[h].origin
              /\ released[h] \in Nat /\ paid[h] \in Nat /\ released[h] - paid[h] \in Nat
  <2>1. lots'[<<h, r>>] = NewLot(lots[h].origin, released[h], paid[h], stamp,
                                 RestoredUntil(lots[h], stamp))
    BY <1>5
  <2>2. released[h] \in Nat /\ paid[h] \in Nat /\ paid[h] <= released[h]
    BY <1>4, <1>9
  <2> QED BY <2>1, <2>2 DEF NewLot
<1>14. /\ take \in [DOMAIN lots -> Nat] /\ Sum(take) = 0
       /\ \A q : Sum([g \in Family(q) |-> take[g]]) = 0
  BY <1>7, NothingGiven DEF take
<1>15. \A g \in DOMAIN lots : /\ take[g] = 0 /\ lots'[g] = SweptLot(lots[g], stamp)
                              /\ lots'[g].remaining \in Nat
  BY <1>5, <1>11, <1>12 DEF take, IInv, TypeOK, Lot
<1>16. IsFiniteSet(New) /\ Sum([g \in New |-> lots'[g].offset]) = Sum(paid)
       /\ Sum([g \in New |-> lots'[g].remaining]) + Sum(paid) = Sum(released)
       /\ Sum([g \in New |-> lots'[g].remaining]) \in Nat
  <2> DEFINE o == [g \in restored |-> lots'[g].offset]
             n == [g \in restored |-> lots'[g].remaining]
             m == [h \in E |-> released[h] - paid[h]]
             move == [h \in E |-> <<h, r>>]
  <2>0. /\ move \in [E -> restored] /\ \A h \in E : move[h] = <<h, r>>
        /\ \A x, y \in E : move[x] = move[y] => x = y
        /\ \A y \in restored : \E x \in E : move[x] = y
    OBVIOUS
  <2>1. /\ o \in [restored -> Nat] /\ n \in [restored -> Nat] /\ m \in [E -> Nat]
        /\ \A h \in E : o[move[h]] = paid[h]
        /\ \A h \in E : n[move[h]] = m[h]
        /\ \A h \in E : released[h] = m[h] + paid[h]
    <3>1. ASSUME NEW h \in E
          PROVE  o[move[h]] = paid[h] /\ n[move[h]] = m[h] /\ released[h] = m[h] + paid[h]
      BY <1>13
    <3>2. m \in [E -> Nat]
      BY <1>13
    <3>3. o \in [restored -> Nat] /\ n \in [restored -> Nat]
      BY <1>13
    <3> QED BY <3>1, <3>2, <3>3
  <2>2. Sum([g \in New |-> lots'[g].offset]) = Sum(o)
        /\ Sum([g \in New |-> lots'[g].remaining]) = Sum(n)
    BY <1>12
  <2> HIDE DEF o, n, m, move, restored, E
  <2>3. IsFiniteSet(restored) /\ Sum(o) = Sum(paid)
    BY <1>8, <1>9, <2>0, <2>1, SumRenamed
  <2>4. Sum(n) = Sum(m) /\ Sum(m) \in Nat
    BY <1>8, <2>0, <2>1, SumRenamed, SumIsNat
  <2>5. Sum(released) = Sum(m) + Sum(paid)
    BY <1>4, <1>8, <1>9, <2>1, SumOfSums
  <2> QED BY <1>10, <1>12, <2>2, <2>3, <2>4, <2>5
<1>17. Moves(stamp, take)
  <2>1. \A g \in New : lots'[g].expired = 0
                       /\ lots'[g].remaining + lots'[g].offset = lots'[g].quantity
    BY <1>12, <1>13
  <2> QED BY <1>14, <1>15, <1>16, <2>1 DEF Moves
<1>18. refunds' = refunds /\ Owing' = Owing
  BY DEF Settle, Owing
<1>19. \A q \in Reservations \ {r} : holds'[q] = holds[q]
  BY <1>6 DEF IInv, TypeOK
<1>20. TypeOK' /\ IsFiniteSet(DOMAIN lots')
  BY <1>7, <1>12, <1>16, FS_Union DEF IInv
<1>21. ASSUME NEW q \in Sources
       PROVE  /\ InHolds(q)' + Sum([g \in New \cap Family(q)' |-> lots'[g].quantity]) = InHolds(q)
              /\ Sum([g \in New \cap Family(q)' |-> lots'[g].quantity]) \in Nat
              /\ InHolds(q)' \in Nat
  <2> DEFINE F == D \cap Family(q)
             G == E \cap Family(q)
             t == [g \in F |-> taken[g]]
             u == [g \in F |-> used[g]]
             d == [g \in F |-> taken[g] - used[g]]
             k == [g \in G |-> released[g]]
             R == {<<h, r>> : h \in G}
             n == [g \in R |-> lots'[g].quantity]
             move == [h \in G |-> <<h, r>>]
  <2>1. IsFiniteSet(F) /\ IsFiniteSet(G) /\ G \in SUBSET F
    BY <1>4, <1>8, FS_Subset
  <2>2. /\ t \in [F -> Nat] /\ u \in [F -> Nat] /\ d \in [F -> Nat] /\ k \in [G -> Nat]
        /\ \A g \in F : t[g] = u[g] + d[g]
        /\ \A g \in G : k[g] = d[g]
        /\ \A g \in F \ G : d[g] = 0
    BY <1>1, <1>3, <1>4
  <2>3. /\ n \in [R -> Nat]
        /\ \A h \in G : n[move[h]] = k[h]
        /\ move \in [G -> R]
        /\ \A x, y \in G : move[x] = move[y] => x = y
        /\ \A y \in R : \E x \in G : move[x] = y
    BY <1>13
  <2>4. \A h \in E : h \in DOMAIN lots
    BY <1>1, <1>4
  <2>5. New \cap Family(q)' = R
    <3>1. ASSUME NEW h \in E PROVE <<h, r>> \in Family(q)' <=> h \in Family(q)
      BY <1>12, <1>13, <2>4 DEF Family
    <3> QED BY <1>12, <3>1
  <2>6. InHold(r, q) = Sum(t)
    BY <1>1 DEF InHold, Booked, taken, D
  <2>7. InHold(r, q)' = Sum(u)
    <3>1. Booked(r)' = used
      BY <1>6 DEF Booked, Hold, IInv, TypeOK
    <3>2. D \cap Family(q)' = F
      BY <1>1 DEF Family, LotsStep, Drains
    <3>3. DOMAIN used = D
      BY <1>3
    <3>4. InHold(r, q)' = Sum([g \in DOMAIN Booked(r)' \cap Family(q)' |-> Booked(r)'[g]])
      BY DEF InHold
    <3> QED BY <3>1, <3>2, <3>3, <3>4
  <2>8. Sum([g \in New \cap Family(q)' |-> lots'[g].quantity]) = Sum(n)
    BY <2>5
  <2> HIDE DEF F, G, t, u, d, k, n, R, move
  <2>9. Sum(t) = Sum(u) + Sum(d)
    BY <2>1, <2>2, SumOfSums
  <2>10. Sum(d) = Sum(k)
    BY <2>1, <2>2, SumOfRest
  <2>11. Sum(n) = Sum(k)
    BY <2>1, <2>2, <2>3, SumRenamed
  <2>12. Sum(u) \in Nat /\ Sum(k) \in Nat
    BY <2>1, <2>2, SumIsNat
  <2>13. /\ InHolds(q)' = InHolds(q) - InHold(r, q) + InHold(r, q)'
         /\ InHolds(q) \in Nat
    BY <1>7, <1>19, <1>20, OneHoldMoves
  <2>14. InHolds(q)' \in Nat
    BY <1>20, HoldsNatNext
  <2> QED BY <2>6, <2>7, <2>8, <2>9, <2>10, <2>11, <2>12, <2>13, <2>14
<1>22. Books'
  <2>2. book' = book - SweptAmount(stamp) - Sum(take)
                  + Sum([g \in New |-> lots'[g].remaining]) - (debt' - debt)
    <3> DEFINE n == Sum([g \in New |-> lots'[g].remaining])
    <3>1. n + Sum(paid) = Sum(released) /\ n \in Nat
      BY <1>16
    <3> HIDE DEF n
    <3>2. book' = book - SweptAmount(stamp) - Sum(take) + n - (debt' - debt)
      BY <1>5, <1>7, <1>10, <1>14, <3>1
    <3> QED BY <3>2 DEF n
  <2>3. debt' = debt + (Owing' - Owing) - Sum([g \in New |-> lots'[g].offset]) /\ debt' \in Nat
    <3>1. Sum([g \in New |-> lots'[g].offset]) = Sum(paid)
      BY <1>16
    <3>2. debt' = debt + (Owing' - Owing) - Sum(paid) /\ debt' \in Nat
      BY <1>5, <1>7, <1>10, <1>18
    <3> QED BY <3>1, <3>2
  <2>4. \A q \in Sources :
          Granted(q)' - Granted(q)
            = Sum([g \in New \cap Family(q)' |-> lots'[g].quantity])
                - Sum([g \in Family(q) |-> take[g]])
                + (InHolds(q)' - InHolds(q)) + (refunds'[q].removed - refunds[q].removed)
    <3> TAKE q \in Sources
    <3> DEFINE n == Sum([g \in New \cap Family(q)' |-> lots'[g].quantity])
    <3>1. refunds'[q].removed = refunds[q].removed /\ refunds[q].removed \in Nat
      BY <1>7, <1>18 DEF Refund
    <3>2. InHolds(q)' + n = InHolds(q) /\ n \in Nat /\ InHolds(q)' \in Nat
      BY <1>21
    <3>3. \A h : <<q>> # <<h, r>>
      OBVIOUS
    <3>4. Granted(q)' = Granted(q) /\ Granted(q) \in Nat
      BY <1>7, <1>12, <3>3 DEF Granted
    <3>5. Sum([g \in Family(q) |-> take[g]]) = 0
      BY <1>14
    <3> HIDE DEF n
    <3>6. Granted(q)' - Granted(q)
            = n - 0 + (InHolds(q)' - InHolds(q)) + (refunds'[q].removed - refunds[q].removed)
      BY <3>1, <3>2, <3>4
    <3> QED BY <3>5, <3>6 DEF n
  <2> QED BY <1>7, <1>17, <1>18, <1>20, <2>2, <2>3, <2>4, BooksKept
<1>23. DebtStep
  <2>1. ASSUME NEW g \in New, lots'[g].remaining > 0 PROVE debt' = 0
    <3>1. PICK h \in E : g = <<h, r>>
      BY <1>12
    <3>2. paid[h] # released[h]
      BY <1>13, <2>1, <3>1
    <3> QED BY <1>5, <1>7, <1>10, <3>2
  <2>2. \A s \in Sources : refunds[s].owed \in Nat
    BY <1>7 DEF Refund
  <2> QED BY <1>18, <2>1, <2>2 DEF DebtStep, New
<1> QED BY <1>22, <1>23

LEMMA RevokeBooks ==
    ASSUME IInv, IInv', LotsStep, Books, NothingTaken', NEW stamp \in Nat, NEW s \in Sources,
           NEW target \in Nat, Revoke(s, stamp, target)
    PROVE  Books' /\ DebtStep
<1> DEFINE delta == target - refunds[s].target
           cap == [g \in Family(s) |-> SweptLot(lots[g], stamp).remaining]
<1>1. PICK removed \in Greedy(cap, delta) :
        LET rest == delta - Sum(removed)
            absorbed == Absorbed(s, stamp, rest)
        IN /\ lots' = [g \in DOMAIN lots |->
                          IF g \in Family(s)
                          THEN [SweptLot(lots[g], stamp) EXCEPT !.remaining = @ - removed[g]]
                          ELSE SweptLot(lots[g], stamp)]
           /\ debt' = debt + (rest - absorbed)
           /\ refunds' = [refunds EXCEPT ![s] =
                 [target |-> target, removed |-> @.removed + Sum(removed),
                  absorbed |-> @.absorbed + absorbed, owed |-> @.owed + (rest - absorbed)]]
           /\ book' = book - SweptAmount(stamp) - RevokedAmount(delta, absorbed)
  BY DEF Revoke
<1> DEFINE rest == delta - Sum(removed)
           absorbed == Absorbed(s, stamp, rest)
           take == [g \in DOMAIN lots |-> IF g \in Family(s) THEN removed[g] ELSE 0]
<1>2. /\ debt \in Nat /\ refunds \in [Sources -> Refund] /\ SweptAmount(stamp) \in Int
      /\ book \in Int /\ Owing \in Nat
      /\ \A q \in Sources : InHolds(q) \in Nat /\ Granted(q) \in Nat
      /\ IsFiniteSet(DOMAIN lots)
  BY BooksAreNumbers
<1>3. Family(s) \subseteq DOMAIN lots /\ IsFiniteSet(Family(s)) /\ DOMAIN lots' = DOMAIN lots
  BY <1>1, <1>2, FS_Subset DEF Family
<1>4. \A g \in DOMAIN lots :
        /\ SweptLot(lots[g], stamp).remaining \in Nat
        /\ SweptLot(lots[g], stamp) \in Lot
  BY SweptIs, SweepDrains DEF IInv, TypeOK, LotOK
<1>5. cap \in [Family(s) -> Nat]
  BY <1>3, <1>4
<1>6. delta \in Nat /\ delta > 0 /\ refunds[s] \in Refund /\ target = refunds[s].target + delta
  BY <1>2 DEF Revoke, Refund
<1>7. removed \in [Family(s) -> Nat] /\ \A g \in Family(s) : removed[g] <= cap[g]
  <2> HIDE DEF cap, delta
  <2> QED BY <1>1, <1>5, GreedyTakes
<1>8. /\ Sum(removed) \in Nat /\ rest \in Nat
      /\ rest > 0 => \A g \in Family(s) : removed[g] = cap[g]
  <2>1. /\ Sum(removed) \in Nat /\ Sum(removed) <= delta
        /\ Sum(removed) = delta \/ \A g \in Family(s) : removed[g] = cap[g]
    <3> HIDE DEF cap, delta
    <3> QED BY <1>1, <1>3, <1>5, <1>6, GreedySum
  <2> HIDE DEF cap, delta
  <2> QED BY <1>6, <2>1
<1>9. ASSUME NEW g \in DOMAIN lots
      PROVE  /\ take[g] \in Nat /\ take[g] = IF g \in Family(s) THEN removed[g] ELSE 0
             /\ lots'[g].remaining + take[g] = SweptLot(lots[g], stamp).remaining
             /\ lots'[g].expired = SweptLot(lots[g], stamp).expired
  <2>1. CASE g \in Family(s)
    <3>1. lots'[g] = [SweptLot(lots[g], stamp) EXCEPT !.remaining = @ - removed[g]]
          /\ take[g] = removed[g] /\ removed[g] \in Nat
      BY <1>1, <1>7, <2>1
    <3>2. lots'[g].remaining = SweptLot(lots[g], stamp).remaining - removed[g]
          /\ lots'[g].expired = SweptLot(lots[g], stamp).expired
      BY <1>4, <3>1 DEF Lot
    <3> QED BY <1>4, <2>1, <3>1, <3>2
  <2>2. CASE g \notin Family(s)
    <3>1. lots'[g] = SweptLot(lots[g], stamp) /\ take[g] = 0
      BY <1>1, <2>2
    <3> QED BY <1>4, <2>2, <3>1
  <2> QED BY <2>1, <2>2
<1>10. take \in [DOMAIN lots -> Nat]
  BY <1>7
<1> HIDE DEF take
<1>11. Moves(stamp, take)
  BY <1>3, <1>9, <1>10, NothingNew DEF Moves
<1>12. Sum(take) = Sum(removed)
  <2>1. \A g \in Family(s) : removed[g] = take[g]
    BY <1>3, <1>9
  <2>2. \A g \in DOMAIN lots \ Family(s) : take[g] = 0
    BY <1>9
  <2> QED BY <1>2, <1>3, <1>7, <1>10, <2>1, <2>2, SumOfRest
<1>13. Sum([g \in Family(s) |-> take[g]]) = Sum(removed)
  <2>1. [g \in Family(s) |-> take[g]] = [g \in Family(s) |-> removed[g]]
    BY <1>3, <1>9
  <2>2. [g \in Family(s) |-> removed[g]] = removed
    BY <1>7
  <2> QED BY <2>1, <2>2
<1>14. ASSUME NEW q \in Sources, q # s PROVE Sum([g \in Family(q) |-> take[g]]) = 0
  <2> DEFINE f == [g \in Family(q) |-> take[g]]
  <2>1. IsFiniteSet(Family(q)) /\ \A g \in Family(q) : g \in DOMAIN lots /\ g \notin Family(s)
    BY <1>2, <1>14, FS_Subset DEF Family
  <2>2. f \in [Family(q) -> Nat] /\ \A g \in Family(q) : f[g] = 0
    BY <1>9, <2>1
  <2> HIDE DEF f
  <2>3. Sum(f) = 0
    BY <2>1, <2>2, SumOfZeros
  <2> QED BY <2>3 DEF f
<1> DEFINE lapsed == Expired(Swept(stamp), s)
<1>15. /\ lapsed \in Nat /\ refunds[s].absorbed \in Nat /\ refunds[s].absorbed <= lapsed
       /\ refunds[s].target = refunds[s].removed + refunds[s].absorbed + refunds[s].owed
  <2>1. /\ Expired(lots, s) <= lapsed /\ Expired(lots, s) \in Nat /\ lapsed \in Nat
    BY <1>2, <1>11, ExpiredInStep
  <2>2. /\ refunds[s].absorbed <= Expired(lots, s) /\ refunds[s].absorbed \in Nat
        /\ refunds[s].target = refunds[s].removed + refunds[s].absorbed + refunds[s].owed
    BY <1>6 DEF Books, DebtExplained, Refund
  <2> HIDE DEF lapsed
  <2> QED BY <2>1, <2>2
<1>16. /\ debt' = debt + (rest - absorbed)
       /\ refunds' = [refunds EXCEPT ![s] =
             [target |-> target, removed |-> @.removed + Sum(removed),
              absorbed |-> @.absorbed + absorbed, owed |-> @.owed + (rest - absorbed)]]
       /\ book' = book - SweptAmount(stamp) - (delta - absorbed)
  BY <1>1 DEF RevokedAmount
<1>17. /\ absorbed \in Nat /\ absorbed <= rest /\ refunds[s].absorbed + absorbed <= lapsed
       /\ absorbed = rest \/ refunds[s].absorbed + absorbed = lapsed
  <2> HIDE DEF rest, lapsed
  <2>1. absorbed = Lesser(rest, Greater(0, lapsed - refunds[s].absorbed))
    BY DEF Absorbed, lapsed
  <2> HIDE DEF absorbed
  <2> QED BY <1>8, <1>15, <2>1 DEF Lesser, Greater
<1>18. rest + Sum(removed) = delta
  <2> HIDE DEF delta
  <2> QED BY <1>6, <1>8
<1> HIDE DEF absorbed, rest, lapsed, delta, cap
<1>19. /\ refunds'[s] = [target |-> target, removed |-> refunds[s].removed + Sum(removed),
                         absorbed |-> refunds[s].absorbed + absorbed,
                         owed |-> refunds[s].owed + (rest - absorbed)]
       /\ \A q \in Sources \ {s} : refunds'[q] = refunds[q]
       /\ DOMAIN refunds' = Sources /\ refunds' = [q \in Sources |-> refunds'[q]]
  BY <1>2, <1>16
<1>20. refunds'[s] \in Refund
       /\ refunds'[s].removed = refunds[s].removed + Sum(removed)
       /\ refunds'[s].absorbed = refunds[s].absorbed + absorbed
       /\ refunds'[s].owed = refunds[s].owed + (rest - absorbed)
       /\ refunds'[s].target = target
  BY <1>6, <1>8, <1>17, <1>19 DEF Refund
<1>21. refunds' \in [Sources -> Refund]
  BY <1>2, <1>19, <1>20
<1>22. Owing' = Owing + (rest - absorbed)
  <2> DEFINE f == [q \in Sources |-> refunds[q].owed]
             g == [q \in Sources |-> refunds'[q].owed]
  <2>1. f \in [Sources -> Nat] /\ g \in [Sources -> Nat]
    BY <1>2, <1>21 DEF Refund
  <2>2. /\ \A q \in Sources \ {s} : g[q] = f[q]
        /\ g[s] = f[s] + (rest - absorbed)
    BY <1>19, <1>20
  <2>3. Owing = Sum(f) /\ Owing' = Sum(g)
    BY DEF Owing
  <2> HIDE DEF f, g
  <2>4. Sum(g) = Sum(f) - f[s] + g[s]
    BY <2>1, <2>2, ConstantsOK, SumOfChange
  <2>5. f[s] \in Nat
    BY <2>1
  <2> QED BY <1>2, <1>8, <1>17, <2>2, <2>3, <2>4, <2>5
<1>23. holds' = holds
  BY DEF Revoke
<1>24. \A q \in Sources : InHolds(q)' = InHolds(q)
  BY <1>2, <1>23, HoldsStay
<1>25. Books'
  <2>1. /\ Sum([g \in New |-> lots'[g].remaining]) = 0
        /\ Sum([g \in New |-> lots'[g].offset]) = 0
        /\ \A q : /\ Sum([g \in New \cap Family(q)' |-> lots'[g].quantity]) = 0
                  /\ Granted(q)' = Granted(q)
    BY <1>3, NothingNew
  <2>2. book' = book - SweptAmount(stamp) - Sum(take)
                  + Sum([g \in New |-> lots'[g].remaining]) - (debt' - debt)
    <3>1. book' = book - SweptAmount(stamp) - Sum(take) + 0 - (debt' - debt)
      BY <1>2, <1>6, <1>8, <1>12, <1>16, <1>17, <1>18
    <3> QED BY <2>1, <3>1
  <2>3. debt' = debt + (Owing' - Owing) - Sum([g \in New |-> lots'[g].offset]) /\ debt' \in Nat
    <3>1. debt' = debt + (Owing' - Owing) - 0 /\ debt' \in Nat
      BY <1>2, <1>8, <1>16, <1>17, <1>22
    <3> QED BY <2>1, <3>1
  <2>4. \A q \in Sources :
          Granted(q)' - Granted(q)
            = Sum([g \in New \cap Family(q)' |-> lots'[g].quantity])
                - Sum([g \in Family(q) |-> take[g]])
                + (InHolds(q)' - InHolds(q)) + (refunds'[q].removed - refunds[q].removed)
    <3> TAKE q \in Sources
    <3> DEFINE t == Sum([g \in Family(q) |-> take[g]])
    <3>1. refunds[q].removed \in Nat
      BY <1>2 DEF Refund
    <3>2. refunds'[q].removed = refunds[q].removed + t /\ t \in Nat
      <4>1. CASE q = s
        BY <1>8, <1>13, <1>20, <4>1
      <4>2. CASE q # s
        BY <1>14, <1>19, <3>1, <4>2
      <4> QED BY <4>1, <4>2
    <3>3. InHolds(q)' = InHolds(q) /\ InHolds(q) \in Nat
          /\ Granted(q)' = Granted(q) /\ Granted(q) \in Nat
      BY <1>2, <1>24, <2>1
    <3> HIDE DEF t
    <3>4. Granted(q)' - Granted(q)
            = 0 - t + (InHolds(q)' - InHolds(q)) + (refunds'[q].removed - refunds[q].removed)
      BY <3>1, <3>2, <3>3
    <3> QED BY <2>1, <3>4 DEF t
  <2>5. \A q \in Sources :
          \/ refunds'[q] = refunds[q]
          \/ /\ refunds'[q].target
                  = refunds'[q].removed + refunds'[q].absorbed + refunds'[q].owed
             /\ refunds'[q].absorbed <= Expired(Swept(stamp), q)
    <3>1. refunds[s].removed \in Nat /\ refunds[s].owed \in Nat
      BY <1>6 DEF Refund
    <3>2. refunds'[s].target
            = refunds'[s].removed + refunds'[s].absorbed + refunds'[s].owed
      BY <1>6, <1>8, <1>15, <1>17, <1>18, <1>20, <3>1
    <3>3. refunds'[s].absorbed <= Expired(Swept(stamp), s)
      BY <1>17, <1>20 DEF lapsed
    <3> QED BY <1>19, <3>2, <3>3
  <2>6. TypeOK'
    BY DEF IInv
  <2> QED BY <1>11, <1>21, <2>2, <2>3, <2>4, <2>5, <2>6, BooksKept
<1>26. DebtStep
  <2>1. \A q \in Sources : refunds[q].owed \in Nat
    BY <1>2 DEF Refund
  <2>2. ASSUME refunds'[s].owed > refunds[s].owed
        PROVE  /\ \A g \in Family(s) : lots'[g].remaining = 0
               /\ refunds'[s].absorbed = Expired(lots', s)
    <3>1. rest > absorbed
      BY <1>8, <1>17, <1>20, <2>1, <2>2
    <3>2. \A g \in Family(s) : removed[g] = cap[g]
      BY <1>8, <1>17, <3>1
    <3>3. ASSUME NEW g \in Family(s) PROVE lots'[g].remaining = 0
      <4>1. /\ lots'[g].remaining + removed[g] = SweptLot(lots[g], stamp).remaining
            /\ lots'[g].remaining \in Nat
        BY <1>3, <1>9 DEF IInv, TypeOK, Lot
      <4>2. removed[g] = SweptLot(lots[g], stamp).remaining /\ removed[g] \in Nat
        BY <1>7, <3>2 DEF cap
      <4> QED BY <4>1, <4>2
    <3>4. Expired(lots', s) = lapsed
      <4>1. [g \in Family(s) |-> lots'[g].expired] = [g \in Family(s) |-> Swept(stamp)[g].expired]
        BY <1>3, <1>9 DEF Swept
      <4> QED BY <4>1 DEF Expired, lapsed
    <3>5. refunds'[s].absorbed = lapsed
      BY <1>8, <1>15, <1>17, <1>20, <3>1
    <3> QED BY <3>3, <3>4, <3>5
  <2>3. \A q \in Sources \ {s} : ~(refunds'[q].owed > refunds[q].owed)
    BY <1>19, <2>1
  <2> QED BY <1>3, <2>2, <2>3 DEF DebtStep
<1> QED BY <1>25, <1>26

LEMMA StepBooks ==
    ASSUME IInv, Books, [Next]_vars
    PROVE  Books' /\ DebtStep
<1>1. IInv' /\ NothingTaken'
  BY NextStep, StepSoonest DEF Books
<1>2. CASE UNCHANGED <<lots, debt, holds, refunds, book>>
  <2>1. Books'
    BY <1>2 DEF Books, NothingTaken, LedgerReconciles, Remaining, DebtExplained, Expired, Family,
                Conserved, Granted, Kept, InHolds, InHold, Booked
  <2>2. \A s \in Sources : refunds[s].owed \in Nat
    BY DEF Books, Refund
  <2> QED BY <1>2, <2>1, <2>2 DEF DebtStep
<1>3. CASE UNCHANGED vars
  BY <1>2, <1>3 DEF vars
<1>4. CASE Tick
  BY <1>2, <1>4 DEF Tick
<1>5. \A t \in Stamps : t \in Nat
  BY StampsAreNat DEF IInv, TypeOK
<1>6. ASSUME NEW stamp \in Stamps, Expire(stamp) PROVE Books' /\ DebtStep
  BY <1>1, <1>6, ExpireStep, ExpireBooks
<1>7. ASSUME NEW stamp \in Stamps, NEW s \in Sources, NEW e \in {Never, stamp + Pass},
             Grant(s, stamp, e)
      PROVE  Books' /\ DebtStep
  <2>1. stamp \in Nat /\ e \in Nat \cup {Never}
    BY <1>5, ConstantsOK
  <2>2. LotsStep
    BY <1>7, <2>1, GrantStep
  <2> QED BY <1>1, <1>7, <2>2, GrantBooks
<1>8. ASSUME NEW stamp \in Stamps, NEW r \in Reservations, Reserve(r, stamp)
      PROVE  Books' /\ DebtStep
  <2>1. LotsStep
    BY <1>5, <1>8, ReserveStep
  <2> QED BY <1>1, <1>5, <1>8, <2>1, ReserveBooks
<1>9. ASSUME NEW stamp \in Stamps, NEW r \in Reservations, NEW c \in 0..Price[r],
             Settle(r, stamp, c)
      PROVE  Books' /\ DebtStep
  <2>1. LotsStep
    BY <1>5, <1>9, SettleStep
  <2>2. c \in Nat
    BY ConstantsOK
  <2> QED BY <1>1, <1>5, <1>9, <2>1, <2>2, SettleBooks
<1>10. ASSUME NEW stamp \in Stamps, NEW s \in Sources, NEW target \in 1..Quantity[s],
              Revoke(s, stamp, target)
       PROVE  Books' /\ DebtStep
  <2>1. target \in Nat
    BY ConstantsOK
  <2>2. LotsStep
    BY <1>5, <1>10, <2>1, RevokeStep
  <2> QED BY <1>1, <1>5, <1>10, <2>1, <2>2, RevokeBooks
<1> QED BY <1>3, <1>4, <1>6, <1>7, <1>8, <1>9, <1>10 DEF Next

LEMMA InitBooks == ASSUME Init PROVE Books
<1>1. DOMAIN lots = {} /\ IsFiniteSet(DOMAIN lots) /\ book = 0 /\ debt = 0
  BY FS_EmptySet DEF Init
<1>2. \A f : DOMAIN f = {} => Sum(f) = 0
  BY SumOfNothing
<1>3. \A s : Family(s) = {} /\ Granted(s) = 0
  BY <1>1 DEF Family, Granted
<1>4. \A s \in Sources : refunds[s] = NoRefund
  BY DEF Init
<1>5. refunds \in [Sources -> Refund]
  BY <1>4 DEF Init, Refund, NoRefund
<1>6. NothingTaken
  BY DEF Init, NothingTaken, NoHold, Hold
<1>7. LedgerReconciles
  BY <1>1, <1>2 DEF LedgerReconciles, Remaining
<1>8. \A s : Kept(s) = 0 /\ Expired(lots, s) = 0
  BY <1>2, <1>3 DEF Kept, Expired
<1>9. ASSUME NEW s PROVE InHolds(s) = 0
  <2> DEFINE f == [r \in Reservations |-> InHold(r, s)]
  <2>1. \A r : InHold(r, s) = 0
    BY <1>2, <1>3 DEF InHold
  <2>2. f \in [Reservations -> Nat] /\ \A r \in Reservations : f[r] = 0
    BY <2>1
  <2> HIDE DEF f
  <2>3. Sum(f) = 0
    BY <2>2, ConstantsOK, SumOfZeros
  <2> QED BY <2>3 DEF InHolds, f
<1>10. DebtExplained
  <2> DEFINE f == [s \in Sources |-> refunds[s].owed]
             h == [g \in DOMAIN lots |-> lots[g].offset]
  <2>1. f \in [Sources -> Nat] /\ \A s \in Sources : f[s] = 0
    BY <1>4 DEF NoRefund
  <2>2. Sum(h) = 0
    BY <1>1, <1>2
  <2> HIDE DEF f, h
  <2>3. Sum(f) = 0
    BY <2>1, ConstantsOK, SumOfZeros
  <2>4. debt = Sum(f) - Sum(h) /\ debt \in Nat
    BY <1>1, <2>2, <2>3
  <2> QED BY <1>4, <1>8, <2>4 DEF DebtExplained, NoRefund, f, h
<1>11. Conserved
  BY <1>3, <1>4, <1>8, <1>9 DEF Conserved, NoRefund
<1> QED BY <1>1, <1>5, <1>6, <1>7, <1>10, <1>11 DEF Books

\* The inductive invariant of the sums: the three properties are inductive only
\* together, with the sources that have granted nothing included.
THEOREM LedgerBooks == Spec => []Books
<1>1. Init => Books
  BY InitBooks
<1>2. IInv /\ Books /\ [Next]_vars => Books'
  BY StepBooks
<1> QED BY <1>1, <1>2, LedgerInvariance, PTL DEF Spec

\* The event journal always reconstructs the balance, however many lots one step
\* sweeps, takes from or restores.
THEOREM LedgerAlwaysReconciles == Spec => []LedgerReconciles
<1>1. Books => LedgerReconciles
  BY DEF Books
<1> QED BY <1>1, LedgerBooks, PTL

\* No credit of a purchase is lost or made twice.
THEOREM LedgerConserves == Spec => []OriginConserved
<1>1. Books => OriginConserved
  BY DEF Books, Conserved, Granted, OriginConserved
<1> QED BY <1>1, LedgerBooks, PTL

\* Every credit of debt goes back to a refund, and expiry absorbs no more of a
\* refund than expired.
THEOREM LedgerExplainsDebt == Spec => []DebtExplained
<1>1. Books => DebtExplained
  BY DEF Books
<1> QED BY <1>1, LedgerBooks, PTL

\* A refund makes debt only when nothing else of the purchase is left, and no
\* new credit is usable before debt is paid.
THEOREM LedgerDebtComesLast == Spec => DebtComesLastGoesFirst
<1>1. IInv /\ Books /\ [Next]_vars => [DebtStep]_vars
  BY StepBooks
<1>2. DebtComesLastGoesFirst <=> [][DebtStep]_vars
  BY PTL DEF DebtComesLastGoesFirst, DebtStep
<1> QED BY <1>1, <1>2, LedgerInvariance, LedgerBooks, PTL DEF Spec
=============================================================================
