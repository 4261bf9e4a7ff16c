------------------------------- MODULE MailProofs -------------------------------
(* Theorems about Mail, for any messages, calls, attempts, budgets and faults: one call
   at a time works on a message, nobody gets a message twice, and a row says what
   became of its message.  Budgets play no part in that; what a day's envelopes add up
   to is shown beside it, at the end. *)
EXTENDS Mail, FiniteSetTheorems, TLAPS

Statuses == {"absent", "erased", "pending", "processing", "mail_unknown", "sent", "failed",
             "cancelled"}
Tries == {"free", "begun"} \cup Outcomes

RowsTyped ==
    /\ row \in [Messages -> [status: Statuses, attempts: Int]]
    /\ envelope \in [Messages -> [day: Nat, expired: BOOLEAN, try: [Ordinals -> Tries]]]
    /\ accepted \in [Messages -> Nat] /\ today \in Nat

CallRow ==
    [phase: {"idle", "begin", "send", "record", "write"}, message: Messages \cup {NoMessage},
     ordinal: Ordinals \cup {0}, outcome: Outcomes \cup {"none", "deferred"}]

TypeOK == RowsTyped /\ call \in [Calls -> CallRow]

\* No attempt to send m, but perhaps n, is begun or has ended the matter.
FreeBut(m, n) == \A k \in Ordinals \ {n} : envelope[m].try[k] \in {"free", "known_retryable"}
Fresh(m) == accepted[m] = 0 /\ FreeBut(m, 0)

\* What a call in a phase knows of its message.
Known(c) ==
    LET m == call[c].message
        n == call[c].ordinal
        outcome == call[c].outcome
    IN  /\ (m = NoMessage) <=> (call[c].phase = "idle")
        /\ call[c].phase = "begin" => Fresh(m)
        /\ call[c].phase = "send" => accepted[m] = 0 /\ n \in Ordinals /\ FreeBut(m, n)
        /\ call[c].phase = "record" =>
              /\ n \in Ordinals /\ FreeBut(m, n) /\ accepted[m] <= 1 /\ outcome \in Outcomes
              /\ outcome = "sent" => accepted[m] = 1
              /\ outcome \in {"known_retryable", "permanent"} => accepted[m] = 0
        /\ call[c].phase = "write" =>
              /\ accepted[m] <= 1 /\ outcome \in Outcomes \cup {"deferred"}
              /\ outcome = "sent" => accepted[m] = 1
              /\ outcome = "permanent" => accepted[m] = 0
              /\ outcome \in {"known_retryable", "deferred"} => Fresh(m)

\* What a row says; an absent one is new, or has an envelope that keeps it out.
Says(m) ==
    /\ accepted[m] <= 1
    /\ row[m].status = "sent" => accepted[m] = 1
    /\ row[m].status \in {"failed", "cancelled"} => accepted[m] = 0
    /\ row[m].status = "pending" => Fresh(m)
    /\ row[m].status = "absent" => Fresh(m) \/ (Kind[m] = "lifecycle" /\ envelope[m].expired)
    /\ Kind[m] = "lifecycle" /\ envelope[m].expired => Funded(m)

\* A row has a call only while it is processing, or when it was swept or deleted since.
Alone ==
    /\ \A c, d \in Calls : call[c].message = call[d].message /\ call[c].message # NoMessage => c = d
    /\ \A c \in Calls : call[c].message # NoMessage =>
          row[call[c].message].status \in {"processing", "mail_unknown", "erased"}

IInv == TypeOK /\ Alone /\ (\A c \in Calls : Known(c)) /\ (\A m \in Messages : Says(m))

-----------------------------------------------------------------------------
(* What a step may change. *)

\* A step that no call takes part in: rows change, envelopes but for their attempts.
LEMMA RowStep ==
  ASSUME IInv, TypeOK', UNCHANGED <<call, accepted>>,
         \A m \in Messages : envelope'[m].try = envelope[m].try,
         \A m \in Messages : Says(m)',
         \A c \in Calls : call[c].message # NoMessage =>
            row'[call[c].message].status \in {"processing", "mail_unknown", "erased"}
  PROVE  IInv'
<1>1. Alone'  BY DEF IInv, Alone
<1>2. ASSUME NEW c \in Calls PROVE Known(c)'
  <2>1. Known(c) /\ call[c] \in CallRow  BY DEF IInv, TypeOK
  <2>2. CASE call[c].message = NoMessage
    BY <2>1, <2>2 DEF Known, CallRow
  <2>3. CASE call[c].message \in Messages
    BY <2>1, <2>3 DEF Known, Fresh, FreeBut
  <2> QED  BY <2>1, <2>2, <2>3 DEF CallRow
<1> QED  BY <1>1, <1>2 DEF IInv

\* A step of one call on its message; no other call works on that message.
LEMMA OneCallStep ==
  ASSUME IInv, TypeOK', NEW c \in Calls, NEW m \in Messages, call[c].message = m,
         \A d \in Calls \ {c} : call'[d] = call[d],
         call'[c].message \in {m, NoMessage},
         \A x \in Messages \ {m} :
            row'[x] = row[x] /\ envelope'[x] = envelope[x] /\ accepted'[x] = accepted[x],
         call'[c].message = m => row'[m].status \in {"processing", "mail_unknown", "erased"},
         Known(c)', Says(m)'
  PROVE  IInv'
<1>0. m # NoMessage  BY ConstantsOK
<1>1. Alone'
  <2>1. ASSUME NEW d \in Calls, NEW e \in Calls, call'[d].message = call'[e].message,
               call'[d].message # NoMessage
        PROVE  d = e
    BY <1>0, <2>1 DEF IInv, Alone
  <2>2. ASSUME NEW d \in Calls, call'[d].message # NoMessage
        PROVE  row'[call'[d].message].status \in {"processing", "mail_unknown", "erased"}
    <3>1. CASE d = c  BY <2>2, <3>1
    <3>2. CASE d # c
      <4>1. call'[d] = call[d] /\ call[d].message \in Messages \ {m}
        BY <1>0, <2>2, <3>2 DEF IInv, TypeOK, CallRow, Alone
      <4> QED  BY <2>2, <4>1 DEF IInv, Alone
    <3> QED  BY <3>1, <3>2
  <2> QED  BY <2>1, <2>2 DEF Alone
<1>2. ASSUME NEW d \in Calls PROVE Known(d)'
  <2>1. CASE d = c  BY <2>1
  <2>2. CASE d # c
    <3>1. Known(d) /\ call[d] \in CallRow /\ call'[d] = call[d] /\ call[d].message # m
      BY <1>0, <2>2 DEF IInv, TypeOK, Alone
    <3>2. CASE call[d].message = NoMessage
      BY <3>1, <3>2 DEF Known, CallRow
    <3>3. CASE call[d].message \in Messages
      BY <3>1, <3>3 DEF Known, Fresh, FreeBut
    <3> QED  BY <3>1, <3>2, <3>3 DEF CallRow
  <2> QED  BY <2>1, <2>2
<1>3. ASSUME NEW x \in Messages PROVE Says(x)'
  <2>1. CASE x = m  BY <2>1
  <2>2. CASE x # m
    BY <2>2 DEF IInv, Says, Fresh, FreeBut, Funded
  <2> QED  BY <2>1, <2>2
<1> QED  BY <1>1, <1>2, <1>3 DEF IInv

LEMMA InitRight == Init => IInv
<1> SUFFICES ASSUME Init PROVE IInv  OBVIOUS
<1> USE DEF Init, NoRow, NoEnvelope, NoCall
<1>1. TypeOK  BY DEF TypeOK, RowsTyped, Statuses, Tries, CallRow
<1>2. Alone  BY DEF Alone
<1>3. \A c \in Calls : Known(c)  BY DEF Known
<1>4. \A m \in Messages : Says(m)  BY DEF Says, Fresh, FreeBut, Funded
<1> QED  BY <1>1, <1>2, <1>3, <1>4 DEF IInv

-----------------------------------------------------------------------------
(* Rows. *)

\* Paying for messages changes only the day of envelopes that had none.
LEMMA Reserving ==
  ASSUME IInv, NEW S, Reserve(S) \/ UNCHANGED envelope
  PROVE  /\ envelope' \in [Messages -> [day: Nat, expired: BOOLEAN, try: [Ordinals -> Tries]]]
         /\ \A m \in Messages : /\ envelope'[m].try = envelope[m].try
                                /\ envelope'[m].expired = envelope[m].expired
                                /\ Funded(m) => Funded(m)'
<1> DEFINE Row == [day: Nat, expired: BOOLEAN, try: [Ordinals -> Tries]]
<1>1. ASSUME NEW m \in Messages
      PROVE  /\ envelope[m] \in Row /\ [envelope[m] EXCEPT !.day = today] \in Row
             /\ [envelope[m] EXCEPT !.day = today].try = envelope[m].try
             /\ [envelope[m] EXCEPT !.day = today].expired = envelope[m].expired
  BY DEF IInv, TypeOK, RowsTyped
<1> HIDE DEF Row
<1>2. envelope \in [Messages -> Row]  BY DEF IInv, TypeOK, RowsTyped, Row
<1>3. envelope' \in [Messages -> Row]  BY <1>1, <1>2 DEF Reserve
<1>4. ASSUME NEW m \in Messages
      PROVE  /\ envelope'[m].try = envelope[m].try /\ envelope'[m].expired = envelope[m].expired
             /\ Funded(m) => Funded(m)'
  BY <1>1 DEF Reserve, Funded
<1> QED  BY <1>3, <1>4 DEF Row

\* A message is queued once, when its row is absent and its envelope is still good.
LEMMA EnqueueRight ==
  ASSUME IInv, NEW m \in Messages,
         EnqueueLifecycle(m) \/ EnqueueProof(m) \/ EnqueueChanged(m)
  PROVE  IInv'
<1> USE DEF EnqueueLifecycle, EnqueueProof, EnqueueChanged, provider
<1>1. /\ row[m].status = "absent" /\ UNCHANGED <<call, accepted>>
      /\ row' = [row EXCEPT ![m] = [status |-> "pending", attempts |-> 0]]
  BY DEF Queue
<1>2. PICK S : Reserve(S) \/ UNCHANGED envelope
  OBVIOUS
<1>3. /\ envelope' \in [Messages -> [day: Nat, expired: BOOLEAN, try: [Ordinals -> Tries]]]
      /\ \A x \in Messages : /\ envelope'[x].try = envelope[x].try
                             /\ envelope'[x].expired = envelope[x].expired
                             /\ Funded(x) => Funded(x)'
  BY <1>2, Reserving
<1>8. row' = [x \in Messages |-> IF x = m THEN [status |-> "pending", attempts |-> 0] ELSE row[x]]
  BY <1>1 DEF IInv, TypeOK, RowsTyped
<1>4. TypeOK'
  <2>1. row' \in [Messages -> [status: Statuses, attempts: Int]]
    BY <1>8 DEF IInv, TypeOK, RowsTyped, Statuses
  <2>2. UNCHANGED today  OBVIOUS
  <2> HIDE DEF EnqueueLifecycle, EnqueueProof, EnqueueChanged
  <2> QED  BY <1>1, <1>3, <2>1, <2>2 DEF IInv, TypeOK, RowsTyped
<1>5. Fresh(m)  BY <1>1 DEF IInv, Says, Funded
<1> HIDE DEF EnqueueLifecycle, EnqueueProof, EnqueueChanged
<1>6. ASSUME NEW x \in Messages PROVE Says(x)'
  <2>1. Says(x)  BY DEF IInv
  <2>2. /\ envelope'[x].try = envelope[x].try /\ envelope'[x].expired = envelope[x].expired
        /\ accepted'[x] = accepted[x]
        /\ Funded(x) => Funded(x)'
    BY <1>1, <1>3 DEF Funded
  <2>3. Fresh(x) => Fresh(x)'  BY <2>2 DEF Fresh, FreeBut
  <2>4. CASE x = m
    <3>1. row'[x].status = "pending"  BY <1>8, <2>4
    <3> QED  BY <1>5, <2>1, <2>2, <2>3, <2>4, <3>1 DEF Says
  <2>5. CASE x # m
    <3>1. row'[x] = row[x]  BY <1>8, <2>5
    <3> QED  BY <2>1, <2>2, <2>3, <3>1 DEF Says
  <2> QED  BY <2>4, <2>5
<1>7. ASSUME NEW c \in Calls, call[c].message # NoMessage
      PROVE  row'[call[c].message].status \in {"processing", "mail_unknown", "erased"}
  <2>1. call[c].message \in Messages  BY <1>7 DEF IInv, TypeOK, CallRow
  <2>2. row[call[c].message].status \in {"processing", "mail_unknown", "erased"}
    BY <1>7 DEF IInv, Alone
  <2>3. call[c].message # m  BY <1>1, <2>2
  <2> QED  BY <1>8, <2>1, <2>2, <2>3
<1>9. \A x \in Messages : envelope'[x].try = envelope[x].try  BY <1>3
<1> QED  BY <1>1, <1>4, <1>6, <1>7, <1>9, RowStep

\* What becomes of a row that no call works on.
Moved(x) ==
    \/ row'[x] = row[x]
    \/ row'[x] = NoRow /\ row[x].status \in {"sent", "failed"}
                     /\ envelope[x].expired /\ Kind[x] = "lifecycle"
    \/ row'[x] = Gone
    \/ row[x].status = "processing" /\ row'[x] = [row[x] EXCEPT !.status = "mail_unknown"]
    \/ row[x].status = "pending" /\ row'[x] = [row[x] EXCEPT !.status = "cancelled"]

\* Rows are swept, or deleted, or lose their purpose; envelopes stay.
LEMMA RowRight ==
  ASSUME IInv,
         \/ \E m \in Messages : Purge(m) \/ Sweep(m)
         \/ \E o \in {Owner[m] : m \in Messages} : Erase(o)
         \/ \E c \in Calls, m \in Messages :
               Claim(c, m) /\ row' = [row EXCEPT ![m].status = "cancelled"] /\ UNCHANGED call
  PROVE  IInv'
<1>1. UNCHANGED <<envelope, call, accepted, today>>
  BY DEF Purge, Sweep, Erase, Claim, provider
<1>2. /\ row' = [x \in Messages |-> row'[x]]
      /\ \A x \in Messages : Moved(x)
  <2>0. row \in [Messages -> [status: Statuses, attempts: Int]]  BY DEF IInv, TypeOK, RowsTyped
  <2>1. CASE \E m \in Messages : Purge(m)
    <3>1. PICK m \in Messages : Purge(m)  BY <2>1
    <3> QED  BY <2>0, <3>1 DEF Purge, Moved
  <2>2. CASE \E m \in Messages : Sweep(m)
    <3>1. PICK m \in Messages : Sweep(m)  BY <2>2
    <3> QED  BY <2>0, <3>1 DEF Sweep, Sweepable, Moved
  <2>3. CASE \E o \in {Owner[m] : m \in Messages} : Erase(o)
    BY <2>0, <2>3 DEF Erase, Moved
  <2>4. CASE \E c \in Calls, m \in Messages :
               Claim(c, m) /\ row' = [row EXCEPT ![m].status = "cancelled"] /\ UNCHANGED call
    <3>1. PICK m \in Messages : /\ row[m].status = "pending"
                               /\ row' = [row EXCEPT ![m].status = "cancelled"]
      BY <2>4 DEF Claim
    <3> QED  BY <2>0, <3>1 DEF Moved
  <2> QED  BY <2>1, <2>2, <2>3, <2>4
<1>3. row' \in [Messages -> [status: Statuses, attempts: Int]]
  <2>1. ASSUME NEW x \in Messages PROVE row'[x] \in [status: Statuses, attempts: Int]
    <3>1. row[x] \in [status: Statuses, attempts: Int]  BY DEF IInv, TypeOK, RowsTyped
    <3> QED  BY <1>2, <3>1 DEF Moved, Gone, NoRow, Statuses
  <2> QED  BY <1>2, <2>1
<1>4. TypeOK'  BY <1>1, <1>3 DEF IInv, TypeOK, RowsTyped
<1>5. ASSUME NEW x \in Messages PROVE Says(x)'
  <2>1. row[x] \in [status: Statuses, attempts: Int] /\ Says(x)  BY DEF IInv, TypeOK, RowsTyped
  <2>2. Moved(x)  BY <1>2
  <2> QED  BY <1>1, <2>1, <2>2 DEF Moved, Gone, NoRow, Says, Fresh, FreeBut, Funded
<1>6. ASSUME NEW c \in Calls, call[c].message # NoMessage
      PROVE  row'[call[c].message].status \in {"processing", "mail_unknown", "erased"}
  <2> DEFINE x == call[c].message
  <2>1. x \in Messages /\ row[x].status \in {"processing", "mail_unknown", "erased"}
        /\ row[x] \in [status: Statuses, attempts: Int]
    BY <1>6 DEF IInv, TypeOK, RowsTyped, CallRow, Alone
  <2> HIDE DEF x
  <2>2. row'[x].status \in {"processing", "mail_unknown", "erased"}
    BY <1>2, <2>1 DEF Moved, Gone, NoRow
  <2> QED  BY <2>2 DEF x
<1> QED  BY <1>1, <1>4, <1>5, <1>6, RowStep

\* Only what is paid for expires.
LEMMA ExpireRight ==
  ASSUME IInv, NEW m \in Messages, Expire(m)
  PROVE  IInv'
<1> DEFINE Row == [day: Nat, expired: BOOLEAN, try: [Ordinals -> Tries]]
<1>1. UNCHANGED <<row, call, accepted, today>>  BY DEF Expire, provider
<1>2. \A x \in Messages : envelope[x] \in Row  BY DEF IInv, TypeOK, RowsTyped
<1>3. envelope' = [x \in Messages |-> IF x \in Bundle(m) THEN [envelope[x] EXCEPT !.expired = TRUE]
                                      ELSE envelope[x]]
  BY DEF Expire
<1>4. ASSUME NEW x \in Messages
      PROVE  /\ envelope'[x] \in Row /\ envelope'[x].try = envelope[x].try
             /\ envelope'[x].day = envelope[x].day
             /\ envelope[x].expired => envelope'[x].expired
  BY <1>2, <1>3
<1>5. TypeOK'
  <2>1. envelope' \in [Messages -> Row]  BY <1>3, <1>4
  <2> QED  BY <1>1, <2>1 DEF IInv, TypeOK, RowsTyped
<1>6. ASSUME NEW x \in Messages PROVE Says(x)'
  <2>1. Says(x)  BY DEF IInv
  <2>2. Kind[x] = "lifecycle" /\ x # m => envelope'[x] = envelope[x]
    BY <1>3, ConstantsOK DEF Bundle
  <2>3. Kind[x] = "lifecycle" /\ envelope'[x].expired => Funded(x)'
    BY <1>1, <1>4, <2>1, <2>2 DEF Says, Funded, Expire
  <2>4. Fresh(x) => Fresh(x)'  BY <1>1, <1>4 DEF Fresh, FreeBut
  <2> QED  BY <1>1, <1>4, <2>1, <2>3, <2>4 DEF Says
<1>7. ASSUME NEW c \in Calls, call[c].message # NoMessage
      PROVE  row'[call[c].message].status \in {"processing", "mail_unknown", "erased"}
  BY <1>1, <1>7 DEF IInv, Alone
<1> QED  BY <1>1, <1>4, <1>5, <1>6, <1>7, RowStep

LEMMA NextDayRight ==
  ASSUME IInv, NextDay
  PROVE  IInv'
<1>1. UNCHANGED <<row, envelope, call, accepted>> /\ today' = today + 1
  BY DEF NextDay, provider
<1>2. TypeOK'  BY <1>1 DEF IInv, TypeOK, RowsTyped
<1>3. ASSUME NEW x \in Messages PROVE Says(x)'
  BY <1>1 DEF IInv, Says, Fresh, FreeBut, Funded
<1> QED  BY <1>1, <1>2, <1>3, RowStep DEF IInv, Alone

-----------------------------------------------------------------------------
(* Calls. *)

\* A row that is pending has no call, and nobody has sent its message.
LEMMA ClaimRight ==
  ASSUME IInv, NEW c \in Calls, NEW m \in Messages, Claim(c, m),
         call' = [call EXCEPT ![c] = [NoCall EXCEPT !.phase = "begin", !.message = m]],
         row' = [row EXCEPT ![m].status = "processing", ![m].attempts = @ + 1]
  PROVE  IInv'
<1>1. /\ row[m].status = "pending" /\ call[c].phase = "idle"
      /\ UNCHANGED <<envelope, accepted, today>>
  BY DEF Claim, provider
<1>2. /\ m # NoMessage
      /\ row[m] \in [status: Statuses, attempts: Int]
      /\ call \in [Calls -> CallRow]
  BY ConstantsOK DEF IInv, TypeOK, RowsTyped
<1>3. /\ call'[c] = [phase |-> "begin", message |-> m, ordinal |-> 0, outcome |-> "none"]
      /\ \A d \in Calls \ {c} : call'[d] = call[d]
      /\ call' \in [Calls -> CallRow]
  BY <1>2 DEF NoCall, CallRow
<1>4. /\ row'[m].status = "processing"
      /\ \A x \in Messages \ {m} : row'[x] = row[x]
      /\ row' \in [Messages -> [status: Statuses, attempts: Int]]
  BY <1>2 DEF IInv, TypeOK, RowsTyped, Statuses
<1>5. TypeOK'  BY <1>1, <1>3, <1>4 DEF IInv, TypeOK, RowsTyped
<1>6. \A d \in Calls : call[d].message # m
  BY <1>1, <1>2 DEF IInv, Alone
<1>7. Alone'
  <2>1. ASSUME NEW d \in Calls, NEW e \in Calls, call'[d].message = call'[e].message,
               call'[d].message # NoMessage
        PROVE  d = e
    BY <1>3, <1>6, <2>1 DEF IInv, Alone
  <2>2. ASSUME NEW d \in Calls, call'[d].message # NoMessage
        PROVE  row'[call'[d].message].status \in {"processing", "mail_unknown", "erased"}
    <3>1. CASE d = c  BY <1>3, <1>4, <3>1
    <3>2. CASE d # c
      <4>1. call'[d] = call[d] /\ call[d].message \in Messages \ {m}
        BY <1>2, <1>3, <1>6, <2>2, <3>2 DEF CallRow
      <4> QED  BY <1>4, <2>2, <4>1 DEF IInv, Alone
    <3> QED  BY <3>1, <3>2
  <2> QED  BY <2>1, <2>2 DEF Alone
<1>8. ASSUME NEW d \in Calls PROVE Known(d)'
  <2>1. CASE d = c
    <3>1. Fresh(m)  BY <1>1 DEF IInv, Says
    <3> QED  BY <1>1, <1>2, <1>3, <2>1, <3>1 DEF Known, Fresh, FreeBut
  <2>2. CASE d # c
    <3>1. Known(d) /\ call'[d] = call[d]  BY <1>3, <2>2 DEF IInv
    <3> QED  BY <1>1, <3>1 DEF Known, Fresh, FreeBut
  <2> QED  BY <2>1, <2>2
<1>9. ASSUME NEW x \in Messages PROVE Says(x)'
  <2>1. Says(x)  BY DEF IInv
  <2>2. CASE x = m  BY <1>1, <1>4, <2>1, <2>2 DEF Says, Funded
  <2>3. CASE x # m
    BY <1>1, <1>4, <2>1, <2>3 DEF Says, Fresh, FreeBut, Funded
  <2> QED  BY <2>2, <2>3
<1> QED  BY <1>5, <1>7, <1>8, <1>9 DEF IInv

\* What holds of a call at work.
LEMMA Busy ==
  ASSUME IInv, NEW c \in Calls, call[c].phase # "idle"
  PROVE  /\ call[c].message \in Messages /\ call[c].message # NoMessage
         /\ call[c] \in CallRow /\ Known(c) /\ Says(call[c].message)
         /\ row[call[c].message].status \in {"processing", "mail_unknown", "erased"}
         /\ call \in [Calls -> CallRow]
<1>1. Known(c) /\ call[c] \in CallRow /\ call \in [Calls -> CallRow]  BY DEF IInv, TypeOK
<1>2. call[c].message \in Messages /\ call[c].message # NoMessage  BY <1>1 DEF Known, CallRow
<1> QED  BY <1>1, <1>2 DEF IInv, Alone

\* A step of a call that leaves the rows alone.
LEMMA CallOnly ==
  ASSUME IInv, NEW c \in Calls, NEW m \in Messages, m = call[c].message,
         call[c].phase # "idle", UNCHANGED <<row, today>>,
         envelope' \in [Messages -> [day: Nat, expired: BOOLEAN, try: [Ordinals -> Tries]]],
         accepted' \in [Messages -> Nat], call' \in [Calls -> CallRow],
         \A d \in Calls \ {c} : call'[d] = call[d],
         call'[c].message \in {m, NoMessage},
         \A x \in Messages \ {m} : envelope'[x] = envelope[x] /\ accepted'[x] = accepted[x],
         envelope'[m].expired = envelope[m].expired, Funded(m) => Funded(m)',
         accepted'[m] <= 1, Known(c)'
  PROVE  IInv'
<1>1. /\ row[m].status \in {"processing", "mail_unknown", "erased"} /\ Says(m)
  BY Busy
<1>2. TypeOK'  BY DEF IInv, TypeOK, RowsTyped
<1>3. Says(m)'  BY <1>1 DEF Says
<1> QED  BY <1>1, <1>2, <1>3, OneCallStep

\* A call that has its answer.
LEMMA Answered ==
  ASSUME IInv, NEW c \in Calls, call[c].phase # "idle",
         NEW outcome \in Outcomes \cup {"deferred"}, Answer(c, outcome)
  PROVE  /\ call' \in [Calls -> CallRow]
         /\ call'[c].phase = "write" /\ call'[c].message = call[c].message
         /\ call'[c].outcome = outcome
         /\ \A d \in Calls \ {c} : call'[d] = call[d]
BY ZenonT(60) DEF Answer, IInv, TypeOK, CallRow

\* What a call writes down of an attempt: that it is begun, and its outcome.
LEMMA Beginning ==
  ASSUME IInv, NEW m \in Messages, NEW n \in Ordinals,
         envelope' = [envelope EXCEPT ![m].day = IF Funded(m) THEN @ ELSE today,
                                      ![m].try[n] = "begun"]
  PROVE  /\ envelope' \in [Messages -> [day: Nat, expired: BOOLEAN, try: [Ordinals -> Tries]]]
         /\ envelope'[m].try = [envelope[m].try EXCEPT ![n] = "begun"]
         /\ envelope'[m].expired = envelope[m].expired
         /\ Funded(m) => Funded(m)'
         /\ \A x \in Messages \ {m} : envelope'[x] = envelope[x]
BY DEF IInv, TypeOK, RowsTyped, Funded, Tries

LEMMA Recording ==
  ASSUME IInv, NEW c \in Calls, NEW m \in Messages, m = call[c].message,
         NEW n \in Ordinals, n = call[c].ordinal,
         NEW outcome \in Outcomes, outcome = call[c].outcome, Recorded(c)
  PROVE  /\ envelope' \in [Messages -> [day: Nat, expired: BOOLEAN, try: [Ordinals -> Tries]]]
         /\ envelope'[m].try = [envelope[m].try EXCEPT ![n] = outcome]
         /\ envelope'[m].expired = envelope[m].expired
         /\ Funded(m) => Funded(m)'
         /\ \A x \in Messages \ {m} : envelope'[x] = envelope[x]
<1>1. envelope' = [envelope EXCEPT ![m].try[n] = outcome] /\ outcome \in Tries
  BY DEF Recorded, Tries
<1> QED  BY ZenonT(60), <1>1 DEF IInv, TypeOK, RowsTyped, Funded

\* A call that has its answer and leaves envelopes and the provider alone.
LEMMA AnswerRight ==
  ASSUME IInv, NEW c \in Calls, NEW m \in Messages, m = call[c].message,
         call[c].phase # "idle", NEW outcome \in Outcomes \cup {"deferred"},
         Answer(c, outcome), UNCHANGED <<row, today, envelope, accepted>>,
         outcome = "sent" => accepted[m] = 1,
         outcome = "permanent" => accepted[m] = 0,
         outcome \in {"known_retryable", "deferred"} => Fresh(m)
  PROVE  IInv'
<1>1. m \in Messages /\ m # NoMessage /\ accepted[m] <= 1  BY Busy DEF Says
<1>2. /\ call' \in [Calls -> CallRow]
      /\ call'[c].phase = "write" /\ call'[c].message = m /\ call'[c].outcome = outcome
      /\ \A d \in Calls \ {c} : call'[d] = call[d]
  BY Answered
<1>3. Known(c)'
  BY <1>1, <1>2 DEF Known, Fresh, FreeBut
<1>4. /\ envelope' \in [Messages -> [day: Nat, expired: BOOLEAN, try: [Ordinals -> Tries]]]
      /\ accepted' \in [Messages -> Nat]
  BY DEF IInv, TypeOK, RowsTyped
<1>5. Funded(m) => Funded(m)'  BY DEF Funded
<1> QED  BY <1>1, <1>2, <1>3, <1>4, <1>5, CallOnly

\* An attempt is begun, or its transaction failed.
LEMMA BeginRight ==
  ASSUME IInv, NEW c \in Calls, NEW m \in Messages, m = call[c].message,
         Begin(c) \/ Unconfigured(c) \/ FailBegin(c)
  PROVE  IInv'
<1>1. call[c].phase = "begin" /\ UNCHANGED <<row, today, accepted>>
  BY DEF Begin, Unconfigured, FailBegin, provider
<1>2. /\ m \in Messages /\ m # NoMessage /\ Fresh(m) /\ accepted[m] = 0
      /\ call[c] \in CallRow /\ call \in [Calls -> CallRow]
  BY <1>1, Busy DEF Known, Fresh
<1>3. ASSUME NEW outcome \in {"deferred", "permanent", "unknown"},
             Answer(c, outcome), UNCHANGED envelope
      PROVE  IInv'
  BY <1>1, <1>2, <1>3, AnswerRight DEF Outcomes
<1>4. \A n \in Current(m) : n \in Ordinals /\ envelope[m].try[n] = "free"
  <2>1. ASSUME NEW n \in Current(m) PROVE n \in Ordinals /\ envelope[m].try[n] = "free"
    <3>1. n \in Ordinals /\ n # 0 /\ envelope[m].try[n] # "known_retryable"
      BY ConstantsOK DEF Current, Ordinals
    <3> QED  BY <1>2, <3>1 DEF Fresh, FreeBut
  <2> QED  BY <2>1
<1>5. ASSUME NEW n \in Current(m),
             envelope' = [envelope EXCEPT ![m].day = IF Funded(m) THEN @ ELSE today,
                                          ![m].try[n] = "begun"],
             \/ call' = [call EXCEPT ![c].phase = "send", ![c].ordinal = n]
             \/ Answer(c, "unknown")
      PROVE  IInv'
  <2>1. /\ envelope' \in [Messages -> [day: Nat, expired: BOOLEAN, try: [Ordinals -> Tries]]]
        /\ envelope'[m].try = [envelope[m].try EXCEPT ![n] = "begun"]
        /\ envelope'[m].expired = envelope[m].expired
        /\ Funded(m) => Funded(m)'
        /\ \A x \in Messages \ {m} : envelope'[x] = envelope[x]
    <3> QED  BY <1>4, <1>5, Beginning
  <2>2. FreeBut(m, n)'
    <3>1. envelope[m] \in [day: Nat, expired: BOOLEAN, try: [Ordinals -> Tries]]
      BY <1>2 DEF IInv, TypeOK, RowsTyped
    <3>2. \A k \in Ordinals : k # 0  BY ConstantsOK DEF Ordinals
    <3> QED  BY <1>1, <1>2, <1>4, <2>1, <3>1, <3>2 DEF Fresh, FreeBut
  <2>3. CASE call' = [call EXCEPT ![c].phase = "send", ![c].ordinal = n]
    <3>1. /\ call' \in [Calls -> CallRow]
          /\ call'[c].phase = "send" /\ call'[c].message = m /\ call'[c].ordinal = n
          /\ \A d \in Calls \ {c} : call'[d] = call[d]
      BY <1>2, <1>4, <2>3 DEF CallRow
    <3>2. Known(c)'
      BY <1>1, <1>2, <1>4, <2>2, <3>1 DEF Known, FreeBut
    <3> QED  BY SMTT(30), <1>1, <1>2, <2>1, <3>1, <3>2, CallOnly DEF IInv, TypeOK, RowsTyped
  <2>4. CASE Answer(c, "unknown")
    <3>1. /\ call' \in [Calls -> CallRow]
          /\ call'[c].phase = "write" /\ call'[c].message = m /\ call'[c].outcome = "unknown"
          /\ \A d \in Calls \ {c} : call'[d] = call[d]
      BY <1>1, <2>4, Answered DEF Outcomes
    <3>2. Known(c)'
      BY <1>1, <1>2, <3>1 DEF Known, Outcomes
    <3> QED  BY <1>1, <1>2, <2>1, <3>1, <3>2, CallOnly DEF IInv, TypeOK, RowsTyped
  <2> QED  BY <1>5, <2>3, <2>4
<1>6. CASE Begin(c)
  <2>1. CASE ~Funded(m) /\ ~Affordable({m})
    BY <1>3, <1>6, <2>1 DEF Begin
  <2>2. CASE ~(~Funded(m) /\ ~Affordable({m})) /\ (Current(m) = {} \/ LinkExpired(m))
    BY <1>3, <1>6, <2>2 DEF Begin
  <2>3. CASE ~(~Funded(m) /\ ~Affordable({m})) /\ ~(Current(m) = {} \/ LinkExpired(m))
    <3>1. PICK n \in Current(m) : Attempt(c, m, n)
      BY <1>6, <2>3 DEF Begin
    <3>2. CASE ~envelope[m].expired
      BY <1>4, <1>5, <3>1, <3>2 DEF Attempt
    <3>3. CASE envelope[m].expired
      BY <1>3, <1>4, <3>1, <3>3 DEF Attempt
    <3> QED  BY <3>2, <3>3
  <2> QED  BY <2>1, <2>2, <2>3
<1>7. CASE Unconfigured(c)
  BY <1>3, <1>7 DEF Unconfigured
<1>8. CASE FailBegin(c)
  BY <1>3, <1>5, <1>8 DEF FailBegin
<1> QED  BY <1>6, <1>7, <1>8

LEMMA SendRight ==
  ASSUME IInv, NEW c \in Calls, NEW m \in Messages, m = call[c].message,
         NEW n \in Ordinals, n = call[c].ordinal, Send(c)
  PROVE  IInv'
<1>1. call[c].phase = "send" /\ UNCHANGED <<row, today, envelope>>
  BY DEF Send
<1>2. /\ m \in Messages /\ m # NoMessage /\ accepted[m] = 0 /\ n \in Ordinals /\ FreeBut(m, n)
      /\ call[c] \in CallRow /\ call \in [Calls -> CallRow]
  BY <1>1, Busy DEF Known
<1>3. CASE envelope[m].expired
  BY <1>1, <1>3, AnswerRight DEF Send, provider, Outcomes
<1>4. CASE ~envelope[m].expired
  <2>1. PICK taken \in BOOLEAN, refusal \in {"known_retryable", "permanent"} :
          /\ accepted' = [accepted EXCEPT ![m] = IF taken THEN @ + 1 ELSE @]
          /\ \E outcome \in Learned(taken, refusal) :
                call' = [call EXCEPT ![c].phase = "record", ![c].outcome = outcome]
    BY <1>4 DEF Send
  <2>2. PICK outcome \in Learned(taken, refusal) :
          call' = [call EXCEPT ![c].phase = "record", ![c].outcome = outcome]
    BY <2>1
  <2>3. /\ outcome \in Outcomes
        /\ outcome = "sent" => taken
        /\ outcome \in {"known_retryable", "permanent"} => ~taken
    BY <2>2 DEF Learned, Outcomes
  <2>4. /\ call' \in [Calls -> CallRow]
        /\ call'[c].phase = "record" /\ call'[c].message = m /\ call'[c].ordinal = n
        /\ call'[c].outcome = outcome
        /\ \A d \in Calls \ {c} : call'[d] = call[d]
    BY <1>2, <2>2, <2>3 DEF CallRow
  <2>5. /\ accepted' \in [Messages -> Nat]
        /\ accepted'[m] = IF taken THEN 1 ELSE 0
        /\ \A x \in Messages \ {m} : accepted'[x] = accepted[x]
    BY <1>2, <2>1 DEF IInv, TypeOK, RowsTyped
  <2>6. Known(c)'
    BY <1>1, <1>2, <2>3, <2>4, <2>5 DEF Known, FreeBut
  <2>7. Funded(m) => Funded(m)'  BY <1>1 DEF Funded
  <2> QED  BY <1>1, <1>2, <2>4, <2>5, <2>6, <2>7, CallOnly DEF IInv, TypeOK, RowsTyped
<1> QED  BY <1>3, <1>4

LEMMA RecordRight ==
  ASSUME IInv, NEW c \in Calls, NEW m \in Messages, m = call[c].message,
         NEW n \in Ordinals, n = call[c].ordinal,
         NEW outcome \in Outcomes, outcome = call[c].outcome, Record(c) \/ FailRecord(c)
  PROVE  IInv'
<1>1. call[c].phase = "record" /\ UNCHANGED <<row, today, accepted>>
  BY DEF Record, FailRecord, provider
<1>2. /\ m \in Messages /\ m # NoMessage /\ n \in Ordinals /\ FreeBut(m, n) /\ accepted[m] <= 1
      /\ outcome \in Outcomes
      /\ outcome = "sent" => accepted[m] = 1
      /\ outcome \in {"known_retryable", "permanent"} => accepted[m] = 0
  BY <1>1, Busy DEF Known
<1>3. ASSUME Recorded(c), NEW learned \in Outcomes, Answer(c, learned),
             learned \in {outcome, "unknown"}
      PROVE  IInv'
  <2>1. /\ envelope' \in [Messages -> [day: Nat, expired: BOOLEAN, try: [Ordinals -> Tries]]]
        /\ envelope'[m].try = [envelope[m].try EXCEPT ![n] = outcome]
        /\ envelope'[m].expired = envelope[m].expired
        /\ Funded(m) => Funded(m)'
        /\ \A x \in Messages \ {m} : envelope'[x] = envelope[x]
    BY <1>3, Recording
  <2>2. outcome = "known_retryable" => Fresh(m)'
    <3>1. envelope[m] \in [day: Nat, expired: BOOLEAN, try: [Ordinals -> Tries]]
      BY <1>2 DEF IInv, TypeOK, RowsTyped
    <3> QED  BY <1>1, <1>2, <2>1, <3>1 DEF Fresh, FreeBut
  <2>3. /\ call' \in [Calls -> CallRow]
        /\ call'[c].phase = "write" /\ call'[c].message = m /\ call'[c].outcome = learned
        /\ \A d \in Calls \ {c} : call'[d] = call[d]
    BY <1>1, <1>3, Answered
  <2>4. Known(c)'
    <3> QED  BY <1>1, <1>2, <1>3, <2>2, <2>3 DEF Known, Outcomes, Fresh, FreeBut
  <2> QED  BY <1>1, <1>2, <2>1, <2>3, <2>4, CallOnly DEF IInv, TypeOK, RowsTyped
<1>4. CASE Record(c)
  BY <1>2, <1>3, <1>4 DEF Record
<1>5. CASE FailRecord(c)
  <2>1. CASE Recorded(c)
    BY <1>3, <1>5, <2>1 DEF FailRecord, Outcomes
  <2>2. CASE UNCHANGED envelope
    BY <1>1, <1>5, <2>2, AnswerRight DEF FailRecord, Outcomes
  <2> QED  BY <1>5, <2>1, <2>2 DEF FailRecord
<1> QED  BY <1>4, <1>5

\* The row is written without a look at it; what the call knows is true all the same.
LEMMA WriteRight ==
  ASSUME IInv, NEW c \in Calls, NEW m \in Messages, m = call[c].message, Write(c)
  PROVE  IInv'
<1> DEFINE outcome == call[c].outcome
           Row == [status: Statuses, attempts: Int]
<1>1. /\ call[c].phase = "write" /\ UNCHANGED <<envelope, accepted, today>>
      /\ call' = [call EXCEPT ![c] = NoCall]
      /\ row' = IF row[m].status \in {"absent", "erased"} THEN row
                ELSE [row EXCEPT ![m] = Written(row[m], outcome)]
  BY DEF Write, provider
<1>2. /\ m # NoMessage /\ Known(c) /\ Says(m)
      /\ row[m].status \in {"processing", "mail_unknown", "erased"}
      /\ call \in [Calls -> CallRow]
  BY <1>1, Busy
<1>3. /\ outcome \in Outcomes \cup {"deferred"} /\ accepted[m] <= 1
      /\ outcome = "sent" => accepted[m] = 1
      /\ outcome = "permanent" => accepted[m] = 0
      /\ outcome \in {"known_retryable", "deferred"} => Fresh(m)
  BY <1>1, <1>2 DEF Known
<1>4. row \in [Messages -> Row] /\ row[m] \in Row  BY DEF IInv, TypeOK, RowsTyped
<1> DEFINE w == Written(row[m], outcome)
<1>5. /\ w \in Row
      /\ outcome = "sent" => w.status = "sent"
      /\ outcome = "deferred" => w.status = "pending"
      /\ outcome = "known_retryable" => w.status \in {"pending", "failed"}
      /\ outcome = "permanent" => w.status = "failed"
      /\ outcome = "unknown" => w.status = "mail_unknown"
  <2> HIDE DEF outcome
  <2>1. CASE outcome = "sent"  BY <1>4, <2>1 DEF Written, Statuses
  <2>2. CASE outcome = "deferred"
    <3>1. w = [status |-> "pending",
               attempts |-> IF row[m].attempts > 0 THEN row[m].attempts - 1 ELSE 0]
      BY <2>2 DEF Written
    <3> QED  BY <1>4, <2>2, <3>1 DEF Statuses
  <2>3. CASE outcome = "known_retryable"
    <3>1. row[m].attempts < Attempts \/ row[m].attempts >= Attempts  BY <1>4, ConstantsOK
    <3> QED  BY <1>4, <2>3, <3>1 DEF Written, Statuses
  <2>4. CASE outcome = "permanent"  BY <1>4, <2>4 DEF Written, Statuses
  <2>5. CASE outcome = "unknown"  BY <1>4, <2>5 DEF Written, Statuses
  <2> QED  BY <1>3, <2>1, <2>2, <2>3, <2>4, <2>5 DEF Outcomes
<1> HIDE DEF w, outcome
<1>6. /\ row' \in [Messages -> Row]
      /\ \A x \in Messages \ {m} : row'[x] = row[x]
      /\ row'[m] = IF row[m].status \in {"absent", "erased"} THEN row[m] ELSE w
  BY <1>1, <1>4, <1>5 DEF w
<1>7. /\ call' \in [Calls -> CallRow]
      /\ call'[c] = NoCall
      /\ \A d \in Calls \ {c} : call'[d] = call[d]
  BY <1>1, <1>2 DEF NoCall, CallRow
<1>8. TypeOK'  BY <1>1, <1>6, <1>7 DEF IInv, TypeOK, RowsTyped
<1>9. Known(c)'  BY <1>7 DEF Known, NoCall
<1>10. Says(m)'
  <2>1. CASE row[m].status = "erased"
    BY <1>1, <1>2, <1>6, <2>1 DEF Says, Funded
  <2>2. CASE row[m].status # "erased"
    <3>1. row'[m] = w  BY <1>2, <1>6, <2>2
    <3>2. Fresh(m) => Fresh(m)' /\ accepted[m] = 0  BY <1>1 DEF Fresh, FreeBut
    <3>3. (Kind[m] = "lifecycle" /\ envelope[m].expired => Funded(m))'
      BY <1>1, <1>2 DEF Says, Funded
    <3> QED  BY <1>1, <1>3, <1>5, <3>1, <3>2, <3>3 DEF Says, Outcomes
  <2> QED  BY <2>1, <2>2
<1> QED  BY <1>1, <1>2, <1>6, <1>7, <1>8, <1>9, <1>10, OneCallStep DEF NoCall

LEMMA CrashRight ==
  ASSUME IInv, NEW c \in Calls, NEW m \in Messages, m = call[c].message, Crash(c)
  PROVE  IInv'
<1>1. /\ call[c].phase # "idle" /\ UNCHANGED <<row, envelope, accepted, today>>
      /\ call' = [call EXCEPT ![c] = NoCall]
  BY DEF Crash, provider
<1>2. call \in [Calls -> CallRow] /\ accepted[m] <= 1  BY <1>1, Busy DEF Says
<1>3. /\ call' \in [Calls -> CallRow]
      /\ call'[c] = NoCall
      /\ \A d \in Calls \ {c} : call'[d] = call[d]
  BY <1>1, <1>2 DEF NoCall, CallRow
<1>4. Known(c)'  BY <1>3 DEF Known, NoCall
<1>5. Funded(m) => Funded(m)'  BY <1>1 DEF Funded
<1> QED
  BY <1>1, <1>2, <1>3, <1>4, <1>5, CallOnly DEF NoCall, IInv, TypeOK, RowsTyped

-----------------------------------------------------------------------------
(* The invariant and what it gives. *)

LEMMA StutterRight == IInv /\ UNCHANGED vars => IInv'
<1> SUFFICES ASSUME IInv, UNCHANGED vars PROVE IInv'  OBVIOUS
<1>1. UNCHANGED <<row, envelope, today, call, accepted>>  BY DEF vars, provider
<1>2. TypeOK'  BY <1>1 DEF IInv, TypeOK, RowsTyped
<1>3. ASSUME NEW x \in Messages PROVE Says(x)'
  BY <1>1 DEF IInv, Says, Fresh, FreeBut, Funded
<1> QED  BY <1>1, <1>2, <1>3, RowStep DEF IInv, Alone

LEMMA StepRight == IInv /\ Next => IInv'
<1> SUFFICES ASSUME IInv, Next PROVE IInv'  OBVIOUS
<1>1. CASE \E m \in Messages : EnqueueLifecycle(m) \/ EnqueueProof(m) \/ EnqueueChanged(m)
  BY <1>1, EnqueueRight
<1>2. CASE \E m \in Messages : Purge(m) \/ Sweep(m)
  BY <1>2, RowRight
<1>3. CASE \E o \in {Owner[m] : m \in Messages} : Erase(o)
  BY <1>3, RowRight
<1>4. CASE \E m \in Messages : Expire(m)
  BY <1>4, ExpireRight
<1>5. CASE \E c \in Calls, m \in Messages : Claim(c, m)
  <2>1. PICK c \in Calls, m \in Messages : Claim(c, m)  BY <1>5
  <2>2. CASE /\ call' = [call EXCEPT ![c] = [NoCall EXCEPT !.phase = "begin", !.message = m]]
             /\ row' = [row EXCEPT ![m].status = "processing", ![m].attempts = @ + 1]
    BY <2>1, <2>2, ClaimRight
  <2>3. CASE row' = [row EXCEPT ![m].status = "cancelled"] /\ UNCHANGED call
    BY <2>1, <2>3, RowRight
  <2> QED  BY <2>1, <2>2, <2>3 DEF Claim
<1>6. ASSUME NEW c \in Calls,
             \/ CallStep(c) \/ Unconfigured(c) \/ FailBegin(c) \/ FailRecord(c) \/ Crash(c)
      PROVE  IInv'
  <2>1. call[c].phase # "idle"
    BY <1>6 DEF CallStep, Begin, Send, Record, Write, Unconfigured, FailBegin, FailRecord, Crash
  <2>2. PICK m \in Messages : m = call[c].message  BY <2>1, Busy
  <2>3. Known(c)  BY <2>1, Busy
  <2>4. CASE Begin(c) \/ Unconfigured(c) \/ FailBegin(c)  BY <2>2, <2>4, BeginRight
  <2>5. CASE Send(c)
    BY <2>2, <2>3, <2>5, SendRight DEF Known, Send
  <2>6. CASE Record(c) \/ FailRecord(c)
    BY <2>2, <2>3, <2>6, RecordRight DEF Known, Record, FailRecord
  <2>7. CASE Write(c)  BY <2>2, <2>7, WriteRight
  <2>8. CASE Crash(c)  BY <2>2, <2>8, CrashRight
  <2> QED  BY <1>6, <2>4, <2>5, <2>6, <2>7, <2>8 DEF CallStep
<1>7. CASE NextDay  BY <1>7, NextDayRight
<1> QED  BY <1>1, <1>2, <1>3, <1>4, <1>5, <1>6, <1>7 DEF Next

\* Every reachable state satisfies the invariant.
THEOREM MailInvariance == Spec => []IInv
<1>1. Init => IInv  BY InitRight
<1>2. IInv /\ [Next]_vars => IInv'  BY StepRight, StutterRight
<1> QED  BY <1>1, <1>2, PTL DEF Spec

\* The state has its type (notification_outbox and the envelopes), however often a row
\* is queued, swept, written late or deleted.
THEOREM MailTypeCorrect == Spec => []TypeOK
<1>1. IInv => TypeOK  BY DEF IInv
<1> QED  BY <1>1, MailInvariance, PTL

\* Nobody gets a message twice, and a row that says sent, failed, cancelled or pending
\* says what happened (guarded_send and the unconditional write of its outcome).
THEOREM MailRowTellsTruth == Spec => []RowTellsTruth
<1>1. IInv => RowTellsTruth
  BY DEF IInv, Says, Fresh, RowTellsTruth
<1> QED  BY <1>1, MailInvariance, PTL

\* Calls never meet on a message: a row that is deleted or swept under a call is not
\* claimed before that call is done (the claims of deliver_pending_notifications).
THEOREM MailCallsApart == Spec => []Alone
<1>1. IInv => Alone  BY DEF IInv
<1> QED  BY <1>1, MailInvariance, PTL
-----------------------------------------------------------------------------
(* The budget of a day. *)

\* A sum of numbers that are bounded.
LEMMA SumBounded ==
  ASSUME NEW D, IsFiniteSet(D), NEW f \in [D -> Nat], NEW k \in Nat, \A x \in D : f[x] <= k
  PROVE  Sum(f) <= Cardinality(D) * k /\ Sum(f) \in Nat
<1>1. IsFiniteSet(1..k) /\ Cardinality(1..k) = k
  BY FS_Interval
<1>2. IsFiniteSet(D \X (1..k)) /\ Cardinality(D \X (1..k)) = Cardinality(D) * k
  BY <1>1, FS_Product
<1>3. Points(f) \subseteq D \X (1..k)
  BY DEF Points
<1> QED  BY <1>2, <1>3, FS_Subset, FS_CardinalityType DEF Sum

\* The envelopes of every day are paid for, and none is of a later day.
DaysWithin ==
    /\ today \in 1..Days
    /\ \A m \in Messages : envelope[m].day \in 0..today
    /\ \A d \in 1..Days : Units(Cardinality(OfDay(d))) <= DailyUnits

\* The attempts 1..n of m are no longer free.
Used(m, n) == \A k \in 1..n : envelope[m].try[k] # "free"

\* Each request was an attempt of the message's envelope.
RequestsCovered ==
    /\ requests \in [Messages -> Nat]
    /\ \A m \in Messages : /\ \E n \in 0..Attempts : requests[m] <= n /\ Used(m, n)
                           /\ ~Funded(m) => \A k \in Ordinals : envelope[m].try[k] = "free"
    /\ \A c \in Calls : call[c].phase \in {"send", "record"} =>
          LET m == call[c].message
              n == call[c].ordinal
          IN  /\ Used(m, n) /\ Funded(m)
              /\ call[c].phase = "send" => requests[m] < n

Budget == DaysWithin /\ RequestsCovered

LEMMA BudgetInit == Init => Budget
<1> SUFFICES ASSUME Init PROVE Budget  OBVIOUS
<1> USE DEF Init, NoEnvelope, NoCall
<1>1. DaysWithin
  <2>1. ASSUME NEW d \in 1..Days PROVE Units(Cardinality(OfDay(d))) <= DailyUnits
    <3>1. OfDay(d) = {}  BY DEF OfDay
    <3>2. Cardinality(OfDay(d)) = 0  BY <3>1, FS_EmptySet
    <3>3. 0 * Attempts = 0  BY ConstantsOK
    <3> QED  BY <3>2, <3>3, ConstantsOK DEF Units
  <2> QED  BY <2>1, ConstantsOK DEF DaysWithin
<1>2. RequestsCovered
  <2>1. ASSUME NEW m \in Messages PROVE requests[m] <= 0 /\ Used(m, 0)
    BY DEF Used
  <2>2. 0 \in 0..Attempts  BY ConstantsOK
  <2>3. \A m \in Messages, k \in Ordinals : envelope[m].try[k] = "free"  OBVIOUS
  <2> QED  BY <2>1, <2>2, <2>3 DEF RequestsCovered
<1> QED  BY <1>1, <1>2 DEF Budget

\* A step that pays for the messages of S, which had no envelope.
LEMMA DaysStep ==
  ASSUME DaysWithin, UNCHANGED today, NEW S \in SUBSET Messages,
         \A m \in S : ~Funded(m),
         S = {} \/ Units(Cardinality(OfDay(today)) + Cardinality(S)) <= DailyUnits,
         \A m \in Messages : envelope'[m].day = IF m \in S THEN today ELSE envelope[m].day
  PROVE  DaysWithin'
<1>1. ASSUME NEW d \in 1..Days PROVE Units(Cardinality(OfDay(d)'))  <= DailyUnits
  <2>1. Units(Cardinality(OfDay(d))) <= DailyUnits  BY DEF DaysWithin
  <2>2. d # 0 /\ today # 0  BY ConstantsOK DEF DaysWithin
  <2>3. CASE d # today \/ S = {}
    <3>1. OfDay(d)' = OfDay(d)  BY <2>2, <2>3 DEF OfDay, Funded
    <3> QED  BY <2>1, <3>1
  <2>4. CASE d = today /\ S # {}
    <3>1. OfDay(d)' = OfDay(d) \cup S /\ OfDay(d) \cap S = {}
      BY <2>2, <2>4 DEF OfDay, Funded
    <3>2. IsFiniteSet(OfDay(d)) /\ IsFiniteSet(S)
      <4>1. OfDay(d) \in SUBSET Messages  BY DEF OfDay
      <4> QED  BY <4>1, FS_Subset, ConstantsOK
    <3>3. Cardinality(OfDay(d) \cup S)
             = Cardinality(OfDay(d)) + Cardinality(S) - Cardinality(OfDay(d) \cap S)
      BY <3>2, FS_Union
    <3>4. /\ Cardinality(OfDay(d)) \in Nat /\ Cardinality(S) \in Nat
          /\ Cardinality(OfDay(d) \cap S) = 0
      BY <3>1, <3>2, FS_CardinalityType, FS_EmptySet
    <3> QED  BY <2>4, <3>1, <3>3, <3>4
  <2> QED  BY <2>3, <2>4
<1>2. \A m \in Messages : envelope'[m].day \in 0..today  BY DEF DaysWithin
<1> QED  BY <1>1, <1>2, ConstantsOK DEF DaysWithin, Units

\* A step that asks nothing of the provider; attempts are never taken back.
LEMMA RequestsStep ==
  ASSUME IInv, RequestsCovered, UNCHANGED requests,
         \A m \in Messages :
            /\ Funded(m) => Funded(m)'
            /\ \A k \in Ordinals : envelope[m].try[k] # "free" => envelope'[m].try[k] # "free"
            /\ ~Funded(m)' => envelope'[m].try = envelope[m].try,
         \A c \in Calls : call'[c].phase \in {"send", "record"} =>
            \/ call'[c] = call[c]
            \/ \E m \in Messages, n \in Ordinals :
                  /\ m = call'[c].message /\ n = call'[c].ordinal
                  /\ requests[m] < n /\ Used(m, n)' /\ Funded(m)'
  PROVE  RequestsCovered'
<1>1. ASSUME NEW m \in Messages, NEW n \in 0..Attempts, Used(m, n) PROVE Used(m, n)'
  BY <1>1, ConstantsOK DEF Used, Ordinals
<1>2. ASSUME NEW m \in Messages
      PROVE  /\ \E n \in 0..Attempts : requests'[m] <= n /\ Used(m, n)'
             /\ ~Funded(m)' => \A k \in Ordinals : envelope'[m].try[k] = "free"
  <2>1. PICK n \in 0..Attempts : requests[m] <= n /\ Used(m, n)  BY DEF RequestsCovered
  <2>2. Used(m, n)'  BY <1>1, <2>1
  <2>3. ~Funded(m)' => \A k \in Ordinals : envelope'[m].try[k] = "free"
    BY DEF RequestsCovered
  <2> QED  BY <2>1, <2>2, <2>3
<1>3. ASSUME NEW c \in Calls, call'[c].phase \in {"send", "record"},
             NEW m, m = call'[c].message, NEW n, n = call'[c].ordinal
      PROVE  /\ Used(m, n)' /\ Funded(m)'
             /\ call'[c].phase = "send" => requests'[m] < n
  <2>1. CASE call'[c] = call[c]
    <3>1. call[c].phase \in {"send", "record"} /\ m = call[c].message /\ n = call[c].ordinal
      BY <1>3, <2>1
    <3>2. m \in Messages /\ n \in 0..Attempts
      BY <3>1, Busy, ConstantsOK DEF Known, Ordinals
    <3>3. Used(m, n) /\ Funded(m) /\ (call[c].phase = "send" => requests[m] < n)
      BY <3>1 DEF RequestsCovered
    <3>4. Used(m, n)'  BY <1>1, <3>2, <3>3
    <3> QED  BY <2>1, <3>2, <3>3, <3>4
  <2>2. CASE call'[c] # call[c]  BY <1>3, <2>2
  <2> QED  BY <2>1, <2>2
<1> QED  BY <1>2, <1>3 DEF RequestsCovered

\* A step that leaves the envelopes alone and begins no attempt.
LEMMA BudgetKept ==
  ASSUME IInv, Budget, UNCHANGED <<envelope, requests>>,
         UNCHANGED today \/ (today < Days /\ today' = today + 1),
         \A c \in Calls : call'[c].phase \in {"send", "record"} => call'[c] = call[c]
  PROVE  Budget'
<1>1. \A d \in 1..Days : OfDay(d)' = OfDay(d)  BY DEF OfDay
<1>2. DaysWithin'
  BY <1>1, ConstantsOK DEF Budget, DaysWithin, Units
<1>3. RequestsCovered'
  BY RequestsStep DEF Budget, Funded
<1> QED  BY <1>2, <1>3 DEF Budget

LEMMA EnqueueBudget ==
  ASSUME IInv, Budget, NEW m \in Messages,
         EnqueueLifecycle(m) \/ EnqueueProof(m) \/ EnqueueChanged(m)
  PROVE  Budget'
<1> USE DEF EnqueueLifecycle, EnqueueProof, EnqueueChanged, provider
<1>1. UNCHANGED <<today, call, requests>>  OBVIOUS
<1>2. CASE UNCHANGED envelope
  <2> HIDE DEF EnqueueLifecycle, EnqueueProof, EnqueueChanged
  <2> QED  BY <1>1, <1>2, BudgetKept
<1>3. ASSUME NEW S \in SUBSET Messages, Reserve(S), Missing(S) = {} \/ Affordable(Missing(S))
      PROVE  Budget'
  <2> HIDE DEF EnqueueLifecycle, EnqueueProof, EnqueueChanged
  <2>1. /\ Missing(S) \in SUBSET Messages
        /\ \A x \in Missing(S) : ~Funded(x)
        /\ Missing(S) = {} \/ Units(Cardinality(OfDay(today)) + Cardinality(Missing(S))) <= DailyUnits
    BY <1>3 DEF Missing, Affordable
  <2>2. envelope \in [Messages -> [day: Nat, expired: BOOLEAN, try: [Ordinals -> Tries]]]
    BY DEF IInv, TypeOK, RowsTyped
  <2>3. \A x \in Messages :
           envelope'[x].day = IF x \in Missing(S) THEN today ELSE envelope[x].day
    BY <1>3, <2>2 DEF Reserve, Missing
  <2>4. DaysWithin'  BY <1>1, <2>1, <2>3, DaysStep DEF Budget
  <2>5. \A x \in Messages : envelope'[x].try = envelope[x].try /\ (Funded(x) => Funded(x)')
    BY <1>3, Reserving
  <2>6. RequestsCovered'  BY <1>1, <2>5, RequestsStep DEF Budget
  <2> QED  BY <2>4, <2>6 DEF Budget
<1>4. CASE EnqueueLifecycle(m)
  BY <1>2, <1>3, <1>4 DEF Missing
<1>5. CASE EnqueueProof(m)
  BY <1>3, <1>5 DEF Bundle
<1>6. CASE EnqueueChanged(m)
  BY <1>2, <1>3, <1>6 DEF Missing
<1> QED  BY <1>4, <1>5, <1>6

LEMMA ExpireBudget ==
  ASSUME IInv, Budget, NEW m \in Messages, Expire(m)
  PROVE  Budget'
<1>1. UNCHANGED <<today, call, requests>>  BY DEF Expire, provider
<1>2. \A x \in Messages : envelope'[x].day = envelope[x].day /\ envelope'[x].try = envelope[x].try
  BY DEF Expire, IInv, TypeOK, RowsTyped
<1>3. DaysWithin'
  <2>1. {} \in SUBSET Messages /\ \A x \in {} : ~Funded(x)  OBVIOUS
  <2>2. \A x \in Messages : envelope'[x].day = IF x \in {} THEN today ELSE envelope[x].day
    BY <1>2
  <2> QED  BY <1>1, <2>1, <2>2, DaysStep DEF Budget
<1>4. RequestsCovered'  BY <1>1, <1>2, RequestsStep DEF Budget, Funded
<1> QED  BY <1>3, <1>4 DEF Budget

\* The envelope pays for an attempt, or is made for it.
LEMMA AttemptBudget ==
  ASSUME IInv, Budget, NEW c \in Calls, NEW m \in Messages, m = call[c].message,
         call[c].phase = "begin", UNCHANGED <<today, requests>>,
         Funded(m) \/ Affordable({m}), NEW n \in Current(m), envelope[m].try[n] = "free",
         envelope' = [envelope EXCEPT ![m].day = IF Funded(m) THEN @ ELSE today,
                                      ![m].try[n] = "begun"],
         \A d \in Calls \ {c} : call'[d] = call[d],
         \/ call'[c].phase = "send" /\ call'[c].message = m /\ call'[c].ordinal = n
         \/ call'[c].phase = "write"
  PROVE  Budget'
<1>1. n \in Ordinals /\ (\A k \in 1..(n - 1) : envelope[m].try[k] = "known_retryable")
  BY DEF Current
<1>2. envelope[m] \in [day: Nat, expired: BOOLEAN, try: [Ordinals -> Tries]]
  BY DEF IInv, TypeOK, RowsTyped
<1>3. /\ envelope'[m].try = [envelope[m].try EXCEPT ![n] = "begun"]
      /\ envelope'[m].day = IF Funded(m) THEN envelope[m].day ELSE today
      /\ \A x \in Messages \ {m} : envelope'[x] = envelope[x]
  BY <1>1, <1>2 DEF IInv, TypeOK, RowsTyped
<1>11. ASSUME NEW k \in Ordinals
       PROVE  envelope'[m].try[k] = IF k = n THEN "begun" ELSE envelope[m].try[k]
  <2>1. envelope[m].try \in [Ordinals -> Tries]  BY <1>2
  <2>2. envelope'[m].try = [envelope[m].try EXCEPT ![n] = "begun"]  BY <1>3
  <2> QED  BY ONLY <1>1, <2>1, <2>2, k \in Ordinals
<1>4. DaysWithin'
  <2> DEFINE S == IF Funded(m) THEN {} ELSE {m}
  <2>1. S \in SUBSET Messages /\ \A x \in S : ~Funded(x)  OBVIOUS
  <2>2. S = {} \/ Units(Cardinality(OfDay(today)) + Cardinality(S)) <= DailyUnits
    BY DEF Affordable
  <2>3. ASSUME NEW x \in Messages
        PROVE  envelope'[x].day = IF x \in S THEN today ELSE envelope[x].day
    <3>1. CASE x = m /\ Funded(m)  BY <1>3, <3>1
    <3>2. CASE x = m /\ ~Funded(m)  BY <1>3, <3>2
    <3>3. CASE x # m
      <4>1. envelope'[x] = envelope[x] /\ x \notin S  BY <1>3, <3>3
      <4> QED  BY <4>1
    <3> QED  BY <3>1, <3>2, <3>3
  <2> HIDE DEF S
  <2> QED  BY <2>1, <2>2, <2>3, DaysStep DEF Budget
<1>5. Funded(m)'
  <2>1. today # 0  BY DEF Budget, DaysWithin
  <2>2. (envelope'[m].day = envelope[m].day /\ envelope[m].day # 0) \/ envelope'[m].day = today
    BY <1>3 DEF Funded
  <2> QED  BY <2>1, <2>2 DEF Funded
<1>6. Used(m, n)'
  <2>1. ASSUME NEW k \in 1..n PROVE envelope'[m].try[k] # "free"
    <3>1. k \in Ordinals /\ (k = n \/ k \in 1..(n - 1))  BY <1>1, ConstantsOK DEF Ordinals
    <3>2. envelope'[m].try[k] = IF k = n THEN "begun" ELSE envelope[m].try[k]
      BY <1>11, <3>1
    <3> QED  BY ONLY <1>1, <3>1, <3>2
  <2> QED  BY <2>1 DEF Used
<1>7. requests[m] < n
  <2>1. PICK k \in 0..Attempts : requests[m] <= k /\ Used(m, k)  BY DEF Budget, RequestsCovered
  <2>2. k < n  BY <1>1, <2>1, ConstantsOK DEF Used, Ordinals
  <2>3. requests[m] \in Nat  BY DEF Budget, RequestsCovered
  <2> QED  BY <1>1, <2>1, <2>2, <2>3 DEF Ordinals
<1>8. \A d \in Calls : call'[d].phase \in {"send", "record"} =>
            \/ call'[d] = call[d]
            \/ \E x \in Messages, k \in Ordinals :
                  /\ x = call'[d].message /\ k = call'[d].ordinal
                  /\ requests[x] < k /\ Used(x, k)' /\ Funded(x)'
  BY <1>1, <1>5, <1>6, <1>7
<1>9. \A x \in Messages :
            /\ Funded(x) => Funded(x)'
            /\ \A k \in Ordinals : envelope[x].try[k] # "free" => envelope'[x].try[k] # "free"
            /\ ~Funded(x)' => envelope'[x].try = envelope[x].try
  <2>1. ASSUME NEW x \in Messages \ {m} PROVE envelope'[x] = envelope[x]  BY <1>3
  <2>2. ASSUME NEW k \in Ordinals, envelope[m].try[k] # "free" PROVE envelope'[m].try[k] # "free"
    <3>1. envelope'[m].try[k] = IF k = n THEN "begun" ELSE envelope[m].try[k]
      BY <1>11
    <3> QED  BY ONLY <2>2, <3>1
  <2> QED  BY <1>5, <2>1, <2>2 DEF Funded
<1>10. RequestsCovered'  BY <1>8, <1>9, RequestsStep DEF Budget
<1> QED  BY <1>4, <1>10 DEF Budget

LEMMA BeginBudget ==
  ASSUME IInv, Budget, NEW c \in Calls, NEW m \in Messages, m = call[c].message,
         Begin(c) \/ Unconfigured(c) \/ FailBegin(c)
  PROVE  Budget'
<1>1. call[c].phase = "begin" /\ UNCHANGED <<today, requests>>
  BY DEF Begin, Unconfigured, FailBegin, provider
<1>2. call \in [Calls -> CallRow]  BY DEF IInv, TypeOK
<1>3. ASSUME NEW outcome, Answer(c, outcome)
      PROVE  /\ \A d \in Calls \ {c} : call'[d] = call[d]
             /\ call'[c].phase = "write"
  BY <1>2, <1>3 DEF Answer, CallRow
<1>4. ASSUME NEW outcome, Answer(c, outcome), UNCHANGED envelope PROVE Budget'
  BY <1>1, <1>3, <1>4, BudgetKept
<1>5. ASSUME NEW n \in Current(m), Attempt(c, m, n), Funded(m) \/ Affordable({m})
      PROVE  Budget'
  <2>1. CASE envelope[m].try[n] = "free" /\ ~envelope[m].expired
    <3>1. /\ envelope' = [envelope EXCEPT ![m].day = IF Funded(m) THEN @ ELSE today,
                                          ![m].try[n] = "begun"]
          /\ call' = [call EXCEPT ![c].phase = "send", ![c].ordinal = n]
      BY <1>5, <2>1 DEF Attempt
    <3>2. /\ call'[c].phase = "send" /\ call'[c].message = m /\ call'[c].ordinal = n
          /\ \A d \in Calls \ {c} : call'[d] = call[d]
      BY <1>2, <3>1 DEF CallRow
    <3> QED  BY <1>1, <1>5, <2>1, <3>1, <3>2, AttemptBudget
  <2>2. CASE ~(envelope[m].try[n] = "free" /\ ~envelope[m].expired)
    BY <1>4, <1>5, <2>2 DEF Attempt
  <2> QED  BY <2>1, <2>2
<1>6. CASE Begin(c)
  BY <1>4, <1>5, <1>6 DEF Begin
<1>7. CASE Unconfigured(c)
  BY <1>4, <1>7 DEF Unconfigured
<1>8. CASE FailBegin(c)
  <2>1. CASE UNCHANGED envelope  BY <1>4, <1>8, <2>1 DEF FailBegin
  <2>2. CASE ~UNCHANGED envelope
    <3>1. Funded(m) \/ Affordable({m})  BY <1>8, <2>2 DEF FailBegin
    <3>2. PICK n \in Current(m) :
             /\ envelope[m].try[n] = "free"
             /\ envelope' = [envelope EXCEPT ![m].day = IF Funded(m) THEN @ ELSE today,
                                             ![m].try[n] = "begun"]
      BY <1>8, <2>2 DEF FailBegin
    <3>3. /\ \A d \in Calls \ {c} : call'[d] = call[d]
          /\ call'[c].phase = "write"
      BY <1>3, <1>8 DEF FailBegin
    <3> QED  BY <1>1, <3>1, <3>2, <3>3, AttemptBudget
  <2> QED  BY <2>1, <2>2
<1> QED  BY <1>6, <1>7, <1>8

LEMMA SendBudget ==
  ASSUME IInv, Budget, NEW c \in Calls, NEW m \in Messages, m = call[c].message, Send(c)
  PROVE  Budget'
<1>1. call[c].phase = "send" /\ UNCHANGED <<today, envelope>>  BY DEF Send
<1>0. PICK n \in Ordinals : n = call[c].ordinal  BY <1>1, Busy DEF Known
<1>2. /\ call \in [Calls -> CallRow] /\ m # NoMessage
      /\ requests[m] < n /\ Used(m, n) /\ Funded(m) /\ requests \in [Messages -> Nat]
  BY <1>0, <1>1, Busy DEF Known, Budget, RequestsCovered
<1>3. /\ call'[c].phase \in {"write", "record"}
      /\ \A d \in Calls \ {c} : call'[d] = call[d]
  BY <1>2 DEF Send, Answer, CallRow
<1>4. CASE envelope[m].expired
  <2>1. UNCHANGED requests /\ call'[c].phase = "write"
    BY <1>2, <1>4 DEF Send, Answer, provider, CallRow
  <2> QED  BY <1>1, <1>3, <2>1, BudgetKept
<1>5. CASE ~envelope[m].expired
  <2>0. /\ requests' = [requests EXCEPT ![m] = @ + 1]
        /\ call'[c].phase = "record" /\ call'[c].message = m /\ call'[c].ordinal = n
    BY <1>0, <1>2, <1>5 DEF Send, CallRow
  <2>1. /\ requests' \in [Messages -> Nat] /\ requests'[m] <= n
        /\ \A x \in Messages \ {m} : requests'[x] = requests[x]
    BY <1>2, <2>0, ConstantsOK DEF Ordinals
  <2>2. \A x \in Messages, k \in 0..Attempts : Used(x, k)' <=> Used(x, k)
    BY <1>1 DEF Used
  <2>3. ASSUME NEW x \in Messages
        PROVE  /\ \E k \in 0..Attempts : requests'[x] <= k /\ Used(x, k)'
               /\ ~Funded(x)' => \A k \in Ordinals : envelope'[x].try[k] = "free"
    <3>1. n \in 0..Attempts  BY <1>2, ConstantsOK DEF Ordinals
    <3>2. CASE x = m
      BY <1>1, <1>2, <2>1, <2>2, <3>1, <3>2 DEF Funded
    <3>3. CASE x # m
      BY <1>1, <2>1, <2>2, <3>3 DEF Budget, RequestsCovered, Funded
    <3> QED  BY <3>2, <3>3
  <2>4. ASSUME NEW d \in Calls, call'[d].phase \in {"send", "record"},
               NEW x, x = call'[d].message, NEW k, k = call'[d].ordinal
        PROVE  /\ Used(x, k)' /\ Funded(x)'
               /\ call'[d].phase = "send" => requests'[x] < k
    <3>1. CASE d = c
      <4>1. x = m /\ k = n /\ n \in 0..Attempts  BY <2>0, <2>4, <3>1, ConstantsOK DEF Ordinals
      <4> QED  BY <1>1, <1>2, <2>0, <2>2, <3>1, <4>1 DEF Funded
    <3>2. CASE d # c
      <4>1. /\ call'[d] = call[d] /\ call[d].phase \in {"send", "record"}
            /\ x = call[d].message /\ k = call[d].ordinal
        BY <1>3, <2>4, <3>2
      <4>2. x \in Messages /\ x # m /\ k \in 0..Attempts
        BY <1>2, <3>2, <4>1, Busy, ConstantsOK DEF Known, IInv, Alone, Ordinals
      <4>3. Used(x, k) /\ Funded(x) /\ (call[d].phase = "send" => requests[x] < k)
        BY <4>1 DEF Budget, RequestsCovered
      <4> QED  BY <1>1, <2>1, <2>2, <4>1, <4>2, <4>3 DEF Funded
    <3> QED  BY <3>1, <3>2
  <2>5. RequestsCovered'  BY <2>1, <2>3, <2>4 DEF RequestsCovered
  <2>6. \A d \in 1..Days : OfDay(d)' = OfDay(d)  BY <1>1 DEF OfDay
  <2>7. DaysWithin'  BY <1>1, <2>6 DEF Budget, DaysWithin
  <2> QED  BY <2>5, <2>7 DEF Budget
<1> QED  BY <1>4, <1>5

LEMMA RecordBudget ==
  ASSUME IInv, Budget, NEW c \in Calls, NEW m \in Messages, m = call[c].message,
         Record(c) \/ FailRecord(c)
  PROVE  Budget'
<1>1. call[c].phase = "record" /\ UNCHANGED <<today, requests>>
  BY DEF Record, FailRecord, provider
<1>2. /\ call \in [Calls -> CallRow] /\ Known(c)  BY <1>1, Busy
<1>3. PICK n \in Ordinals, outcome \in Outcomes : n = call[c].ordinal /\ outcome = call[c].outcome
  BY <1>1, <1>2 DEF Known
<1>4. /\ call'[c].phase = "write"
      /\ \A d \in Calls \ {c} : call'[d] = call[d]
  BY <1>2 DEF Record, FailRecord, Answer, CallRow
<1>5. CASE UNCHANGED envelope
  BY <1>1, <1>4, <1>5, BudgetKept
<1>6. CASE Recorded(c)
  <2>1. /\ envelope'[m].try = [envelope[m].try EXCEPT ![n] = outcome]
        /\ \A x \in Messages \ {m} : envelope'[x] = envelope[x]
    BY <1>3, <1>6, Recording
  <2>2. envelope'[m].day = envelope[m].day
    BY <1>6 DEF Recorded, IInv, TypeOK, RowsTyped
  <2>3. envelope[m].try \in [Ordinals -> Tries] /\ outcome # "free"
    BY <1>3 DEF IInv, TypeOK, RowsTyped, Outcomes
  <2>4. DaysWithin'
    <3>1. {} \in SUBSET Messages /\ \A x \in {} : ~Funded(x)  OBVIOUS
    <3>2. \A x \in Messages : envelope'[x].day = IF x \in {} THEN today ELSE envelope[x].day
      BY <2>1, <2>2
    <3> QED  BY <1>1, <3>1, <3>2, DaysStep DEF Budget
  <2>5. ASSUME NEW x \in Messages
        PROVE  /\ Funded(x) => Funded(x)'
               /\ \A k \in Ordinals : envelope[x].try[k] # "free" => envelope'[x].try[k] # "free"
               /\ ~Funded(x)' => envelope'[x].try = envelope[x].try
    <3>1. CASE x = m
      <4>1. \A k \in Ordinals : envelope[m].try[k] # "free" => envelope'[m].try[k] # "free"
        BY <2>1, <2>3
      <4>2. Funded(m)
        BY <1>1, <1>3 DEF Budget, RequestsCovered
      <4> QED  BY <2>2, <3>1, <4>1, <4>2 DEF Funded
    <3>2. CASE x # m  BY <2>1, <3>2 DEF Funded
    <3> QED  BY <3>1, <3>2
  <2>6. RequestsCovered'
    BY <1>1, <1>4, <2>5, RequestsStep DEF Budget
  <2> QED  BY <2>4, <2>6 DEF Budget
<1> QED  BY <1>5, <1>6 DEF Record, FailRecord

LEMMA BudgetRight == IInv /\ Budget /\ [Next]_vars => Budget'
<1> SUFFICES ASSUME IInv, Budget, [Next]_vars PROVE Budget'  OBVIOUS
<1>0. call \in [Calls -> CallRow]  BY DEF IInv, TypeOK
<1>1. CASE UNCHANGED vars
  BY <1>1, BudgetKept DEF vars, provider
<1>2. CASE \E m \in Messages : EnqueueLifecycle(m) \/ EnqueueProof(m) \/ EnqueueChanged(m)
  BY <1>2, EnqueueBudget
<1>3. CASE \/ \E m \in Messages : Purge(m) \/ Sweep(m)
           \/ \E o \in {Owner[m] : m \in Messages} : Erase(o)
           \/ NextDay
  <2>1. /\ UNCHANGED <<envelope, requests, call>>
        /\ UNCHANGED today \/ (today < Days /\ today' = today + 1)
    BY <1>3 DEF Purge, Sweep, Erase, NextDay, provider
  <2> QED  BY <2>1, BudgetKept
<1>4. CASE \E m \in Messages : Expire(m)
  BY <1>4, ExpireBudget
<1>5. CASE \E c \in Calls, m \in Messages : Claim(c, m)
  <2>1. PICK c \in Calls, m \in Messages : Claim(c, m)  BY <1>5
  <2>2. /\ UNCHANGED <<envelope, requests, today>>
        /\ UNCHANGED call \/ call' = [call EXCEPT ![c] = [NoCall EXCEPT !.phase = "begin", !.message = m]]
    BY <2>1 DEF Claim, provider
  <2>3. \A d \in Calls : call'[d].phase \in {"send", "record"} => call'[d] = call[d]
    BY <1>0, <2>2 DEF NoCall
  <2> QED  BY <2>2, <2>3, BudgetKept
<1>6. ASSUME NEW c \in Calls,
             \/ CallStep(c) \/ Unconfigured(c) \/ FailBegin(c) \/ FailRecord(c) \/ Crash(c)
      PROVE  Budget'
  <2>1. call[c].phase # "idle"
    BY <1>6 DEF CallStep, Begin, Send, Record, Write, Unconfigured, FailBegin, FailRecord, Crash
  <2>2. PICK m \in Messages : m = call[c].message  BY <2>1, Busy
  <2>3. CASE Begin(c) \/ Unconfigured(c) \/ FailBegin(c)  BY <2>2, <2>3, BeginBudget
  <2>4. CASE Send(c)  BY <2>2, <2>4, SendBudget
  <2>5. CASE Record(c) \/ FailRecord(c)  BY <2>2, <2>5, RecordBudget
  <2>6. CASE Write(c) \/ Crash(c)
    <3>1. UNCHANGED <<envelope, requests, today>> /\ call' = [call EXCEPT ![c] = NoCall]
      BY <2>6 DEF Write, Crash, provider
    <3>2. \A d \in Calls : call'[d].phase \in {"send", "record"} => call'[d] = call[d]
      BY <1>0, <3>1 DEF NoCall
    <3> QED  BY <3>1, <3>2, BudgetKept
  <2> QED  BY <1>6, <2>3, <2>4, <2>5, <2>6 DEF CallStep
<1> QED  BY <1>1, <1>2, <1>3, <1>4, <1>5, <1>6 DEF Next

\* The provider never gets more requests than the envelopes of a day pay for
\* (reserve_messages and _attempt of mail_budget.py), whatever the day on which they
\* are sent, however often calls crash or answers are lost.
THEOREM MailRequestsFunded == Spec => []RequestsFunded
<1>1. ASSUME Budget, NEW d \in 0..Days
      PROVE  Sum([m \in OfDay(d) |-> requests[m]]) <= IF d = 0 THEN 0 ELSE DailyUnits
  <2> DEFINE f == [m \in OfDay(d) |-> requests[m]]
             bound == IF d = 0 THEN 0 ELSE Attempts
  <2>1. IsFiniteSet(OfDay(d)) /\ Cardinality(OfDay(d)) \in Nat
    <3>1. OfDay(d) \in SUBSET Messages  BY DEF OfDay
    <3> QED  BY <3>1, FS_Subset, FS_CardinalityType, ConstantsOK
  <2>2. ASSUME NEW m \in OfDay(d) PROVE requests[m] \in Nat /\ requests[m] <= bound
    <3>1. PICK n \in 0..Attempts : requests[m] <= n /\ Used(m, n)
      BY <1>1 DEF OfDay, Budget, RequestsCovered
    <3>2. requests[m] \in Nat  BY <1>1 DEF OfDay, Budget, RequestsCovered
    <3>3. CASE d = 0
      <4>1. \A k \in Ordinals : envelope[m].try[k] = "free"
        BY <1>1, <3>3 DEF OfDay, Funded, Budget, RequestsCovered
      <4>2. n = 0  BY <3>1, <4>1, ConstantsOK DEF Used, Ordinals
      <4> QED  BY <3>1, <3>2, <3>3, <4>2
    <3>4. CASE d # 0  BY <3>1, <3>2, <3>4, ConstantsOK
    <3> QED  BY <3>3, <3>4
  <2>3. f \in [OfDay(d) -> Nat] /\ bound \in Nat /\ \A m \in OfDay(d) : f[m] <= bound
    BY <2>2, ConstantsOK
  <2> HIDE DEF f
  <2>4. Sum(f) <= Cardinality(OfDay(d)) * bound /\ Sum(f) \in Nat
    <3> HIDE DEF bound
    <3> QED  BY <2>1, <2>3, SumBounded
  <2>5. CASE d = 0
    <3>1. Cardinality(OfDay(d)) * 0 = 0  BY <2>1
    <3> QED  BY <2>4, <2>5, <3>1 DEF f
  <2>6. CASE d # 0
    <3>1. d \in 1..Days  BY <2>6, ConstantsOK
    <3>2. Cardinality(OfDay(d)) * Attempts <= DailyUnits
      BY <1>1, <3>1 DEF Budget, DaysWithin, Units
    <3>3. Sum(f) \in Int /\ Cardinality(OfDay(d)) * Attempts \in Int /\ DailyUnits \in Int
      BY <2>1, <2>4, ConstantsOK
    <3> QED  BY <2>4, <2>6, <3>2, <3>3 DEF f
  <2> QED  BY <2>5, <2>6
<1>2. Init => Budget  BY BudgetInit
<1>3. IInv /\ Budget /\ [Next]_vars => Budget'  BY BudgetRight
<1>4. Budget => RequestsFunded  BY <1>1 DEF RequestsFunded
<1> QED  BY <1>2, <1>3, <1>4, MailInvariance, PTL DEF Spec
=============================================================================
