--------------------------------- MODULE Mail ---------------------------------
(* Mail to candidates: the rows of notification_outbox (notifications/service.py,
   password_reset.py, privacy_erasure.py), and beside them the envelopes of
   notifications/mail_budget.py, which outlive a row: an envelope pays for a few
   attempts in the budget of its day and keeps what became of each attempt.

   Several calls deliver: the maintenance job and the requests that queue a
   security message.  A call claims a row, begins an attempt, sends outside of any
   transaction, records the outcome and writes the row, each step for itself.
   Whether the provider took a message may stay unknown for good.

   Left out: schedules and the pause before a retry (a message that is pending may
   be claimed at any time), the budget of the month (a longer day), the content of
   messages, and reminders, which are lifecycle messages.  The rows of privacy
   messages have statuses of their own, which mean the same. *)
EXTENDS Integers, FiniteSets, Sums

CONSTANTS
    Messages,
    Kind,          \* kind of every message
    Owner,         \* candidate of every message
    Follows,       \* the notices that follow a reset, which pays for both
    Calls,         \* concurrent calls that deliver
    NoMessage,     \* a call that is idle
    Attempts,      \* attempts an envelope pays for
    DailyUnits,    \* attempts of all envelopes of a day
    PrivacyDaily,  \* envelopes of a day that may be for privacy messages
    Days,          \* days until the end of the model
    MaxFaults      \* how often the environment misbehaves

Security == {"password_reset", "password_changed", "privacy_erasure"}

ASSUME ConstantsOK ==
    /\ IsFiniteSet(Messages) /\ NoMessage \notin Messages
    /\ Kind \in [Messages -> Security \cup {"lifecycle"}]
    /\ Follows \in [{m \in Messages : Kind[m] = "password_reset"}
                    -> {m \in Messages : Kind[m] = "password_changed"}]
    /\ \A r, s \in DOMAIN Follows : Follows[r] = Follows[s] => r = s
    /\ Attempts \in Nat \ {0} /\ DailyUnits \in Nat /\ PrivacyDaily \in Nat
    /\ Days \in Nat \ {0} /\ MaxFaults \in Nat

VARIABLES
    row,       \* notification_outbox
    envelope,  \* admin_audit_events of the mail ledger, by message
    today,     \* the day
    call,      \* state of every call that delivers
    requests,  \* provider: requests to send a message
    accepted,  \* provider: how often it took a message
    faults     \* faults so far

provider == <<requests, accepted>>
vars == <<row, envelope, today, call, provider, faults>>

Ordinals == 1..Attempts
Outcomes == {"sent", "unknown", "permanent", "known_retryable"}

NoRow == [status |-> "absent", attempts |-> 0]
Gone == [NoRow EXCEPT !.status = "erased"]
NoEnvelope == [day |-> 0, expired |-> FALSE, try |-> [n \in Ordinals |-> "free"]]
NoCall == [phase |-> "idle", message |-> NoMessage, ordinal |-> 0, outcome |-> "none"]

Init ==
    /\ row = [m \in Messages |-> NoRow]
    /\ envelope = [m \in Messages |-> NoEnvelope]
    /\ today = 1
    /\ call = [c \in Calls |-> NoCall]
    /\ requests = [m \in Messages |-> 0] /\ accepted = [m \in Messages |-> 0]
    /\ faults = 0

Fault == faults < MaxFaults /\ faults' = faults + 1

-----------------------------------------------------------------------------
(* Envelopes: reserve_messages. *)

Funded(m) == envelope[m].day # 0
OfDay(d) == {m \in Messages : envelope[m].day = d}
Privacy(S) == {m \in S : Kind[m] = "privacy_erasure"}

UnitsPerMessage(n) == n \* slip: a message costs one unit, however often it is tried
Units(n) == n * Attempts

\* All messages of S get an envelope, or none does.
Affordable(S) ==
    /\ Units(Cardinality(OfDay(today)) + Cardinality(S)) <= DailyUnits
    /\ Privacy(S) # {} => Cardinality(Privacy(OfDay(today))) + Cardinality(S) <= PrivacyDaily

Reserve(S) ==
    envelope' = [m \in Messages |->
                    IF m \in S /\ ~Funded(m) THEN [envelope[m] EXCEPT !.day = today] ELSE envelope[m]]

Missing(S) == {m \in S : ~Funded(m)}

Queue(m) == row' = [row EXCEPT ![m] = [status |-> "pending", attempts |-> 0]]

-----------------------------------------------------------------------------
(* Who queues messages. *)

\* enqueue_notification: a row that is gone is not queued again when its envelope,
\* which stays, has expired.  Without units the message is left out.
EnqueueLifecycle(m) ==
    /\ Kind[m] = "lifecycle" /\ row[m].status = "absent"
    /\ IF Funded(m) THEN ~envelope[m].expired ELSE Affordable({m})
    /\ Reserve({m}) /\ Queue(m)
    /\ UNCHANGED <<today, call, provider, faults>>

\* A reset pays for the notice that follows it.
Bundle(m) == {x \in Messages : \E r \in DOMAIN Follows : {m, x} \subseteq {r, Follows[r]}} \cup {m}

\* enqueue of password_reset.py and privacy_erasure.py, for a proof that is new.
EnqueueProof(m) ==
    /\ Kind[m] \in {"password_reset", "privacy_erasure"}
    /\ row[m].status = "absent" /\ ~Funded(m)
    /\ Affordable(Missing(Bundle(m)))
    /\ Reserve(Bundle(m)) /\ Queue(m)
    /\ UNCHANGED <<today, call, provider, faults>>

\* enqueue_changed, when a link has been used; links of old have no envelope.
EnqueueChanged(m) ==
    /\ Kind[m] = "password_changed" /\ row[m].status = "absent"
    /\ \A r \in DOMAIN Follows : Follows[r] = m => accepted[r] > 0
    /\ IF Funded(m) \/ Affordable({m}) THEN Reserve({m}) ELSE UNCHANGED envelope
    /\ Queue(m)
    /\ UNCHANGED <<today, call, provider, faults>>

\* Account erasure deletes the rows of a candidate, who gets no mail any more.
Erase(o) ==
    /\ \E m \in Messages : Owner[m] = o /\ row[m].status \notin {"absent", "erased"}
    /\ row' = [m \in Messages |-> IF Owner[m] = o THEN Gone ELSE row[m]]
    /\ UNCHANGED <<envelope, today, call, provider, faults>>

\* run_maintenance, months later; rows of privacy messages are kept.
Purge(m) ==
    /\ Kind[m] # "privacy_erasure"
    /\ row[m].status \in {"sent", "failed"} /\ envelope[m].expired
    /\ row' = [row EXCEPT ![m] = IF Kind[m] = "lifecycle" THEN NoRow ELSE Gone]
    /\ UNCHANGED <<envelope, today, call, provider, faults>>

-----------------------------------------------------------------------------
(* Delivery: deliver_pending_notifications, and deliver for security messages. *)

SweepableLifecycle(m) == \* slip: the sweep leaves security messages out
    row[m].status = "processing" /\ Kind[m] = "lifecycle"
Sweepable(m) == row[m].status = "processing"

\* A row that was claimed long ago, perhaps by a call that is only slow.
Sweep(m) ==
    /\ Sweepable(m)
    /\ row' = [row EXCEPT ![m].status = "mail_unknown"]
    /\ IF \E c \in Calls : call[c].message = m THEN Fault ELSE UNCHANGED faults
    /\ UNCHANGED <<envelope, today, call, provider>>

\* A security message may have lost its purpose since it was queued.
Claim(c, m) ==
    /\ call[c].phase = "idle" /\ row[m].status = "pending"
    /\ \/ /\ Kind[m] = "privacy_erasure" => row[m].attempts < Attempts
          /\ row' = [row EXCEPT ![m].status = "processing", ![m].attempts = @ + 1]
          /\ call' = [call EXCEPT ![c] = [NoCall EXCEPT !.phase = "begin", !.message = m]]
       \/ /\ Kind[m] \in Security
          /\ row' = [row EXCEPT ![m].status = "cancelled"] /\ UNCHANGED call
    /\ UNCHANGED <<envelope, today, provider, faults>>

Answer(c, outcome) ==
    call' = [call EXCEPT ![c].phase = "write", ![c].ordinal = 0, ![c].outcome = outcome]

\* _attempt: the first attempt that was not refused for now.
Current(m) ==
    {n \in Ordinals : /\ envelope[m].try[n] # "known_retryable"
                      /\ \A k \in 1..(n - 1) : envelope[m].try[k] = "known_retryable"}

\* The attempt n is begun or ends the matter.
Attempt(c, m, n) ==
    LET t == envelope[m].try[n]
    IN  IF t = "free" /\ ~envelope[m].expired
        THEN /\ envelope' = [envelope EXCEPT ![m].day = IF Funded(m) THEN @ ELSE today,
                                             ![m].try[n] = "begun"]
             /\ call' = [call EXCEPT ![c].phase = "send", ![c].ordinal = n]
        ELSE /\ Answer(c, CASE t = "free" -> "permanent" [] t = "begun" -> "unknown" [] OTHER -> t)
             /\ UNCHANGED envelope

\* _message refuses a link that has expired.
LinkExpired(m) == envelope[m].expired /\ Kind[m] \in {"password_reset", "privacy_erasure"}

\* The first transaction of guarded_send.
Begin(c) ==
    LET m == call[c].message
    IN  /\ call[c].phase = "begin"
        /\ IF ~Funded(m) /\ ~Affordable({m})
           THEN Answer(c, "deferred") /\ UNCHANGED envelope
           ELSE IF Current(m) = {} \/ LinkExpired(m) THEN Answer(c, "permanent") /\ UNCHANGED envelope
           ELSE \E n \in Current(m) : Attempt(c, m, n)
        /\ UNCHANGED <<row, today, provider, faults>>

\* Without a key for the provider nothing is begun.
Unconfigured(c) ==
    /\ call[c].phase = "begin" /\ Fault
    /\ Answer(c, "deferred")
    /\ UNCHANGED <<row, envelope, today, provider>>

\* The commit of this transaction fails, or only seems to; or the clock of another
\* process is ahead (created_at of an envelope lies in the future).
FailBegin(c) ==
    LET m == call[c].message
    IN  /\ call[c].phase = "begin" /\ ~LinkExpired(m) /\ Fault
        /\ \/ UNCHANGED envelope
           \/ /\ Funded(m) \/ Affordable({m})
              /\ \E n \in Current(m) :
                    /\ envelope[m].try[n] = "free" /\ ~envelope[m].expired
                    /\ envelope' = [envelope EXCEPT ![m].day = IF Funded(m) THEN @ ELSE today,
                                                    ![m].try[n] = "begun"]
        /\ Answer(c, "unknown")
        /\ UNCHANGED <<row, today, provider>>

LearnedRetryable(taken, refusal) == \* slip: no answer is treated as "try again"
    CASE taken -> {"sent", "known_retryable"}
      [] ~taken -> {refusal, "known_retryable"}

\* What the call learns from the provider, which took the message or refused it.
Learned(taken, refusal) ==
    CASE taken -> {"sent", "unknown"}
      [] ~taken -> {refusal, "unknown"}

\* The request, outside of any transaction.
Send(c) ==
    LET m == call[c].message
    IN  /\ call[c].phase = "send"
        /\ IF envelope[m].expired THEN Answer(c, "unknown") /\ UNCHANGED provider
           ELSE /\ requests' = [requests EXCEPT ![m] = @ + 1]
                /\ \E taken \in BOOLEAN, refusal \in {"known_retryable", "permanent"} :
                      /\ accepted' = [accepted EXCEPT ![m] = IF taken THEN @ + 1 ELSE @]
                      /\ \E outcome \in Learned(taken, refusal) :
                            call' = [call EXCEPT ![c].phase = "record", ![c].outcome = outcome]
        /\ UNCHANGED <<row, envelope, today, faults>>

Recorded(c) ==
    envelope' = [envelope EXCEPT ![call[c].message].try[call[c].ordinal] = call[c].outcome]

\* The second transaction of guarded_send.
Record(c) ==
    /\ call[c].phase = "record"
    /\ Recorded(c)
    /\ Answer(c, call[c].outcome)
    /\ UNCHANGED <<row, today, provider, faults>>

FailRecord(c) ==
    /\ call[c].phase = "record" /\ Fault
    /\ Recorded(c) \/ UNCHANGED envelope
    /\ Answer(c, "unknown")
    /\ UNCHANGED <<row, today, provider>>

\* _send_failure, and the row of a message that was sent.
Written(h, outcome) ==
    CASE outcome = "sent" -> [h EXCEPT !.status = "sent"]
      [] outcome = "deferred" ->
            [status |-> "pending", attempts |-> IF h.attempts > 0 THEN h.attempts - 1 ELSE 0]
      [] outcome = "known_retryable" /\ h.attempts < Attempts -> [h EXCEPT !.status = "pending"]
      [] outcome = "known_retryable" /\ h.attempts >= Attempts -> [h EXCEPT !.status = "failed"]
      [] outcome = "permanent" -> [h EXCEPT !.status = "failed"]
      [] outcome = "unknown" -> [h EXCEPT !.status = "mail_unknown"]

\* No look at the status the row has by now; a row that is gone ends the call.
Write(c) ==
    LET m == call[c].message
    IN  /\ call[c].phase = "write"
        /\ row' = IF row[m].status \in {"absent", "erased"} THEN row
                  ELSE [row EXCEPT ![m] = Written(@, call[c].outcome)]
        /\ call' = [call EXCEPT ![c] = NoCall]
        /\ UNCHANGED <<envelope, today, provider, faults>>

Crash(c) ==
    /\ call[c].phase # "idle" /\ Fault
    /\ call' = [call EXCEPT ![c] = NoCall]
    /\ UNCHANGED <<row, envelope, today, provider>>

-----------------------------------------------------------------------------
(* Time. *)

\* A reset and its notice have one expiry.
Expire(m) ==
    /\ Funded(m) /\ ~envelope[m].expired
    /\ envelope' = [x \in Messages |->
                      IF x \in Bundle(m) THEN [envelope[x] EXCEPT !.expired = TRUE] ELSE envelope[x]]
    /\ UNCHANGED <<row, today, call, provider, faults>>

NextDay ==
    /\ today < Days /\ today' = today + 1
    /\ UNCHANGED <<row, envelope, call, provider, faults>>

CallStep(c) == Begin(c) \/ Send(c) \/ Record(c) \/ Write(c)

Next ==
    \/ \E m \in Messages : \/ EnqueueLifecycle(m) \/ EnqueueProof(m) \/ EnqueueChanged(m)
                           \/ Purge(m) \/ Sweep(m) \/ Expire(m)
    \/ \E c \in Calls, m \in Messages : Claim(c, m)
    \/ \E c \in Calls : \/ CallStep(c) \/ Unconfigured(c) \/ FailBegin(c) \/ FailRecord(c)
                        \/ Crash(c)
    \/ \E o \in {Owner[m] : m \in Messages} : Erase(o)
    \/ NextDay

\* Started calls go on, and the scheduler calls the job, which sweeps and delivers.
Fairness ==
    /\ \A c \in Calls : WF_vars(CallStep(c))
    /\ WF_vars(\E m \in Messages : Sweep(m))
    /\ SF_vars(\E c \in Calls, m \in Messages : Claim(c, m))

Spec == Init /\ [][Next]_vars
FairSpec == Spec /\ Fairness

-----------------------------------------------------------------------------
(* Properties. *)

\* "An absent outcome never retries" (guarded_send): nobody gets a message twice,
\* although the provider may have taken what looked lost, rows are swept under slow
\* calls, which write their outcome all the same, and a message is asked for again after
\* its row was deleted.  A row that says sent, failed, cancelled or pending says what happened.
RowTellsTruth ==
    \A m \in Messages :
        /\ accepted[m] <= 1
        /\ row[m].status = "sent" => accepted[m] = 1
        /\ row[m].status \in {"failed", "cancelled", "pending"} => accepted[m] = 0

\* The provider never gets more requests than its envelopes pay for, whatever the
\* day on which they are sent.
RequestsFunded ==
    \A d \in 0..Days :
        Sum([m \in OfDay(d) |-> requests[m]]) <= IF d = 0 THEN 0 ELSE DailyUnits

\* A message with an envelope is decided in the end: sent, failed, cancelled, or
\* known to be unknown.
EveryMessageDecided ==
    \A m \in Messages :
        row[m].status \in {"pending", "processing"} /\ Funded(m)
           ~> row[m].status \notin {"pending", "processing"}
=============================================================================
