-------------------------------- MODULE Intent --------------------------------
(* What the transactional outbox promises about an event ("It provides durable
   recovery", docs/adr/003-transactional-work-dispatch.md), with publication,
   tasks, leases and retries left out: intent written with the work it is for is
   open, held by one call at a time, and closed only when its work has ended.
   Dispatch implements it; the components whose work is delivered through the
   outbox are specified against it. *)

CONSTANTS
    Events,   \* outbox rows
    Holders,  \* calls that can hold an event
    Nobody    \* no holder, not one of Holders

VARIABLES
    intent,  \* "none", "open", "held" or "closed"
    holder,  \* the call that holds an event
    work     \* whether the work of an event still needs deliveries

vars == <<intent, holder, work>>

Init ==
    /\ intent = [e \in Events |-> "none"]
    /\ holder = [e \in Events |-> Nobody]
    /\ work = [e \in Events |-> "none"]

\* Work and its intent are written together.
Write(e) ==
    /\ intent[e] = "none"
    /\ intent' = [intent EXCEPT ![e] = "open"]
    /\ work' = [work EXCEPT ![e] = "open"]
    /\ UNCHANGED holder

\* Work may end at any time and in any way: done, failed, cancelled.
EndWork(e) ==
    /\ work[e] = "open"
    /\ work' = [work EXCEPT ![e] = "closed"]
    /\ UNCHANGED <<intent, holder>>

\* Some work that ends takes its intent with it; erasure does so to all the
\* work of an account at once.
Withdraw(S) ==
    /\ \A e \in S : intent[e] # "none"
    /\ intent' = [e \in Events |-> IF e \in S THEN "closed" ELSE intent[e]]
    /\ holder' = [e \in Events |-> IF e \in S THEN Nobody ELSE holder[e]]
    /\ work' = [e \in Events |-> IF e \in S THEN "closed" ELSE work[e]]

\* A call takes the event, also from a call that was given up.
Take(e, h) ==
    /\ intent[e] \in {"open", "held"}
    /\ intent' = [intent EXCEPT ![e] = "held"]
    /\ holder' = [holder EXCEPT ![e] = h]
    /\ UNCHANGED work

GiveBack(e) ==
    /\ intent[e] = "held"
    /\ intent' = [intent EXCEPT ![e] = "open"]
    /\ holder' = [holder EXCEPT ![e] = Nobody]
    /\ UNCHANGED work

\* The holder of an event whose work has ended retires it.
Close(e) ==
    /\ intent[e] = "held" /\ work[e] = "closed"
    /\ intent' = [intent EXCEPT ![e] = "closed"]
    /\ holder' = [holder EXCEPT ![e] = Nobody]
    /\ UNCHANGED work

Next ==
    \/ \E e \in Events : Write(e) \/ EndWork(e) \/ GiveBack(e) \/ Close(e)
    \/ \E e \in Events, h \in Holders : Take(e, h)
    \/ \E S \in SUBSET Events : Withdraw(S)

Spec == Init /\ [][Next]_vars
-----------------------------------------------------------------------------
\* Closed intent never leaves work behind, and what is held has a holder.
NothingStranded ==
    \A e \in Events : /\ intent[e] = "closed" => work[e] = "closed"
                      /\ intent[e] = "held" <=> holder[e] \in Holders
=============================================================================
