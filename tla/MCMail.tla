-------------------------------- MODULE MCMail --------------------------------
(* Mail on a small instance: a lifecycle message, a password reset and the notice
   that follows it. *)
EXTENDS Mail, TLC

CONSTANTS l, r, n

Three == {l, r, n}
Kinds == (l :> "lifecycle" @@ r :> "password_reset") @@ (n :> "password_changed")
One == [m \in Three |-> "candidate"]
Pair == r :> n
=============================================================================
