--------------------------- MODULE MCRateLimiter ---------------------------
(* A small instance of RateLimiter for TLC: two senders of one account and one
   of another tenant's account with the same id. *)
EXTENDS RateLimiter, TLC

CONSTANTS s1, s2, s3, a, b

MCAccountOf == s1 :> a @@ s2 :> a @@ s3 :> b

\* A short and a long window, the long one a multiple of the short one as the
\* minute, hour and day are.
MCWindows == <<1, 2>>

\* The other account has no limits, or tighter ones.
MCSettings == {a :> <<1, 2>> @@ b :> <<0, 0>>, a :> <<0, 2>> @@ b :> <<0, 1>>}
MCRemoved == {<<0, 0>>}

MCSymmetry == Permutations({s1, s2})
=============================================================================
