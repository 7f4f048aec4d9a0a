------------------------------- MODULE Tokens -------------------------------
(***************************************************************************)
(* What a pair of tokens is good for, and how long.  Time is counted in    *)
(* ticks, several to a second: time.Now() is finer than the NumericDate of *)
(* a claim, while the row of the refresh session keeps the exact time.     *)
(***************************************************************************)
EXTENDS Integers

CONSTANT Second     \* ticks per second

ASSUME SecondAssumption == Second \in Nat \ {0}

NumericDateUp(t) == t + ((-t) % Second)   \* deviation: rounded up

\* jwt.NewNumericDate truncates.
NumericDate(t) == t - (t % Second)

\* GenerateTokenPair at a time, for a loaded configuration (TTLs in seconds).
AccessToken(now, c) ==
    [key |-> c.ACCESS_TOKEN_SECRET, id |-> "", role |-> "user",
     exp |-> NumericDate(now + c.ACCESS_TOKEN_TTL * Second)]

RefreshToken(now, c) ==
    [key |-> c.REFRESH_TOKEN_SECRET, id |-> "jti", role |-> "",
     exp |-> NumericDate(now + c.REFRESH_TOKEN_TTL * Second)]

\* expires_at of the session that is stored with the pair.
RowExpiry(now, c) == now + c.REFRESH_TOKEN_TTL * Second

\* ValidateAccessToken, hence the Middleware: anything else is a 401.
Authorized(token, c, t) ==
    /\ token.key = c.ACCESS_TOKEN_SECRET
    /\ t < token.exp
    /\ token.role # ""

\* ValidateRefreshToken, before the row is looked at.
Refreshable(token, c, t) ==
    /\ token.key = c.REFRESH_TOKEN_SECRET
    /\ t < token.exp
    /\ token.id # ""

-----------------------------------------------------------------------------
(* Properties of a pair made at a time now and presented at t *)

\* Whoever is still authorized can still refresh, and a refresh token that
\* parses has a row that has not expired: only time that passes between its two
\* checks takes Refresh into the branch for an expired row.
ExpiryIsNested(now, t, c) ==
    /\ Authorized(AccessToken(now, c), c, t) =>
         Refreshable(RefreshToken(now, c), c, t)
    /\ Refreshable(RefreshToken(now, c), c, t) => t < RowExpiry(now, c)

\* Neither token passes for the other.
KindsApart(now, t, c) ==
    /\ ~Authorized(RefreshToken(now, c), c, t)
    /\ ~Refreshable(AccessToken(now, c), c, t)

\* expires_in is true to the second: an access token is not accepted longer,
\* which bounds how long it outlives its session, nor given up a second early.
ExpiresInIsTrue(now, t, c) ==
    LET end == now + c.ACCESS_TOKEN_TTL * Second IN
    /\ Authorized(AccessToken(now, c), c, t) => t < end
    /\ t <= end - Second => Authorized(AccessToken(now, c), c, t)
=============================================================================
