------------------------- MODULE MCSessionRefresh -------------------------
\* Two requests in two processes: a refresh and a sign-out.
EXTENDS SessionRefresh, TLC

CONSTANTS r1, r2, s1, s2

MCHome == r1 :> s1 @@ r2 :> s2
=============================================================================
