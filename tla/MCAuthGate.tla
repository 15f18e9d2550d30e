----------------------------- MODULE MCAuthGate -----------------------------
(* Values for the constants of AuthGate: ken owns t1 and t2, guest owns g. *)
EXTENDS AuthGate, TLC

CONSTANTS t1, t2, g, ken, guest, p1, p2

KenOrGuest == [t \in Tokens |-> IF t = g THEN guest ELSE ken]
OnlyKen == {{ken}}
KenThenGuest == {{ken}, {ken, guest}}
SlotSymmetry == Permutations({p1, p2})

\* Media URLs: one that differs from another in the scheme only, in the path
\* only, or not at all, on every host that is not configured.
Url(scheme, host, path) == [scheme |-> scheme, host |-> host, path |-> path]
OneUrl == {Url("https", host, "movie") : host \in Hosts}
TwoSchemes == OneUrl \cup {Url("http", host, "movie") : host \in Hosts \ AllowedHosts}
TwoPaths == OneUrl \cup {Url("https", host, "other") : host \in Hosts \ AllowedHosts}
=============================================================================
