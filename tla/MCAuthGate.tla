----------------------------- MODULE MCAuthGate -----------------------------
(* An instance of AuthGate for TLC: requests by the control socket, from   *)
(* the host itself without a credential, and by remote clients with the    *)
(* token, with a password and with another.                                *)
EXTENDS AuthGate, TLC

CONSTANTS p, q

MCPasswords == {p, q}

sent(from, header, value, route, password) ==
    [from |-> from, header |-> header, value |-> value, route |-> route,
     password |-> password]

MCCalls ==
    {sent("socket", "none", NoHash, "other", p),
     sent("loopback", "none", NoHash, "password", p),
     sent("loopback", "password", p, "status", p),
     sent("remote", "basic", p, "password", q),
     sent("remote", "bearer", Token, "status", p)}
===============================================================================
