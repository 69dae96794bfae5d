------------------------------- MODULE MCEntry -------------------------------
(* Instances of Entry for TLC: a user at every door, the owner by OAuth's tokens. *)
EXTENDS Entry

CONSTANTS Boss, Guest

Request(d, u, t) == [door |-> d, user |-> u, tenant |-> t]
MCRequests ==
    {Request(d, Guest, Guest) : d \in {"login", "refresh", "oauth", "rest", "mcp"}}
    \cup {Request("rest", Guest, Boss), Request("rest", Boss, Guest),
          Request("mcp", Boss, Boss), Request("status", Boss, Boss)}
=============================================================================
