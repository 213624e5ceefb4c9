------------------------------ MODULE ClientKey -------------------------------
(***************************************************************************)
(* Whose bucket a check is charged to (internal/ui: identityKey;           *)
(* internal/ratelimit: ClientIP).  A request comes from a client, through  *)
(* proxies that append to the forwarded header who they got it from; what  *)
(* the client wrote into the header itself stays in front.  An entry that  *)
(* is no address is any text outside Addresses.                            *)
(***************************************************************************)
EXTENDS Sequences, FiniteSetsExt

CONSTANTS
    Addresses,   \* what ParseAddr takes
    Proxies      \* the trusted ones of them: {} also when the limiter is off

(* Who handed the request on, the client first. *)
Way(client, hops) == <<client>> \o hops

(* Proxies are external: each notes the peer it has the request from, and
   the last one is the peer of the UI. *)
Travel(client, written, hops) ==
    LET way == Way(client, hops)
    IN  [peer |-> way[Len(way)], header |-> written \o SubSeq(way, 1, Len(hops))]

-----------------------------------------------------------------------------
(* Mutant of ClientIP: the first entry is the client. *)
ClientIPFirst(m) ==
    LET known == {i \in DOMAIN m.header : m.header[i] \in Addresses \ Proxies}
    IN  IF m.peer \notin Proxies \/ known = {} THEN m.peer ELSE m.header[Min(known)]

(* ClientIP: the header counts only if a trusted proxy wrote to it, and then
   from its end: the last address that is not a trusted proxy. *)
ClientIP(m) ==
    LET known == {i \in DOMAIN m.header : m.header[i] \in Addresses \ Proxies}
    IN  IF m.peer \notin Proxies \/ known = {} THEN m.peer ELSE m.header[Max(known)]

IdentityKey(user, m) == IF user # "" THEN <<"user", user>> ELSE <<"ip", ClientIP(m)>>

-----------------------------------------------------------------------------
(* The party next to the UI that no trusted proxy stands for. *)
LastUntrusted(client, hops) ==
    LET way == Way(client, hops)
    IN  way[Max({1} \cup {i \in DOMAIN way : way[i] \notin Proxies})]
=============================================================================
