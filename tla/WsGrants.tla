------------------------------ MODULE WsGrants ------------------------------
(***************************************************************************)
(* The capabilities of a WebSocket session, as the planner writes them     *)
(* into a plan and the executor compares them with what it was given: net, *)
(* websocket:connect, net-insecure-websocket, secret, tls-client-cert and  *)
(* the two approvals for the target of the plan, and one net-cidr for each *)
(* address.                                                                *)
(***************************************************************************)
None == "none"

GrantKinds == {"net", "connect", "insecure", "secret", "client-cert",
               "destructive", "production"}

Plain(k) == [kind |-> k, of |-> None]
Cidr(a)  == [kind |-> "net-cidr", of |-> a]

\* The elements of a sequence.
Elements(s) == {s[i] : i \in DOMAIN s}
=============================================================================
