----------------------------- MODULE MCGateway -----------------------------
(* Instances of Gateway for TLC. *)
EXTENDS Gateway

\* Bound of gw_routing: two packets of traffic, both from the client (two
\* PINGs in flight) or one of them telemetry.
TrafficBound == sent + tlm <= 2
=============================================================================
