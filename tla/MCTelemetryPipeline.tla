------------------------ MODULE MCTelemetryPipeline ------------------------
(* One of a sensor's routes: a gateway and the worker behind it.            *)
EXTENDS TelemetryPipeline

CONSTANT edge2_gw

OneGateway == {edge2_gw}
OneDestination == <<edge2_gw>>
=============================================================================
