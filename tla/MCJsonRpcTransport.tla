------------------------- MODULE MCJsonRpcTransport -------------------------
(* JsonRpcTransport for TLC; every bound is given by the configuration.    *)
EXTENDS JsonRpcTransport

=============================================================================
