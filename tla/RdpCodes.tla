------------------------------ MODULE RdpCodes ------------------------------
(* The result codes of the native bridge and the two tables that turn a      *)
(* FreeRDP error into a decision: which code the caller is given and whether *)
(* the worker dials again with plain RDP security.                           *)
EXTENDS Integers

RC_OK                   == 0
RC_ALREADY_CONNECTED    == 1
RC_NOT_CONNECTED        == 2
RC_INVALID_ARGUMENT     == -1101
RC_NETWORK_FAILURE      == -1201
RC_AUTH_FAILURE         == -1301
RC_TLS_FAILURE          == -1401
RC_CERTIFICATE_REJECTED == -1402
RC_BACKEND_UNAVAILABLE  == -1501
RC_FRAME_UNAVAILABLE    == -1601
RC_INPUT_FAILURE        == -1701
RC_INTERNAL_ERROR       == -1999

(* FreeRDP's error codes, grouped by what the two tables below tell apart:   *)
(* "TLS" is a failed TLS or security negotiation, "REMOTE_CLOSED" the server *)
(* ending the session, "TRANSPORT" a failed transport, "NETWORK" the other   *)
(* network errors (a cancelled connect among them), "OTHER" everything else. *)
LastErrors == {"SUCCESS", "AUTH", "TLS", "REMOTE_CLOSED", "TRANSPORT",
               "NETWORK", "OTHER"}

mapFreeRdpError(lastError) ==
    CASE lastError = "SUCCESS"                  -> RC_OK
      [] lastError = "AUTH"                     -> RC_AUTH_FAILURE
      [] lastError = "TLS"                      -> RC_TLS_FAILURE
      [] lastError = "REMOTE_CLOSED"            -> RC_NOT_CONNECTED
      [] lastError \in {"NETWORK", "TRANSPORT"} -> RC_NETWORK_FAILURE
      [] OTHER                                  -> RC_INTERNAL_ERROR

shouldRetryWithRdpOnly(lastError) == lastError \in {"TRANSPORT", "TLS"}

(* Every code a connect attempt that did not succeed can report.             *)
ConnectFailureCodes ==
    {mapFreeRdpError(e) : e \in LastErrors}
        \cup {RC_CERTIFICATE_REJECTED, RC_BACKEND_UNAVAILABLE, RC_INVALID_ARGUMENT}
=============================================================================
