---------------------------- MODULE MCSupervisor ----------------------------
(* Instances of Supervisor: two handlers, two failed probes to a verdict.  *)
EXTENDS Supervisor

MCHandlers == {"rpc1", "rpc2"}

\* What the errors of isCDPSessionLost are meant to be, and what they are.
MCRealErrors == {"none", "deadline", "transport"}
MCAllErrors == MCRealErrors \cup {"soundsLost"}
=============================================================================
