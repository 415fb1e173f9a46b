------------------------------- MODULE UPnPClient -------------------------------
(***************************************************************************)
(* UPnPMode with the steps of upnp.Client: a call of AddMapping or         *)
(* DeleteMapping looks for a WAN service with one discoverer after         *)
(* another, checks that it is in the LAN, and sends the request to it;     *)
(* two HTTP clients that other code shares are replaced while it does.     *)
(* Every call discovers anew and may reach another router than the last.   *)
(***************************************************************************)
EXTENDS UPnPMode, Sequences

CONSTANTS
    WANService,       \* the WAN services that may answer
    NoService,
    ServiceOf,        \* of each: its router, the host of its control URL, the
                      \* local address it is reached from
    NumDiscoverers,   \* 5 in the code
    Answers           \* the services each of them may find, in its order

\* Kinds of hosts: a name or nothing at all, which trustedLANTransport
\* refuses, this host, an address of the LAN, an address outside of it.
Host == {"none", "name", "loopback", "lan", "outside"}

ASSUME ClientAssumption ==
    /\ NoService \notin WANService
    /\ NumDiscoverers \in Nat
    /\ ServiceOf \in [WANService -> [router : Gateway, host : Host, local : Host]]
    /\ Answers \in [1 .. NumDiscoverers -> SUBSET WANService]

VARIABLES
    step,      \* where the call is: "idle", "discover", "found", "soap", "added",
               \* "external", "ok", "error"
    probe,     \* the discoverer that is asked
    service,   \* the service that was found
    replaced   \* the HTTP client that is replaced: "none", "discovery", "soap"

clientVars == <<step, probe, service, replaced>>
allVars == <<vars, clientVars>>

Idle == step = "idle" /\ probe = 1 /\ service = NoService /\ replaced = "none"

ClientInit == Init /\ Idle

OperationDone == spent = OpTimeout

-----------------------------------------------------------------------------

\* isTrustedLANHost.
isTrustedLANHost(h) == h \in {"loopback", "lan"}

\* isTrustedRemoteLANHost.
isTrustedRemoteLANHost(h) == h = "lan"

\* validateServiceTrustBoundary: a service that does not tell its host passes.
validateServiceTrustBoundary(s) ==
    /\ isTrustedLANHost(ServiceOf[s].local)
    /\ ServiceOf[s].host = "none" \/ isTrustedRemoteLANHost(ServiceOf[s].host)

\* trustedLANTransport, which sees each request and each redirection.
validateTrustedLANURL(s) == isTrustedRemoteLANHost(ServiceOf[s].host)

\* A step of UPnPMode between the calls enters the call it leads to.
EnterCall ==
    LET entering == pc' # pc /\ pc' \in {"add", "renew", "cleanup"} IN
    /\ step' = IF entering THEN "discover" ELSE "idle"
    /\ replaced' = IF entering THEN "discovery" ELSE "none"
    /\ probe' = 1 /\ service' = NoService

\* The steps of UPnPMode that are not part of a call at the router.
Outside ==
    \/ OutsideCalls /\ EnterCall
    \/ /\ \/ Cancel \/ HathExits \/ EscapedExits \/ Time \/ Terminated
          \/ \E g \in Gateway : RouterAddsLate(g) \/ RouterDeletesLate(g)
       /\ UNCHANGED clientVars

InStep(s) == step = s /\ UNCHANGED vars

\* Mutant: the client is put back at the end, not by a deferred function.
FailKeepsClient == step' = "error" /\ UNCHANGED <<probe, replaced>>

\* The call is about to return an error; the deferred functions have run.
Fail == step' = "error" /\ replaced' = "none" /\ UNCHANGED probe

\* discover: the next discoverer finds a service, or nothing, or fails.
Probe ==
    /\ InStep("discover") /\ ~OperationDone /\ probe <= NumDiscoverers
    /\ \/ \E s \in Answers[probe] :
             service' = s /\ step' = "found" /\ replaced' = "none" /\ UNCHANGED probe
       \/ probe' = probe + 1 /\ UNCHANGED <<step, service, replaced>>

\* Nothing was found, or the context of the call is done.
DiscoveryFails ==
    /\ InStep("discover") /\ (probe > NumDiscoverers \/ OperationDone)
    /\ Fail /\ UNCHANGED service

Found ==
    /\ InStep("found")
    /\ IF ~OperationDone /\ validateServiceTrustBoundary(service)
       THEN step' = "soap" /\ replaced' = "soap" /\ UNCHANGED <<probe, service>>
       ELSE Fail /\ service' = NoService

\* The request arrives at the router and takes effect.
Soap ==
    /\ step = "soap" /\ validateTrustedLANURL(service)
    /\ \/ RouterAdds(ServiceOf[service].router)
       \/ RouterDeletes(ServiceOf[service].router)
    /\ UNCHANGED clientVars

\* The answer arrives, and the HTTP client of the service is put back.
Answered ==
    /\ InStep("soap") /\ reached
    /\ step' = (IF pc = "cleanup" THEN "ok" ELSE "added")
    /\ replaced' = "none"
    /\ UNCHANGED <<probe, service>>

\* GetExternalIPAddress replaces it anew for a request of its own.
AskExternal ==
    /\ InStep("added")
    /\ step' = "external" /\ replaced' = "soap"
    /\ UNCHANGED <<probe, service>>

\* The request is refused by the transport or by the router, it or its answer
\* is lost, or the context of the call is done.
SoapFails == InStep("soap") /\ Fail /\ UNCHANGED service

\* Mutant: a mapping without a public address is an error.
ExternalMandatory ==
    /\ InStep("external")
    /\ step' \in {"ok", "error"} /\ replaced' = "none" /\ UNCHANGED <<probe, service>>

\* GetExternalIPAddress answers, or fails, which is ignored.
External ==
    /\ InStep("external")
    /\ step' = "ok" /\ replaced' = "none" /\ UNCHANGED <<probe, service>>

\* The call returns to RunUPnPMode.
Return ==
    /\ \/ step = "ok" /\ (CallSucceeds \/ CleanupReturns)
       \/ step = "error" /\ (CallFails \/ CleanupReturns)
    /\ \A request \in late' \ late :
          /\ service # NoService /\ validateTrustedLANURL(service)
          /\ request[2] = ServiceOf[service].router
    /\ EnterCall

Client == \/ Probe \/ DiscoveryFails \/ Found
          \/ Answered \/ SoapFails \/ AskExternal \/ External \/ Return

ClientNext == Outside \/ Client \/ Soap

ClientSpec == /\ ClientInit /\ [][ClientNext]_allVars
              /\ WF_allVars(Client) /\ WF_vars(OutsideCalls)
              /\ SF_vars(Cancelled) /\ WF_vars(pc = "stop" /\ HathExits)

-----------------------------------------------------------------------------
(* Properties.                                                             *)

ClientTypeOK == /\ TypeOK
                /\ step \in {"idle", "discover", "found", "soap", "added", "external", "ok", "error"}
                /\ probe \in 1 .. NumDiscoverers + 1
                /\ service \in WANService \cup {NoService}
                /\ replaced \in {"none", "discovery", "soap"}

\* Nobody but a call in progress sees the shared HTTP clients replaced, and
\* every discoverer and every SOAP request of a call goes through the client
\* that refuses to leave the LAN, whichever step fails (client.go:149-166,
\* 258-267, 317-329): the call after a failed one does not inherit its client.
ClientsRestored ==
    replaced = CASE step = "discover" -> "discovery"
                 [] step \in {"soap", "external"} -> "soap"
                 [] OTHER -> "none"

\* A call at the router or HandleMapping goes wrong.
Failure == DiscoveryFails \/ SoapFails \/ (Found /\ step' = "error") \/ (HandleFails /\ EnterCall)

\* Until a cancellation hath-rust is served again and again, unless failures
\* never cease: no single one of them, at whatever step of whatever call, ends
\* the retries or leaves something behind that makes the next round fail, and
\* a router that does not tell its external address is none (run.go:217-233,
\* client.go:185-189).
ServedAgain == []<><<Failure>>_allVars \/ []<>(pc = "serve" \/ ctxDone)

=============================================================================
