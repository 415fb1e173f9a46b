----------------------------- MODULE SettingsPage -----------------------------
(***************************************************************************)
(* The settings page of Hentai@Home and Client.UpdatePort, which reads the *)
(* whole form, puts the port into it and posts it back.  The owner of the  *)
(* client may edit the page meanwhile, the server may lock the port or     *)
(* refuse a form, and a request whose call was given up may still arrive.  *)
(* It is the detail below the update steps of Supervisor and UPnPMode.     *)
(***************************************************************************)
EXTENDS Naturals, Sequences, FiniteSets, Functions, TLC

CONSTANTS
    Port,       \* the ports UpdatePort is called with and the owner may enter
    Title,      \* the values of a text field of the form
    MaxCalls    \* bound: how often UpdatePort is called

ASSUME PortAssumption == Port \subseteq 1 .. 65535 /\ Port # {}

ASSUME SettingsAssumption == /\ Title \subseteq STRING /\ Title # {}
                             /\ MaxCalls \in Nat \ {0}

Itoa(port) == ToString(port)

\* What the server keeps: the port, a text field, a checkbox.
Settings == [port : {Itoa(p) : p \in Port}, title : Title, flag : BOOLEAN]

VARIABLES
    saved,      \* the settings at the server
    portLocked, \* the server does not let the port be changed now
    pc,         \* "idle", "get", "got", "post", "posted", "answered", "ok", "failed"
    calls,      \* how often UpdatePort was called
    port,       \* its argument
    page,       \* the page it has read last, a sequence of inputs
    read,       \* the settings when the page of the GET was made
    inflight,   \* requests under way: call, form, and what read was
    disturbed   \* the port was set by something else since this call set it

serverVars == <<saved, portLocked>>
callVars == <<calls, port>>
pageVars == <<page, read>>
vars == <<serverVars, pc, callVars, pageVars, inflight, disturbed>>

\* An attribute that is not there reads as the empty text.
NoText == ""

Input(name, type, value, disabled, checked) ==
    [name |-> name, type |-> type, value |-> value, disabled |-> disabled, checked |-> checked]

\* The form, with a button that has no name.
SettingsPageNow(s, locked) ==
    << Input("f_port", "text", s.port, locked, FALSE),
       Input("title", "text", s.title, FALSE, FALSE),
       Input("flag", "checkbox", NoText, FALSE, s.flag),
       Input(NoText, "submit", "Apply", FALSE, FALSE) >>

\* What a client that is not logged in gets: inputs, but not these.
LoginPage == << Input("username", "text", NoText, FALSE, FALSE) >>

Init == /\ saved \in Settings /\ portLocked = FALSE
        /\ pc = "idle" /\ calls = 0 /\ port \in Port
        /\ page = <<>> /\ read = saved
        /\ inflight = {} /\ disturbed = FALSE

-----------------------------------------------------------------------------
(* ParseSettingsForm.                                                      *)

\* Mutant: every checkbox counts.
SubmittedAll(input) == input.name # NoText

Submitted(input) == input.name # NoText /\ (input.type = "checkbox" => input.checked)

inputValue(input) ==
    IF input.type = "checkbox" /\ input.value = NoText THEN "on" ELSE input.value

\* url.Values: to each name the values of its inputs, in their order.
formOf(inputs) ==
    LET sent(n) == {k \in DOMAIN inputs : Submitted(inputs[k]) /\ inputs[k].name = n}
        nth(S, j) == CHOOSE k \in S : Cardinality({i \in S : i <= k}) = j
    IN  [n \in {inputs[k].name : k \in {i \in DOMAIN inputs : Submitted(inputs[i])}} |->
            [j \in 1 .. Cardinality(sent(n)) |-> inputValue(inputs[nth(sent(n), j)])]]

foundPort(inputs) == \E i \in Range(inputs) : i.name = "f_port"
locked(inputs) == \E i \in Range(inputs) : i.name = "f_port" /\ i.disabled

\* Mutant: form.Add.
withPortAdded(form, p) == [form EXCEPT !["f_port"] = Append(@, Itoa(p))]

\* form.Set.
withPort(form, p) == [form EXCEPT !["f_port"] = <<Itoa(p)>>]

-----------------------------------------------------------------------------
(* Client.UpdatePort.                                                      *)

Call == /\ pc \in {"idle", "ok", "failed"} /\ calls < MaxCalls
        /\ calls' = calls + 1 /\ port' \in Port
        /\ pc' = "get" /\ page' = <<>>
        /\ UNCHANGED <<serverVars, read, inflight, disturbed>>

\* The GET: transport errors and HTTP errors leave no page.
Get == /\ pc = "get"
       /\ \/ pc' = "failed" /\ UNCHANGED pageVars
          \/ /\ pc' = "got" /\ read' = saved
             /\ page' \in {SettingsPageNow(saved, portLocked), LoginPage}
       /\ UNCHANGED <<serverVars, callVars, inflight, disturbed>>

\* No f_port field, or a locked one, ends the call.
ParsePage == /\ pc = "got"
             /\ pc' = IF foundPort(page) /\ ~locked(page) THEN "post" ELSE "failed"
             /\ UNCHANGED <<serverVars, callVars, pageVars, inflight, disturbed>>

Post == /\ pc = "post"
        /\ inflight' = inflight \cup
              {[call |-> calls, form |-> withPort(formOf(page), port), read |-> read]}
        /\ pc' = "posted"
        /\ UNCHANGED <<serverVars, callVars, pageVars, disturbed>>

\* The call is given up: the request, or its answer, is lost, or is late.
PostFails ==
    /\ pc = "posted"
    /\ pc' = "failed"
    /\ inflight' \in {inflight, {r \in inflight : r.call # calls}}
    /\ UNCHANGED <<serverVars, callVars, pageVars, disturbed>>

\* Mutant: the page of the answer is only parsed.
ConfirmUnseen ==
    /\ pc = "answered"
    /\ pc' = IF foundPort(page) /\ ~locked(page) THEN "ok" ELSE "failed"
    /\ UNCHANGED <<serverVars, callVars, pageVars, inflight, disturbed>>

\* The answer must be the form, not locked, and show the port.
Confirm ==
    /\ pc = "answered"
    /\ pc' = IF /\ foundPort(page) /\ ~locked(page)
                /\ Head(formOf(page)["f_port"]) = Itoa(port)
             THEN "ok" ELSE "failed"
    /\ UNCHANGED <<serverVars, callVars, pageVars, inflight, disturbed>>

-----------------------------------------------------------------------------
(* The server and the owner.                                               *)

\* The settings a form asks for; a locked port stays.
Asked(form) == [port  |-> IF portLocked THEN saved.port ELSE Head(form["f_port"]),
                title |-> Head(form["title"]),
                flag  |-> "flag" \in DOMAIN form]

\* A request arrives, is taken or refused, and answered, if somebody is still
\* waiting, with the page as it is then or with one of another kind.
ServerTakes(r) ==
    /\ r \in inflight /\ inflight' = inflight \ {r}
    /\ saved' \in {saved, Asked(r.form)}
    /\ LET awaited == pc = "posted" /\ r.call = calls IN
       /\ pc' = IF awaited THEN "answered" ELSE pc
       /\ page' \in IF awaited THEN {SettingsPageNow(saved', portLocked), LoginPage}
                   ELSE {page}
       /\ disturbed' = IF awaited THEN FALSE ELSE disturbed \/ saved'.port # saved.port
    /\ UNCHANGED <<portLocked, callVars, read>>

OwnerEdits ==
    /\ saved' \in Settings \ {saved}
    /\ portLocked => saved'.port = saved.port
    /\ disturbed' = (disturbed \/ saved'.port # saved.port)
    /\ UNCHANGED <<portLocked, pc, callVars, pageVars, inflight>>

\* The client goes online or offline in the eyes of the server.
LockChanges == /\ portLocked' = ~portLocked
               /\ UNCHANGED <<saved, pc, callVars, pageVars, inflight, disturbed>>

-----------------------------------------------------------------------------

UpdatePort == Call \/ Get \/ ParsePage \/ Post \/ PostFails \/ Confirm

Next == \/ UpdatePort \/ OwnerEdits \/ LockChanges
        \/ \E r \in inflight : ServerTakes(r)

Spec == Init /\ [][Next]_vars

-----------------------------------------------------------------------------
(* Properties.                                                             *)

\* In particular a form that is sent has one value for each field.
TypeOK ==
    /\ saved \in Settings /\ read \in Settings /\ portLocked \in BOOLEAN
    /\ pc \in {"idle", "get", "got", "post", "posted", "answered", "ok", "failed"}
    /\ calls \in 0 .. MaxCalls /\ port \in Port /\ disturbed \in BOOLEAN
    /\ page \in {<<>>, LoginPage} \cup {SettingsPageNow(s, b) : s \in Settings, b \in BOOLEAN}
    /\ \A r \in inflight : /\ r.call \in 1 .. calls /\ r.read \in Settings
                           /\ \A n \in DOMAIN r.form : Len(r.form[n]) = 1

\* When UpdatePort has returned nil the server has the port, unless the
\* owner or the late request of an earlier call has set another one since the
\* server made the answer: a refused form, a port locked in between and a
\* page of something else are all told apart (settings.go:69-93).
ConfirmedIsRegistered ==
    pc = "ok" => saved.port = Itoa(port) \/ disturbed

\* Posting the form back changes no setting but the port, except to what it
\* was when the page was read: what the owner has changed since is undone,
\* and nothing else is touched, checkboxes included (settings.go:52-58, 95-146).
PostWritesBack ==
    [][\A r \in inflight : ServerTakes(r) =>
          saved'.title \in {saved.title, r.read.title}
          /\ saved'.flag \in {saved.flag, r.read.flag}]_vars

=============================================================================
