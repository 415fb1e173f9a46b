-------------------------- MODULE SettingsPageProofs --------------------------
(***************************************************************************)
(* Proofs about SettingsPage: for any ports and texts, any number of calls *)
(* and any number of requests that arrive late.                            *)
(***************************************************************************)
EXTENDS SettingsPage, FiniteSetTheorems, TLAPS

-----------------------------------------------------------------------------
(* The form.                                                               *)

\* An input that alone has its name gives its field the one value.
LEMMA LoneInput ==
    ASSUME NEW inputs, NEW k \in DOMAIN inputs, DOMAIN inputs \subseteq Nat,
           Submitted(inputs[k]),
           \A i \in DOMAIN inputs : inputs[i].name = inputs[k].name => i = k
    PROVE  /\ inputs[k].name \in DOMAIN formOf(inputs)
           /\ formOf(inputs)[inputs[k].name] = <<inputValue(inputs[k])>>
<1> DEFINE n == inputs[k].name
           S == {i \in DOMAIN inputs : Submitted(inputs[i]) /\ inputs[i].name = n}
           names == {inputs[i].name : i \in {j \in DOMAIN inputs : Submitted(inputs[j])}}
           nth(T, j) == CHOOSE i \in T : Cardinality({h \in T : h <= i}) = j
<1>1. S = {k} /\ n \in names
    OBVIOUS
<1>2. Cardinality({k}) = 1 /\ {h \in {k} : h <= k} = {k}
    BY FS_Singleton
<1>3. nth(S, 1) = k
    BY <1>1, <1>2
<1>4. formOf(inputs) =
          [m \in names |->
              LET T == {i \in DOMAIN inputs : Submitted(inputs[i]) /\ inputs[i].name = m}
              IN  [j \in 1 .. Cardinality(T) |-> inputValue(inputs[nth(T, j)])]]
    BY DEF formOf
<1>5. formOf(inputs)[n] = [j \in 1 .. Cardinality(S) |-> inputValue(inputs[nth(S, j)])]
    BY <1>1, <1>4
<1> HIDE DEF S, n, names, nth
<1>6. formOf(inputs)[n] = [j \in 1 .. 1 |-> inputValue(inputs[nth(S, j)])]
    BY <1>1, <1>2, <1>5
<1>7. formOf(inputs)[n] = <<inputValue(inputs[k])>>
    BY <1>3, <1>6
<1> QED
    BY <1>1, <1>4, <1>7 DEF n

\* The empty text is none of the names of the form.
LEMMA FieldNames == NoText # "f_port" /\ NoText # "title" /\ NoText # "flag"
BY DEF NoText

\* Of the settings page.
SubmittedFields(s) == {"f_port", "title"} \cup (IF s.flag THEN {"flag"} ELSE {})

\* The form read from a page has the fields that a browser would submit, with
\* the values the page shows (settings.go:95-146).
LEMMA FormOfPage ==
    ASSUME NEW s \in Settings, NEW b \in BOOLEAN
    PROVE  LET form == formOf(SettingsPageNow(s, b)) IN
           /\ DOMAIN form = SubmittedFields(s)
           /\ form["f_port"] = <<s.port>> /\ form["title"] = <<s.title>>
           /\ s.flag => form["flag"] = <<"on">>
<1> DEFINE p == SettingsPageNow(s, b)
<1>1. /\ DOMAIN p = 1 .. 4
      /\ p[1] = Input("f_port", "text", s.port, b, FALSE)
      /\ p[2] = Input("title", "text", s.title, FALSE, FALSE)
      /\ p[3] = Input("flag", "checkbox", NoText, FALSE, s.flag)
      /\ p[4] = Input(NoText, "submit", "Apply", FALSE, FALSE)
    BY DEF SettingsPageNow
<1> HIDE DEF p
<1>2. /\ p[1].name = "f_port" /\ p[1].type = "text" /\ p[1].value = s.port
      /\ p[2].name = "title" /\ p[2].type = "text" /\ p[2].value = s.title
      /\ p[3].name = "flag" /\ p[3].type = "checkbox" /\ p[3].value = NoText
      /\ p[4].name = NoText
    <2>1. p[1].name = "f_port" /\ p[1].type = "text" /\ p[1].value = s.port
        BY <1>1 DEF Input
    <2>2. p[2].name = "title" /\ p[2].type = "text" /\ p[2].value = s.title
        BY <1>1 DEF Input
    <2>3. p[3].name = "flag" /\ p[3].type = "checkbox" /\ p[3].value = NoText
        BY <1>1 DEF Input
    <2>4. p[4].name = NoText
        BY <1>1 DEF Input
    <2> QED
        BY <2>1, <2>2, <2>3, <2>4
<1>3. /\ Submitted(p[1]) /\ Submitted(p[2]) /\ ~Submitted(p[4])
      /\ inputValue(p[1]) = s.port /\ inputValue(p[2]) = s.title /\ inputValue(p[3]) = "on"
    BY <1>2, FieldNames DEF Submitted, inputValue
<1>12. Submitted(p[3]) <=> s.flag
    <2>1. Submitted(p[3]) <=> p[3].checked
        BY <1>2, FieldNames DEF Submitted
    <2>2. s.flag \in BOOLEAN
        BY DEF Settings
    <2>3. p[3].checked <=> s.flag
        BY <1>1, <2>2 DEF Input
    <2> QED
        BY <2>1, <2>3
<1>4. DOMAIN p = {1, 2, 3, 4} /\ DOMAIN p \subseteq Nat
    BY <1>1
<1>5. /\ \A i \in DOMAIN p : p[i].name = p[1].name => i = 1
      /\ \A i \in DOMAIN p : p[i].name = p[2].name => i = 2
      /\ \A i \in DOMAIN p : p[i].name = p[3].name => i = 3
    BY <1>2, <1>4, FieldNames
<1>6. formOf(p)["f_port"] = <<s.port>>
    <2>1. formOf(p)[p[1].name] = <<inputValue(p[1])>>
        BY <1>3, <1>4, <1>5, LoneInput
    <2> QED
        BY <1>2, <1>3, <2>1
<1>7. formOf(p)["title"] = <<s.title>>
    <2>1. formOf(p)[p[2].name] = <<inputValue(p[2])>>
        BY <1>3, <1>4, <1>5, LoneInput
    <2> QED
        BY <1>2, <1>3, <2>1
<1>8. s.flag => formOf(p)["flag"] = <<"on">>
    <2>1. Submitted(p[3]) => formOf(p)[p[3].name] = <<inputValue(p[3])>>
        BY <1>4, <1>5, LoneInput
    <2> QED
        BY <1>2, <1>3, <1>12, <2>1
<1>9. DOMAIN formOf(p) = {p[i].name : i \in {j \in DOMAIN p : Submitted(p[j])}}
    BY DEF formOf
<1>10. {j \in DOMAIN p : Submitted(p[j])} = IF s.flag THEN {1, 2, 3} ELSE {1, 2}
    BY <1>3, <1>4, <1>12
<1>11. DOMAIN formOf(p) = SubmittedFields(s)
    BY <1>2, <1>9, <1>10 DEF SubmittedFields
<1> QED
    BY <1>6, <1>7, <1>8, <1>11 DEF p

\* Whether the page is the form, and open (settings.go:114-118, 142-146).
LEMMA OpenPage ==
    ASSUME NEW s \in Settings, NEW b \in BOOLEAN
    PROVE  /\ locked(SettingsPageNow(s, b)) <=> b
           /\ ~foundPort(LoginPage)
<1>1. Range(SettingsPageNow(s, b)) =
          { Input("f_port", "text", s.port, b, FALSE), Input("title", "text", s.title, FALSE, FALSE),
            Input("flag", "checkbox", NoText, FALSE, s.flag), Input(NoText, "submit", "Apply", FALSE, FALSE) }
    <2> DEFINE p == SettingsPageNow(s, b)
    <2>1. DOMAIN p = {1, 2, 3, 4}
        BY DEF SettingsPageNow
    <2>2. /\ p[1] = Input("f_port", "text", s.port, b, FALSE)
          /\ p[2] = Input("title", "text", s.title, FALSE, FALSE)
          /\ p[3] = Input("flag", "checkbox", NoText, FALSE, s.flag)
          /\ p[4] = Input(NoText, "submit", "Apply", FALSE, FALSE)
        BY DEF SettingsPageNow
    <2> HIDE DEF p
    <2>3. {p[x] : x \in DOMAIN p} = {p[1], p[2], p[3], p[4]}
        BY <2>1
    <2> QED
        BY <2>2, <2>3 DEF Range, p
<1>2. locked(SettingsPageNow(s, b)) <=> b
    <2> DEFINE port_ == Input("f_port", "text", s.port, b, FALSE)
               title_ == Input("title", "text", s.title, FALSE, FALSE)
               flag_ == Input("flag", "checkbox", NoText, FALSE, s.flag)
               button_ == Input(NoText, "submit", "Apply", FALSE, FALSE)
    <2>1. port_.name = "f_port" /\ (port_.disabled <=> b)
        BY DEF Input
    <2>2. title_.name # "f_port" /\ flag_.name # "f_port" /\ button_.name # "f_port"
        BY FieldNames DEF Input
    <2> HIDE DEF port_, title_, flag_, button_
    <2>3. locked(SettingsPageNow(s, b)) <=> port_.disabled
        BY <1>1, <2>1, <2>2, Zenon DEF locked, port_, title_, flag_, button_
    <2> QED
        BY <2>1, <2>3, Zenon
<1>3. Range(LoginPage) = {Input("username", "text", NoText, FALSE, FALSE)}
    <2>1. DOMAIN LoginPage = {1} /\ LoginPage[1] = Input("username", "text", NoText, FALSE, FALSE)
        BY DEF LoginPage
    <2>2. {LoginPage[x] : x \in {1}} = {LoginPage[1]}
        OBVIOUS
    <2> QED
        BY <2>1, <2>2 DEF Range
<1>4. ~foundPort(LoginPage)
    BY <1>3 DEF foundPort, Input
<1> QED
    BY <1>2, <1>4

\* What a request carries: everything that was read, and the port.
Carries(r) ==
    /\ DOMAIN r.form = SubmittedFields(r.read)
    /\ \E p \in Port : r.form["f_port"] = <<Itoa(p)>>
    /\ r.form["title"] = <<r.read.title>>
    /\ \A n \in DOMAIN r.form : Len(r.form[n]) = 1

\* What is posted after reading a page carries what was read and a port.
LEMMA Posted ==
    ASSUME NEW s \in Settings, NEW b \in BOOLEAN, NEW p \in Port, NEW c
    PROVE  Carries([call |-> c, form |-> withPort(formOf(SettingsPageNow(s, b)), p), read |-> s])
<1> DEFINE form == formOf(SettingsPageNow(s, b))
           sent == withPort(form, p)
<1>1. /\ DOMAIN form = SubmittedFields(s)
      /\ form["f_port"] = <<s.port>> /\ form["title"] = <<s.title>>
      /\ s.flag => form["flag"] = <<"on">>
    BY FormOfPage
<1> HIDE DEF form
<1>2. sent = [n \in DOMAIN form |-> IF n = "f_port" THEN <<Itoa(p)>> ELSE form[n]]
    BY DEF withPort
<1>3. /\ DOMAIN sent = SubmittedFields(s)
      /\ sent["f_port"] = <<Itoa(p)>> /\ sent["title"] = <<s.title>>
      /\ s.flag => sent["flag"] = <<"on">>
    BY <1>1, <1>2 DEF SubmittedFields
<1> HIDE DEF sent
<1>4. \A v : Len(<<v>>) = 1
    OBVIOUS
<1>5. \A n \in DOMAIN sent : Len(sent[n]) = 1
    BY <1>3, <1>4 DEF SubmittedFields
<1>6. Carries([call |-> c, form |-> sent, read |-> s])
    BY <1>3, <1>5 DEF Carries
<1> QED
    BY <1>6 DEF sent, form

-----------------------------------------------------------------------------
(* The calls and the server.                                               *)

ValuesOK ==
    /\ saved \in Settings /\ read \in Settings /\ portLocked \in BOOLEAN
    /\ pc \in {"idle", "get", "got", "post", "posted", "answered", "ok", "failed"}
    /\ calls \in 0 .. MaxCalls /\ port \in Port /\ disturbed \in BOOLEAN

Page == {SettingsPageNow(s, b) : s \in Settings, b \in BOOLEAN}

\* What is read is a page; only the form itself is posted, as it was read.
PageOK ==
    /\ page \in {<<>>, LoginPage} \cup Page
    /\ pc = "got" => page = LoginPage \/ \E b \in BOOLEAN : page = SettingsPageNow(read, b)
    /\ pc = "post" => \E b \in BOOLEAN : page = SettingsPageNow(read, b)

\* The answer, if it is the form, shows the port that the server has, or had
\* until somebody else set another one.
AnswerTells ==
    pc = "answered" => \/ page = LoginPage
                       \/ \E s \in Settings, b \in BOOLEAN :
                             page = SettingsPageNow(s, b) /\ (s.port = saved.port \/ disturbed)

\* Every request under way carries what a call read.
RequestsOK ==
    \A r \in inflight : r.call \in 1 .. calls /\ r.read \in Settings /\ Carries(r)

CallCounted == pc # "idle" => calls > 0

SettingsInv == ValuesOK /\ CallCounted /\ PageOK /\ AnswerTells /\ RequestsOK /\ ConfirmedIsRegistered

\* What a posted form asks for is settings again, and but for the port those
\* that were read.
LEMMA AskedSettings ==
    ASSUME saved \in Settings, NEW r, r.read \in Settings, Carries(r)
    PROVE  /\ Asked(r.form) \in Settings
           /\ Asked(r.form).title = r.read.title
           /\ Asked(r.form).flag = r.read.flag
<1>1. PICK p \in Port : r.form["f_port"] = <<Itoa(p)>>
    BY DEF Carries
<1>2. Head(r.form["f_port"]) = Itoa(p) /\ Head(r.form["title"]) = r.read.title
    BY <1>1 DEF Carries
<1>3. r.read.title \in Title /\ r.read.flag \in BOOLEAN /\ saved.port \in {Itoa(q) : q \in Port}
    BY DEF Settings
<1>4. ("flag" \in DOMAIN r.form) = r.read.flag
    BY <1>3 DEF Carries, SubmittedFields
<1>5. Asked(r.form) = [port |-> IF portLocked THEN saved.port ELSE Itoa(p),
                       title |-> r.read.title, flag |-> r.read.flag]
    BY <1>2, <1>4 DEF Asked
<1>6. (IF portLocked THEN saved.port ELSE Itoa(p)) \in {Itoa(q) : q \in Port}
    BY <1>3
<1> QED
    BY <1>3, <1>5, <1>6 DEF Settings

\* What the server does with a request (settings.go:60-75).
LEMMA TakesStep ==
    ASSUME SettingsInv, NEW r \in inflight, ServerTakes(r)
    PROVE  SettingsInv'
<1> DEFINE awaited == pc = "posted" /\ r.call = calls
<1>1. /\ inflight' = inflight \ {r} /\ saved' \in {saved, Asked(r.form)}
      /\ pc' = IF awaited THEN "answered" ELSE pc
      /\ page' \in IF awaited THEN {SettingsPageNow(saved', portLocked), LoginPage} ELSE {page}
      /\ disturbed' = IF awaited THEN FALSE ELSE disturbed \/ saved'.port # saved.port
      /\ UNCHANGED <<portLocked, calls, port, read>>
    BY DEF ServerTakes, callVars
<1> HIDE DEF awaited
<1>2. saved' \in Settings
    BY <1>1, AskedSettings DEF SettingsInv, ValuesOK, RequestsOK
<1>3. ValuesOK'
    <2>1. disturbed' \in BOOLEAN
        BY <1>1 DEF SettingsInv, ValuesOK
    <2> QED
        BY <1>1, <1>2, <2>1 DEF SettingsInv, ValuesOK
<1>4. RequestsOK'
    BY <1>1 DEF SettingsInv, RequestsOK
<1>5. CASE awaited
    <2>1. /\ pc' = "answered" /\ portLocked \in BOOLEAN
          /\ page' = LoginPage \/ page' = SettingsPageNow(saved', portLocked)
        BY <1>1, <1>5 DEF SettingsInv, ValuesOK
    <2>2. PageOK'
        BY <1>2, <2>1 DEF PageOK, Page
    <2>3. AnswerTells' /\ ConfirmedIsRegistered'
        BY <1>2, <2>1 DEF AnswerTells, ConfirmedIsRegistered
    <2> QED
        BY <1>1, <1>3, <1>4, <2>2, <2>3 DEF SettingsInv, CallCounted, awaited
<1>6. CASE ~awaited
    <2>1. UNCHANGED <<pc, page, read, port>> /\ (saved'.port = saved.port \/ disturbed')
          /\ (disturbed => disturbed')
        BY <1>1, <1>6
    <2>2. PageOK'
        BY <2>1 DEF SettingsInv, PageOK
    <2>3. AnswerTells' /\ ConfirmedIsRegistered'
        BY <2>1 DEF SettingsInv, AnswerTells, ConfirmedIsRegistered
    <2> QED
        BY <1>1, <1>3, <1>4, <2>2, <2>3 DEF SettingsInv, CallCounted, awaited
<1> QED
    BY <1>5, <1>6

\* Every step of the call, the server, the owner and late requests keeps the
\* invariant.
LEMMA SettingsStep ==
    ASSUME SettingsInv, [Next]_vars
    PROVE  SettingsInv'
<1> USE DEF serverVars, callVars, pageVars
<1>1. CASE Call
    <2>1. ValuesOK'
        BY <1>1, SettingsAssumption DEF Call, SettingsInv, ValuesOK
    <2>2. RequestsOK'
        BY <1>1 DEF Call, SettingsInv, RequestsOK, ValuesOK
    <2>3. PageOK' /\ AnswerTells' /\ ConfirmedIsRegistered'
        BY <1>1 DEF Call, PageOK, AnswerTells, ConfirmedIsRegistered
    <2>4. CallCounted'
        BY <1>1, SettingsAssumption DEF Call, SettingsInv, ValuesOK, CallCounted
    <2> QED
        BY <2>1, <2>2, <2>3, <2>4 DEF SettingsInv
<1>2. CASE Get
    BY <1>2 DEF Get, SettingsInv, ValuesOK, PageOK, Page, AnswerTells, RequestsOK, CallCounted, ConfirmedIsRegistered
<1>3. CASE ParsePage
    BY <1>3, OpenPage DEF ParsePage, SettingsInv, ValuesOK, PageOK, AnswerTells, RequestsOK, CallCounted,
                          ConfirmedIsRegistered
<1>4. CASE Post
    <2>1. PICK b \in BOOLEAN : page = SettingsPageNow(read, b)
        BY <1>4 DEF Post, SettingsInv, PageOK
    <2> DEFINE r == [call |-> calls, form |-> withPort(formOf(page), port), read |-> read]
    <2>2. inflight' = inflight \cup {r} /\ calls' = calls
        BY <1>4 DEF Post
    <2>3. Carries(r)
        BY <2>1, Posted DEF SettingsInv, ValuesOK
    <2>4. r.call = calls /\ r.read = read
        OBVIOUS
    <2> HIDE DEF r
    <2>5. calls \in 1 .. calls
        BY <1>4, SettingsAssumption DEF Post, SettingsInv, CallCounted, ValuesOK
    <2>6. RequestsOK'
        BY <2>2, <2>3, <2>4, <2>5 DEF SettingsInv, RequestsOK, ValuesOK
    <2> QED
        BY <1>4, <2>6 DEF Post, SettingsInv, ValuesOK, PageOK, AnswerTells, CallCounted, ConfirmedIsRegistered
<1>5. CASE PostFails
    BY <1>5 DEF PostFails, SettingsInv, ValuesOK, PageOK, AnswerTells, RequestsOK, CallCounted,
                ConfirmedIsRegistered
<1>6. CASE Confirm
    <2>1. pc' = "ok" => page # LoginPage
        BY <1>6, OpenPage, SettingsAssumption DEF Confirm, SettingsInv, ValuesOK
    <2>2. pc' = "ok" => Head(formOf(page)["f_port"]) = saved.port \/ disturbed
        <3>1. SUFFICES ASSUME pc' = "ok"
                       PROVE  Head(formOf(page)["f_port"]) = saved.port \/ disturbed
            OBVIOUS
        <3>2. PICK s \in Settings, b \in BOOLEAN :
                  page = SettingsPageNow(s, b) /\ (s.port = saved.port \/ disturbed)
            BY <1>6, <2>1, <3>1 DEF Confirm, SettingsInv, AnswerTells
        <3>3. formOf(page)["f_port"] = <<s.port>>
            BY <3>2, FormOfPage
        <3> QED
            BY <3>2, <3>3
    <2>3. /\ pc' \in {"ok", "failed"} /\ (pc' = "ok" => Head(formOf(page)["f_port"]) = Itoa(port))
          /\ UNCHANGED <<saved, portLocked, calls, port, page, read, inflight, disturbed>>
        BY <1>6 DEF Confirm
    <2>4. ConfirmedIsRegistered'
        BY <2>2, <2>3 DEF ConfirmedIsRegistered
    <2>5. ValuesOK' /\ RequestsOK'
        BY <2>3 DEF SettingsInv, ValuesOK, RequestsOK
    <2>6. PageOK' /\ AnswerTells' /\ CallCounted'
        BY <1>6, <2>3 DEF Confirm, SettingsInv, PageOK, AnswerTells, CallCounted
    <2> QED
        BY <2>4, <2>5, <2>6 DEF SettingsInv
<1>7. CASE OwnerEdits
    <2>1. /\ saved' \in Settings /\ (saved'.port = saved.port \/ disturbed') /\ (disturbed => disturbed')
          /\ UNCHANGED <<portLocked, pc, calls, port, page, read, inflight>>
        BY <1>7 DEF OwnerEdits
    <2>2. ValuesOK'
        BY <1>7 DEF OwnerEdits, SettingsInv, ValuesOK
    <2>3. AnswerTells' /\ ConfirmedIsRegistered'
        BY <2>1 DEF SettingsInv, AnswerTells, ConfirmedIsRegistered
    <2> QED
        BY <2>1, <2>2, <2>3 DEF SettingsInv, PageOK, RequestsOK, CallCounted
<1>8. CASE LockChanges
    BY <1>8 DEF LockChanges, SettingsInv, ValuesOK, PageOK, AnswerTells, RequestsOK, CallCounted,
                ConfirmedIsRegistered
<1>9. CASE UNCHANGED vars
    BY <1>9 DEF vars, SettingsInv, ValuesOK, PageOK, AnswerTells, RequestsOK, CallCounted, ConfirmedIsRegistered
<1> QED
    BY <1>1, <1>2, <1>3, <1>4, <1>5, <1>6, <1>7, <1>8, <1>9, TakesStep DEF Next, UpdatePort

\* The invariant of the settings page holds always.
LEMMA SettingsInvariant == Spec => []SettingsInv
<1>1. Init => SettingsInv
    <2> SUFFICES ASSUME Init PROVE SettingsInv
        OBVIOUS
    <2>1. ValuesOK
        <3>1. 0 \in 0 .. MaxCalls
            BY SettingsAssumption
        <3>2. saved \in Settings /\ read \in Settings /\ port \in Port /\ calls = 0 /\ pc = "idle"
              /\ portLocked = FALSE /\ disturbed = FALSE
            BY DEF Init
        <3> QED
            BY <3>1, <3>2, Zenon DEF ValuesOK
    <2>2. PageOK /\ AnswerTells /\ RequestsOK /\ CallCounted /\ ConfirmedIsRegistered
        BY DEF Init, PageOK, AnswerTells, RequestsOK, CallCounted, ConfirmedIsRegistered
    <2> QED
        BY <2>1, <2>2 DEF SettingsInv
<1>2. SettingsInv /\ [Next]_vars => SettingsInv'
    BY SettingsStep
<1> QED
    BY <1>1, <1>2, PTL DEF Spec

\* What is sent and kept has the shape of the form, one value to each field
\* (settings.go:58, 95-146).
THEOREM TypeCorrect == Spec => []TypeOK
<1>1. SettingsInv => TypeOK
    BY DEF SettingsInv, ValuesOK, PageOK, Page, RequestsOK, Carries, TypeOK
<1> QED
    BY <1>1, SettingsInvariant, PTL

\* A nil of UpdatePort means that the server has the port, or that somebody
\* set another one since (settings.go:69-93).
THEOREM NilMeansRegistered == Spec => []ConfirmedIsRegistered
<1>1. SettingsInv => ConfirmedIsRegistered
    BY DEF SettingsInv
<1> QED
    BY <1>1, SettingsInvariant, PTL

\* No request of UpdatePort, however late, changes anything but the port from
\* what it is or was when the page was read (settings.go:52-58, 95-146).
THEOREM WritesNothingElse == Spec => PostWritesBack
<1>1. ASSUME SettingsInv, NEW r \in inflight, ServerTakes(r)
      PROVE  saved'.title \in {saved.title, r.read.title} /\ saved'.flag \in {saved.flag, r.read.flag}
    <2>1. saved' \in {saved, Asked(r.form)}
        BY <1>1 DEF ServerTakes
    <2> QED
        BY <1>1, <2>1, AskedSettings DEF SettingsInv, ValuesOK, RequestsOK
<1>2. SettingsInv => [\A r \in inflight : ServerTakes(r) =>
                         saved'.title \in {saved.title, r.read.title}
                         /\ saved'.flag \in {saved.flag, r.read.flag}]_vars
    BY <1>1
<1> QED
    BY <1>2, SettingsInvariant, PTL DEF PostWritesBack

=============================================================================
