-------------------------- MODULE ConfiguratorProofs --------------------------
(***************************************************************************)
(* However many sessions there are, whatever is typed and saved in them    *)
(* and in whatever order, and wherever their writes break off: a file that *)
(* goes back to a session without --loadyaml starts no batch mode; what    *)
(* runs, runs on options that its mode can use; and what a session loads   *)
(* and leaves alone, its SAVE AND QUIT writes back.                        *)
(***************************************************************************)
EXTENDS Configurator, TLAPS

(* A file made from scratch never starts batch mode, so that a first time   *)
(* configuration of it always fails.                                        *)
ScratchIsNoBatch == scratch => phase # "batch"

(* A batch section without credentials. *)
Blank(b) == "EndpointUsername" \in DOMAIN b /\ b["EndpointUsername"] = ""

BlankIn(o) == "Batch" \in DOMAIN o /\ Blank(o["Batch"])

(* The file, what would be written to it, and what would be saved.          *)
FromScratch ==
  /\ scratch /\ file # Unreadable => BlankIn(file)
  /\ phase = "configurator" /\ (scratch \/ ~loadYaml) => BlankIn(config) /\ BlankIn(form)
  /\ phase # "configurator" => config = Empty
  /\ ScratchIsNoBatch

(* One field of a record leaves the others alone. *)
LEMMA OtherField ==
  ASSUME NEW f, NEW k, NEW x, NEW v, x \in DOMAIN f, x # k
  PROVE  x \in DOMAIN [f EXCEPT ![k] = v] /\ [f EXCEPT ![k] = v][x] = f[x]
  OBVIOUS

LEMMA SameField ==
  ASSUME NEW f, NEW k, NEW v, k \in DOMAIN f
  PROVE  k \in DOMAIN [f EXCEPT ![k] = v] /\ [f EXCEPT ![k] = v][k] = v
  OBVIOUS

LEMMA OtherSection ==
  ASSUME NEW o, NEW s, NEW v, BlankIn(o), s # "Batch"
  PROVE  BlankIn([o EXCEPT ![s] = v])
  BY OtherField DEF BlankIn

LEMMA BatchSection ==
  ASSUME NEW o, NEW b, BlankIn(o), Blank(b)
  PROVE  BlankIn([o EXCEPT !["Batch"] = b])
  BY SameField DEF BlankIn

LEMMA BlankField ==
  ASSUME NEW b, NEW f, NEW v, Blank(b), f # "EndpointUsername"
  PROVE  Blank([b EXCEPT ![f] = v])
BY OtherField DEF Blank

LEMMA NewIsBlank == BlankIn(programConfig) /\ BlankIn(Empty)
<1>1. BlankIn(programConfig)
  BY DEF BlankIn, Blank, programConfig
<1>2. BlankIn(Empty)
  BY DEF BlankIn, Blank, programConfig, Empty
<1> QED
  BY <1>1, <1>2

(* What is written of a blank section is blank. *)
LEMMA WrittenIsBlank == ASSUME NEW o, BlankIn(o) PROVE BlankIn(Written(o))
<1> DEFINE p == [o EXCEPT !["Batch"] = [o["Batch"] EXCEPT !["Routers"] = Elements(o["Batch"]["Routers"])]]
           q == [p["Proxy"] EXCEPT !["UpstreamServerIPs"] = Elements(p["Proxy"]["UpstreamServerIPs"])]
<1>1. BlankIn(p)
  BY BlankField, BatchSection DEF BlankIn
<1>2. Written(o) = [p EXCEPT !["Proxy"] = q]
  BY DEF Written
<1> HIDE DEF p, q
<1>3. BlankIn([p EXCEPT !["Proxy"] = q])
  BY <1>1, OtherSection
<1> QED
  BY <1>2, <1>3

(* What is read of a record that breaks off: each field is as it was, or as *)
(* in programConfig{}, or what is left of it.                               *)
LEMMA CutRecordFields ==
  ASSUME NEW r, NEW order, NEW zero, NEW cut, NEW p \in CutRecord(r, order, zero, cut)
  PROVE  /\ DOMAIN p = DOMAIN r
         /\ \A f \in DOMAIN r : p[f] = r[f] \/ p[f] = zero[f] \/ p[f] \in cut[f]
<1>1. PICK i \in DOMAIN order : \E v \in cut[order[i]] \cup {zero[order[i]]} : p = BrokenAt(r, order, i, v, zero)
  BY DEF CutRecord
<1>2. PICK v \in cut[order[i]] \cup {zero[order[i]]} : p = BrokenAt(r, order, i, v, zero)
  BY <1>1
<1>3. DOMAIN p = DOMAIN r
  BY <1>2 DEF BrokenAt
<1>4. ASSUME NEW f \in DOMAIN r PROVE p[f] = r[f] \/ p[f] = zero[f] \/ p[f] \in cut[f]
  <2> DEFINE before == f \in ToSet(SubSeq(order, 1, i - 1))
  <2>1. p[f] = CASE f = order[i] -> v [] before -> r[f] [] OTHER -> zero[f]
    BY <1>2 DEF BrokenAt
  <2> HIDE DEF before
  <2>2. CASE f = order[i]
    <3>1. p[f] \in {v, r[f]}
      BY <2>1, <2>2
    <3> QED
      BY <1>2, <2>2, <3>1
  <2>3. CASE f # order[i]
    BY <2>1, <2>3
  <2> QED
    BY <2>2, <2>3
<1> QED
  BY <1>3, <1>4

LEMMA CutOffSections ==
  ASSUME NEW o, NEW p \in CutOff(o)
  PROVE  /\ DOMAIN p = DOMAIN o
         /\ \A s \in DOMAIN o : p[s] = o[s] \/ p[s] = programConfig[s] \/ p[s] \in CutSection(o, s)
<1> DEFINE cut == [s \in DOMAIN o |-> CutSection(o, s)]
<1>1. p \in CutRecord(o, FieldOrder["File"], programConfig, cut)
  BY DEF CutOff
<1>2. \A s \in DOMAIN o : cut[s] = CutSection(o, s)
  OBVIOUS
<1> HIDE DEF cut
<1> QED
  BY <1>1, <1>2, CutRecordFields

LEMMA CutSectionFields ==
  ASSUME NEW o, NEW s, s # "OperationMode", NEW x \in CutSection(o, s)
  PROVE  /\ DOMAIN x = DOMAIN o[s]
         /\ \A f \in DOMAIN o[s] : x[f] = o[s][f] \/ x[f] = programConfig[s][f] \/ x[f] \in CutField(f, o[s][f])
<1> DEFINE cut == [f \in DOMAIN o[s] |-> CutField(f, o[s][f])]
<1>1. x \in CutRecord(o[s], FieldOrder[s], programConfig[s], cut)
  BY DEF CutSection
<1>2. \A f \in DOMAIN o[s] : cut[f] = CutField(f, o[s][f])
  OBVIOUS
<1> HIDE DEF cut
<1> QED
  BY <1>1, <1>2, CutRecordFields

LEMMA CutIsBlank == ASSUME NEW o, BlankIn(o), NEW p \in CutOff(o) PROVE BlankIn(p)
<1> DEFINE b == o["Batch"]
           c == p["Batch"]
<1>1. "Batch" \in DOMAIN p /\ (c = b \/ c = programConfig["Batch"] \/ c \in CutSection(o, "Batch"))
  BY CutOffSections DEF BlankIn
<1>2. ASSUME c \in CutSection(o, "Batch") PROVE Blank(c)
  <2>1. /\ DOMAIN c = DOMAIN b
        /\ \A f \in DOMAIN b : c[f] = b[f] \/ c[f] = programConfig["Batch"][f] \/ c[f] \in CutField(f, b[f])
    BY <1>2, CutSectionFields
  <2> HIDE DEF c
  <2>2. "EndpointUsername" \in DOMAIN b /\ b["EndpointUsername"] = ""
    BY DEF BlankIn, Blank
  <2>3. programConfig["Batch"]["EndpointUsername"] = ""
    BY DEF programConfig
  <2> HIDE DEF b
  <2>4. CutField("EndpointUsername", b["EndpointUsername"]) = {}
    BY <2>2, TextsOK DEF CutField
  <2>5. c["EndpointUsername"] = ""
    BY <2>1, <2>2, <2>3, <2>4
  <2> QED
    BY <2>1, <2>2, <2>5 DEF Blank
<1> QED
  BY <1>1, <1>2, NewIsBlank DEF BlankIn

(* The forms of a session that loads nothing, or what was made from scratch. *)
LEMMA FormsAreBlank ==
  ASSUME NEW o, NEW routers, BlankIn(o) PROVE BlankIn(Forms(o, routers))
  BY DEF BlankIn, Blank, Forms

(* checkConfig does not let it through to batch mode. *)
LEMMA BlankStarts ==
  ASSUME NEW o, NEW flags, BlankIn(o)
  PROVE  "batch" \notin Outcomes(Overridden(o, flags))
<1> DEFINE x == Overridden(o, flags)
<1>1. BlankIn(x)
  BY DEF Overridden, BlankIn
<1> HIDE DEF x
<1>2. x.Batch.EndpointUsername = ""
  BY <1>1 DEF BlankIn, Blank
<1>3. ~BatchOK(x)
  <2>1. Length(x.Batch.EndpointUsername) = 0
    BY <1>2, TextsOK
  <2> QED
    BY <2>1 DEF BatchOK
<1>4. Passes(x) => x.OperationMode # "batch"
  BY <1>3, TextsOK DEF Passes
<1>5. "batch" \notin Outcomes(x)
  BY <1>4 DEF Outcomes
<1> QED
  BY <1>5 DEF x

------------------------------------------------------------------------------
(* A step inside a session: it leaves the file alone and keeps both copies  *)
(* of the batch section blank.                                              *)
LEMMA SessionStep ==
  ASSUME FromScratch, phase = "configurator", UNCHANGED programVars,
         BlankIn(config) /\ BlankIn(form) => BlankIn(config') /\ BlankIn(form')
  PROVE  FromScratch'
  BY DEF FromScratch, ScratchIsNoBatch, programVars, BlankIn, Blank

LEMMA EditKeeps ==
  ASSUME FromScratch, Edit PROVE FromScratch'
<1>1. phase = "configurator" /\ UNCHANGED programVars /\ config' = config
  BY DEF Edit, Type, Show, AddRouter, RemoveRouter, AddServer, RemoveServer, In
<1>2. ASSUME BlankIn(form) PROVE BlankIn(form')
  <2>1. ASSUME NEW s \in DOMAIN Fields, Type(s) PROVE BlankIn(form')
    <3>1. PICK f \in Fields[s] : \E v \in Input[s][f] : form' = [form EXCEPT ![s][f] = v]
      BY <2>1 DEF Type
    <3>2. PICK v \in Input[s][f] : form' = [form EXCEPT ![s] = [form[s] EXCEPT ![f] = v]]
      BY <3>1
    <3>3. CASE s = "Batch"
      <4>1. f # "EndpointUsername"
        BY <3>3 DEF Fields
      <4>2. Blank([form["Batch"] EXCEPT ![f] = v])
        BY <1>2, <4>1, BlankField DEF BlankIn
      <4> QED
        BY <1>2, <3>2, <3>3, <4>2, BatchSection
    <3>4. CASE s # "Batch"
      BY <1>2, <3>2, <3>4, OtherSection
    <3> QED
      BY <3>3, <3>4
  <2>2. ASSUME NEW s, NEW f, f # "Batch", Show(s, f) PROVE BlankIn(form')
    <3>1. PICK v \in Input[s][f] : form' = [form EXCEPT ![f] = v]
      BY <2>2 DEF Show
    <3>2. BlankIn([form EXCEPT ![f] = v])
      BY <1>2, <2>2, OtherSection
    <3> QED
      BY <3>1, <3>2
  <2>3. ASSUME NEW r, AddRouter(r) PROVE BlankIn(form')
    BY <1>2, <2>3 DEF AddRouter
  <2>4. ASSUME NEW row, RemoveRouter(row) PROVE BlankIn(form')
    BY <1>2, <2>4 DEF RemoveRouter
  <2>5. ASSUME NEW ip, AddServer(ip) PROVE BlankIn(form')
    <3>1. form' = form \/ \E v : form' = [form EXCEPT !["Proxy"] = v]
      BY <2>5 DEF AddServer
    <3> QED
      BY <1>2, <3>1, OtherSection
  <2>6. ASSUME NEW row, RemoveServer(row) PROVE BlankIn(form')
    <3>1. form' = form \/ \E v : form' = [form EXCEPT !["Proxy"] = v]
      BY <2>6 DEF RemoveServer
    <3> QED
      BY <1>2, <3>1, OtherSection
  <2>7. CASE Show("OperationMode", "OperationMode") \/ Show("Batch", "ServerIP")
    BY <2>2, <2>7
  <2> QED
    BY <2>1, <2>3, <2>4, <2>5, <2>6, <2>7 DEF Edit
<1> QED
  BY <1>1, <1>2, SessionStep

LEMMA SaveSectionKeeps ==
  ASSUME FromScratch, SaveSection PROVE FromScratch'
<1>1. phase = "configurator" /\ UNCHANGED programVars /\ form' = form
  BY DEF SaveSection, Save, SaveProxy, SaveBatch, SaveRouters, In, formVars
<1>2. ASSUME BlankIn(config), BlankIn(form) PROVE BlankIn(config')
  <2>1. ASSUME NEW s, s # "Batch", Save(s) PROVE BlankIn(config')
    BY <1>2, <2>1, OtherSection DEF Save
  <2>2. ASSUME SaveProxy PROVE BlankIn(config')
    <3>1. config' = [config EXCEPT !["Proxy"] = form.Proxy]
      BY <2>2 DEF SaveProxy
    <3> QED
      BY <1>2, <3>1, OtherSection
  <2>3. ASSUME SaveBatch PROVE BlankIn(config')
    <3>1. config' = [config EXCEPT !["Batch"] = form["Batch"]]
      BY <2>3 DEF SaveBatch
    <3> QED
      BY <1>2, <3>1, BatchSection DEF BlankIn
  <2>4. ASSUME SaveRouters PROVE BlankIn(config')
    <3>1. config' = [config EXCEPT !["Batch"] = [config["Batch"] EXCEPT !["Routers"] = tmpCfgRouters]]
      BY <2>4 DEF SaveRouters
    <3>2. Blank([config["Batch"] EXCEPT !["Routers"] = tmpCfgRouters])
      BY <1>2, BlankField DEF BlankIn
    <3> QED
      BY <1>2, <3>1, <3>2, BatchSection
  <2> QED
    BY <2>1, <2>2, <2>3, <2>4 DEF SaveSection
<1> QED
  BY <1>1, <1>2, SessionStep

LEMMA ConfigureKeeps ==
  ASSUME FromScratch, NEW load \in BOOLEAN, NEW forms, Configure(load, forms)
  PROVE  FromScratch'
<1>1. /\ phase # "configurator"
      /\ phase' = "configurator"
      /\ loadYaml' = load
      /\ file # Unreadable
      /\ UNCHANGED <<file, scratch, config>>
      /\ form' = Forms(Loaded, tmpCfgRouters')
  BY DEF Configure, Idle
<1>2. config' = Empty
  BY <1>1 DEF FromScratch
<1>3. ASSUME scratch \/ ~load PROVE BlankIn(Loaded)
  BY <1>1, <1>3, NewIsBlank DEF FromScratch, Loaded
<1>4. ASSUME scratch \/ ~load PROVE BlankIn(form')
  BY <1>1, <1>3, <1>4, FormsAreBlank
<1> QED
  BY <1>1, <1>2, <1>4, NewIsBlank DEF FromScratch, ScratchIsNoBatch, BlankIn, Blank

LEMMA QuitKeeps ==
  ASSUME FromScratch, SaveAndQuit \/ SaveAndQuitFails \/ QuitWithoutSaving
  PROVE  FromScratch'
<1>1. phase = "configurator" /\ phase' \in {"written", "exited"} /\ config' = Empty
  BY DEF SaveAndQuit, SaveAndQuitFails, QuitWithoutSaving, Quit
<1>2. /\ UNCHANGED <<file, scratch>>
      \/ /\ scratch' = (scratch \/ ~loadYaml)
         /\ file' = Written(config) \/ file' \in CutOff(Written(config)) \/ file' = Unreadable
  BY DEF SaveAndQuit, SaveAndQuitFails, QuitWithoutSaving
<1>3. scratch \/ ~loadYaml => BlankIn(Written(config))
  BY <1>1, WrittenIsBlank DEF FromScratch
<1>4. scratch' /\ file' # Unreadable => BlankIn(file')
  BY <1>2, <1>3, CutIsBlank DEF FromScratch
<1> QED
  BY <1>1, <1>4 DEF FromScratch, ScratchIsNoBatch, BlankIn, Blank

LEMMA StartKeeps ==
  ASSUME FromScratch, NEW flags, Start(flags) PROVE FromScratch'
<1>1. /\ phase # "configurator"
      /\ file # Unreadable
      /\ UNCHANGED <<file, scratch, config>>
      /\ phase' \in Outcomes(Overridden(file, flags))
  BY DEF Start, Idle
<1>2. phase' # "configurator"
  BY <1>1 DEF Outcomes
<1>3. scratch => phase' # "batch"
  BY <1>1, BlankStarts DEF FromScratch
<1> QED
  BY <1>1, <1>2, <1>3 DEF FromScratch, ScratchIsNoBatch, BlankIn, Blank

LEMMA FromScratchStep == FromScratch /\ [Next]_vars => FromScratch'
<1> SUFFICES ASSUME FromScratch, [Next]_vars PROVE FromScratch'
  OBVIOUS
<1>1. CASE CannotRead \/ Stop \/ DispatchPanics
  <2>1. /\ phase # "configurator"
        /\ phase' \in {"refused", "exited", "crashed"}
        /\ UNCHANGED <<file, scratch, config>>
    BY <1>1 DEF CannotRead, Stop, DispatchPanics, Ended, Idle
  <2> QED
    BY <2>1 DEF FromScratch, ScratchIsNoBatch, BlankIn, Blank
<1>2. CASE UNCHANGED vars
  BY <1>2 DEF vars, programVars, formVars, FromScratch, ScratchIsNoBatch, BlankIn, Blank
<1>3. ASSUME NEW load \in BOOLEAN, NEW forms \in Usage, Configure(load, forms) PROVE FromScratch'
  BY <1>3, ConfigureKeeps
<1>4. ASSUME NEW flags \in Flags, Start(flags) PROVE FromScratch'
  BY <1>4, StartKeeps
<1> QED
  BY <1>1, <1>2, <1>3, <1>4, EditKeeps, SaveSectionKeeps, QuitKeeps DEF Next

(* A file that goes back to a session without --loadyaml starts no batch    *)
(* mode: the credentials checkConfig asks for have no field in any form     *)
(* (options.go:85 says that the configurator is for the first time).        *)
THEOREM ScratchIsNoBatchHolds == Spec => []ScratchIsNoBatch
<1>1. Init => FromScratch
  BY DEF Init, FromScratch, ScratchIsNoBatch
<1>2. FromScratch => ScratchIsNoBatch
  BY DEF FromScratch
<1> QED
  BY <1>1, <1>2, FromScratchStep, PTL DEF Spec

------------------------------------------------------------------------------
(* What runs has passed the check of its mode. *)
Running ==
  /\ phase = "batch" => BatchOK(options)
  /\ phase = "proxy" => ProxyOK(options)

(* checkConfig strips the name of the instance after it has looked at the   *)
(* sections; no other section changes with it.                              *)
LEMMA CheckedKeeps ==
  ASSUME NEW o
  PROVE  /\ BatchOK(o) => BatchOK(Checked(o))
         /\ ProxyOK(o) => ProxyOK(Checked(o))
<1>1. Checked(o).Batch = o.Batch /\ Checked(o).Proxy = o.Proxy
  BY DEF Checked
<1> QED
  BY <1>1 DEF BatchOK, ProxyOK

LEMMA RunningStep == Running /\ [Next]_vars => Running'
<1> SUFFICES ASSUME Running, [Next]_vars PROVE Running'
  OBVIOUS
<1>1. ASSUME NEW load \in BOOLEAN, NEW forms \in Usage, Configure(load, forms) PROVE Running'
  BY <1>1 DEF Configure, Running
<1>2. CASE Edit \/ SaveSection \/ UNCHANGED vars
  <2>1. UNCHANGED <<phase, options>>
    BY <1>2 DEF Edit, Type, Show, AddRouter, RemoveRouter, AddServer, RemoveServer,
       SaveSection, Save, SaveProxy, SaveBatch, SaveRouters, programVars, vars
  <2> QED
    BY <2>1 DEF Running, BatchOK, ProxyOK
<1>3. CASE SaveAndQuit \/ SaveAndQuitFails \/ QuitWithoutSaving \/ CannotRead \/ Stop \/ DispatchPanics
  BY <1>3 DEF SaveAndQuit, SaveAndQuitFails, QuitWithoutSaving, Quit, CannotRead, Stop, DispatchPanics, Ended, Running
<1>4. ASSUME NEW flags \in Flags, Start(flags) PROVE Running'
  <2> DEFINE o == Overridden(file, flags)
  <2>1. /\ phase' \in Outcomes(o)
        /\ options' = IF phase' \in {"batch", "proxy"} THEN Checked(o) ELSE None
    BY <1>4 DEF Start
  <2> HIDE DEF o
  <2>2. phase' = "batch" => BatchOK(o)
    BY <2>1, TextsOK DEF Outcomes, Passes
  <2>3. phase' = "proxy" => ProxyOK(o)
    BY <2>1, TextsOK DEF Outcomes, Passes
  <2>4. CASE phase' = "batch"
    BY <2>1, <2>2, <2>4, CheckedKeeps DEF Running, BatchOK
  <2>5. CASE phase' = "proxy"
    BY <2>1, <2>3, <2>5, CheckedKeeps DEF Running, ProxyOK
  <2> QED
    BY <2>1, <2>4, <2>5 DEF Running
<1> QED
  BY <1>1, <1>2, <1>3, <1>4 DEF Next

(* No batcher or proxy runs on options that checkConfig would refuse for    *)
(* its mode, whatever sessions wrote the file and whatever flags are given. *)
THEOREM RunningHolds == Spec => []Running
<1>1. Init => Running
  BY DEF Init, Running
<1> QED
  BY <1>1, RunningStep, PTL DEF Spec

(* With TLS on and a port of its own, the endpoint answers over TLS only,   *)
(* with a key and a certificate that were there, and the other port leads   *)
(* to it (options.go:274-317).                                              *)
THEOREM TLSGuardsEndpointHolds == Spec => []TLSGuardsEndpoint
<1>1. Running => TLSGuardsEndpoint
  <2> SUFFICES ASSUME Running, phase = "batch", options.Batch.IsTLSEnabled PROVE TLSGuardsEndpoint
    BY DEF TLSGuardsEndpoint
  <2> DEFINE o == options
             tls == [addr |-> At(o, o.Batch.TlsServerPort), pair |-> <<o.Batch.TlsCert, o.Batch.TlsKey>>,
                     handler |-> "BatchModeEndpointRouter", to |-> <<>>]
             redirect == [addr |-> At(o, o.Batch.HttpServerPort), pair |-> <<>>,
                          handler |-> "redirect", to |-> At(o, o.Batch.TlsServerPort)]
  <2>1. Servers(o) = {redirect, tls}
    BY DEF Servers, HTTPServer, Plain, RedirectTo
  <2>2. Exists(o.Batch.TlsKey) /\ Exists(o.Batch.TlsCert)
    BY DEF Running, BatchOK
  <2>3. redirect.handler = "redirect" /\ redirect.to = tls.addr
    OBVIOUS
  <2>4. tls.handler # "redirect" /\ tls.pair = <<o.Batch.TlsCert, o.Batch.TlsKey>>
    OBVIOUS
  <2>5. ToSet(tls.pair) = {o.Batch.TlsCert, o.Batch.TlsKey} /\ tls.pair # Plain
    BY <2>4 DEF ToSet, Plain
  <2> HIDE DEF tls, redirect
  <2>6. \A x \in Servers(o) :
          IF x.handler = "redirect"
          THEN \E y \in Servers(o) : x.to = y.addr /\ y.handler # "redirect"
          ELSE x.pair # Plain /\ \A name \in ToSet(x.pair) : Exists(name)
    BY <2>1, <2>2, <2>3, <2>4, <2>5
  <2> QED
    BY <2>6 DEF TLSGuardsEndpoint
<1> QED
  BY <1>1, RunningHolds, PTL

------------------------------------------------------------------------------
(* What an edit does to the forms, and what it leaves.                      *)
FieldTyped ==
  \E s \in DOMAIN Fields : \E f \in Fields[s] : \E v \in Input[s][f] :
    form' = [form EXCEPT ![s] = [form[s] EXCEPT ![f] = v]] /\ typed' = typed \cup {<<s, f>>}

OtherSet ==
  \E s, v : s \notin {"Sonar", "Batch", "Logging"} /\ form' = [form EXCEPT ![s] = v] /\ typed' = typed

LEMMA EditOfForm ==
  ASSUME Edit
  PROVE  /\ phase = "configurator" /\ UNCHANGED <<programVars, config, saved>>
         /\ FieldTyped \/ OtherSet \/ UNCHANGED <<form, typed>>
<1>1. phase = "configurator" /\ UNCHANGED <<programVars, config, saved>>
  BY DEF Edit, Type, Show, AddRouter, RemoveRouter, AddServer, RemoveServer, In, historyVars
<1>2. ASSUME NEW s \in DOMAIN Fields, Type(s) PROVE FieldTyped
  BY <1>2 DEF Type, FieldTyped
<1>3. ASSUME NEW s, NEW f, f \notin {"Sonar", "Batch", "Logging"}, Show(s, f) PROVE OtherSet
  BY <1>3 DEF Show, OtherSet, historyVars
<1>4. ASSUME NEW r, NEW row, AddRouter(r) \/ RemoveRouter(row) PROVE UNCHANGED <<form, typed>>
  BY <1>4 DEF AddRouter, RemoveRouter, historyVars
<1>5. ASSUME NEW ip, NEW row, AddServer(ip) \/ RemoveServer(row) PROVE OtherSet \/ UNCHANGED <<form, typed>>
  <2>1. typed' = typed /\ (form' = form \/ \E v : form' = [form EXCEPT !["Proxy"] = v])
    BY <1>5 DEF AddServer, RemoveServer, historyVars
  <2> QED
    BY <2>1 DEF OtherSet
<1>6. Show("OperationMode", "OperationMode") \/ Show("Batch", "ServerIP") => OtherSet
  BY <1>3
<1> QED
  BY <1>1, <1>2, <1>4, <1>5, <1>6 DEF Edit

(* What SAVE does to the options, and that it remembers which section.      *)
SectionSaved ==
  \E s \in {"OperationMode", "Sonar", "Batch", "Proxy", "Logging"} :
    /\ config' = [config EXCEPT ![s] = form[s]]
    /\ \A x \in Section \ {s, "Routers", "UpstreamServerIPs"} : saved'[x] = saved[x]

RoutersSaved ==
  /\ config' = [config EXCEPT !["Batch"] = [config["Batch"] EXCEPT !["Routers"] = tmpCfgRouters]]
  /\ \A x \in Section \ {"Routers"} : saved'[x] = saved[x]

LEMMA SaveOfConfig ==
  ASSUME SaveSection
  PROVE  /\ phase = "configurator" /\ UNCHANGED <<programVars, form, typed>>
         /\ SectionSaved \/ RoutersSaved
<1>1. phase = "configurator" /\ UNCHANGED <<programVars, form, typed>>
  BY DEF SaveSection, Save, SaveProxy, SaveBatch, SaveRouters, In, formVars
<1>2. \A S : Remember(S) => \A x \in Section \ S : saved'[x] = saved[x]
  BY DEF Remember
<1>3. ASSUME NEW s \in {"OperationMode", "Sonar", "Logging"}, Save(s) PROVE SectionSaved
  BY <1>2, <1>3 DEF Save, SectionSaved
<1>4. ASSUME SaveProxy PROVE SectionSaved
  <2>1. config' = [config EXCEPT !["Proxy"] = form["Proxy"]]
    BY <1>4 DEF SaveProxy
  <2>2. \A x \in Section \ {"Proxy", "UpstreamServerIPs"} : saved'[x] = saved[x]
    BY <1>2, <1>4 DEF SaveProxy
  <2> QED
    BY <2>1, <2>2 DEF SectionSaved
<1>5. ASSUME SaveBatch PROVE SectionSaved
  <2>1. config' = [config EXCEPT !["Batch"] = form["Batch"]]
    BY <1>5 DEF SaveBatch
  <2>2. \A x \in Section \ {"Batch"} : saved'[x] = saved[x]
    BY <1>2, <1>5 DEF SaveBatch
  <2> QED
    BY <2>1, <2>2 DEF SectionSaved
<1>6. SaveRouters => RoutersSaved
  BY <1>2 DEF SaveRouters, RoutersSaved
<1> QED
  BY <1>1, <1>3, <1>4, <1>5, <1>6 DEF SaveSection

(* What is written of the sections without lists, and of the fields beside  *)
(* the list.                                                                *)
LEMMA WrittenFields ==
  ASSUME NEW o, {"Sonar", "Batch", "Proxy", "Logging"} \subseteq DOMAIN o
  PROVE  /\ DOMAIN Written(o) = DOMAIN o
         /\ \A s \in DOMAIN o \ {"Batch", "Proxy"} : Written(o)[s] = o[s]
         /\ \A f \in DOMAIN o["Batch"] \ {"Routers"} :
              f \in DOMAIN Written(o)["Batch"] /\ Written(o)["Batch"][f] = o["Batch"][f]
<1> DEFINE R == Elements(o["Batch"]["Routers"])
           b == [o["Batch"] EXCEPT !["Routers"] = R]
           p == [o EXCEPT !["Batch"] = b]
           q == [p["Proxy"] EXCEPT !["UpstreamServerIPs"] = Elements(p["Proxy"]["UpstreamServerIPs"])]
<1>1. Written(o) = [p EXCEPT !["Proxy"] = q]
  BY DEF Written
<1>2. \A f \in DOMAIN o["Batch"] \ {"Routers"} : f \in DOMAIN b /\ b[f] = o["Batch"][f]
  BY OtherField
<1> HIDE DEF b
<1>3. DOMAIN p = DOMAIN o /\ p["Batch"] = b /\ \A s \in DOMAIN o \ {"Batch"} : p[s] = o[s]
  OBVIOUS
<1> HIDE DEF p, q
<1>4. DOMAIN Written(o) = DOMAIN p /\ \A s \in DOMAIN p \ {"Proxy"} : Written(o)[s] = p[s]
  BY <1>1
<1> QED
  BY <1>2, <1>3, <1>4

------------------------------------------------------------------------------
(* The sections are there, and how to log. *)
Shaped(o) ==
  /\ {"Sonar", "Batch", "Proxy", "Logging"} \subseteq DOMAIN o
  /\ {"Mode", "Format", "Output"} \subseteq DOMAIN o["Logging"]

ShapedInv ==
  /\ file # Unreadable => Shaped(file)
  /\ phase = "configurator" => Shaped(config) /\ Shaped(form)
  /\ phase # "configurator" => config = Empty

LEMMA NewIsShaped == Shaped(programConfig) /\ Shaped(Empty)
<1>1. Shaped(programConfig)
  BY DEF Shaped, programConfig
<1>2. Shaped(Empty)
  BY DEF Shaped, programConfig, Empty
<1> QED
  BY <1>1, <1>2

LEMMA OneSectionShaped ==
  ASSUME NEW o, NEW s, NEW v, Shaped(o), s = "Logging" => {"Mode", "Format", "Output"} \subseteq DOMAIN v
  PROVE  Shaped([o EXCEPT ![s] = v])
<1> DEFINE p == [o EXCEPT ![s] = v]
<1>1. DOMAIN p = DOMAIN o /\ (s \in DOMAIN o => p[s] = v) /\ \A x \in DOMAIN o \ {s} : p[x] = o[x]
  OBVIOUS
<1> HIDE DEF p
<1>2. Shaped(p)
  BY <1>1 DEF Shaped
<1> QED
  BY <1>2 DEF p

LEMMA CutIsShaped == ASSUME NEW o, Shaped(o), NEW p \in CutOff(o) PROVE Shaped(p)
<1> DEFINE x == p["Logging"]
<1>1. DOMAIN p = DOMAIN o /\ (x = o["Logging"] \/ x = programConfig["Logging"] \/ x \in CutSection(o, "Logging"))
  BY CutOffSections DEF Shaped
<1>2. x \in CutSection(o, "Logging") => DOMAIN x = DOMAIN o["Logging"]
  BY CutSectionFields
<1> QED
  BY <1>1, <1>2, NewIsShaped DEF Shaped

LEMMA ShapedStep == ShapedInv /\ [Next]_vars => ShapedInv'
<1> SUFFICES ASSUME ShapedInv, [Next]_vars PROVE ShapedInv'
  OBVIOUS
<1>1. CASE Edit
  <2>1. phase = "configurator" /\ UNCHANGED <<programVars, config>> /\ Shaped(form)
    BY <1>1, EditOfForm DEF ShapedInv
  <2>2. CASE FieldTyped
    <3> PICK s \in DOMAIN Fields : \E f \in Fields[s] : \E v \in Input[s][f] :
            form' = [form EXCEPT ![s] = [form[s] EXCEPT ![f] = v]]
      BY <2>2 DEF FieldTyped
    <3> PICK f \in Fields[s] : \E v \in Input[s][f] : form' = [form EXCEPT ![s] = [form[s] EXCEPT ![f] = v]]
      OBVIOUS
    <3>1. PICK v \in Input[s][f] : form' = [form EXCEPT ![s] = [form[s] EXCEPT ![f] = v]]
      OBVIOUS
    <3> DEFINE w == [form[s] EXCEPT ![f] = v]
    <3>2. DOMAIN w = DOMAIN form[s] /\ (f \in DOMAIN form[s] => w[f] = v) /\ \A x \in DOMAIN form[s] \ {f} : w[x] = form[s][x]
      OBVIOUS
    <3> HIDE DEF w
    <3>3. s = "Logging" => {"Mode", "Format", "Output"} \subseteq DOMAIN w
      BY <2>1, <3>2 DEF Shaped
    <3>4. Shaped([form EXCEPT ![s] = w])
      BY <2>1, <3>3, OneSectionShaped
    <3> QED
      BY <2>1, <3>1, <3>4 DEF ShapedInv, programVars, w
  <2>3. CASE OtherSet
    <3>1. PICK s, v : s \notin {"Sonar", "Batch", "Logging"} /\ form' = [form EXCEPT ![s] = v]
      BY <2>3 DEF OtherSet
    <3>2. Shaped([form EXCEPT ![s] = v])
      BY <2>1, <3>1, OneSectionShaped
    <3> QED
      BY <2>1, <3>1, <3>2 DEF ShapedInv, programVars
  <2>4. CASE form' = form
    BY <2>1, <2>4 DEF ShapedInv, programVars
  <2> QED
    BY <1>1, <2>2, <2>3, <2>4, EditOfForm
<1>2. CASE SaveSection
  <2>1. phase = "configurator" /\ UNCHANGED <<programVars, form>> /\ Shaped(form) /\ Shaped(config)
    BY <1>2, SaveOfConfig DEF ShapedInv
  <2>2. CASE SectionSaved
    <3>1. PICK s \in {"OperationMode", "Sonar", "Batch", "Proxy", "Logging"} :
            config' = [config EXCEPT ![s] = form[s]]
      BY <2>2 DEF SectionSaved
    <3>2. Shaped([config EXCEPT ![s] = form[s]])
      <4>1. s = "Logging" => {"Mode", "Format", "Output"} \subseteq DOMAIN form[s]
        BY <2>1 DEF Shaped
      <4> QED
        BY <2>1, <4>1, OneSectionShaped
    <3> QED
      BY <2>1, <3>1, <3>2 DEF ShapedInv, programVars
  <2>3. CASE RoutersSaved
    <3>1. PICK v : config' = [config EXCEPT !["Batch"] = v]
      BY <2>3 DEF RoutersSaved
    <3>2. Shaped([config EXCEPT !["Batch"] = v])
      BY <2>1, OneSectionShaped
    <3> QED
      BY <2>1, <3>1, <3>2 DEF ShapedInv, programVars
  <2> QED
    BY <1>2, <2>2, <2>3, SaveOfConfig
<1>3. ASSUME NEW load \in BOOLEAN, NEW forms \in Usage, Configure(load, forms) PROVE ShapedInv'
  <2>1. /\ phase # "configurator" /\ file # Unreadable /\ file' = file /\ config' = config
        /\ form' = Forms(Loaded, tmpCfgRouters')
    BY <1>3 DEF Configure, Idle
  <2>2. Shaped(Loaded)
    BY <2>1, NewIsShaped DEF ShapedInv, Loaded
  <2>3. Shaped(Forms(Loaded, tmpCfgRouters'))
    BY <2>2 DEF Shaped, Forms, LoggingForm
  <2> QED
    BY <2>1, <2>3, NewIsShaped, <1>3 DEF ShapedInv, Configure
<1>4. CASE SaveAndQuit \/ SaveAndQuitFails \/ QuitWithoutSaving
  <2>1. phase = "configurator" /\ phase' # "configurator" /\ config' = Empty
    BY <1>4 DEF SaveAndQuit, SaveAndQuitFails, QuitWithoutSaving, Quit
  <2>2. file' = file \/ file' = Unreadable \/ file' = Written(config) \/ file' \in CutOff(Written(config))
    BY <1>4 DEF SaveAndQuit, SaveAndQuitFails, QuitWithoutSaving
  <2>3. Shaped(Written(config))
    <3>1. Shaped(config)
      BY <2>1 DEF ShapedInv
    <3>2. DOMAIN Written(config) = DOMAIN config /\ \A s \in {"Sonar", "Logging"} : Written(config)[s] = config[s]
      BY <3>1, WrittenFields DEF Shaped
    <3> QED
      BY <3>1, <3>2 DEF Shaped
  <2>4. file' # Unreadable => Shaped(file')
    BY <2>2, <2>3, CutIsShaped DEF ShapedInv
  <2> QED
    BY <2>1, <2>4 DEF ShapedInv
<1>5. ASSUME NEW flags \in Flags, Start(flags) PROVE ShapedInv'
  <2>1. phase # "configurator" /\ phase' \in Outcomes(Overridden(file, flags)) /\ file' = file /\ config' = config
    BY <1>5 DEF Start, Idle
  <2>2. phase' # "configurator"
    BY <2>1 DEF Outcomes
  <2> QED
    BY <2>1, <2>2 DEF ShapedInv
<1>6. CASE CannotRead \/ Stop \/ DispatchPanics
  BY <1>6 DEF CannotRead, Stop, DispatchPanics, Ended, Idle, ShapedInv
<1>7. CASE UNCHANGED vars
  BY <1>7 DEF vars, programVars, formVars, ShapedInv
<1> QED
  BY <1>1, <1>2, <1>3, <1>4, <1>5, <1>6, <1>7 DEF Next

LEMMA ShapedHolds == Spec => []ShapedInv
<1>1. ASSUME Init PROVE ShapedInv
  <2>1. file \in Given /\ phase = "exited" /\ config = Empty
    BY <1>1 DEF Init
  <2>2. ASSUME file # Unreadable PROVE Shaped(file)
    <3>1. DOMAIN file = DOMAIN programConfig
      BY <2>1, <2>2, GivenOK
    <3>2. DOMAIN file["Logging"] = DOMAIN programConfig["Logging"]
      BY <2>1, <2>2, GivenOK
    <3> QED
      BY <3>1, <3>2, NewIsShaped DEF Shaped
  <2> QED
    BY <2>1, <2>2 DEF ShapedInv
<1> QED
  BY <1>1, ShapedStep, PTL DEF Spec

------------------------------------------------------------------------------
(* Of section x, whatever the operator has not changed is as in options o.  *)
AsIn(x, s, o, changed) ==
  \A f \in DOMAIN o[s] \ {"IsTLSEnabled", "Routers"} :
    \/ <<s, f>> \in changed
    \/ f = "Version" /\ o.Sonar.Version \notin 1 .. 2
    \/ f \in DOMAIN x /\ x[f] = o[s][f]

LogLeft == \A f \in Fields["Logging"] : <<"Logging", f>> \notin typed

(* The forms of a session that loads the file hold what it holds, and what  *)
(* was saved of them does.                                                  *)
LoadedInv ==
  phase = "configurator" /\ loadYaml =>
    /\ file # Unreadable
    /\ \A s \in {"Sonar", "Batch"} :
         AsIn(form[s], s, file, typed) /\ (saved[s] # {} => AsIn(config[s], s, file, typed))
    /\ LogLeft =>
         /\ form["Logging"] = LoggingForm(file)
         /\ saved["Logging"] # {} => config["Logging"] = LoggingForm(file)

LEMMA AsInStays ==
  ASSUME NEW x, NEW y, NEW s, NEW o, NEW T, NEW U, AsIn(x, s, o, T), T \subseteq U,
         \A f \in DOMAIN x \ {"IsTLSEnabled", "Routers"} : <<s, f>> \in U \/ (f \in DOMAIN y /\ y[f] = x[f])
  PROVE  AsIn(y, s, o, U)
BY DEF AsIn

LEMMA LoadedEdit == ASSUME ShapedInv, LoadedInv, Edit PROVE LoadedInv'
<1>1. phase = "configurator" /\ UNCHANGED <<programVars, config, saved>> /\ Shaped(form)
  BY EditOfForm DEF ShapedInv
<1>2. phase' = "configurator" /\ UNCHANGED <<file, loadYaml, config, saved>>
  BY <1>1 DEF programVars
<1> SUFFICES ASSUME loadYaml PROVE LoadedInv'
  BY <1>2 DEF LoadedInv
<1>3. /\ file # Unreadable
      /\ \A s \in {"Sonar", "Batch"} :
           AsIn(form[s], s, file, typed) /\ (saved[s] # {} => AsIn(config[s], s, file, typed))
      /\ LogLeft =>
           /\ form["Logging"] = LoggingForm(file)
           /\ saved["Logging"] # {} => config["Logging"] = LoggingForm(file)
  BY <1>1 DEF LoadedInv
<1>4. typed \subseteq typed'
  BY EditOfForm DEF FieldTyped, OtherSet
<1>5. ASSUME NEW s \in {"Sonar", "Batch"} PROVE saved[s] # {} => AsIn(config[s], s, file, typed')
  BY <1>3, <1>4, AsInStays
<1>6. ASSUME typed' = typed, \A s \in {"Sonar", "Batch", "Logging"} : form'[s] = form[s] PROVE LoadedInv'
  <2>1. LogLeft' => LogLeft
    BY <1>6 DEF LogLeft
  <2>2. \A s \in {"Sonar", "Batch"} : AsIn(form'[s], s, file, typed')
    BY <1>3, <1>6
  <2> QED
    BY <1>2, <1>3, <1>5, <1>6, <2>1, <2>2 DEF LoadedInv
<1>7. CASE OtherSet
  <2>1. PICK k, v : k \notin {"Sonar", "Batch", "Logging"} /\ form' = [form EXCEPT ![k] = v] /\ typed' = typed
    BY <1>7 DEF OtherSet
  <2>2. \A s \in {"Sonar", "Batch", "Logging"} : form'[s] = form[s]
    BY <1>1, <2>1 DEF Shaped
  <2> QED
    BY <1>6, <2>1, <2>2
<1>8. CASE FieldTyped
  <2> PICK k \in DOMAIN Fields : \E f \in Fields[k] : \E v \in Input[k][f] :
        form' = [form EXCEPT ![k] = [form[k] EXCEPT ![f] = v]] /\ typed' = typed \cup {<<k, f>>}
    BY <1>8 DEF FieldTyped
  <2> PICK g \in Fields[k] : \E v \in Input[k][g] :
        form' = [form EXCEPT ![k] = [form[k] EXCEPT ![g] = v]] /\ typed' = typed \cup {<<k, g>>}
    OBVIOUS
  <2> PICK v \in Input[k][g] :
        form' = [form EXCEPT ![k] = [form[k] EXCEPT ![g] = v]] /\ typed' = typed \cup {<<k, g>>}
    OBVIOUS
  <2> DEFINE w == [form[k] EXCEPT ![g] = v]
  <2>1. \A f \in DOMAIN form[k] \ {g} : f \in DOMAIN w /\ w[f] = form[k][f]
    OBVIOUS
  <2>2. form' = [form EXCEPT ![k] = w] /\ <<k, g>> \in typed'
    OBVIOUS
  <2> HIDE DEF w
  <2>3. \A s \in {"Sonar", "Batch", "Logging"} : IF s = k THEN form'[s] = w ELSE form'[s] = form[s]
    BY <1>1, <2>2 DEF Shaped
  <2>4. ASSUME NEW s \in {"Sonar", "Batch"} PROVE AsIn(form'[s], s, file, typed')
    <3>1. \A f \in DOMAIN form[s] : <<s, f>> \in typed' \/ (f \in DOMAIN form'[s] /\ form'[s][f] = form[s][f])
      BY <2>1, <2>2, <2>3
    <3> QED
      BY <1>3, <1>4, <3>1, AsInStays
  <2>5. LogLeft' => k # "Logging" /\ LogLeft
    BY <1>4, <2>2 DEF LogLeft
  <2>6. LogLeft' => form'["Logging"] = form["Logging"]
    BY <2>3, <2>5
  <2> QED
    BY <1>2, <1>3, <1>5, <2>4, <2>5, <2>6, <1>1 DEF LoadedInv
<1> QED
  BY <1>6, <1>7, <1>8, EditOfForm

LEMMA LoadedSave == ASSUME ShapedInv, LoadedInv, SaveSection PROVE LoadedInv'
<1>1. phase = "configurator" /\ UNCHANGED <<programVars, form, typed>> /\ Shaped(form) /\ Shaped(config)
  BY SaveOfConfig DEF ShapedInv
<1>2. phase' = "configurator" /\ UNCHANGED <<file, loadYaml, form, typed>>
  BY <1>1 DEF programVars
<1> SUFFICES ASSUME loadYaml PROVE LoadedInv'
  BY <1>2 DEF LoadedInv
<1>3. /\ file # Unreadable
      /\ \A s \in {"Sonar", "Batch"} :
           AsIn(form[s], s, file, typed) /\ (saved[s] # {} => AsIn(config[s], s, file, typed))
      /\ LogLeft => form["Logging"] = LoggingForm(file)
      /\ LogLeft /\ saved["Logging"] # {} => config["Logging"] = LoggingForm(file)
  BY <1>1 DEF LoadedInv
<1>4. ASSUME \A s \in {"Sonar", "Batch", "Logging"} :
               \/ config'[s] = form[s]
               \/ config'[s] = config[s] /\ saved'[s] = saved[s]
      PROVE  LoadedInv'
  <2>1. \A s \in {"Sonar", "Batch"} : saved'[s] # {} => AsIn(config'[s], s, file, typed)
    BY <1>3, <1>4
  <2>2. LogLeft /\ saved'["Logging"] # {} => config'["Logging"] = LoggingForm(file)
    BY <1>3, <1>4
  <2> QED
    BY <1>2, <1>3, <2>1, <2>2 DEF LoadedInv, LogLeft
<1>5. ASSUME SectionSaved PROVE LoadedInv'
  <2>1. PICK k \in {"OperationMode", "Sonar", "Batch", "Proxy", "Logging"} :
          /\ config' = [config EXCEPT ![k] = form[k]]
          /\ \A x \in Section \ {k, "Routers", "UpstreamServerIPs"} : saved'[x] = saved[x]
    BY <1>5 DEF SectionSaved
  <2>2. \A s \in {"Sonar", "Batch", "Logging"} : IF s = k THEN config'[s] = form[s] ELSE config'[s] = config[s]
    BY <1>1, <2>1 DEF Shaped
  <2>3. \A s \in {"Sonar", "Batch", "Logging"} : s # k => saved'[s] = saved[s]
    BY <2>1 DEF Section
  <2> QED
    BY <1>4, <2>2, <2>3
<1>6. ASSUME RoutersSaved PROVE LoadedInv'
  <2> DEFINE b == [config["Batch"] EXCEPT !["Routers"] = tmpCfgRouters]
  <2>1. \A s \in {"Sonar", "Batch", "Logging"} : saved'[s] = saved[s]
    BY <1>6 DEF RoutersSaved, Section
  <2>2. \A f \in DOMAIN config["Batch"] \ {"Routers"} : f \in DOMAIN b /\ b[f] = config["Batch"][f]
    OBVIOUS
  <2>3. config' = [config EXCEPT !["Batch"] = b]
    BY <1>6 DEF RoutersSaved
  <2> HIDE DEF b
  <2>4. config'["Batch"] = b /\ config'["Sonar"] = config["Sonar"] /\ config'["Logging"] = config["Logging"]
    BY <1>1, <2>3 DEF Shaped
  <2>5. saved["Batch"] # {} => AsIn(b, "Batch", file, typed)
    BY <1>3, <2>2, AsInStays
  <2>6. \A s \in {"Sonar", "Batch"} : saved'[s] # {} => AsIn(config'[s], s, file, typed)
    BY <1>3, <2>1, <2>4, <2>5
  <2> QED
    BY <1>2, <1>3, <2>1, <2>4, <2>6 DEF LoadedInv, LogLeft
<1> QED
  BY <1>5, <1>6, SaveOfConfig

LEMMA LoadedConfigure ==
  ASSUME ShapedInv, NEW load \in BOOLEAN, NEW forms, Configure(load, forms) PROVE LoadedInv'
<1>1. /\ file # Unreadable /\ file' = file /\ loadYaml' = load
      /\ form' = Forms(Loaded, tmpCfgRouters')
      /\ saved' = NothingSaved
  BY DEF Configure, Forget
<1> SUFFICES ASSUME load PROVE LoadedInv'
  BY <1>1 DEF LoadedInv
<1>2. form' = Forms(file, tmpCfgRouters') /\ loadYaml'
  BY <1>1 DEF Loaded
<1>3. Shaped(file)
  BY <1>1 DEF ShapedInv
<1>4. AsIn(form'["Sonar"], "Sonar", file, typed')
  <2> DEFINE v == IF file["Sonar"]["Version"] = 1 THEN 1 ELSE 2
  <2>1. form'["Sonar"] = [file["Sonar"] EXCEPT !["Version"] = v]
    BY <1>2 DEF Forms
  <2>2. file["Sonar"]["Version"] \in 1 .. 2 => v = file["Sonar"]["Version"]
    OBVIOUS
  <2> HIDE DEF v
  <2> QED
    BY <2>1, <2>2 DEF AsIn
<1>5. AsIn(form'["Batch"], "Batch", file, typed')
  <2>1. PICK x, y : form'["Batch"] = [[file["Batch"] EXCEPT !["IsTLSEnabled"] = x] EXCEPT !["Routers"] = y]
    BY <1>2 DEF Forms
  <2> QED
    BY <2>1 DEF AsIn
<1>6. form'["Logging"] = LoggingForm(file)
  BY <1>2 DEF Forms
<1>7. \A s \in {"Sonar", "Batch", "Logging"} : saved'[s] = {}
  BY <1>1 DEF NothingSaved, Section
<1> QED
  BY <1>1, <1>4, <1>5, <1>6, <1>7 DEF LoadedInv

LEMMA LoadedStep == ASSUME ShapedInv, LoadedInv, [Next]_vars PROVE LoadedInv'
<1>1. CASE phase' # "configurator"
  BY <1>1 DEF LoadedInv
<1>2. ASSUME NEW load \in BOOLEAN, NEW forms \in Usage, Configure(load, forms) PROVE LoadedInv'
  BY <1>2, LoadedConfigure
<1>3. SaveAndQuit \/ SaveAndQuitFails \/ QuitWithoutSaving \/ CannotRead \/ Stop \/ DispatchPanics => phase' # "configurator"
  BY DEF SaveAndQuit, SaveAndQuitFails, QuitWithoutSaving, Quit, CannotRead, Stop, DispatchPanics, Ended
<1>4. ASSUME NEW flags, Start(flags) PROVE phase' # "configurator"
  BY <1>4 DEF Start, Outcomes
<1>5. CASE UNCHANGED vars
  BY <1>5 DEF vars, programVars, formVars, historyVars, LoadedInv, LogLeft
<1> QED
  BY <1>1, <1>2, <1>3, <1>4, <1>5, LoadedEdit, LoadedSave DEF Next

(* How a program logs is not changed by a form that offers what it loaded.  *)
LEMMA SameLogs ==
  ASSUME NEW o, NEW p, Shaped(o), Offered(o), p["Logging"] = LoggingForm(o) PROVE Logs(p) = Logs(o)
<1> DEFINE l == o["Logging"]
           m == IF Lower(l["Mode"]) \in {"debug", "info", "warn"} THEN Lower(l["Mode"]) ELSE "debug"
           f == IF Lower(l["Format"]) = "text" THEN "text" ELSE "json"
<1>1. p["Logging"] = [[l EXCEPT !["Mode"] = m] EXCEPT !["Format"] = f]
  BY DEF LoggingForm
<1>2. Lower(m) = Lower(l["Mode"]) /\ Lower(f) = Lower(l["Format"])
  BY TextsOK DEF Offered
<1>3. {"Mode", "Format", "Output"} \subseteq DOMAIN l
  BY DEF Shaped
<1> HIDE DEF m, f, l
<1>4. p["Logging"]["Mode"] = m /\ p["Logging"]["Format"] = f /\ p["Logging"]["Output"] = l["Output"]
  BY <1>1, <1>3
<1> QED
  BY <1>2, <1>4 DEF Logs, LogLevel, LogFormat, LogFile, l

(* What an operator loads, leaves alone and saves again is in the file as   *)
(* before, whatever is typed into other fields and saved in between, and    *)
(* for any file: the settings of Sonar and of the batch endpoint, and how   *)
(* the program logs (configurator.go:146-195, 600-640).                     *)
THEOREM LoadedSurvivesHolds == Spec => LoadedSurvives
<1> DEFINE A == SaveAndQuit /\ loadYaml =>
      /\ \A s \in {"Sonar", "Batch"} : \A f \in DOMAIN file[s] \ {"IsTLSEnabled", "Routers"} :
           \/ saved[s] = {}
           \/ <<s, f>> \in typed
           \/ f = "Version" /\ file.Sonar.Version \notin 1 .. 2
           \/ file'[s][f] = file[s][f]
      /\ Alone("Logging") /\ Offered(file) => Logs(file') = Logs(file)
<1>1. Init => LoadedInv
  BY DEF Init, LoadedInv
<1>2. Spec => []LoadedInv
  BY <1>1, LoadedStep, ShapedHolds, PTL DEF Spec
<1>3. ASSUME ShapedInv, LoadedInv PROVE A
  <2> SUFFICES ASSUME SaveAndQuit, loadYaml PROVE A
    OBVIOUS
  <2>1. phase = "configurator" /\ file' = Written(config)
    BY DEF SaveAndQuit, Quit
  <2>2. Shaped(config) /\ file # Unreadable /\ Shaped(file)
    BY <1>3, <2>1 DEF ShapedInv, LoadedInv
  <2>3. /\ \A s \in {"Sonar", "Logging"} : file'[s] = config[s]
        /\ \A f \in DOMAIN config["Batch"] \ {"Routers"} : file'["Batch"][f] = config["Batch"][f]
    BY <2>1, <2>2, WrittenFields DEF Shaped
  <2>4. ASSUME NEW s \in {"Sonar", "Batch"}, NEW f \in DOMAIN file[s] \ {"IsTLSEnabled", "Routers"},
               saved[s] # {}, <<s, f>> \notin typed,
               ~(f = "Version" /\ file.Sonar.Version \notin 1 .. 2)
        PROVE  file'[s][f] = file[s][f]
    <3>1. AsIn(config[s], s, file, typed)
      BY <1>3, <2>1, <2>4 DEF LoadedInv
    <3>2. f \in DOMAIN config[s] /\ config[s][f] = file[s][f]
      BY <2>4, <3>1 DEF AsIn
    <3> QED
      BY <2>3, <2>4, <3>2
  <2>5. ASSUME Alone("Logging"), Offered(file) PROVE Logs(file') = Logs(file)
    <3>1. config["Logging"] = LoggingForm(file)
      BY <1>3, <2>1, <2>5 DEF Alone, LoadedInv, LogLeft
    <3> QED
      BY <2>2, <2>3, <2>5, <3>1, SameLogs
  <2> QED
    BY <2>4, <2>5
<1>4. Spec => [][A]_vars
  BY <1>2, <1>3, ShapedHolds, PTL DEF Spec
<1> QED
  BY <1>4 DEF LoadedSurvives
=============================================================================
