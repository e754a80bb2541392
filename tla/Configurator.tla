----------------------------- MODULE Configurator -----------------------------
(***************************************************************************)
(* ./conf/proxybatcher.yaml and the processes that read it: configurator   *)
(* sessions, in which an operator fills in forms, and starts of the        *)
(* batcher, which use what the last session left.                          *)
(*                                                                         *)
(* Every form edits a copy of its own of a section of the options; its     *)
(* SAVE copies that into config, and SAVE AND QUIT writes config.  The two *)
(* lists in the options are slices, so copies of a section share an array; *)
(* heap has the arrays, as long as their capacity.                         *)
(*                                                                         *)
(* The text interface's widgets are external: setting a drop-down calls    *)
(* its function, setting the text of a field that has none yet does not.   *)
(* A field is filled in at once, letters are not typed.                    *)
(***************************************************************************)
EXTENDS Configuration, FiniteSets

CONSTANTS
  Given,       \* what the file may hold before the first process
  Flags,       \* the logging flags of a start
  Interfaces,  \* getSystemInterfaces(), a sequence
  Addresses,   \* getSystemIPAddresses(), a sequence
  Input,       \* Input[s][f]: what the operator may choose for field f of form s
  Router,      \* what the fields of the router form may hold
  Server,      \* what the field for a DHCP server may hold
  Usage,       \* bound: the forms that one session may change
  MaxRows,     \* bound: rows of a list to which an operator still adds
  MaxSessions, \* bound: configurator sessions
  Unreadable,  \* the file cannot be opened or unmarshalled
  None         \* no options loaded

ASSUME SystemOK == Interfaces # <<>> /\ Addresses # <<>>
ASSUME RoutersOK == \A r \in Router : DOMAIN r = DOMAIN batchRouterAuth

(* Routers with nothing left out. *)
Filled(r) == "" \notin {r[f] : f \in DOMAIN r}
WholeRouter == {r \in Router : Filled(r)}

ASSUME GivenOK == \A o \in Given \ {Unreadable} :
  /\ DOMAIN o = DOMAIN programConfig
  /\ \A s \in {"Sonar", "Batch", "Proxy", "Logging"} : DOMAIN o[s] = DOMAIN programConfig[s]
  /\ o.Batch.Routers \in Seq(WholeRouter)

VARIABLES
  file,          \* the options in ./conf/proxybatcher.yaml
  phase,         \* what the process is, or how the last one ended
  options,       \* the options of a running batcher or proxy
  sessions,      \* configurator sessions so far
  scratch,       \* the file goes back to a session without --loadyaml
  torn,          \* half routers that writes which broke off have left
  loadYaml,      \* the session loads the file
  using,         \* the forms it changes
  config,        \* what SAVE AND QUIT will write
  form,          \* the forms' own copies, and the IP field of the batch form
  tmpCfgRouters, \* the slice of the router form
  heap,          \* the arrays behind slices
  shown,         \* the rows of the two tables
  typed,         \* the fields changed by the operator
  saved,         \* saved[s]: {what section s was when last saved}, {} before
  loose          \* lists that may have changed after that without a SAVE

formVars == <<form, tmpCfgRouters, heap, shown>>
historyVars == <<typed, saved, loose>>
programVars == <<file, phase, options, sessions, scratch, torn, loadYaml, using>>
vars == <<programVars, config, formVars, historyVars>>

------------------------------------------------------------------------------
(* Slices: an array and how much of it. *)
Nil == [array |-> 0, len |-> 0]
Slice(a, n) == [array |-> a, len |-> n]
Elements(s) == IF s = Nil THEN <<>> ELSE SubSeq(heap[s.array], 1, s.len)
Cap(s) == IF s = Nil THEN 0 ELSE Len(heap[s.array])

(* append: in place as long as there is room, else in an array of twice the *)
(* size.                                                                    *)
HasRoom(s) == s.len < Cap(s)

(* A bug: the room is not looked at. *)
AppendedInPlace(s) == Slice(s.array, s.len + 1)

AppendedTo(s) == IF HasRoom(s) THEN Slice(s.array, s.len + 1) ELSE Slice(Len(heap) + 1, s.len + 1)

HeapAppend(s, x, zero) ==
  IF HasRoom(s)
  THEN [heap EXCEPT ![s.array][s.len + 1] = x]
  ELSE Append(heap, Elements(s) \o <<x>> \o [i \in 1 .. Cap(s) - 1 |-> zero])

(* copy(s[i:], s[i+1:]), the last element erased, and the slice one shorter *)
RemovedFrom(s) == Slice(s.array, s.len - 1)

HeapRemove(s, i, zero) ==
  [heap EXCEPT ![s.array] =
     RemoveAt(Elements(s), i) \o <<zero>> \o SubSeq(heap[s.array], s.len + 1, Cap(s))]

(* What yaml.Marshal makes of the options. *)
Written(o) ==
  [o EXCEPT !.Batch.Routers = Elements(@), !.Proxy.UpstreamServerIPs = Elements(@)]

(* A file that breaks off and still is YAML: what is before the break is    *)
(* read, the rest is as in programConfig{}.  The order is that of the types *)
(* of the options.                                                          *)
FieldOrder == [
  File |-> <<"OperationMode", "Sonar", "Batch", "Proxy", "Logging">>,
  Sonar |-> <<"Version", "ApiUsername", "ApiKey", "InstanceName", "BearerToken">>,
  Batch |-> <<"IsTLSEnabled", "TlsKey", "TlsCert", "EndpointUsername", "EndpointPassword", "ServerIP",
              "HttpServerPort", "TlsServerPort", "SchedulerCycleTime", "Routers">>,
  Proxy |-> <<"UpstreamInterface", "DownstreamInterface", "UpstreamServerIPs", "ProxyServerIP">>,
  Logging |-> <<"Mode", "Format", "Output">>,
  Router |-> <<"Username", "Password", "RouterIP">>]

(* The break is at the i-th field, of which v is read. *)
BrokenAt(r, order, i, v, zero) ==
  [f \in DOMAIN r |-> CASE f = order[i] -> v
                        [] f \in ToSet(SubSeq(order, 1, i - 1)) -> r[f]
                        [] OTHER -> zero[f]]

CutRecord(r, order, zero, cut) ==
  UNION {{BrokenAt(r, order, i, v, zero) : v \in cut[order[i]] \cup {zero[order[i]]}} : i \in DOMAIN order}

CutList(l, cut) ==
  {SubSeq(l, 1, i) : i \in 0 .. Len(l)}
    \cup UNION {{Append(SubSeq(l, 1, i - 1), x) : x \in cut[i]} : i \in DOMAIN l}

CutRouter(r) ==
  CutRecord(r, FieldOrder.Router, batchRouterAuth, [f \in DOMAIN r |-> CutShort(r[f])])

CutField(f, x) ==
  CASE f = "Routers" -> CutList(x, [i \in DOMAIN x |-> CutRouter(x[i])])
    [] f = "UpstreamServerIPs" -> CutList(x, [i \in DOMAIN x |-> CutShort(x[i]) \cup {""}])
    [] f \in {"Version", "SchedulerCycleTime"} -> CutNumber(x)
    [] f = "IsTLSEnabled" -> {}
    [] OTHER -> CutShort(x)

CutSection(o, s) ==
  IF s = "OperationMode"
  THEN CutShort(o.OperationMode)
  ELSE CutRecord(o[s], FieldOrder[s], programConfig[s], [f \in DOMAIN o[s] |-> CutField(f, o[s][f])])

CutOff(o) ==
  CutRecord(o, FieldOrder.File, programConfig, [s \in DOMAIN o |-> CutSection(o, s)])

(* Half a router can only be the last. *)
HalfAtTheEnd(o) ==
  IF o = Unreadable \/ o.Batch.Routers = <<>> THEN {} ELSE {Last(o.Batch.Routers)} \ WholeRouter

------------------------------------------------------------------------------
Idle == phase \notin {"configurator", "batch", "proxy"}
Empty == [programConfig EXCEPT !.Batch.Routers = Nil, !.Proxy.UpstreamServerIPs = Nil]
NoTables == [Routers |-> <<>>, UpstreamServerIPs |-> <<>>]

Section == {"OperationMode", "Sonar", "Batch", "Routers", "Proxy", "UpstreamServerIPs", "Logging"}
NothingSaved == [s \in Section |-> {}]
Forget == saved' = NothingSaved /\ loose' = {}

Init ==
  /\ file \in Given
  /\ phase = "exited"
  /\ options = None
  /\ sessions = 0
  /\ scratch = FALSE
  /\ torn = {}
  /\ loadYaml = FALSE
  /\ using = {}
  /\ config = Empty
  /\ form = Empty
  /\ tmpCfgRouters = Nil
  /\ heap = <<>>
  /\ shown = NoTables
  /\ typed = {}
  /\ saved = NothingSaved
  /\ loose = {}

------------------------------------------------------------------------------
(* The drop-downs are set to what was loaded, and their functions store     *)
(* what they are set to: an entry that the list does not have becomes its   *)
(* first, and the entries of the one for TLS are the other way round.       *)
Choice(list, x) == IF x \in ToSet(list) THEN x ELSE list[1]

(* A bug: the modes of a loaded file are compared letter by letter. *)
LoggingFormExact(o) ==
  [o.Logging EXCEPT
     !.Mode = IF @ \in {"debug", "info", "warn"} THEN @ ELSE "debug",
     !.Format = IF @ = "text" THEN @ ELSE "json"]

LoggingForm(o) ==
  [o.Logging EXCEPT
     !.Mode = IF Lower(@) \in {"debug", "info", "warn"} THEN Lower(@) ELSE "debug",
     !.Format = IF Lower(@) = "text" THEN "text" ELSE "json"]

(* o is what was loaded, or nothing; routers is its list as a slice. *)
Forms(o, routers) == [
  OperationMode |-> IF ~loadYaml' \/ o.OperationMode = "batch" THEN "batch" ELSE "proxy",
  Sonar |-> [o.Sonar EXCEPT !.Version = IF ~loadYaml' \/ @ = 1 THEN 1 ELSE 2],
  Batch |-> [o.Batch EXCEPT !.IsTLSEnabled = ~@, !.Routers = routers],
  ServerIP |-> IF loadYaml' THEN o.Batch.ServerIP ELSE "127.0.0.1",
  Proxy |-> [UpstreamInterface |-> Choice(Interfaces, o.Proxy.UpstreamInterface),
             DownstreamInterface |-> Choice(Interfaces, o.Proxy.DownstreamInterface),
             ProxyServerIP |-> Choice(Addresses, o.Proxy.ProxyServerIP),
             UpstreamServerIPs |-> Nil],
  Logging |-> LoggingForm(o)]

(* What the forms are filled from. *)
Loaded == IF loadYaml' THEN file ELSE programConfig

Configure(load, forms) ==
  /\ Idle
  /\ file # Unreadable
  /\ sessions < MaxSessions
  /\ sessions' = sessions + 1
  /\ phase' = "configurator"
  /\ loadYaml' = load
  /\ using' = forms
  /\ heap' = IF load THEN <<Loaded.Batch.Routers>> ELSE <<>>
  /\ tmpCfgRouters' = IF load THEN Slice(1, Len(Loaded.Batch.Routers)) ELSE Nil
  /\ form' = Forms(Loaded, tmpCfgRouters')
  /\ shown' = [Routers |-> Loaded.Batch.Routers,
               UpstreamServerIPs |->
                 IF load THEN SelectSeq(Loaded.Proxy.UpstreamServerIPs, IsAddress) ELSE <<>>]
  /\ Forget
  /\ UNCHANGED <<file, options, scratch, torn, config, typed>>

------------------------------------------------------------------------------
In(s) == phase = "configurator" /\ s \in using

(* The fields that have a function of their own, which stores a new value.  *)
Fields == [
  Sonar |-> {"Version", "ApiUsername", "ApiKey", "InstanceName", "BearerToken"},
  Batch |-> {"IsTLSEnabled", "TlsKey", "TlsCert", "HttpServerPort", "TlsServerPort", "SchedulerCycleTime"},
  Proxy |-> {"UpstreamInterface", "DownstreamInterface", "ProxyServerIP"},
  Logging |-> {"Mode", "Format", "Output"}]

Type(s) ==
  /\ In(s)
  /\ \E f \in Fields[s] : \E v \in Input[s][f] :
       /\ v # form[s][f]
       /\ form' = [form EXCEPT ![s][f] = v]
       /\ typed' = typed \cup {<<s, f>>}
  /\ UNCHANGED <<programVars, config, tmpCfgRouters, heap, shown, saved, loose>>

(* The drop-down of the mode and the IP field of the batch form have none.  *)
Show(s, f) ==
  /\ In(s)
  /\ \E v \in Input[s][f] : v # form[f] /\ form' = [form EXCEPT ![f] = v]
  /\ UNCHANGED <<programVars, config, tmpCfgRouters, heap, shown, historyVars>>

(* A bug: a router without a password is taken. *)
CompleteWithout(r) == r.Username # "" /\ IsAddress(r.RouterIP)

(* What ADD ROUTER takes: all three fields, and an address. *)
Complete(r) == r.Username # "" /\ r.Password # "" /\ IsAddress(r.RouterIP)

AddRouter(r) ==
  /\ In("Routers")
  /\ Complete(r)
  /\ tmpCfgRouters.len < MaxRows
  /\ tmpCfgRouters' = AppendedTo(tmpCfgRouters)
  /\ heap' = HeapAppend(tmpCfgRouters, r, batchRouterAuth)
  /\ shown' = [shown EXCEPT !.Routers = Append(Elements(tmpCfgRouters), r)]
  /\ UNCHANGED <<programVars, config, form, historyVars>>

(* A bug: the number of the row is taken for the index, which starts at 0. *)
MatchBeside(row) == row - 1

(* The last router with the address of the row, 0 if there is none. *)
Match(row) ==
  SelectLastInSeq(Elements(tmpCfgRouters), LAMBDA r : r.RouterIP = shown.Routers[row].RouterIP)

(* The operator picks a row of the table.  What SAVE gave to config before  *)
(* changes with the array.                                                  *)
RemoveRouter(row) ==
  /\ In("Routers")
  /\ row \in DOMAIN shown.Routers
  /\ IF Match(row) = 0
     THEN UNCHANGED <<tmpCfgRouters, heap>>
     ELSE /\ tmpCfgRouters' = RemovedFrom(tmpCfgRouters)
          /\ heap' = HeapRemove(tmpCfgRouters, Match(row), batchRouterAuth)
  /\ shown' = [shown EXCEPT !.Routers = RemoveAt(@, row)]
  /\ loose' = loose \cup {"Routers"}
  /\ UNCHANGED <<programVars, config, form, typed, saved>>

Upstream == form.Proxy.UpstreamServerIPs
Listed(ip) == ip \in ToSet(Elements(Upstream))

(* A bug: the new row is put below the ones there are. *)
RowsWithOneMore(ip) == IF Listed(ip) THEN shown.UpstreamServerIPs ELSE Append(shown.UpstreamServerIPs, ip)

(* The table is drawn anew from the form's list, which is not loaded.       *)
RowsAfter(ip) == IF Listed(ip) THEN Elements(Upstream) ELSE Append(Elements(Upstream), ip)

AddServer(ip) ==
  /\ In("Proxy")
  /\ IsAddress(ip)
  /\ Upstream.len < MaxRows
  /\ IF Listed(ip)
     THEN UNCHANGED <<form, heap>>
     ELSE /\ form' = [form EXCEPT !.Proxy.UpstreamServerIPs = AppendedTo(@)]
          /\ heap' = HeapAppend(Upstream, ip, "")
  /\ shown' = [shown EXCEPT !.UpstreamServerIPs = RowsAfter(ip)]
  /\ UNCHANGED <<programVars, config, tmpCfgRouters, historyVars>>

RemoveServer(row) ==
  /\ In("Proxy")
  /\ row \in DOMAIN shown.UpstreamServerIPs
  /\ LET i == SelectLastInSeq(Elements(Upstream), LAMBDA ip : ip = shown.UpstreamServerIPs[row]) IN
     IF i = 0
     THEN UNCHANGED <<form, heap>>
     ELSE /\ form' = [form EXCEPT !.Proxy.UpstreamServerIPs = RemovedFrom(@)]
          /\ heap' = HeapRemove(Upstream, i, "")
  /\ shown' = [shown EXCEPT !.UpstreamServerIPs = RemoveAt(@, row)]
  /\ loose' = loose \cup {"UpstreamServerIPs"}
  /\ UNCHANGED <<programVars, config, tmpCfgRouters, typed, saved>>

------------------------------------------------------------------------------
(* The options by what is saved together; the two lists for themselves.     *)
Part(o, s) ==
  CASE s = "Batch" -> [o.Batch EXCEPT !.Routers = <<>>]
    [] s = "Routers" -> o.Batch.Routers
    [] s = "Proxy" -> [o.Proxy EXCEPT !.UpstreamServerIPs = <<>>]
    [] s = "UpstreamServerIPs" -> o.Proxy.UpstreamServerIPs
    [] OTHER -> o[s]

Remember(S) ==
  saved' = [s \in Section |-> IF s \in S THEN {Part(Written(config'), s)} ELSE saved[s]]

Save(s) ==
  /\ In(s)
  /\ config' = [config EXCEPT ![s] = form[s]]
  /\ Remember({s})
  /\ UNCHANGED <<programVars, formVars, typed, loose>>

SaveProxy ==
  /\ In("Proxy")
  /\ config' = [config EXCEPT !.Proxy = form.Proxy]
  /\ Remember({"Proxy", "UpstreamServerIPs"})
  /\ loose' = loose \ {"UpstreamServerIPs"}
  /\ UNCHANGED <<programVars, formVars, typed>>

(* The IP is looked at and not stored, and the form's list of routers,      *)
(* loaded or empty, takes the place of the one that was saved.              *)
SaveBatch ==
  /\ In("Batch")
  /\ IsAddress(form.ServerIP)
  /\ config' = [config EXCEPT !.Batch = form.Batch]
  /\ Remember({"Batch"})
  /\ loose' = loose \cup {"Routers"}
  /\ UNCHANGED <<programVars, formVars, typed>>

(* A bug: the list goes to the batch form, which has it saved.              *)
SaveRoutersToForm ==
  /\ In("Routers")
  /\ form' = [form EXCEPT !.Batch.Routers = tmpCfgRouters]
  /\ config' = config
  /\ saved' = [saved EXCEPT !["Routers"] = {Elements(tmpCfgRouters)}]
  /\ loose' = loose \ {"Routers"}
  /\ UNCHANGED <<programVars, tmpCfgRouters, heap, shown, typed>>

SaveRouters ==
  /\ In("Routers")
  /\ config' = [config EXCEPT !.Batch.Routers = tmpCfgRouters]
  /\ Remember({"Routers"})
  /\ loose' = loose \ {"Routers"}
  /\ UNCHANGED <<programVars, formVars, typed>>

(* The process ends, and its memory with it.                                *)
Quit(how) ==
  /\ phase = "configurator"
  /\ phase' = how
  /\ loadYaml' = FALSE
  /\ using' = {}
  /\ config' = Empty
  /\ form' = Empty
  /\ tmpCfgRouters' = Nil
  /\ heap' = <<>>
  /\ shown' = NoTables
  /\ typed' = {}
  /\ UNCHANGED <<options, sessions>>

(* What was saved is remembered until the next process.                     *)
SaveAndQuit ==
  /\ Quit("written")
  /\ file' = Written(config)
  /\ scratch' = (scratch \/ ~loadYaml)
  /\ UNCHANGED <<torn, saved, loose>>

(* The result of WriteFile is not looked at.  An error leaves the old file, *)
(* or the new one up to where it breaks off, if that is still YAML.         *)
SaveAndQuitFails ==
  /\ Quit("exited")
  /\ \/ UNCHANGED <<file, scratch, torn>>
     \/ /\ file' \in CutOff(Written(config)) \cup {Unreadable}
        /\ scratch' = (scratch \/ ~loadYaml)
        /\ torn' = torn \cup HalfAtTheEnd(file')
  /\ Forget

QuitWithoutSaving == Quit("exited") /\ UNCHANGED <<file, scratch, torn>> /\ Forget

------------------------------------------------------------------------------
(* A start without --configurator. *)
Start(flags) ==
  /\ Idle
  /\ file # Unreadable
  /\ LET o == Overridden(file, flags) IN
     /\ phase' \in Outcomes(o)
     /\ options' = IF phase' \in {"batch", "proxy"} THEN Checked(o) ELSE None
  /\ Forget
  /\ UNCHANGED <<file, sessions, scratch, torn, loadYaml, using, config, formVars, typed>>

(* With or without it, initConfig gives up. *)
CannotRead ==
  /\ Idle
  /\ file = Unreadable
  /\ phase' = "refused"
  /\ UNCHANGED <<file, options, sessions, scratch, torn, loadYaml, using, config, formVars, historyVars>>

Ended(how) ==
  /\ phase \in {"batch", "proxy"}
  /\ phase' = how
  /\ options' = None

Stop ==
  /\ Ended("exited")
  /\ UNCHANGED <<file, sessions, scratch, torn, loadYaml, using, config, formVars, historyVars>>

(* checkConfig lets a name through that makes no URL; the first batch for   *)
(* version 1 is then put into a request that is not there.                  *)
DispatchPanics ==
  /\ Ended("crashed")
  /\ options.Sonar.Version = 1 /\ ~MakesURL(options.Sonar.InstanceName)
  /\ UNCHANGED <<file, sessions, scratch, torn, loadYaml, using, config, formVars, historyVars>>

Edit ==
  \/ \E s \in DOMAIN Fields : Type(s)
  \/ Show("OperationMode", "OperationMode")
  \/ Show("Batch", "ServerIP")
  \/ \E r \in Router : AddRouter(r)
  \/ \E row \in DOMAIN shown.Routers : RemoveRouter(row)
  \/ \E ip \in Server : AddServer(ip)
  \/ \E row \in DOMAIN shown.UpstreamServerIPs : RemoveServer(row)

SaveSection ==
  \/ \E s \in {"OperationMode", "Sonar", "Logging"} : Save(s)
  \/ SaveProxy
  \/ SaveBatch
  \/ SaveRouters

Next ==
  \/ \E load \in BOOLEAN, forms \in Usage : Configure(load, forms)
  \/ Edit
  \/ SaveSection
  \/ QuitWithoutSaving
  \/ SaveAndQuit
  \/ SaveAndQuitFails
  \/ \E flags \in Flags : Start(flags)
  \/ CannotRead
  \/ Stop
  \/ DispatchPanics

Spec == Init /\ [][Next]_vars

------------------------------------------------------------------------------
SliceOK(s) == s # Nil => s.array \in DOMAIN heap /\ s.len \in 0 .. Len(heap[s.array])

(* Every slice is within its array.                                         *)
TypeOK ==
  /\ phase \in {"configurator", "written", "refused", "exited", "crashed", "batch", "proxy"}
  /\ phase \notin {"batch", "proxy"} => options = None
  /\ file # Unreadable => DOMAIN file = DOMAIN programConfig
  /\ \A s \in {tmpCfgRouters, config.Batch.Routers, form.Batch.Routers,
               config.Proxy.UpstreamServerIPs, form.Proxy.UpstreamServerIPs} : SliceOK(s)
  /\ DOMAIN saved = Section
  /\ loose \subseteq {"Routers", "UpstreamServerIPs"}

(* "[SAVE] save your changes" (configurator.go:23): not so for routers when *)
(* the batch options are saved after them, and for both lists when a row is *)
(* removed after SAVE.                                                      *)
WrittenAsSaved(s) == \A part \in saved[s] : Part(file, s) = part

SavedIsWritten == phase = "written" => \A s \in Section : WrittenAsSaved(s)

(* Apart from that, a session writes what it saved, however it went on, and *)
(* nothing of what it did not save.                                         *)
WritesWhatWasSaved ==
  phase = "written" => \A s \in Section \ loose :
    WrittenAsSaved(s) /\ (saved[s] = {} => Part(file, s) = Part(programConfig, s))

(* The operator removes routers by looking at the table: it has as many     *)
(* rows of each address as there are routers.                               *)
Rows(list, ip) == Cardinality({i \in DOMAIN list : list[i].RouterIP = ip})

TableShowsRouters ==
  phase = "configurator" => \A ip \in {r.RouterIP : r \in Router} :
    Rows(shown.Routers, ip) = Rows(Elements(tmpCfgRouters), ip)

(* The table of DHCP servers is the form's list, of which removals take.    *)
(* Only where a file was loaded, and until a first server is added, may it  *)
(* have rows that are on no list: the loaded ones, which so are lost with   *)
(* SAVE, though --loadyaml is to load the file (options.go:86).             *)
TableShowsServers ==
  phase = "configurator" =>
    shown.UpstreamServerIPs = Elements(Upstream) \/ (loadYaml /\ Elements(Upstream) = <<>>)

(* A router in the file is one that was given or typed whole, or is blank,  *)
(* removed after it was saved, or is half of one at which a write broke     *)
(* off: a session that loads such a file makes no more halves, and none     *)
(* mixes the fields of two.                                                 *)
RoutersAreWhole ==
  file # Unreadable => ToSet(file.Batch.Routers) \subseteq WholeRouter \cup {batchRouterAuth} \cup torn

(* What an operator loads, leaves alone and saves again is as before: the   *)
(* settings of Sonar and of the batch endpoint, and how the program logs.   *)
(* Not so the TLS setting, a version of neither 1 nor 2, and a logging mode *)
(* or format that the form does not offer.                                  *)
Offered(o) == Lower(o.Logging.Mode) \in {"debug", "info", "warn"} /\ Lower(o.Logging.Format) \in {"text", "json"}
Alone(s) == saved[s] # {} /\ \A f \in Fields[s] : <<s, f>> \notin typed

LoadedSurvives == [][
  SaveAndQuit /\ loadYaml =>
    /\ \A s \in {"Sonar", "Batch"} : \A f \in DOMAIN file[s] \ {"IsTLSEnabled", "Routers"} :
         \/ saved[s] = {}
         \/ <<s, f>> \in typed
         \/ f = "Version" /\ file.Sonar.Version \notin 1 .. 2
         \/ file'[s][f] = file[s][f]
    /\ Alone("Logging") /\ Offered(file) => Logs(file') = Logs(file)]_vars

(* With TLS on, the endpoint is reached over TLS only, with files that were *)
(* there, and whoever comes to the other port is led to it.  With one port  *)
(* for both, one of the two servers cannot listen.                          *)
TLSGuardsEndpoint ==
  phase = "batch" /\ options.Batch.IsTLSEnabled /\ options.Batch.HttpServerPort # options.Batch.TlsServerPort =>
    \A x \in Servers(options) :
      IF x.handler = "redirect"
      THEN \E y \in Servers(options) : x.to = y.addr /\ y.handler # "redirect"
      ELSE x.pair # Plain /\ \A name \in ToSet(x.pair) : Exists(name)
=============================================================================
