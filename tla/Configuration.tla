---------------------------- MODULE Configuration ----------------------------
(***************************************************************************)
(* The options and what a process makes of them when it starts: flags over *)
(* file, the logger, the checks, the mode, and in batch mode the two HTTP  *)
(* servers.  Everything main does before it serves is a function of the    *)
(* file and the flags, so this is a module of operators.                   *)
(*                                                                         *)
(* Texts are told apart as far as the functions below tell them apart, and *)
(* by nothing else.                                                        *)
(***************************************************************************)
EXTENDS Integers, Sequences, SequencesExt

CONSTANTS
  Lower(_),      \* strings.ToLower
  StripHTTPS(_), \* strings.Replace(_, "https://", "", 1)
  Length(_),     \* len, of a text
  IsAddress(_),  \* net.ParseIP returns an address
  IsInteger(_),  \* strconv.Atoi returns no error
  Exists(_),     \* os.Stat returns no error
  IsNotExist(_), \* os.Stat returns an error, and it is that there is no such file
  MakesURL(_),   \* http.NewRequest takes "https://" ++ _ ++ "/api/v1/..."
  CutShort(_),   \* what may be read of a text at the end of a file that breaks off
  CutNumber(_),  \* the same of a number
  Minute,        \* time.Minute, in nanoseconds
  Half           \* bound: 2^63; a Duration is from -Half to Half - 1

ASSUME TextsOK ==
  /\ Length("") = 0 /\ ~IsAddress("") /\ IsNotExist("") /\ CutShort("") = {}
  /\ \A x \in {"batch", "proxy", "debug", "info", "warn", "text", "json"} : Lower(x) = x

batchRouterAuth == [Username |-> "", Password |-> "", RouterIP |-> ""]

(* programConfig{}, which is also the file the repository comes with *)
programConfig == [
  OperationMode |-> "",
  Sonar |-> [Version |-> 0, ApiUsername |-> "", ApiKey |-> "", InstanceName |-> "", BearerToken |-> ""],
  Batch |-> [IsTLSEnabled |-> FALSE, TlsKey |-> "", TlsCert |-> "", EndpointUsername |-> "",
             EndpointPassword |-> "", ServerIP |-> "", HttpServerPort |-> "", TlsServerPort |-> "",
             SchedulerCycleTime |-> 0, Routers |-> <<>>],
  Proxy |-> [UpstreamInterface |-> "", DownstreamInterface |-> "", UpstreamServerIPs |-> <<>>,
             ProxyServerIP |-> ""],
  Logging |-> [Mode |-> "", Format |-> "", Output |-> ""]]

------------------------------------------------------------------------------
(* The flags of one start, "" where a flag is not passed.  A path that may  *)
(* not be looked at is taken.                                               *)
Overridden(o, flags) ==
  [o EXCEPT
     !.Logging.Mode = IF flags.mode \in {"none", "info", "warn", "debug"} THEN flags.mode ELSE @,
     !.Logging.Output = IF flags.output = "console" \/ ~IsNotExist(flags.output) THEN flags.output ELSE @]

LogLevel(o) == IF Lower(o.Logging.Mode) \in {"debug", "warn"} THEN Lower(o.Logging.Mode) ELSE "info"
LogFormat(o) == IF Lower(o.Logging.Format) = "json" THEN "json" ELSE "text"
LogFile(o) == Lower(o.Logging.Output)
Logs(o) == <<LogLevel(o), LogFormat(o), LogFile(o)>>

------------------------------------------------------------------------------
BatchOK(o) ==
  /\ o.Batch.IsTLSEnabled =>
       Exists(o.Batch.TlsKey) /\ Exists(o.Batch.TlsCert) /\ IsInteger(o.Batch.TlsServerPort)
  /\ Length(o.Batch.EndpointUsername) >= 5
  /\ Length(o.Batch.EndpointPassword) >= 16
  /\ IsAddress(o.Batch.ServerIP)

ProxyOK(o) ==
  /\ IsAddress(o.Proxy.ProxyServerIP)
  /\ ToSet(o.Proxy.UpstreamServerIPs) # {}
  /\ \A s \in ToSet(o.Proxy.UpstreamServerIPs) : IsAddress(s)

(* The check that Version is 1 or 2 asks for < 1 && > 2, and never fails.   *)
SonarOK(o) ==
  /\ o.Sonar.Version = 1 =>
       Length(o.Sonar.ApiUsername) \in 1 .. 256 /\ Length(o.Sonar.ApiKey) \in 1 .. 1925
  /\ o.Sonar.Version = 2 => Length(o.Sonar.BearerToken) <= 1925

BareName(o) == StripHTTPS(Lower(o.Sonar.InstanceName))
NameOK(o) == Length(BareName(o)) \in 1 .. 256

(* checkConfig: whether it returns nil, and what it leaves behind.          *)
Passes(o) ==
  /\ Lower(o.OperationMode) = "batch" => BatchOK(o)
  /\ Lower(o.OperationMode) = "proxy" => ProxyOK(o)
  /\ SonarOK(o)
  /\ NameOK(o)

Checked(o) == [o EXCEPT !.Sonar.InstanceName = BareName(o)]

(* The scheduler's ticker is made of the cycle time, in minutes, and panics *)
(* when that is not positive, which a large one is not either when the      *)
(* product wraps; zero stands for 15 seconds.                               *)
Duration(minutes) == ((minutes * Minute + Half) % (2 * Half)) - Half

TickerPanics(o) == o.Batch.SchedulerCycleTime # 0 /\ Duration(o.Batch.SchedulerCycleTime) <= 0

(* How far main gets.  The mode is compared letter by letter here, while    *)
(* checkConfig also takes capitals.  The scheduler's goroutine makes its    *)
(* ticker while main goes on: with another mode, main may be the first.     *)
Outcomes(o) ==
  IF ~Passes(o) THEN {"refused"}
  ELSE IF o.OperationMode \in {"batch", "proxy"} THEN {IF TickerPanics(o) THEN "crashed" ELSE o.OperationMode}
  ELSE {"exited"} \cup (IF TickerPanics(o) THEN {"crashed"} ELSE {})

------------------------------------------------------------------------------
(* Where the redirect server sends a browser.                               *)
At(o, port) == <<o.Batch.ServerIP, port>>

(* A bug: the redirect leads to the port it listens on.                     *)
RedirectToItself(o) == At(o, o.Batch.HttpServerPort)

RedirectTo(o) == At(o, o.Batch.TlsServerPort)

(* The servers batch mode starts: where they listen, with which certificate *)
(* and key, and what they do with a request.                                *)
Plain == <<>>

HTTPServer(addr, pair, handler, to) == [addr |-> addr, pair |-> pair, handler |-> handler, to |-> to]

Servers(o) ==
  LET http == At(o, o.Batch.HttpServerPort)
      https == At(o, o.Batch.TlsServerPort)
      endpoint == "BatchModeEndpointRouter"
  IN IF o.Batch.IsTLSEnabled
     THEN {HTTPServer(http, Plain, "redirect", RedirectTo(o)),
           HTTPServer(https, <<o.Batch.TlsCert, o.Batch.TlsKey>>, endpoint, <<>>)}
     ELSE {HTTPServer(http, Plain, endpoint, <<>>)}
=============================================================================
