---------------------------- MODULE MCConfigurator ----------------------------
(* Five files to begin with, and texts good and bad for every form.         *)
EXTENDS Configurator

MCLower(x) ==
  CASE x = "Batch" -> "batch" [] x = "Warn" -> "warn" [] x = "JSON" -> "json"
    [] x = "HTTPS://ISP" -> "https://isp" [] x = "Proxy" -> "proxy" [] OTHER -> x
MCStripHTTPS(x) == IF x = "https://isp" THEN "isp" ELSE x
MCLength(x) == CASE x = "" -> 0 [] x = "user" -> 4 [] x = "too long" -> 2000 [] OTHER -> 64
MCIsAddress(x) == x \in {"127.0.0.1", "192.0.2.1", "192.0.2.2", "198.51.100.1", "198.51.100.2"}
MCIsInteger(x) == x \in {"80", "443"}
MCExists(x) == x \in {"key", "crt", "/tmp/log"}
MCIsNotExist(x) == ~MCExists(x) /\ x # "/root/log"
MCMakesURL(x) == x # "my isp"
MCCutShort(x) == IF x = "192.0.2.1" THEN {"192.0.2."} ELSE {}
MCCutNumber(n) == IF n = 20 THEN {2} ELSE {}

r1 == [RouterIP |-> "192.0.2.1", Username |-> "one", Password |-> "p"]
r2 == [RouterIP |-> "192.0.2.1", Username |-> "two", Password |-> "p"]
r3 == [RouterIP |-> "192.0.2.2", Username |-> "three", Password |-> "p"]
MCRouter == {r1, r2, r3, [r3 EXCEPT !.Password = ""], [r3 EXCEPT !.RouterIP = "junk"]}
MCServer == {"198.51.100.1", "198.51.100.2", "junk"}

(* The file the repository comes with, one for batch mode, one for proxy.   *)
BatchFile ==
  [OperationMode |-> "batch",
   Sonar |-> [Version |-> 1, ApiUsername |-> "api", ApiKey |-> "key", InstanceName |-> "HTTPS://ISP",
              BearerToken |-> ""],
   Batch |-> [IsTLSEnabled |-> TRUE, TlsKey |-> "key", TlsCert |-> "crt", EndpointUsername |-> "endpoint",
              EndpointPassword |-> "a long password", ServerIP |-> "192.0.2.1", HttpServerPort |-> "80",
              TlsServerPort |-> "443", SchedulerCycleTime |-> 5, Routers |-> <<r1>>],
   Proxy |-> programConfig.Proxy,
   Logging |-> [Mode |-> "Warn", Format |-> "JSON", Output |-> "console"]]
ProxyFile ==
  [BatchFile EXCEPT
     !.OperationMode = "Proxy", !.Sonar.Version = 2, !.Sonar.BearerToken = "token",
     !.Batch = programConfig.Batch,
     !.Proxy = [UpstreamInterface |-> "eth1", DownstreamInterface |-> "eth7",
                UpstreamServerIPs |-> <<"198.51.100.1", "junk">>, ProxyServerIP |-> "192.0.2.1"],
     !.Logging = [Mode |-> "none", Format |-> "text", Output |-> "/tmp/log"]]
MCGiven ==
  {programConfig, BatchFile, ProxyFile, Unreadable,
   [ProxyFile EXCEPT !.Proxy.UpstreamServerIPs = <<"198.51.100.1">>, !.Batch.SchedulerCycleTime = 20]}

MCFlags == {[mode |-> "", output |-> ""], [mode |-> "debug", output |-> "/root/log"],
            [mode |-> "loud", output |-> "/nowhere"]}
MCInterfaces == <<"lo", "eth1">>
MCAddresses == <<"127.0.0.1", "192.0.2.1">>

MCInput == [
  OperationMode |-> [OperationMode |-> {"batch", "proxy"}],
  Sonar |-> [Version |-> {2}, ApiUsername |-> {}, ApiKey |-> {}, InstanceName |-> {"my isp"},
             BearerToken |-> {}],
  Batch |-> [IsTLSEnabled |-> BOOLEAN, TlsKey |-> {}, TlsCert |-> {}, HttpServerPort |-> {},
             TlsServerPort |-> {}, SchedulerCycleTime |-> {-5}, ServerIP |-> {"junk"}],
  Proxy |-> [UpstreamInterface |-> {"lo"}, DownstreamInterface |-> {}, ProxyServerIP |-> {"192.0.2.1"}],
  Logging |-> [Mode |-> {"info"}, Format |-> {"text"}, Output |-> {"/tmp/log"}]]

MCUsage == {{"Batch", "Routers"}, {"OperationMode", "Sonar", "Proxy"}, {"OperationMode", "Sonar", "Batch"},
            {"Sonar", "Logging"}}
=============================================================================
