---------------------------- MODULE Configuration ----------------------------
(***************************************************************************)
(* The configuration file: what Load accepts, and what the parts of the    *)
(* program make of it.  A configuration is a flat record of the fields     *)
(* that Validate or a consumer looks at.  Texts are classes, with "" for   *)
(* an empty one: a path is what os.Stat finds there, a URL, a rate or a    *)
(* name is well formed or it is not.  Durations have Backoff's type.       *)
(***************************************************************************)
EXTENDS Backoff

CONSTANTS Second,                        \* time.Second
          MaxUint32,                     \* math.MaxUint32
          defaultExternalUpdateTimeout   \* 60 * time.Second

\* In Go, (2^32 - 1) * 10^9 is less than 2^63.
ASSUME ConfigurationAssumption ==
    /\ Second \in Nat \ {0, 1} /\ MaxUint32 \in Nat \ {0}
    /\ MaxUint32 * Second <= MaxDuration
    /\ defaultExternalUpdateTimeout \in 1 .. MaxDuration

\* The timeout of a file that does not mention it.
NotSet == MaxDuration + 1

Config == [
    SkipPortUpdate : BOOLEAN, MemberID : STRING, PassHash : STRING,
    ClientID : STRING, ClientKey : STRING,
    BindPort : Int, ExternalUpdateTimeout : Duration \cup {NotSet}, Mode : STRING,
    LeaseDuration : Int, Description : STRING,
    NatmapBinaryPath : STRING, StunServer : STRING, HTTPKeepaliveServer : STRING,
    KeepaliveInterval : Duration, NotifyScript : STRING, AddressFamily : STRING,
    NatmapInterface : STRING, FWMark : STRING, UDPCheckCycle : Int,
    HathBinaryPath : STRING, DataDir : STRING, LogLevel : STRING,
    RPCServerIP : STRING, MaxConnection : Int,
    ProxyEnabled : BOOLEAN, ProxyURL : STRING, UseForHathDownloads : BOOLEAN,
    BandwidthEnabled : BOOLEAN, UploadLimit : STRING, BandwidthInterface : STRING,
    AllowReplaceRootQdisc : BOOLEAN,
    ShutdownTimeout : Duration, RestartDelay : Duration, InitialDelay : Duration,
    MaxDelay : Duration]

Port == 1 .. 65535

LogLevels == {"debug", "info", "warn", "error", "off"}

-----------------------------------------------------------------------------
(* Load and Validate.                                                      *)

ValidEHentai(c) ==
    /\ c.SkipPortUpdate \/ (c.MemberID # "" /\ c.PassHash # "")
    /\ c.ClientID # "" /\ c.ClientKey # ""

ValidNetwork(c) == c.BindPort \in Port /\ c.ExternalUpdateTimeout > 0

validateUPnPConfig(c) ==
    /\ c.LeaseDuration \in 0 .. MaxUint32
    /\ c.Description \notin {"", "long"}

ValidNatmap(c) ==
    /\ c.NatmapBinaryPath = "executable"
    /\ c.StunServer # "" /\ c.HTTPKeepaliveServer # "" /\ c.NotifyScript # ""
    /\ c.KeepaliveInterval >= Second /\ c.KeepaliveInterval % Second = 0
    /\ c.AddressFamily \in {"", "ipv4", "ipv6"}
    /\ c.NatmapInterface \in {"", "name"} /\ c.FWMark \in {"", "uint32"}
    /\ c.UDPCheckCycle >= 0

ValidHath(c) ==
    /\ c.HathBinaryPath = "executable" /\ c.DataDir = "writable"
    /\ c.LogLevel \in LogLevels /\ c.MaxConnection >= 0

\* Mutant: a proxy that only hath-rust uses is not looked at.
ValidProxyEnabled(c) == c.ProxyEnabled => c.ProxyURL = "url"

ValidProxy(c) == c.ProxyEnabled \/ c.UseForHathDownloads => c.ProxyURL = "url"

ValidBandwidth(c) ==
    c.BandwidthEnabled => c.UploadLimit = "rate" /\ c.BandwidthInterface = "name"

\* Mutant: the two delays of the retry are not compared.
ValidRuntimeApart(c) ==
    \A d \in {c.ShutdownTimeout, c.RestartDelay, c.InitialDelay, c.MaxDelay} : d > 0

ValidRuntime(c) ==
    /\ \A d \in {c.ShutdownTimeout, c.RestartDelay, c.InitialDelay, c.MaxDelay} : d > 0
    /\ c.InitialDelay <= c.MaxDelay

Validate(c) ==
    /\ ValidEHentai(c) /\ ValidNetwork(c)
    /\ c.Mode \in {"natmap", "upnp"}
    /\ c.Mode = "upnp" => validateUPnPConfig(c)
    /\ c.Mode = "natmap" => ValidNatmap(c)
    /\ ValidHath(c) /\ ValidProxy(c) /\ ValidBandwidth(c) /\ ValidRuntime(c)

\* Load fills in two defaults; a timeout that is set to zero stays zero.
Loaded(c) == [c EXCEPT
    !.Mode = IF @ = "" THEN "natmap" ELSE @,
    !.ExternalUpdateTimeout = IF @ = NotSet THEN defaultExternalUpdateTimeout ELSE @]

Accepted(c) == Validate(Loaded(c))

-----------------------------------------------------------------------------
(* The consumers.                                                          *)

\* Natmap's arguments.  An empty i or f and a zero c are not passed.
NatmapArgs(c) == [
    family |-> IF c.AddressFamily = "ipv6" THEN "-6" ELSE "-4",
    b |-> c.BindPort, s |-> c.StunServer, h |-> c.HTTPKeepaliveServer,
    k |-> c.KeepaliveInterval \div Second, e |-> c.NotifyScript,
    i |-> c.NatmapInterface, f |-> c.FWMark,
    c |-> IF c.UDPCheckCycle > 0 THEN c.UDPCheckCycle ELSE 0]

quietFlagForLogLevel(level) ==
    CASE level = "info" -> "-q" [] level = "warn" -> "-qq"
      [] level = "error" -> "-qqq" [] level = "off" -> "-qqqq" [] OTHER -> ""

\* Those of hath-rust that have a value, left out alike; its other flags are
\* switches.
HathArgs(c) == [
    port |-> c.BindPort, dir |-> c.DataDir, quiet |-> quietFlagForLogLevel(c.LogLevel),
    proxy |-> IF c.UseForHathDownloads THEN c.ProxyURL ELSE "",
    rpc |-> c.RPCServerIP,
    connections |-> IF c.MaxConnection > 0 THEN c.MaxConnection ELSE 0]

\* WriteClientLogin joins the two with a dash.
ClientLogin(c) == <<c.ClientID, c.ClientKey>>

\* A Timeout that is not positive would mean none at all.
UpdaterHTTPClient(c) == [
    Timeout |-> c.ExternalUpdateTimeout,
    Proxy |-> IF c.ProxyEnabled THEN c.ProxyURL ELSE ""]

BuildUPnPConfig(c) == [
    Port |-> c.BindPort, LeaseDuration |-> c.LeaseDuration % (MaxUint32 + 1),
    Description |-> c.Description]

\* RunUPnPMode's ticker: NewTicker panics at an interval that is not positive.
RenewalInterval(c) == Wrap(BuildUPnPConfig(c).LeaseDuration * Second) \div 2

BuildRuntime(c) == [
    RetryDelay |-> c.InitialDelay, RetryMaxDelay |-> c.MaxDelay,
    RestartDelay |-> c.RestartDelay]

UPnPRestartDelay(c) ==
    IF c.RestartDelay > 0 THEN c.RestartDelay
    ELSE IF c.InitialDelay > 0 THEN c.InitialDelay ELSE DefaultRetryDelay

-----------------------------------------------------------------------------
(* What the consumers can work with.                                       *)

NatmapUsable(c) ==
    LET args == NatmapArgs(c) IN
    /\ c.NatmapBinaryPath = "executable"
    /\ args.b \in Port /\ "" \notin {args.s, args.h, args.e}
    /\ args.k > 0 /\ args.k * Second = c.KeepaliveInterval
    /\ args.i \in {"", "name"} /\ args.f \in {"", "uint32"}
    /\ args.family = "-4" \/ c.AddressFamily = "ipv6"

UPnPUsable(c) ==
    LET upnp == BuildUPnPConfig(c) IN
    /\ upnp.Port \in Port /\ upnp.Description \notin {"", "long"}
    /\ upnp.LeaseDuration = c.LeaseDuration
    /\ upnp.LeaseDuration > 0 => RenewalInterval(c) > 0

\* Whatever is written for rpc is passed on: Validate has no rule for it.
HathUsable(c) ==
    LET args == HathArgs(c) IN
    /\ c.HathBinaryPath = "executable" /\ args.dir = "writable"
    /\ args.port \in Port /\ "" \notin {ClientLogin(c)[1], ClientLogin(c)[2]}
    /\ args.proxy \in {"", "url"}
    /\ args.quiet = "" => c.LogLevel = "debug"

UpdaterUsable(c) ==
    LET client == UpdaterHTTPClient(c) IN
    /\ client.Proxy \in {"", "url"}
    /\ ~c.SkipPortUpdate => client.Timeout > 0 /\ "" \notin {c.MemberID, c.PassHash}

LimiterUsable(c) ==
    c.BandwidthEnabled => c.UploadLimit = "rate" /\ c.BandwidthInterface = "name"

Usable(c) ==
    /\ c.Mode = "upnp" => UPnPUsable(c)
    /\ c.Mode = "natmap" => NatmapUsable(c)
    /\ c.Mode \in {"upnp", "natmap"}
    /\ HathUsable(c) /\ UpdaterUsable(c) /\ LimiterUsable(c)

\* None of the fallbacks for durations that are not configured can replace one
\* that is, and both modes restart after the same delay.
KeepsDelays(c) ==
    LET r == BuildRuntime(c) IN
    /\ retryDelay(r) = c.InitialDelay /\ retryMaxDelay(r) = c.MaxDelay
    /\ restartDelay(r) = c.RestartDelay /\ UPnPRestartDelay(c) = restartDelay(r)

=============================================================================
