------------------------------- MODULE MCApp -------------------------------
(* App on small instances.  The configurations of the first start are a    *)
(* valid one and all that differ from it in at most two fields, so that a  *)
(* field is wrong while another decides whether it is used; those of later *)
(* starts switch the parts on and off.  A second is two units long, a      *)
(* duration has three bits and a sign, an unsigned integer two bits.       *)
EXTENDS App

MCBase == [
    SkipPortUpdate |-> FALSE, MemberID |-> "id", PassHash |-> "hash",
    ClientID |-> "client", ClientKey |-> "key",
    BindPort |-> 4567, ExternalUpdateTimeout |-> 4, Mode |-> "natmap",
    LeaseDuration |-> 0, Description |-> "text",
    NatmapBinaryPath |-> "executable", StunServer |-> "host", HTTPKeepaliveServer |-> "host",
    KeepaliveInterval |-> 4, NotifyScript |-> "script", AddressFamily |-> "ipv4",
    NatmapInterface |-> "", FWMark |-> "", UDPCheckCycle |-> 0,
    HathBinaryPath |-> "executable", DataDir |-> "writable", LogLevel |-> "info",
    RPCServerIP |-> "", MaxConnection |-> 0,
    ProxyEnabled |-> FALSE, ProxyURL |-> "url", UseForHathDownloads |-> FALSE,
    BandwidthEnabled |-> FALSE, UploadLimit |-> "rate", BandwidthInterface |-> "name",
    AllowReplaceRootQdisc |-> FALSE,
    ShutdownTimeout |-> 4, RestartDelay |-> 2, InitialDelay |-> 2, MaxDelay |-> 4]

MCVariants == [
    SkipPortUpdate |-> BOOLEAN, MemberID |-> {""}, PassHash |-> {""},
    ClientID |-> {""}, ClientKey |-> {""},
    BindPort |-> {0, 1, 65535, 65536},
    ExternalUpdateTimeout |-> {-1, 0, 1, NotSet}, Mode |-> {"", "upnp", "pcp"},
    LeaseDuration |-> {-1, 1, 3, 4}, Description |-> {"", "long"},
    NatmapBinaryPath |-> {"", "missing", "directory", "plain"},
    StunServer |-> {""}, HTTPKeepaliveServer |-> {""},
    KeepaliveInterval |-> {-2, 0, 1, 2, 3}, NotifyScript |-> {""},
    AddressFamily |-> {"", "ipv6", "ipv5"}, NatmapInterface |-> {"name", "malformed"},
    FWMark |-> {"uint32", "malformed"}, UDPCheckCycle |-> {-1, 5},
    HathBinaryPath |-> {"", "plain"}, DataDir |-> {"", "unwritable"},
    LogLevel |-> {"debug", "warn", "error", "off", "", "loud"},
    RPCServerIP |-> {"address", "malformed"}, MaxConnection |-> {-1, 8},
    ProxyEnabled |-> BOOLEAN, ProxyURL |-> {"", "malformed", "credentials"},
    UseForHathDownloads |-> BOOLEAN,
    BandwidthEnabled |-> BOOLEAN, UploadLimit |-> {"", "malformed"},
    BandwidthInterface |-> {"", "malformed"}, AllowReplaceRootQdisc |-> BOOLEAN,
    ShutdownTimeout |-> {-1, 0}, RestartDelay |-> {-1, 0, 7}, InitialDelay |-> {-1, 0, 4, 7},
    MaxDelay |-> {-1, 0, 1, 7}]

OneFieldChanged(files) ==
    UNION {UNION {{[c EXCEPT ![field] = v] : v \in MCVariants[field]} : field \in DOMAIN MCVariants} :
               c \in files}

MCFiles == OneFieldChanged(OneFieldChanged({MCBase}))

MCLaterFiles ==
    {[MCBase EXCEPT !.Mode = m, !.BandwidthEnabled = b, !.AllowReplaceRootQdisc = a] :
        m \in {"natmap", "upnp", "pcp"}, b \in BOOLEAN, a \in BOOLEAN}

=============================================================================
