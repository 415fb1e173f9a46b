------------------------------- MODULE AppProofs -------------------------------
(***************************************************************************)
(* Proofs about Configuration, BandwidthLimiter and App: for every         *)
(* configuration file of the right types, any width of the integers, any   *)
(* number of starts, kills and failures, and outsiders at any time.        *)
(***************************************************************************)
EXTENDS App, TLAPS

-----------------------------------------------------------------------------
(* What Load accepts can be used.                                          *)

\* The numbers and switches among the fields, also after Load filled in its
\* two defaults (config.go:148-153).
NumbersTyped(c) ==
    /\ c.LeaseDuration \in Int
    /\ c.KeepaliveInterval \in Int
    /\ c.RestartDelay \in Int /\ c.InitialDelay \in Int /\ c.MaxDelay \in Int
    /\ c.SkipPortUpdate \in BOOLEAN /\ c.ProxyEnabled \in BOOLEAN
    /\ c.UseForHathDownloads \in BOOLEAN /\ c.BandwidthEnabled \in BOOLEAN

\* A loaded configuration has integers where the rules compare numbers, the
\* defaults included (config.go:139-158).
LEMMA LoadedNumbers ==
    ASSUME NEW c \in Config
    PROVE  NumbersTyped(Loaded(c))
<1>1. /\ c.LeaseDuration \in Int
      /\ c.KeepaliveInterval \in Duration
      /\ c.RestartDelay \in Duration /\ c.InitialDelay \in Duration /\ c.MaxDelay \in Duration
    BY DEF Config
<1>2. /\ c.SkipPortUpdate \in BOOLEAN /\ c.ProxyEnabled \in BOOLEAN
      /\ c.UseForHathDownloads \in BOOLEAN /\ c.BandwidthEnabled \in BOOLEAN
    BY DEF Config
<1>3. Duration \subseteq Int
    BY DurationAssumption DEF Duration, MinDuration
<1>4. /\ Loaded(c).LeaseDuration = c.LeaseDuration
      /\ Loaded(c).KeepaliveInterval = c.KeepaliveInterval
      /\ Loaded(c).RestartDelay = c.RestartDelay
      /\ Loaded(c).InitialDelay = c.InitialDelay
      /\ Loaded(c).MaxDelay = c.MaxDelay
    BY DEF Loaded
<1>5. /\ Loaded(c).SkipPortUpdate = c.SkipPortUpdate
      /\ Loaded(c).ProxyEnabled = c.ProxyEnabled
      /\ Loaded(c).UseForHathDownloads = c.UseForHathDownloads
      /\ Loaded(c).BandwidthEnabled = c.BandwidthEnabled
    BY DEF Loaded
<1> QED
    BY <1>1, <1>2, <1>3, <1>4, <1>5 DEF NumbersTyped

\* Whole seconds are passed to natmap without loss (config.go:198-203,
\* runner.go:27-52).
LEMMA WholeSeconds ==
    ASSUME NEW d \in Nat, NEW s \in Nat \ {0}, d >= s, d % s = 0
    PROVE  d \div s > 0 /\ (d \div s) * s = d
OBVIOUS

\* The lease, in seconds, stays in range as a time.Duration, and half of it is
\* an interval a ticker takes (run.go:247-249).
LEMMA LeaseFits ==
    ASSUME NEW n \in 0 .. MaxUint32
    PROVE  /\ n % (MaxUint32 + 1) = n
           /\ n > 0 => Wrap(n * Second) \div 2 > 0
<1> USE ConfigurationAssumption, DurationAssumption
<1>1. n % (MaxUint32 + 1) = n
    OBVIOUS
<1>2. n * Second <= MaxUint32 * Second /\ n * Second \in Nat
    OBVIOUS
<1>3. Wrap(n * Second) = n * Second
    BY <1>2 DEF Wrap, MinDuration
<1>4. n > 0 => n * Second >= 2
    OBVIOUS
<1> QED
    BY <1>1, <1>2, <1>3, <1>4

\* The rules for natmap leave only values that natmap understands
\* (config.go:190-217, natmap/runner.go:27-52).
LEMMA NatmapSection ==
    ASSUME NEW c, NumbersTyped(c), ValidNetwork(c), ValidNatmap(c)
    PROVE  NatmapUsable(c)
<1>1. /\ c.KeepaliveInterval \in Int /\ c.KeepaliveInterval >= Second
      /\ c.KeepaliveInterval % Second = 0
    BY DEF ValidNatmap, NumbersTyped
<1>2. /\ c.KeepaliveInterval \div Second > 0
      /\ (c.KeepaliveInterval \div Second) * Second = c.KeepaliveInterval
    <2>1. Second \in Nat \ {0} /\ c.KeepaliveInterval \in Nat
        BY <1>1, ConfigurationAssumption
    <2> QED
        BY <1>1, <2>1, WholeSeconds, Zenon
<1> DEFINE args == NatmapArgs(c)
<1>3. /\ args.b = c.BindPort /\ args.s = c.StunServer /\ args.h = c.HTTPKeepaliveServer
      /\ args.k = c.KeepaliveInterval \div Second /\ args.e = c.NotifyScript
      /\ args.i = c.NatmapInterface /\ args.f = c.FWMark
      /\ args.family = "-4" \/ c.AddressFamily = "ipv6"
    BY DEF NatmapArgs
<1> HIDE DEF args
<1>4. /\ c.NatmapBinaryPath = "executable" /\ c.BindPort \in Port
      /\ c.StunServer # "" /\ c.HTTPKeepaliveServer # "" /\ c.NotifyScript # ""
      /\ c.NatmapInterface \in {"", "name"} /\ c.FWMark \in {"", "uint32"}
    BY DEF ValidNetwork, ValidNatmap
<1>5. args.k > 0 /\ args.k * Second = c.KeepaliveInterval
    BY <1>2, <1>3
<1> QED
    BY <1>3, <1>4, <1>5 DEF NatmapUsable, args

\* The rules for UPnP leave only values the router and the ticker of the
\* renewal take (app/run.go:247-249, 405-411).
LEMMA UPnPSection ==
    ASSUME NEW c, ValidNetwork(c), validateUPnPConfig(c)
    PROVE  UPnPUsable(c)
BY LeaseFits DEF ValidNetwork, validateUPnPConfig, UPnPUsable, BuildUPnPConfig, RenewalInterval

\* The rules for hath-rust leave only arguments it understands, but for the
\* address of --rpc-server-ip, which they do not look at (config.go:218-241,
\* hath/client.go:36-84).
LEMMA HathSection ==
    ASSUME NEW c, NumbersTyped(c), ValidNetwork(c), ValidHath(c), ValidProxy(c), ValidEHentai(c)
    PROVE  HathUsable(c)
<1>1. quietFlagForLogLevel(c.LogLevel) = "" => c.LogLevel = "debug"
    BY DEF ValidHath, LogLevels, quietFlagForLogLevel
<1> QED
    BY <1>1 DEF ValidNetwork, ValidHath, ValidProxy, ValidEHentai, HathUsable, HathArgs, ClientLogin,
                NumbersTyped

\* Every configuration that Load accepts gives every part of the program
\* values it can work with, whatever --rpc-server-ip is given, the one argument
\* of which Usable demands nothing (config.go:139-263 against run.go:128-155,
\* 247-249, 278-331, 405-411, runner.go:27-52, client.go:36-107).
THEOREM AcceptedConfigIsUsable ==
    ASSUME NEW c \in Config, Accepted(c)
    PROVE  Usable(Loaded(c))
<1> DEFINE d == Loaded(c)
<1>1. NumbersTyped(d) /\ Validate(d)
    BY LoadedNumbers DEF Accepted
<1> HIDE DEF d
<1>2. UpdaterUsable(d) /\ LimiterUsable(d)
    BY <1>1 DEF Validate, UpdaterUsable, UpdaterHTTPClient, LimiterUsable, ValidBandwidth,
                ValidProxy, ValidEHentai, ValidNetwork, NumbersTyped
<1> QED
    BY <1>1, <1>2, NatmapSection, UPnPSection, HathSection DEF Validate, Usable, d

\* For every configuration that Load accepts the delays are the configured
\* ones (supervisor.go:164-203, run.go:224-232).
THEOREM AcceptedConfigKeepsDelays ==
    ASSUME NEW c \in Config, Accepted(c)
    PROVE  KeepsDelays(Loaded(c))
<1> DEFINE d == Loaded(c)
<1>1. NumbersTyped(d) /\ Validate(d)
    BY LoadedNumbers DEF Accepted
<1> HIDE DEF d
<1>2. /\ d.RestartDelay \in Int /\ d.InitialDelay \in Int /\ d.MaxDelay \in Int
      /\ d.RestartDelay > 0 /\ d.InitialDelay > 0 /\ d.MaxDelay > 0 /\ d.InitialDelay <= d.MaxDelay
    BY <1>1 DEF Validate, ValidRuntime, NumbersTyped
<1> QED
    BY <1>2 DEF KeepsDelays, BuildRuntime, retryDelay, retryMaxDelay, restartDelay,
                UPnPRestartDelay, d

-----------------------------------------------------------------------------
(* The upload limit.                                                       *)

LimiterTypeOK ==
    /\ pc \in {"down", "show", "replace", "rules", "up", "clearShow", "del", "exit"}
    /\ AllowReplaceRootQdisc \in BOOLEAN
    /\ applied \in BOOLEAN
    /\ rules \in 0 .. 3
    /\ root \in Qdisc
    /\ owner \in {"nobody", "program", "outsider"}
    /\ raced \in BOOLEAN

\* What the marker and applied tell a running program of the root qdisc is true.
MarkerTells == /\ owner = "program" => root = "project"
               /\ applied /\ root = "project" /\ pc \notin {"down", "exit"} => owner = "program"
               /\ root = "none" <=> owner = "nobody"

\* Between an inspection and its command only an outsider who races can have
\* put something foreign in the way.
Inspected ==
    /\ pc = "replace" /\ owner = "outsider" => raced \/ AllowReplaceRootQdisc
    /\ pc = "del" /\ owner = "outsider" => raced

\* A qdisc of the program is one that this run installed, or one that a run
\* left behind in a way that unclean remembers.
Accounted ==
    owner = "program" /\ unclean = {} => applied /\ pc \in {"rules", "up", "clearShow", "del"}

\* The rules are all there once Apply is done, as long as the qdisc is.
RulesComplete ==
    /\ pc = "rules" => applied /\ rules \in 0 .. 2
    /\ pc \in {"up", "clearShow", "del"} /\ applied /\ owner = "program" => rules = 3

LimiterInv == LimiterTypeOK /\ MarkerTells /\ Inspected /\ Accounted /\ RulesComplete

\* Every step of the Limiter, a kill and an outsider keep the invariant
\* (limiter.go:95-155, run.go:333-351).
LEMMA LimiterStep ==
    ASSUME LimiterInv, [Next]_vars
    PROVE  LimiterInv'
<1> USE DEF LimiterInv, LimiterTypeOK, MarkerTells, Inspected, Accounted, RulesComplete,
            configVars, qdiscVars, Exit, Qdisc
<1>1. ASSUME NEW enabled \in BOOLEAN, NEW allow \in BOOLEAN, ApplyBandwidthLimit(enabled, allow)
      PROVE  LimiterInv'
    BY <1>1 DEF ApplyBandwidthLimit
<1>2. CASE ApplyShow
    <2>1. LimiterTypeOK'
        BY <1>2 DEF ApplyShow, ensureCanReplaceRootQdisc, rootQdiscState
    <2>2. MarkerTells'
        BY <1>2 DEF ApplyShow, ensureCanReplaceRootQdisc, rootQdiscState
    <2>3. Inspected'
        BY <1>2 DEF ApplyShow, ensureCanReplaceRootQdisc, rootQdiscState
    <2>4. Accounted'
        BY <1>2 DEF ApplyShow, ensureCanReplaceRootQdisc, rootQdiscState
    <2>5. RulesComplete'
        BY <1>2 DEF ApplyShow, ensureCanReplaceRootQdisc, rootQdiscState
    <2> QED
        BY <2>1, <2>2, <2>3, <2>4, <2>5
<1>3. CASE ApplyReplace
    <2>1. LimiterTypeOK'
        <3>1. rules' \in 0 .. 3 /\ root' \in Qdisc /\ owner' \in {"nobody", "program", "outsider"}
            BY <1>3 DEF ApplyReplace, Replaced
        <3>2. /\ pc' \in {"rules", "exit"} /\ applied' \in BOOLEAN
              /\ AllowReplaceRootQdisc' = AllowReplaceRootQdisc /\ raced' = raced
            BY <1>3 DEF ApplyReplace
        <3> QED
            BY <3>1, <3>2
    <2>2. MarkerTells'
        BY <1>3 DEF ApplyReplace, Replaced
    <2>3. Inspected'
        BY <1>3 DEF ApplyReplace, Replaced
    <2>4. Accounted'
        BY <1>3 DEF ApplyReplace, Replaced
    <2>5. RulesComplete'
        BY <1>3 DEF ApplyReplace, Replaced
    <2> QED
        BY <2>1, <2>2, <2>3, <2>4, <2>5
<1>4. CASE ApplyRule
    BY <1>4 DEF ApplyRule
<1>5. CASE Shutdown
    BY <1>5 DEF Shutdown
<1>6. CASE ClearShow
    <2>1. LimiterTypeOK'
        BY <1>6 DEF ClearShow, rootQdiscState
    <2>2. MarkerTells'
        BY <1>6 DEF ClearShow, rootQdiscState
    <2>3. Inspected'
        BY <1>6 DEF ClearShow, rootQdiscState
    <2>4. Accounted'
        BY <1>6 DEF ClearShow, rootQdiscState
    <2>5. RulesComplete'
        BY <1>6 DEF ClearShow, rootQdiscState
    <2> QED
        BY <2>1, <2>2, <2>3, <2>4, <2>5
<1>7. CASE ClearDel
    BY <1>7 DEF ClearDel, Deleted
<1>8. CASE Kill
    <2>1. LimiterTypeOK'
        BY <1>8 DEF Kill, Replaced, Deleted
    <2>2. MarkerTells'
        BY <1>8 DEF Kill, Replaced, Deleted
    <2>3. Inspected'
        BY <1>8 DEF Kill, Replaced, Deleted
    <2>4. Accounted'
        BY <1>8 DEF Kill, Replaced, Deleted
    <2>5. RulesComplete'
        BY <1>8 DEF Kill, Replaced, Deleted
    <2> QED
        BY <2>1, <2>2, <2>3, <2>4, <2>5
<1>9. CASE Outsider
    <2>1. LimiterTypeOK'
        BY <1>9 DEF Outsider
    <2>2. MarkerTells'
        BY <1>9 DEF Outsider
    <2>3. Inspected'
        BY <1>9 DEF Outsider
    <2>4. Accounted'
        BY <1>9 DEF Outsider
    <2>5. RulesComplete'
        BY <1>9 DEF Outsider
    <2> QED
        BY <2>1, <2>2, <2>3, <2>4, <2>5
<1>10. CASE UNCHANGED vars
    BY <1>10 DEF vars
<1> QED
    BY <1>1, <1>2, <1>3, <1>4, <1>5, <1>6, <1>7, <1>8, <1>9, <1>10 DEF Next, Program, Commands

\* The limiter begins in its invariant.
LEMMA LimiterInit == Init => LimiterInv
<1> SUFFICES ASSUME Init PROVE LimiterInv
    OBVIOUS
<1>1. LimiterTypeOK
    <2>1. rules \in 0 .. 3 /\ root \in Qdisc
        BY DEF Init, Qdisc
    <2> QED
        BY <2>1, Zenon DEF Init, LimiterTypeOK
<1>2. MarkerTells /\ Inspected /\ Accounted /\ RulesComplete
    BY DEF Init, MarkerTells, Inspected, Accounted, RulesComplete, Qdisc
<1> QED
    BY <1>1, <1>2 DEF LimiterInv

\* What holds of the step an outsider must not suffer from.
LEMMA ForeignStep ==
    ASSUME LimiterInv
    PROVE  [(Program \/ Kill) /\ owner = "outsider" =>
               \/ UNCHANGED <<root, owner>>
               \/ raced
               \/ AllowReplaceRootQdisc /\ root' = "project"]_vars
<1> SUFFICES ASSUME Program \/ Kill, owner = "outsider"
             PROVE  \/ UNCHANGED <<root, owner>>
                    \/ raced
                    \/ AllowReplaceRootQdisc /\ root' = "project"
    OBVIOUS
<1> USE DEF configVars, qdiscVars, LimiterInv, Inspected
<1>1. CASE Shutdown \/ ApplyShow \/ ClearShow
    BY <1>1 DEF Shutdown, ApplyShow, ClearShow
<1>2. ASSUME NEW enabled, NEW allow, ApplyBandwidthLimit(enabled, allow)
      PROVE  UNCHANGED <<root, owner>>
    BY <1>2 DEF ApplyBandwidthLimit
<1>3. CASE ApplyReplace
    BY <1>3 DEF ApplyReplace, Replaced
<1>4. CASE ApplyRule
    BY <1>4 DEF ApplyRule
<1>5. CASE ClearDel
    BY <1>5 DEF ClearDel
<1>6. CASE Kill
    BY <1>6 DEF Kill, Replaced
<1> QED
    BY <1>1, <1>2, <1>3, <1>4, <1>5, <1>6 DEF Program, Commands

-----------------------------------------------------------------------------
(* Run, from the start of a process to its end.                            *)

\* The file that is loaded is one of those the environment has.
LoadsFile == at = "load" => file \in Files \cup LaterFiles

\* Where Run is when the Limiter is where it is.
Stages ==
    /\ at \in {"idle", "load", "limit", "dir", "lstat", "remove", "bind", "chmod", "serve",
              "close", "clear"}
    /\ at \in {"idle", "load"} => pc \in {"down", "exit"}
    /\ at = "limit" => pc \in {"show", "replace", "rules", "up", "exit"}
    /\ at \in {"dir", "lstat", "remove", "bind", "chmod", "serve", "close"} => pc = "up"
    /\ at = "clear" => pc \in {"up", "clearShow", "del", "exit"}

\* Where Run gets to with a limit that is asked for, the limit was applied.
LimitFirst ==
    limited /\ (\/ at \in {"dir", "lstat", "remove", "bind", "chmod", "serve", "close"}
                \/ at = "limit" /\ pc = "up")
        => applied

\* There is a notify socket in the natmap mode alone.
Modes ==
    /\ at \in {"limit", "serve"} => mode \in {"natmap", "upnp"}
    /\ at \in {"dir", "lstat", "remove", "bind", "chmod", "close"} => mode = "natmap"

\* The path is the listener's as long as there is one, and what came there
\* behind Run's back is known to have.
PathKnown ==
    /\ path = "live" => at \in {"chmod", "serve", "close"} /\ mode = "natmap"
    /\ path = "other" /\ mode = "natmap" /\ at \in {"remove", "chmod", "serve", "close"} => swapped

AppInv == LimiterInv /\ LoadsFile /\ Stages /\ LimitFirst /\ Modes /\ PathKnown

\* The modes Load lets through (config.go:151-153, 184-196).
LEMMA AcceptedModes ==
    ASSUME NEW c, Accepted(c)
    PROVE  Loaded(c).Mode \in {"natmap", "upnp"}
BY DEF Accepted, Validate

\* Whatever the process, a kill or an outsider does is a step of the Limiter's
\* specification, or leaves it alone.
LEMMA AppStepsLimiter ==
    ASSUME LoadsFile, [AppNext]_<<vars, appVars>>
    PROVE  [Next]_vars
<1> USE DEF appVars, configuredVars
<1>1. CASE Load
    <2>1. CASE UNCHANGED vars
        BY <2>1
    <2>2. CASE ApplyBandwidthLimit(file.BandwidthEnabled, file.AllowReplaceRootQdisc)
        <3>1. file \in Config
            BY <1>1, AppAssumption DEF Load, LoadsFile
        <3>2. file.BandwidthEnabled \in BOOLEAN /\ file.AllowReplaceRootQdisc \in BOOLEAN
            BY <3>1 DEF Config
        <3> QED
            BY <2>2, <3>2 DEF Next, Program
    <2> QED
        BY <1>1, <2>1, <2>2 DEF Load
<1>2. CASE Launch \/ Limited \/ SocketDir \/ Lstat \/ Remove \/ Bind \/ Chmod \/ Served
           \/ CloseListener \/ Returned \/ PathOutsider
    BY <1>2 DEF Launch, Limited, SocketDir, Lstat, Remove, Bind, Chmod, Served, CloseListener,
                Returned, PathOutsider, Go, Fails
<1>3. CASE Clear \/ Limiting \/ Killed \/ Outsider
    BY <1>3 DEF Clear, Limiting, Killed, Next, Program
<1> QED
    BY <1>1, <1>2, <1>3 DEF AppNext, Run, AppOutsider

\* Every step of Run, a kill and an outsider keep the invariant
\* (run.go:56-151, 333-351, socket.go:29-106).
LEMMA AppStep ==
    ASSUME AppInv, [AppNext]_<<vars, appVars>>
    PROVE  LoadsFile' /\ Stages' /\ LimitFirst' /\ Modes' /\ PathKnown'
<1> USE DEF AppInv, LoadsFile, Stages, LimitFirst, Modes, PathKnown, appVars, configuredVars
<1>1. CASE Launch
    BY <1>1 DEF Launch, vars
<1>2. CASE Load
    <2>1. Accepted(file) => Loaded(file).Mode \in {"natmap", "upnp"}
        BY AcceptedModes
    <2> QED
        BY <1>2, <2>1 DEF Load, ApplyBandwidthLimit, vars
<1>3. CASE Limited
    BY <1>3 DEF Limited, vars
<1>4. CASE SocketDir
    BY <1>4 DEF SocketDir, Go, Fails, vars
<1>5. CASE Lstat
    BY <1>5 DEF Lstat, Go, vars
<1>6. CASE Remove
    BY <1>6 DEF Remove, Go, Fails, vars
<1>7. CASE Bind
    BY <1>7 DEF Bind, Go, Fails, vars
<1>8. CASE Chmod
    BY <1>8 DEF Chmod, Go, vars
<1>9. CASE Served
    BY <1>9 DEF Served, Go, vars
<1>10. CASE CloseListener \/ Returned
    BY <1>10 DEF CloseListener, Returned, Go, vars
<1>11. CASE Clear
    BY <1>11 DEF Clear, Shutdown
<1>12. CASE Limiting
    <2>1. Commands /\ UNCHANGED <<at, file, mode, limited, path, swapped>>
        BY <1>12 DEF Limiting
    <2>2. CASE ApplyShow \/ ApplyReplace
        BY <2>1, <2>2 DEF ApplyShow, ApplyReplace, Exit
    <2>3. CASE ApplyRule
        <3>1. applied' = applied /\ pc = "rules" /\ pc' \in {"rules", "up", "exit"}
            BY <2>3 DEF ApplyRule, Exit
        <3>2. applied
            BY <3>1 DEF LimiterInv, RulesComplete
        <3> QED
            BY <2>1, <3>1, <3>2
    <2>4. CASE ClearShow \/ ClearDel
        BY <2>1, <2>4 DEF ClearShow, ClearDel, Exit
    <2> QED
        BY <2>1, <2>2, <2>3, <2>4 DEF Commands
<1>13. CASE Killed
    BY <1>13 DEF Killed, Kill, Exit
<1>14. CASE PathOutsider
    BY <1>14 DEF PathOutsider, vars
<1>15. CASE Outsider /\ UNCHANGED appVars
    BY <1>15 DEF Outsider
<1>16. CASE UNCHANGED <<vars, appVars>>
    BY <1>16 DEF vars
<1> QED
    BY <1>1, <1>2, <1>3, <1>4, <1>5, <1>6, <1>7, <1>8, <1>9, <1>10, <1>11, <1>12, <1>13, <1>14,
       <1>15, <1>16 DEF AppNext, Run, AppOutsider

\* The invariant of the application holds always.
LEMMA AppInvariant == AppSpec => []AppInv
<1>1. AppInit => AppInv
    <2> SUFFICES ASSUME AppInit PROVE AppInv
        OBVIOUS
    <2>1. LimiterInv /\ pc = "down"
        BY LimiterInit DEF AppInit, Init
    <2> QED
        BY <2>1 DEF AppInit, AppInv, LoadsFile, Stages, LimitFirst, Modes, PathKnown
<1>2. AppInv /\ [AppNext]_<<vars, appVars>> => AppInv'
    <2> SUFFICES ASSUME AppInv, [AppNext]_<<vars, appVars>> PROVE AppInv'
        OBVIOUS
    <2>1. LimiterInv'
        BY AppStepsLimiter, LimiterStep DEF AppInv
    <2> QED
        BY <2>1, AppStep DEF AppInv
<1> QED
    BY <1>1, <1>2, PTL DEF AppSpec

-----------------------------------------------------------------------------
(* The Limiter by itself, for every caller of ApplyBandwidthLimit.         *)

\* The invariant of the limiter, run alone, holds always.
LEMMA LimiterInvariant == Spec => []LimiterInv
BY LimiterInit, LimiterStep, PTL DEF Spec

\* A qdisc of the program outlives it only after a kill or a failure since
\* (limiter.go:95-155, run.go:333-351).
THEOREM LeavesNothingBehind == Spec => []CleanExit
<1>1. LimiterInv => CleanExit
    BY DEF LimiterInv, Accounted, CleanExit
<1> QED
    BY <1>1, LimiterInvariant, PTL

\* What others installed, also what looks like the program's own, is deleted
\* or replaced only in a race, or replaced with leave (limiter.go:97-155,
\* 182-185).
THEOREM KeepsForeign == Spec => ForeignKept
BY LimiterInvariant, ForeignStep, PTL DEF ForeignKept

-----------------------------------------------------------------------------
(* The Limiter within Run, and Run.                                        *)

\* Run uses the Limiter as its specification says: it applies before a mode
\* starts, clears after it, and never again in one process (run.go:56-64,
\* 333-351).
THEOREM AppRunsLimiter == AppSpec => Spec
<1>1. AppInit => Init
    BY DEF AppInit
<1>2. AppInv /\ [AppNext]_<<vars, appVars>> => [Next]_vars
    BY AppStepsLimiter DEF AppInv
<1> QED
    BY <1>1, <1>2, AppInvariant, PTL DEF AppSpec, Spec

\* Whatever way app.Run takes, the qdisc it installed goes with it, but for
\* a kill or a failed command (run.go:60-64, 333-351).
THEOREM AppLeavesNothingBehind == AppSpec => []CleanExit
BY AppRunsLimiter, LeavesNothingBehind, PTL

\* In no way that app.Run takes is a foreign qdisc lost, whatever it looks
\* like, but in a race, or with leave (run.go:60-64, limiter.go:97-155,
\* 182-185).
THEOREM AppKeepsForeign == AppSpec => ForeignKept
BY AppRunsLimiter, KeepsForeign, PTL

\* What the configuration wants limited is limited from the first child to the
\* last, unless an outsider took the limit away: a check, an inspection or a
\* command that fails on the way there ends the program (run.go:60-64,
\* 333-350, limiter.go:95-115).
THEOREM LimitedFromFirstToLast == AppSpec => []LimitedWhileServing
<1>1. AppInv => LimitedWhileServing
    BY DEF AppInv, LimiterInv, RulesComplete, Stages, LimitFirst, LimitedWhileServing
<1> QED
    BY <1>1, AppInvariant, PTL

\* A process that has returned has no socket at the path (socket.go:69-76,
\* 91-106, run.go:97-101).
THEOREM SocketGoesWithProcess == AppSpec => []SocketHasOwner
<1>1. AppInv => SocketHasOwner
    BY DEF AppInv, PathKnown, SocketHasOwner
<1> QED
    BY <1>1, AppInvariant, PTL

\* Run unlinks nothing but a socket unless somebody swapped it
\* (socket.go:91-106, 47).
THEOREM KeepsFiles == AppSpec => FileKept
<1>1. ASSUME AppInv, Run, path = "other", path' # "other"
      PROVE  swapped
    <2> USE <1>1 DEF AppInv, Modes, PathKnown, Go, Fails
    <2>1. CASE Remove \/ Chmod \/ CloseListener
        BY <2>1 DEF Remove, Chmod, CloseListener
    <2>2. CASE Bind
        BY <2>2 DEF Bind
    <2>3. CASE Launch \/ Load \/ Limited \/ SocketDir \/ Lstat \/ Served \/ Returned
        BY <2>3 DEF Launch, Load, Limited, SocketDir, Lstat, Served, Returned
    <2>4. CASE Clear \/ Limiting
        BY <2>4 DEF Clear, Limiting, appVars
    <2> QED
        BY <2>1, <2>2, <2>3, <2>4 DEF Run
<1>2. AppInv => [path = "other" /\ path' # "other" /\ Run => swapped]_<<vars, appVars>>
    BY <1>1
<1> QED
    BY <1>2, AppInvariant, PTL DEF FileKept

\* The file Run loads is of the right types.
LEMMA FileTyped == AppInv /\ at = "load" => file \in Config
BY AppAssumption DEF AppInv, LoadsFile

\* Whatever file is loaded, what is accepted is usable, with the exception
\* that AcceptedConfigIsUsable makes (config.go:139-263).
THEOREM StartsWithUsable == AppSpec => []AcceptedIsUsable
<1>1. AppInv => AcceptedIsUsable
    BY FileTyped, AcceptedConfigIsUsable DEF AcceptedIsUsable
<1> QED
    BY <1>1, AppInvariant, PTL

\* Whatever file is loaded, if accepted the delays are those it says
\* (supervisor.go:164-203, run.go:224-232).
THEOREM WaitsAsConfigured == AppSpec => []RuntimeAsConfigured
<1>1. AppInv => RuntimeAsConfigured
    BY FileTyped, AcceptedConfigKeepsDelays DEF RuntimeAsConfigured
<1> QED
    BY <1>1, AppInvariant, PTL

=============================================================================
