--------------------------------- MODULE App ---------------------------------
(***************************************************************************)
(* app.Run from the start of the process to its end: the configuration is  *)
(* loaded, the upload limit applied, in the natmap mode the notify socket  *)
(* set up, then the mode runs until it is cancelled or fails; on the way   *)
(* out the deferred calls close the socket and then clear the limit.       *)
(* Every step may fail, the process may be killed at any of them and       *)
(* started again on what it left, and others use the interface and the     *)
(* directory of the socket at the same time.                               *)
(*                                                                         *)
(* The Limiter's steps are BandwidthLimiter's; what a mode does while it   *)
(* runs is the subject of Supervisor and UPnPMode.                         *)
(***************************************************************************)
EXTENDS BandwidthLimiter, Configuration

CONSTANTS Files, LaterFiles,   \* the configurations of the first start and of others
          NoFile

ASSUME AppAssumption == /\ NoFile \notin Files \cup LaterFiles
                        /\ Files \cup LaterFiles \subseteq Config

VARIABLES
    at,        \* where Run is: "idle" when no process is, "load", "limit",
               \* "dir", "lstat", "remove", "bind", "chmod", "serve", "close", "clear"
    file,      \* the configuration it is loading
    mode,      \* that of the loaded one
    limited,   \* the loaded one asks for the upload limit
    path,      \* what is at the path of the socket: "none", "live" (the socket
               \* of this process), "stale" (of one that is gone), "other"
    swapped    \* somebody replaced what this process saw or bound there

configuredVars == <<file, mode, limited>>
appVars == <<at, configuredVars, path, swapped>>

AppInit == /\ Init
           /\ at = "idle" /\ file = NoFile /\ mode = "none" /\ limited = FALSE
           /\ path \in {"none", "stale", "other"} /\ swapped = FALSE

-----------------------------------------------------------------------------

\* A process is started and has read its file.
Launch ==
    /\ at = "idle" /\ pc \in {"down", "exit"}
    /\ at' = "load" /\ mode' = "none" /\ limited' = FALSE
    /\ file' \in IF starts = 0 THEN Files ELSE LaterFiles
    /\ UNCHANGED <<vars, path, swapped>>

\* config.Load, and ApplyBandwidthLimit up to its first command.
Load ==
    /\ at = "load" /\ file' = NoFile
    /\ \/ ~Accepted(file) /\ at' = "idle" /\ UNCHANGED <<vars, mode, limited>>
       \/ /\ Accepted(file)
          /\ mode' = Loaded(file).Mode /\ limited' = file.BandwidthEnabled
          /\ ApplyBandwidthLimit(file.BandwidthEnabled, file.AllowReplaceRootQdisc)
          /\ at' = "limit"
    /\ UNCHANGED <<path, swapped>>

\* ApplyBandwidthLimit has returned; with its error Run returns at once.
Limited ==
    /\ at = "limit" /\ pc \in {"up", "exit"}
    /\ at' = IF pc = "exit" THEN "idle" ELSE IF mode = "upnp" THEN "serve" ELSE "dir"
    /\ UNCHANGED <<vars, configuredVars, path, swapped>>

-----------------------------------------------------------------------------
(* The notify socket.                                                      *)

Go(stage) == at' = stage /\ UNCHANGED <<vars, configuredVars>>

\* A step that fails before there is a listener leaves only the limit.
Fails == Go("clear") /\ UNCHANGED <<path, swapped>>

\* EnsureNotifySocketDir and GenerateNotifyToken.
SocketDir == at = "dir" /\ (Fails \/ (Go("lstat") /\ UNCHANGED <<path, swapped>>))

\* Mutant: whatever is in the way goes.
LstatAny ==
    /\ at = "lstat" /\ swapped' = FALSE
    /\ Go(IF path = "none" THEN "bind" ELSE "remove") /\ UNCHANGED path

\* removeExistingNotifySocket looks first.
Lstat ==
    /\ at = "lstat" /\ swapped' = FALSE
    /\ \/ path = "none" /\ Go("bind")
       \/ path = "stale" /\ Go("remove")
       \/ Go("clear")
    /\ UNCHANGED path

Remove ==
    /\ at = "remove"
    /\ \/ path # "none" /\ Go("bind") /\ path' = "none" /\ UNCHANGED swapped
       \/ Fails

\* net.Listen.
Bind ==
    /\ at = "bind"
    /\ \/ path = "none" /\ Go("chmod") /\ path' = "live" /\ swapped' = FALSE
       \/ Fails

\* Mutant: the listener is forgotten when Chmod fails.
ChmodLeaks == at = "chmod" /\ (Fails \/ (Go("serve") /\ UNCHANGED <<path, swapped>>))

\* Closing the listener unlinks its path, whatever is there by now.
Chmod ==
    /\ at = "chmod"
    /\ \/ path # "none" /\ Go("serve") /\ UNCHANGED path
       \/ Go("clear") /\ path' = "none"
    /\ UNCHANGED swapped

-----------------------------------------------------------------------------

\* The mode returns: cancelled, or with an error.
Served ==
    /\ at = "serve"
    /\ Go(IF mode = "natmap" THEN "close" ELSE "clear")
    /\ UNCHANGED <<path, swapped>>

\* The deferred Listener.Close.
CloseListener == at = "close" /\ Go("clear") /\ path' = "none" /\ UNCHANGED swapped

\* The deferred clearBandwidth; it ends the process (Limiter.Clear).
Clear == at = "clear" /\ Shutdown /\ UNCHANGED appVars

Returned == /\ at = "clear" /\ pc = "exit"
            /\ Go("idle") /\ UNCHANGED <<path, swapped>>

\* The steps of the Limiter, within Apply and Clear.
Limiting == Commands /\ UNCHANGED appVars

-----------------------------------------------------------------------------
(* The environment.                                                        *)

Killed == /\ at \notin {"idle", "load"} /\ Kill
          /\ at' = "idle" /\ path' = IF path = "live" THEN "stale" ELSE path
          /\ UNCHANGED <<configuredVars, swapped>>

\* Somebody puts a file of his own to the socket's path, or takes away what
\* is there.
PathOutsider ==
    /\ path' \in {"none", "other"} \ {path}
    /\ swapped' = TRUE
    /\ UNCHANGED <<vars, at, configuredVars>>

AppOutsider == PathOutsider \/ (Outsider /\ UNCHANGED appVars)

Run == \/ Launch \/ Load \/ Limited \/ SocketDir \/ Lstat \/ Remove \/ Bind \/ Chmod
       \/ Served \/ CloseListener \/ Clear \/ Returned \/ Limiting

AppNext == Run \/ Killed \/ AppOutsider

AppSpec == AppInit /\ [][AppNext]_<<vars, appVars>>

-----------------------------------------------------------------------------
(* Properties.                                                             *)

\* A configuration that Load accepts gives every part that the selected mode
\* runs values it can work with, also the parts that read fields of another
\* section: of all arguments with a value only hath-rust's --rpc-server-ip may
\* be one that nobody looked at, the conversions to seconds and to uint32 lose
\* nothing, the renewal ticker does not panic, the HTTP client has a timeout
\* (config.go:139-263 against run.go:128-155, 247-249, 278-331, 405-411,
\* runner.go:27-52, client.go:36-107).  The tests try one bad field at a time.
AcceptedIsUsable == at = "load" /\ Accepted(file) => Usable(Loaded(file))

\* For an accepted configuration the fallbacks of supervisor.go:164-203 and
\* run.go:224-232 are never taken: Run and the UPnP mode wait as configured.
RuntimeAsConfigured == at = "load" /\ Accepted(file) => KeepsDelays(Loaded(file))

\* If the configuration asks for the limit, it is in place with all its rules
\* from before the notify socket to after it, or an outsider has changed the
\* root qdisc since: the limit is there before the first child is started and
\* goes after the last one is stopped, and neither a missing NET_ADMIN, nor a
\* refused or failed inspection, nor a failed command leads to an unlimited
\* service (run.go:60-64, 333-350, limiter.go:95-115).
LimitedWhileServing ==
    limited /\ at \in {"dir", "lstat", "remove", "bind", "chmod", "serve", "close"} =>
        pc = "up" /\ applied /\ (owner = "program" => rules = 3)

\* Only a process that runs has a socket at the path: whichever step failed,
\* one that has returned leaves none there, and one that was killed leaves
\* one that the next start knows for stale (socket.go:69-76, 91-106,
\* run.go:97-101).
SocketHasOwner == path = "live" => at \in {"chmod", "serve", "close"}

\* What is at the path of the socket and is not a socket stays there, unless
\* it took the place of what the process had just seen or bound there: the
\* removal and Close unlink by name (socket.go:91-106, 47).
FileKept ==
    [][path = "other" /\ path' # "other" /\ Run => swapped]_<<vars, appVars>>

=============================================================================
