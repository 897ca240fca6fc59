----------------------------- MODULE ForgeLogin -----------------------------
(***************************************************************************)
(* `aivcs login` and `aivcs org switch`: the target of the session, the    *)
(* device and PKCE flows against the issuer, the probe of the forge, and   *)
(* the token and configuration files in ~/.aivcs, which are written one    *)
(* after the other and shared with an organisation switch run elsewhere.   *)
(***************************************************************************)
EXTENDS Naturals

CONSTANTS LoginInput,     (* invocations: options and environment *)
          SwitchOrg,      (* organisations to switch to *)
          DeviceExpiry,   (* expires_in of the device code, in units of five seconds *)
          MaxLogins,      (* bound on login and switch commands *)
          LoginFaults     (* bound on failed writes and crashes *)

Unset == "unset"
EdgeForgeUrl == "edge"
ForgeUrl == {Unset, EdgeForgeUrl, "https", "loopback", "service", "tailnet", "plain"}

(* LoginOptions that decide anything, with the environment and the display *)
(* of the command.                                                         *)
LoginOptions ==
    [url : ForgeUrl, issuer : {Unset, "issuer"}, device : BOOLEAN, inCluster : BOOLEAN,
     tailscale : BOOLEAN, display : BOOLEAN, forcePkce : BOOLEAN, envToken : {Unset, "env"},
     envUrl : ForgeUrl, envIssuer : {Unset, "issuer"}, envOrg : {Unset} \cup SwitchOrg]

ASSUME LoginAssumption ==
    /\ LoginInput \subseteq LoginOptions
    /\ DeviceExpiry \in Nat /\ MaxLogins \in Nat /\ LoginFaults \in Nat

NoConfig == [url |-> Unset, issuer |-> Unset, method |-> Unset, org |-> Unset]
Garbled  == [NoConfig EXCEPT !.url = "garbled"]   (* a file cut off by a crash *)
IdleLogin  == [pc |-> "idle"]
IdleSwitch == [org |-> Unset]

VARIABLES tokenFile, config, login, switch,
          probed,       (* <<url, token>> pairs the forge answered well *)
          session,      (* "none", or whether the last login's files are undisturbed *)
          commands, loginFaults

loginVars == <<tokenFile, config, login, switch, probed, session, commands, loginFaults>>

files == <<tokenFile, config>>

LoginInit ==
    /\ tokenFile \in {Unset, "placed"}
    /\ config = NoConfig
    /\ login = IdleLogin /\ switch = IdleSwitch
    /\ probed = {} /\ session = "none"
    /\ commands = 0 /\ loginFaults = 0

-----------------------------------------------------------------------------
(* Reading the configuration: an unreadable file counts as none.           *)
Loaded == IF config = Garbled THEN NoConfig ELSE config

FirstSet(a, b, c) == IF a # Unset THEN a ELSE IF b # Unset THEN b ELSE c

EffectiveForgeUrl(i)  == FirstSet(i.envUrl, Loaded.url, EdgeForgeUrl)
EffectiveIssuerUrl(i) == FirstSet(i.issuer, FirstSet(i.envIssuer, Loaded.issuer, Unset), "issuer")
EffectiveActiveOrg(i) == FirstSet(i.envOrg, Loaded.org, "aivcs")

(* validate_forge_url, on the classes of URL it tells apart.               *)
ValidateForgeUrl(url, tailscale) ==
    \/ url \in {EdgeForgeUrl, "https", "loopback", "service"}
    \/ tailscale /\ url = "tailnet"

(* What kubectl answers for the service's address and for its secret.      *)
ClusterIp   == {Unset, "tailnet", "plain"}
SecretToken == {Unset, "secret"}

(* login_target.                                                           *)
LoginTarget(i, clusterIp) ==
    CASE i.url # Unset ->
           [ok |-> ValidateForgeUrl(i.url, i.tailscale), url |-> i.url,
            method |-> IF i.tailscale THEN "tailscale_explicit" ELSE "explicit"]
      [] i.url = Unset /\ i.tailscale ->
           [ok |-> clusterIp # Unset /\ ValidateForgeUrl(clusterIp, TRUE), url |-> clusterIp,
            method |-> "tailscale_subnet"]
      [] i.url = Unset /\ ~i.tailscale /\ i.inCluster ->
           [ok |-> TRUE, url |-> "service", method |-> "cluster_dns"]
      [] OTHER -> [ok |-> TRUE, url |-> EdgeForgeUrl, method |-> "edge_service"]

ExistingUsableToken(i) == i.envToken # Unset \/ tokenFile # Unset

(* Which way run_login obtains a token.                                    *)
TokenStep(i) ==
    CASE i.device -> "device"
      [] ~i.device /\ ~i.inCluster /\ ~i.tailscale /\ i.display
           /\ (~ExistingUsableToken(i) \/ i.forcePkce) -> "pkce"
      [] OTHER -> "resolve"

-----------------------------------------------------------------------------
Fails == login' = IdleLogin

StartLogin(i, clusterIp) ==
    /\ login = IdleLogin /\ commands < MaxLogins
    /\ commands' = commands + 1
    /\ LET target == LoginTarget(i, clusterIp)
       IN  login' = IF ~target.ok THEN IdleLogin
                    ELSE [pc |-> TokenStep(i), input |-> i, url |-> target.url,
                          method |-> target.method, issuer |-> EffectiveIssuerUrl(i),
                          token |-> Unset, attempt |-> 1, elapsed |-> 0, interval |-> 1]
    /\ UNCHANGED <<files, switch, probed, session, loginFaults>>

Obtains(token, method) ==
    login' = [login EXCEPT !.pc = "probe", !.token = token, !.method = method]

(* resolve_token: the file, then the environment, then the cluster secret. *)
ResolveToken(secret) ==
    /\ login.pc = "resolve"
    /\ LET token == FirstSet(tokenFile, login.input.envToken, secret)
       IN  IF token = Unset THEN Fails ELSE Obtains(token, login.method)
    /\ UNCHANGED <<files, switch, probed, session, commands, loginFaults>>

(* run_pkce_flow: one callback is accepted, and its state is compared with *)
(* the nonce; every error falls back to the device flow.                   *)
PkceCallback(answer) ==
    /\ login.pc = "pkce"
    /\ login' = [login EXCEPT !.pc = IF answer = "code" THEN "exchange" ELSE "device"]
    /\ UNCHANGED <<files, switch, probed, session, commands, loginFaults>>

PkceExchange(token) ==
    /\ login.pc = "exchange"
    /\ IF token = Unset THEN login' = [login EXCEPT !.pc = "device"] ELSE Obtains(token, "pkce")
    /\ UNCHANGED <<files, switch, probed, session, commands, loginFaults>>

(* run_device_flow: the request for a code, then the polls.                *)
DeviceAuthorize(granted) ==
    /\ login.pc = "device"
    /\ IF granted THEN login' = [login EXCEPT !.pc = "poll"] ELSE Fails
    /\ UNCHANGED <<files, switch, probed, session, commands, loginFaults>>

PollAnswer == {"token", "empty", "network", "garbled", "authorization_pending", "slow_down",
               "access_denied", "expired_token", "other"}

DevicePoll(answer) ==
    /\ login.pc = "poll" /\ login.elapsed < DeviceExpiry
    /\ CASE answer = "token" -> Obtains("granted", "device_flow")
         [] answer \in {"network", "garbled", "authorization_pending"} ->
              login' = [login EXCEPT !.elapsed = @ + login.interval]
         [] answer = "slow_down" ->
              login' = [login EXCEPT !.elapsed = @ + login.interval, !.interval = @ + 1]
         [] OTHER -> Fails
    /\ UNCHANGED <<files, switch, probed, session, commands, loginFaults>>

DeviceTimedOut ==
    /\ login.pc = "poll" /\ login.elapsed >= DeviceExpiry
    /\ Fails
    /\ UNCHANGED <<files, switch, probed, session, commands, loginFaults>>

(* probe_forge: three attempts, of which only an overloaded or unreachable *)
(* forge earns another.                                                    *)
ProbeAnswer == {"ok", "overloaded", "refused", "network"}

(* A plausible bug: when the attempts run out, the loop of probe_forge     *)
(* ends as if the forge had answered.                                      *)
ProbeExhausted(answer) ==
    /\ login.pc = "probe"
    /\ probed' = IF answer = "ok" THEN probed \cup {<<login.url, login.token>>} ELSE probed
    /\ CASE answer = "refused" -> Fails
         [] answer \in {"overloaded", "network"} /\ login.attempt < 3 ->
              login' = [login EXCEPT !.attempt = @ + 1]
         [] OTHER -> login' = [login EXCEPT !.pc = "token"]
    /\ UNCHANGED <<files, switch, session, commands, loginFaults>>

Probe(answer) ==
    /\ login.pc = "probe"
    /\ probed' = IF answer = "ok" THEN probed \cup {<<login.url, login.token>>} ELSE probed
    /\ CASE answer = "ok" -> login' = [login EXCEPT !.pc = "token"]
         [] answer \in {"overloaded", "network"} /\ login.attempt < 3 ->
              login' = [login EXCEPT !.attempt = @ + 1]
         [] OTHER -> Fails
    /\ UNCHANGED <<files, switch, session, commands, loginFaults>>

-----------------------------------------------------------------------------
(* The two files.  A write that fails ends the command, and one cut off by *)
(* a crash leaves an empty file.                                           *)
SavedConfig ==
    [url |-> login.url, issuer |-> login.issuer, method |-> login.method,
     org |-> EffectiveActiveOrg(login.input)]

WriteToken ==
    /\ login.pc = "token"
    /\ tokenFile' = login.token
    /\ login' = [login EXCEPT !.pc = "config"]
    /\ UNCHANGED <<config, switch, probed, session, commands, loginFaults>>

WriteConfig ==
    /\ login.pc = "config"
    /\ config' = SavedConfig
    /\ session' = "whole"
    /\ Fails
    /\ UNCHANGED <<tokenFile, switch, probed, commands, loginFaults>>

(* The command ends at a write that fails or is cut off.                   *)
WriteFails ==
    /\ login.pc \in {"token", "config"} /\ loginFaults < LoginFaults
    /\ loginFaults' = loginFaults + 1
    /\ \/ login.pc = "token" /\ tokenFile' \in {tokenFile, Unset} /\ UNCHANGED config
       \/ login.pc = "config" /\ config' \in {config, Garbled} /\ UNCHANGED tokenFile
    /\ session' = IF login.pc = "token" /\ tokenFile' = tokenFile THEN session ELSE "torn"
    /\ Fails
    /\ UNCHANGED <<switch, probed, commands>>

(* switch_org reads the configuration and writes it back.                  *)
SwitchRead(i, org) ==
    /\ switch = IdleSwitch /\ commands < MaxLogins
    /\ commands' = commands + 1
    /\ switch' = [org |-> org, was |-> config,
                  read |-> IF Loaded # NoConfig THEN Loaded
                           ELSE [url |-> EffectiveForgeUrl(i), issuer |-> Unset,
                                 method |-> "edge_service", org |-> "aivcs"]]
    /\ UNCHANGED <<files, login, probed, session, loginFaults>>

SwitchWrite ==
    /\ switch # IdleSwitch
    /\ config' = [switch.read EXCEPT !.org = switch.org]
    /\ session' = IF session = "whole" /\ config # switch.was THEN "torn" ELSE session
    /\ switch' = IdleSwitch
    /\ UNCHANGED <<tokenFile, login, probed, commands, loginFaults>>

LoginNext ==
    \/ \E i \in LoginInput : \E ip \in ClusterIp : StartLogin(i, ip)
    \/ \E s \in SecretToken : ResolveToken(s)
    \/ \E a \in {"code", "other_state", "no_code", "timeout"} : PkceCallback(a)
    \/ \E t \in {Unset, "granted"} : PkceExchange(t)
    \/ \E g \in BOOLEAN : DeviceAuthorize(g)
    \/ \E a \in PollAnswer : DevicePoll(a)
    \/ DeviceTimedOut
    \/ \E a \in ProbeAnswer : Probe(a)
    \/ WriteToken \/ WriteConfig \/ WriteFails
    \/ \E i \in LoginInput, o \in SwitchOrg : SwitchRead(i, o)
    \/ SwitchWrite

LoginSpec == LoginInit /\ [][LoginNext]_loginVars

-----------------------------------------------------------------------------
(* ForgeSessionConfig, or a file without one.                              *)
SessionConfig ==
    [url : ForgeUrl \cup {"garbled"}, issuer : {Unset, "issuer"},
     method : {Unset, "explicit", "tailscale_explicit", "tailscale_subnet", "cluster_dns",
               "edge_service", "pkce", "device_flow"},
     org : {Unset, "aivcs"} \cup SwitchOrg]

LoginTypeOK ==
    /\ tokenFile \in {Unset, "placed", "env", "secret", "granted"}
    /\ config \in SessionConfig
    /\ login # IdleLogin =>
         /\ login.input \in LoginInput /\ login.attempt \in 1 .. 3
         /\ ValidateForgeUrl(login.url, login.input.tailscale)
         /\ login.pc \in {"probe", "token", "config"} => login.token # Unset
    /\ session \in {"none", "whole", "torn"}
    /\ commands \in 0 .. MaxLogins /\ loginFaults \in 0 .. LoginFaults

(* The session on disk is one the forge answered: unless a write was cut   *)
(* off or an organisation switch wrote back a configuration read before    *)
(* the login, the stored token went through the probe of run_login against *)
(* the stored URL, whatever logins have failed since.                      *)
SessionProbed ==
    session = "whole" /\ login.pc # "config" => <<config.url, tokenFile>> \in probed

=============================================================================
