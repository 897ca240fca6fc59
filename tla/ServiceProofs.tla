---------------------------- MODULE ServiceProofs ----------------------------
(***************************************************************************)
(* The login, the release tool, the tool gateway, the Cargo registry and   *)
(* the registry of releases, for any number of requests, runs and faults.  *)
(***************************************************************************)
EXTENDS LibraryProofs, CargoRegistry, McpGateway, ForgeLogin, ReleasePipeline, ReleaseRegistry

-----------------------------------------------------------------------------
(* The login.  A running login has a valid target; what it writes has gone *)
(* through the probe, and between the two writes the token file is its     *)
(* own.                                                                    *)
LoginMethod == {"explicit", "tailscale_explicit", "tailscale_subnet", "cluster_dns",
                "edge_service", "pkce", "device_flow"}

LoginRecord ==
    [pc : {"device", "pkce", "resolve", "exchange", "poll", "probe", "token", "config"},
     input : LoginInput, url : ForgeUrl, method : LoginMethod, issuer : {Unset, "issuer"},
     token : {Unset, "placed", "env", "secret", "granted"}, attempt : 1 .. 3,
     elapsed : Nat, interval : Nat]

LoginRuns ==
    /\ login \in LoginRecord
    /\ ValidateForgeUrl(login.url, login.input.tailscale)
    /\ login.pc \in {"probe", "token", "config"} => login.token # Unset
    /\ login.pc \in {"token", "config"} => <<login.url, login.token>> \in probed
    /\ login.pc = "config" => tokenFile = login.token

(* A switch that read a stored configuration writes that one back.  The    *)
(* issuer of a configuration is one, or unset.                             *)
SwitchRuns ==
    /\ switch.org \in SwitchOrg
    /\ switch.was \in SessionConfig /\ switch.read \in SessionConfig
    /\ switch.was.method # Unset => switch.read = switch.was

LoginInv ==
    /\ tokenFile \in {Unset, "placed", "env", "secret", "granted"}
    /\ config \in SessionConfig /\ session \in {"none", "whole", "torn"}
    /\ commands \in 0 .. MaxLogins /\ loginFaults \in 0 .. LoginFaults
    /\ login = IdleLogin \/ LoginRuns
    /\ switch = IdleSwitch \/ SwitchRuns
    /\ session = "whole" => config.method # Unset
    /\ SessionProbed

(* What login_target accepts is a target that validate_forge_url accepts. *)
LEMMA TargetValid ==
    ASSUME NEW i \in LoginInput, NEW ip \in ClusterIp, LoginTarget(i, ip).ok
    PROVE  /\ LoginTarget(i, ip).url \in ForgeUrl /\ LoginTarget(i, ip).method \in LoginMethod
           /\ ValidateForgeUrl(LoginTarget(i, ip).url, i.tailscale)
  <1>1. i \in LoginOptions
    BY LoginAssumption
  <1> QED BY <1>1 DEF LoginOptions, LoginTarget, ClusterIp, ForgeUrl, LoginMethod, ValidateForgeUrl,
             EdgeForgeUrl, Unset

(* A step of a login that writes no file. *)
LEMMA LoginMoves ==
    ASSUME LoginInv, UNCHANGED <<files, switch, session, loginFaults>>,
           commands' \in 0 .. MaxLogins, probed \subseteq probed',
           login' = IdleLogin \/ (LoginRuns' /\ login'.pc # "config"),
           login.pc # "config"
    PROVE  LoginInv'
  BY DEF LoginInv, SessionProbed, SwitchRuns, files

(* The probed pairs and the session survive every step of every command.  *)
LEMMA LoginStep == LoginInv /\ [LoginNext]_loginVars => LoginInv'
  <1> SUFFICES ASSUME LoginInv, [LoginNext]_loginVars PROVE LoginInv'
    OBVIOUS
  <1>1. ASSUME NEW i \in LoginInput, NEW ip \in ClusterIp, StartLogin(i, ip) PROVE LoginInv'
    <2>1. CASE ~ LoginTarget(i, ip).ok
      BY <1>1, <2>1, LoginMoves, LoginAssumption DEF StartLogin, LoginInv, files, IdleLogin
    <2>2. CASE LoginTarget(i, ip).ok
      <3> DEFINE rec == [pc |-> TokenStep(i), input |-> i, url |-> LoginTarget(i, ip).url,
                         method |-> LoginTarget(i, ip).method, issuer |-> EffectiveIssuerUrl(i),
                         token |-> Unset, attempt |-> 1, elapsed |-> 0, interval |-> 1]
      <3>1. login' = rec /\ login = IdleLogin
        BY <1>1, <2>2 DEF StartLogin
      <3>2. TokenStep(i) \in {"device", "pkce", "resolve"}
        BY DEF TokenStep
      <3>3. EffectiveIssuerUrl(i) \in {Unset, "issuer"}
        <4>1. i \in LoginOptions
          BY LoginAssumption
        <4> QED BY <4>1 DEF LoginOptions, LoginInv, SessionConfig, EffectiveIssuerUrl, FirstSet,
                   Loaded, NoConfig
      <3>4. rec \in LoginRecord /\ rec.pc \in {"device", "pkce", "resolve"}
        BY <2>2, <3>2, <3>3, TargetValid DEF LoginRecord
      <3>5. LoginRuns' /\ login'.pc # "config"
        BY <2>2, <3>1, <3>4, TargetValid DEF LoginRuns
      <3> QED BY <1>1, <3>1, <3>5, LoginMoves, LoginAssumption DEF StartLogin, LoginInv, files,
                 IdleLogin
    <2> QED BY <2>1, <2>2
  <1>2. ASSUME login.pc # "idle" PROVE LoginRuns /\ login \in LoginRecord
    BY <1>2 DEF LoginInv, LoginRuns, IdleLogin
  <1>3. ASSUME NEW t \in {Unset, "placed", "env", "secret", "granted"}, NEW m \in LoginMethod,
               t # Unset, Obtains(t, m), login.pc \notin {"idle", "config"},
               UNCHANGED <<files, switch, probed, session, commands, loginFaults>>
        PROVE  LoginInv'
    <2>1. login \in LoginRecord /\ ValidateForgeUrl(login.url, login.input.tailscale)
      BY <1>2, <1>3 DEF LoginRuns
    <2>2. login' \in LoginRecord /\ login'.pc = "probe" /\ login'.token # Unset
      BY <1>3, <2>1 DEF Obtains, LoginRecord
    <2>3. login'.url = login.url /\ login'.input = login.input
      BY <1>3, <2>1 DEF Obtains, LoginRecord
    <2>4. LoginRuns'
      BY <2>1, <2>2, <2>3 DEF LoginRuns
    <2> QED BY <1>3, <2>2, <2>4, LoginMoves DEF LoginInv
  <1>4. ASSUME Fails, login.pc # "config",
               UNCHANGED <<files, switch, session, commands, loginFaults>>, probed \subseteq probed'
        PROVE  LoginInv'
    BY <1>4, LoginMoves DEF LoginInv, Fails
  <1>5. ASSUME NEW c \in {"exchange", "device", "poll"}, login.pc \notin {"idle", "config"},
               login' = [login EXCEPT !.pc = c],
               UNCHANGED <<files, switch, probed, session, commands, loginFaults>>
        PROVE  LoginInv'
    <2>1. login \in LoginRecord /\ ValidateForgeUrl(login.url, login.input.tailscale)
      BY <1>2, <1>5 DEF LoginRuns
    <2>2. /\ login' \in LoginRecord /\ login'.pc = c
          /\ login'.url = login.url /\ login'.input = login.input
      BY <1>5, <2>1 DEF LoginRecord
    <2>3. LoginRuns' /\ login'.pc # "config"
      BY <2>1, <2>2 DEF LoginRuns
    <2> QED BY <1>5, <2>3, LoginMoves DEF LoginInv
  <1>6. ASSUME NEW s \in SecretToken, ResolveToken(s) PROVE LoginInv'
    <2> DEFINE t == FirstSet(tokenFile, login.input.envToken, s)
    <2>1. login \in LoginRecord /\ login.pc = "resolve"
      BY <1>2, <1>6 DEF ResolveToken
    <2>2. login.input \in LoginOptions /\ login.method \in LoginMethod
      BY <2>1, LoginAssumption DEF LoginRecord
    <2>3. t \in {Unset, "placed", "env", "secret", "granted"}
      BY <2>2 DEF FirstSet, LoginInv, LoginOptions, SecretToken
    <2>4. CASE t = Unset
      BY <1>4, <1>6, <2>1, <2>4 DEF ResolveToken
    <2>5. CASE t # Unset
      <3>1. Obtains(t, login.method)
        BY <1>6, <2>5 DEF ResolveToken
      <3> HIDE DEF t
      <3> QED BY <1>3, <1>6, <2>1, <2>2, <2>3, <2>5, <3>1 DEF ResolveToken
    <2> QED BY <2>4, <2>5
  <1>7. ASSUME NEW a, PkceCallback(a) PROVE LoginInv'
    BY <1>5, <1>7 DEF PkceCallback
  <1>8. ASSUME NEW t \in {Unset, "granted"}, PkceExchange(t) PROVE LoginInv'
    <2>1. CASE t = Unset
      BY <1>5, <1>8, <2>1 DEF PkceExchange
    <2>2. CASE t # Unset
      <3>1. "pkce" \in LoginMethod
        BY DEF LoginMethod
      <3> QED BY <1>3, <1>8, <2>2, <3>1 DEF PkceExchange
    <2> QED BY <2>1, <2>2
  <1>9. ASSUME NEW g \in BOOLEAN, DeviceAuthorize(g) PROVE LoginInv'
    BY <1>4, <1>5, <1>9 DEF DeviceAuthorize
  <1>10. ASSUME NEW a \in PollAnswer, DevicePoll(a) PROVE LoginInv'
    <2>1. login \in LoginRecord /\ login.pc = "poll" /\ LoginRuns
      BY <1>2, <1>10 DEF DevicePoll
    <2>2. UNCHANGED <<files, switch, probed, session, commands, loginFaults>>
      BY <1>10 DEF DevicePoll
    <2>3. CASE a = "token"
      <3>1. "device_flow" \in LoginMethod /\ "granted" # Unset /\ Obtains("granted", "device_flow")
        BY <1>10, <2>3 DEF DevicePoll, LoginMethod, Unset
      <3> QED BY <1>3, <2>1, <2>2, <3>1
    <2>4. CASE a \in {"network", "garbled", "authorization_pending", "slow_down"}
      <3>1. \/ login' = [login EXCEPT !.elapsed = @ + login.interval]
            \/ login' = [login EXCEPT !.elapsed = @ + login.interval, !.interval = @ + 1]
        <4>1. CASE a = "slow_down"
          BY <1>10, <4>1 DEF DevicePoll
        <4>2. CASE a \in {"network", "garbled", "authorization_pending"}
          BY <1>10, <4>2 DEF DevicePoll
        <4> QED BY <2>4, <4>1, <4>2
      <3>2. login' \in LoginRecord /\ login'.pc = "poll" /\ login'.url = login.url /\ login'.input = login.input
        <4>1. login.elapsed + login.interval \in Nat /\ login.interval + 1 \in Nat
          BY <2>1 DEF LoginRecord
        <4>2. CASE login' = [login EXCEPT !.elapsed = @ + login.interval]
          BY <2>1, <4>1, <4>2 DEF LoginRecord
        <4>3. CASE login' = [login EXCEPT !.elapsed = @ + login.interval, !.interval = @ + 1]
          BY <2>1, <4>1, <4>3 DEF LoginRecord
        <4> QED BY <3>1, <4>2, <4>3
      <3>3. LoginRuns'
        BY <2>1, <3>2 DEF LoginRuns
      <3> QED BY <2>1, <2>2, <3>2, <3>3, LoginMoves DEF LoginInv
    <2>5. CASE a \notin {"token", "network", "garbled", "authorization_pending", "slow_down"}
      <3>1. Fails
        BY <1>10, <2>5 DEF DevicePoll
      <3> QED BY <1>4, <2>1, <2>2, <3>1
    <2> QED BY <2>3, <2>4, <2>5
  <1>11. ASSUME DeviceTimedOut PROVE LoginInv'
    BY <1>4, <1>11 DEF DeviceTimedOut
  <1>12. ASSUME NEW a \in ProbeAnswer, Probe(a) PROVE LoginInv'
    <2>1. login \in LoginRecord /\ login.pc = "probe" /\ LoginRuns
      BY <1>2, <1>12 DEF Probe
    <2>2. UNCHANGED <<files, switch, session, commands, loginFaults>> /\ probed \subseteq probed'
      BY <1>12 DEF Probe
    <2>3. CASE a = "ok"
      <3>1. login' = [login EXCEPT !.pc = "token"] /\ <<login.url, login.token>> \in probed'
        BY <1>12, <2>3 DEF Probe
      <3>2. /\ login' \in LoginRecord /\ login'.pc = "token" /\ login'.url = login.url
            /\ login'.input = login.input /\ login'.token = login.token
        BY <2>1, <3>1 DEF LoginRecord
      <3>3. LoginRuns'
        BY <2>1, <3>1, <3>2 DEF LoginRuns
      <3> QED BY <2>1, <2>2, <3>2, <3>3, LoginMoves DEF LoginInv
    <2>4. CASE a \in {"overloaded", "network"} /\ login.attempt < 3
      <3>1. login' = [login EXCEPT !.attempt = @ + 1]
        BY <1>12, <2>4 DEF Probe
      <3>2. /\ login' \in LoginRecord /\ login'.pc = "probe" /\ login'.url = login.url
            /\ login'.input = login.input /\ login'.token = login.token
        BY <2>1, <2>4, <3>1 DEF LoginRecord
      <3>3. LoginRuns'
        BY <2>1, <3>2 DEF LoginRuns
      <3> QED BY <2>1, <2>2, <3>2, <3>3, LoginMoves DEF LoginInv
    <2>5. CASE a # "ok" /\ ~ (a \in {"overloaded", "network"} /\ login.attempt < 3)
      <3>1. Fails
        BY <1>12, <2>5 DEF Probe
      <3> QED BY <1>4, <2>1, <2>2, <3>1
    <2> QED BY <2>3, <2>4, <2>5
  <1>13. CASE WriteToken
    <2>1. login \in LoginRecord /\ login.pc = "token" /\ LoginRuns
      BY <1>2, <1>13 DEF WriteToken
    <2>2. login' = [login EXCEPT !.pc = "config"] /\ tokenFile' = login.token
      BY <1>13 DEF WriteToken
    <2>3. UNCHANGED <<config, switch, probed, session, commands, loginFaults>>
      BY <1>13 DEF WriteToken
    <2>4. /\ login' \in LoginRecord /\ login'.pc = "config" /\ login'.url = login.url
          /\ login'.input = login.input /\ login'.token = login.token
      BY <2>1, <2>2 DEF LoginRecord
    <2>5. LoginRuns'
      BY <2>1, <2>2, <2>3, <2>4 DEF LoginRuns
    <2>6. login.token \in {Unset, "placed", "env", "secret", "granted"}
      BY <2>1 DEF LoginRecord
    <2> QED BY <2>2, <2>3, <2>4, <2>5, <2>6 DEF LoginInv, SessionProbed, SwitchRuns
  <1>14. CASE WriteConfig
    <2>1. login \in LoginRecord /\ login.pc = "config" /\ LoginRuns
      BY <1>2, <1>14 DEF WriteConfig
    <2>2. /\ config' = SavedConfig /\ session' = "whole" /\ login' = IdleLogin
          /\ UNCHANGED <<tokenFile, switch, probed, commands, loginFaults>>
      BY <1>14 DEF WriteConfig, Fails
    <2>3. EffectiveActiveOrg(login.input) \in {Unset, "aivcs"} \cup SwitchOrg
      <3>1. login.input \in LoginOptions
        BY <2>1, LoginAssumption DEF LoginRecord
      <3> QED BY <3>1 DEF EffectiveActiveOrg, FirstSet, LoginOptions, Loaded, NoConfig, LoginInv,
                 SessionConfig
    <2>4. SavedConfig \in SessionConfig /\ SavedConfig.method # Unset /\ SavedConfig.url = login.url
      BY <2>1, <2>3 DEF SavedConfig, SessionConfig, LoginRecord, LoginMethod, Unset
    <2>5. <<login.url, tokenFile>> \in probed
      BY <2>1 DEF LoginRuns
    <2> QED BY <2>2, <2>4, <2>5 DEF LoginInv, SessionProbed, SwitchRuns
  <1>15. CASE WriteFails
    <2>1. login.pc \in {"token", "config"} /\ login' = IdleLogin
      BY <1>15 DEF WriteFails, Fails
    <2>2. UNCHANGED <<switch, probed, commands>> /\ loginFaults' \in 0 .. LoginFaults
      BY <1>15, LoginAssumption DEF WriteFails, LoginInv
    <2>3. tokenFile' \in {tokenFile, Unset} /\ config' \in {config, Garbled}
      BY <1>15 DEF WriteFails
    <2>4. Garbled \in SessionConfig
      BY DEF Garbled, NoConfig, SessionConfig
    <2>5. \/ session' = "torn"
          \/ session' = session /\ login.pc # "config" /\ tokenFile' = tokenFile /\ config' = config
      BY <1>15, <2>1 DEF WriteFails
    <2> QED BY <2>1, <2>2, <2>3, <2>4, <2>5 DEF LoginInv, SessionProbed, SwitchRuns
  <1>16. ASSUME NEW i \in LoginInput, NEW o \in SwitchOrg, SwitchRead(i, o) PROVE LoginInv'
    <2> DEFINE rec == IF Loaded # NoConfig THEN Loaded
                      ELSE [url |-> EffectiveForgeUrl(i), issuer |-> Unset,
                            method |-> "edge_service", org |-> "aivcs"]
    <2>1. i \in LoginOptions
      BY LoginAssumption
    <2>2. /\ switch' = [org |-> o, was |-> config, read |-> rec]
          /\ UNCHANGED <<files, login, probed, session, loginFaults>>
          /\ commands' = commands + 1 /\ commands < MaxLogins
      BY <1>16 DEF SwitchRead
    <2>3. config \in SessionConfig /\ Loaded \in SessionConfig
      BY DEF LoginInv, Loaded, NoConfig, SessionConfig, ForgeUrl
    <2>4. EffectiveForgeUrl(i) \in ForgeUrl \cup {"garbled"}
      BY <2>1, <2>3 DEF EffectiveForgeUrl, FirstSet, LoginOptions, SessionConfig, ForgeUrl
    <2>5. rec \in SessionConfig
      BY <2>3, <2>4 DEF SessionConfig
    <2>6. config.method # Unset => rec = config
      BY DEF Loaded, NoConfig, Garbled
    <2>7. SwitchRuns'
      BY <2>2, <2>3, <2>5, <2>6 DEF SwitchRuns
    <2>8. commands' \in 0 .. MaxLogins
      BY <2>2, LoginAssumption DEF LoginInv
    <2> QED BY <2>2, <2>7, <2>8 DEF LoginInv, LoginRuns, SessionProbed, files
  <1>17. CASE SwitchWrite
    <2>1. SwitchRuns
      BY <1>17 DEF SwitchWrite, LoginInv
    <2>2. /\ config' = [switch.read EXCEPT !.org = switch.org] /\ switch' = IdleSwitch
          /\ session' = IF session = "whole" /\ config # switch.was THEN "torn" ELSE session
          /\ UNCHANGED <<tokenFile, login, probed, commands, loginFaults>>
      BY <1>17 DEF SwitchWrite
    <2>3. config' \in SessionConfig /\ config'.url = switch.read.url /\ config'.method = switch.read.method
      BY <2>1, <2>2 DEF SwitchRuns, SessionConfig
    <2>4. session' = "whole" => session = "whole" /\ switch.read = config
      BY <2>1, <2>2 DEF SwitchRuns, LoginInv
    <2>5. session' \in {"none", "whole", "torn"}
      BY <2>2 DEF LoginInv
    <2> QED BY <2>2, <2>3, <2>4, <2>5 DEF LoginInv, LoginRuns, SessionProbed
  <1>18. CASE UNCHANGED loginVars
    BY <1>18 DEF loginVars, LoginInv, LoginRuns, SwitchRuns, SessionProbed
  <1> QED
    BY <1>1, <1>6, <1>7, <1>8, <1>9, <1>10, <1>11, <1>12, <1>13, <1>14, <1>15, <1>16, <1>17, <1>18
       DEF LoginNext

(* However logins fail, crash and interleave with organisation switches,   *)
(* an undisturbed session on disk is one that the forge answered.          *)
THEOREM SessionsAreProbed == LoginSpec => [](LoginTypeOK /\ SessionProbed)
  <1>1. LoginInit => LoginInv
    BY LoginAssumption DEF LoginInit, LoginInv, SessionProbed, NoConfig, SessionConfig, ForgeUrl
  <1>2. LoginInv => LoginTypeOK /\ SessionProbed
    BY DEF LoginInv, LoginTypeOK, LoginRuns, LoginRecord
  <1> QED BY <1>1, <1>2, LoginStep, PTL DEF LoginSpec

-----------------------------------------------------------------------------
(* The release tool.  What is known at a gate is what the gates before it  *)
(* have established in the same run.                                       *)
Gate == {"failed", "verified", "success", "lockstep", "host", "linux-arm64", "linux-x86_64",
         "versions", "audit", "sums", "github", "create", "upload", "notes", "homebrew",
         "commit", "push", "brew", "formula", "images", "forge"}

AfterUpload == {"homebrew", "commit", "push", "brew", "formula", "images", "forge", "success"}
AfterSums == AfterUpload \cup {"github", "create", "upload", "notes"}
AfterAudit == AfterSums \cup {"sums"}
AfterVersions == AfterAudit \cup {"audit"}
AfterCommit == {"push", "brew", "formula", "images", "forge", "success"}

Binary == {NoBinary} \cup [build : Nat, reports : {t.version : t \in Tree}, clean : {t.clean : t \in Tree}]

PipelineTypes ==
    /\ tree \in Tree /\ releaseRuns \in Nat
    /\ pipe \in {[gate |-> "idle"]} \cup [gate : Gate, opts : ReleaseOption]
    /\ dist \in [ReleaseArtifact -> Binary]
    /\ sums \in [ReleaseArtifact -> Nat]
    /\ github \in [exists : BOOLEAN, notes : BOOLEAN, sums : [ReleaseArtifact -> Nat],
                   assets : [ReleaseArtifact -> Binary]]
    /\ tap \in [file : [ReleaseArtifact -> Nat], commit : [ReleaseArtifact -> Nat],
                pushed : [ReleaseArtifact -> Nat]]

(* The binaries a user may download report the version and are clean.      *)
Verified(b) == b.reports = Target /\ b.clean

AssetsVerified == \A a \in ReleaseArtifact : github.assets[a] # NoBinary => Verified(github.assets[a])

Uploads == \A a \in Names : github.assets[a] = dist[a] /\ github.sums[a] = dist[a].build

GatesPassed ==
    /\ pipe.gate \in AfterVersions => \A a \in Names : dist[a].reports = Target
    /\ pipe.gate \in AfterAudit => \A a \in Names : dist[a].clean
    /\ pipe.gate \in AfterSums => \A a \in Names : sums[a] = dist[a].build
    /\ pipe.gate \in {"notes"} \cup AfterUpload /\ (pipe.gate = "notes" \/ ~Opts.skipGithub) => Uploads
    /\ pipe.gate = "commit" => tap.file = sums
    /\ pipe.gate \in AfterCommit /\ ~Opts.skipHomebrew /\ Opts.tap => tap.commit = sums
    /\ pipe.gate \in {"github", "create", "upload", "notes"} => ~Opts.skipGithub

ReleaseToolInv == PipelineTypes /\ AssetsVerified /\ GatesPassed

(* A run goes from gate to gate with the options it was started with. *)
LEMMA GateMoves ==
    ASSUME PipelineTypes, pipe.gate # "idle", NEW g \in Gate, MovesTo(g)
    PROVE  /\ pipe' \in [gate : Gate, opts : ReleaseOption]
           /\ pipe'.gate = g /\ Opts' = Opts /\ Names' = Names
  <1>1. pipe \in [gate : Gate, opts : ReleaseOption]
    BY DEF PipelineTypes
  <1>2. pipe' \in [gate : Gate, opts : ReleaseOption] /\ pipe'.gate = g /\ pipe'.opts = pipe.opts
    BY <1>1 DEF MovesTo
  <1> QED BY <1>2 DEF Opts, Names

(* What is on GitHub after an upload, whole or not. *)
LEMMA UploadKeeps ==
    ASSUME PipelineTypes, AssetsVerified, pipe.gate \in {"create", "upload"}, GatesPassed,
           NEW done \in SUBSET Names, NEW digests \in {sums, github.sums}, NEW gh,
           gh = [github EXCEPT !.exists = TRUE,
                               !.assets = [a \in ReleaseArtifact |-> IF a \in done THEN dist[a] ELSE @[a]],
                               !.sums = digests]
    PROVE  /\ gh \in [exists : BOOLEAN, notes : BOOLEAN, sums : [ReleaseArtifact -> Nat],
                      assets : [ReleaseArtifact -> Binary]]
           /\ \A a \in ReleaseArtifact : gh.assets[a] # NoBinary => Verified(gh.assets[a])
           /\ \A a \in done : gh.assets[a] = dist[a]
           /\ gh.sums = digests
  <1>1. Names \subseteq ReleaseArtifact
    BY DEF Names, ReleaseArtifact
  <1>2. \A a \in Names : Verified(dist[a])
    BY DEF GatesPassed, AfterVersions, AfterAudit, AfterSums, AfterUpload, Verified
  <1> DEFINE assets == [a \in ReleaseArtifact |-> IF a \in done THEN dist[a] ELSE github.assets[a]]
  <1>3. assets \in [ReleaseArtifact -> Binary]
    BY DEF PipelineTypes
  <1>4. gh = [github EXCEPT !.exists = TRUE, !.assets = assets, !.sums = digests]
    OBVIOUS
  <1>5. \A a \in ReleaseArtifact : assets[a] # NoBinary => Verified(assets[a])
    BY <1>1, <1>2 DEF AssetsVerified
  <1>6. \A a \in done : assets[a] = dist[a]
    BY <1>1
  <1> HIDE DEF assets
  <1>7. gh.assets = assets /\ gh.sums = digests
    BY <1>4 DEF PipelineTypes
  <1>8. gh \in [exists : BOOLEAN, notes : BOOLEAN, sums : [ReleaseArtifact -> Nat],
                assets : [ReleaseArtifact -> Binary]]
    <2>1. digests \in [ReleaseArtifact -> Nat]
      BY DEF PipelineTypes
    <2> QED BY <1>3, <1>4, <2>1 DEF PipelineTypes
  <1> QED BY <1>5, <1>6, <1>7, <1>8

(* Every step of the release tool, of an editor of the tree and of the     *)
(* network keeps ReleaseToolInv.                                              *)
LEMMA ReleaseToolStep == ReleaseToolInv /\ [PipelineNext]_pipelineVars => ReleaseToolInv'
  <1> SUFFICES ASSUME ReleaseToolInv, [PipelineNext]_pipelineVars PROVE ReleaseToolInv'
    OBVIOUS
  <1>1. PipelineTypes /\ AssetsVerified /\ GatesPassed
    BY DEF ReleaseToolInv
  <1>2. ASSUME NEW t \in Tree, EditTree(t) PROVE ReleaseToolInv'
    BY <1>1, <1>2 DEF EditTree, ReleaseToolInv, PipelineTypes, AssetsVerified, GatesPassed, Names, Opts,
       Uploads
  <1>3. ASSUME NEW o \in ReleaseOption, StartRelease(o) PROVE ReleaseToolInv'
    <2>1. /\ pipe' = [gate |-> "lockstep", opts |-> o] /\ releaseRuns' = releaseRuns + 1
          /\ UNCHANGED <<tree, dist, sums, github, tap>>
      BY <1>3 DEF StartRelease
    <2>2. PipelineTypes'
      BY <1>1, <2>1 DEF PipelineTypes, Gate
    <2>3. GatesPassed'
      BY <2>1 DEF GatesPassed, AfterVersions, AfterAudit, AfterSums, AfterUpload, AfterCommit
    <2> QED BY <1>1, <2>1, <2>2, <2>3 DEF ReleaseToolInv, AssetsVerified
  <1>4. ASSUME NEW g \in Gate, MovesTo(g), pipe.gate # "idle",
               UNCHANGED <<tree, dist, sums, github, tap, releaseRuns>>, GatesPassed'
        PROVE  ReleaseToolInv'
    <2>1. pipe' \in [gate : Gate, opts : ReleaseOption]
      BY <1>1, <1>4, GateMoves
    <2> QED BY <1>1, <1>4, <2>1 DEF ReleaseToolInv, PipelineTypes, AssetsVerified
  <1>5. ASSUME Bail, pipe.gate # "idle", PipelineTypes', AssetsVerified' PROVE ReleaseToolInv'
    <2>1. pipe'.gate = "failed"
      BY <1>1, <1>5, GateMoves DEF Bail, Gate
    <2>2. GatesPassed'
      BY <2>1 DEF GatesPassed, AfterVersions, AfterAudit, AfterSums, AfterUpload, AfterCommit
    <2> QED BY <1>5, <2>2 DEF ReleaseToolInv
  <1> USE DEF AtGate
  <1>6. ASSUME NEW g \in {"verified", "host", "failed", "versions", "lockstep"}, MovesTo(g), pipe.gate # "idle",
               UNCHANGED <<tree, dist, sums, github, tap, releaseRuns>>
        PROVE  ReleaseToolInv'
    <2>1. g \in Gate
      BY DEF Gate
    <2>2. pipe'.gate = g
      BY <1>1, <1>6, <2>1, GateMoves
    <2>3. GatesPassed'
      BY <2>2 DEF GatesPassed, AfterVersions, AfterAudit, AfterSums, AfterUpload, AfterCommit
    <2> QED BY <1>4, <1>6, <2>1, <2>3
  <1>7. CASE Lockstep
    BY <1>6, <1>7 DEF Lockstep, Bail
  <1>8. Built \in Binary
    BY <1>1 DEF Built, Binary, PipelineTypes
  <1>9. ASSUME NEW a \in ReleaseArtifact, dist' = [dist EXCEPT ![a] = Built],
               NEW g \in {"linux-arm64", "linux-x86_64", "versions"}, MovesTo(g), pipe.gate # "idle",
               UNCHANGED <<tree, sums, github, tap, releaseRuns>>
        PROVE  ReleaseToolInv'
    <2>1. g \in Gate
      BY DEF Gate
    <2>2. pipe'.gate = g /\ pipe' \in [gate : Gate, opts : ReleaseOption]
      BY <1>1, <1>9, <2>1, GateMoves
    <2>3. GatesPassed'
      BY <2>2 DEF GatesPassed, AfterVersions, AfterAudit, AfterSums, AfterUpload, AfterCommit
    <2>4. PipelineTypes'
      BY <1>1, <1>8, <1>9, <2>2 DEF PipelineTypes
    <2> QED BY <1>1, <1>9, <2>3, <2>4 DEF ReleaseToolInv, AssetsVerified
  <1>10. CASE HostBuild
    <2>1. "darwin-arm64" \in ReleaseArtifact
      BY DEF ReleaseArtifact
    <2> QED BY <1>6, <1>9, <1>10, <2>1 DEF HostBuild, Bail
  <1>11. ASSUME NEW a \in {"linux-arm64", "linux-x86_64"}, NEW g \in {"linux-x86_64", "versions"},
                DockerLinuxBuild(a, g)
         PROVE  ReleaseToolInv'
    <2>1. a \in ReleaseArtifact
      BY DEF ReleaseArtifact
    <2> QED BY <1>6, <1>9, <1>11, <2>1 DEF DockerLinuxBuild, Bail
  <1>12. CASE AssertVersions
    <2>1. CASE ~ \A a \in Names : dist[a].reports = Target
      BY <1>6, <1>12, <2>1 DEF AssertVersions, Bail
    <2>2. CASE \A a \in Names : dist[a].reports = Target
      <3>1. /\ MovesTo("audit") /\ pipe.gate = "versions"
            /\ UNCHANGED <<tree, dist, sums, github, tap, releaseRuns>>
        BY <1>12, <2>2 DEF AssertVersions
      <3>2. "audit" \in Gate
        BY DEF Gate
      <3>3. pipe'.gate = "audit" /\ Names' = Names
        BY <1>1, <3>1, <3>2, GateMoves
      <3>4. GatesPassed'
        BY <2>2, <3>1, <3>3 DEF GatesPassed, AfterVersions, AfterAudit, AfterSums, AfterUpload,
           AfterCommit
      <3> QED BY <1>4, <3>1, <3>2, <3>4
    <2> QED BY <2>1, <2>2
  <1>13. CASE AuditBinaries
    <2>1. CASE ~ \A a \in Names : AuditBinary(a)
      BY <1>6, <1>13, <2>1 DEF AuditBinaries, Bail
    <2>2. CASE \A a \in Names : AuditBinary(a)
      <3>1. /\ MovesTo("sums") /\ pipe.gate = "audit"
            /\ UNCHANGED <<tree, dist, sums, github, tap, releaseRuns>>
        BY <1>13, <2>2 DEF AuditBinaries
      <3>2. "sums" \in Gate
        BY DEF Gate
      <3>3. pipe'.gate = "sums" /\ Names' = Names
        BY <1>1, <3>1, <3>2, GateMoves
      <3>4. GatesPassed'
        BY <1>1, <2>2, <3>1, <3>3
           DEF GatesPassed, AfterVersions, AfterAudit, AfterSums, AfterUpload, AfterCommit, AuditBinary
      <3> QED BY <1>4, <3>1, <3>2, <3>4
    <2> QED BY <2>1, <2>2
  <1> DEFINE Stay == tree' = tree /\ dist' = dist /\ releaseRuns' = releaseRuns
  <1>14. ASSUME NEW g \in Gate, MovesTo(g), pipe.gate # "idle", Stay
         PROVE  /\ pipe'.gate = g /\ Opts' = Opts /\ Names' = Names /\ dist' = dist
                /\ sums' \in [ReleaseArtifact -> Nat] /\ github' = github /\ tap' = tap => PipelineTypes'
                /\ sums' = sums /\ github' = github
                     /\ tap' \in [file : [ReleaseArtifact -> Nat], commit : [ReleaseArtifact -> Nat],
                                  pushed : [ReleaseArtifact -> Nat]] => PipelineTypes'
                /\ sums' = sums /\ tap' = tap
                     /\ github' \in [exists : BOOLEAN, notes : BOOLEAN, sums : [ReleaseArtifact -> Nat],
                                     assets : [ReleaseArtifact -> Binary]] => PipelineTypes'
    <2>1. /\ pipe' \in [gate : Gate, opts : ReleaseOption]
          /\ pipe'.gate = g /\ Opts' = Opts /\ Names' = Names
      BY <1>1, <1>14, GateMoves
    <2> QED BY <1>1, <1>14, <2>1 DEF PipelineTypes
  <1>15. Gate = {"failed", "verified", "success", "lockstep", "host", "linux-arm64", "linux-x86_64",
                 "versions", "audit", "sums", "github", "create", "upload", "notes", "homebrew",
                 "commit", "push", "brew", "formula", "images", "forge"}
    BY DEF Gate
  <1>16. CASE WriteSha256Sums
    <2>1. /\ pipe.gate = "sums" /\ sums' = Sha256Sums /\ Stay /\ github' = github /\ tap' = tap
      BY <1>16 DEF WriteSha256Sums
    <2>2. Names \subseteq ReleaseArtifact
      BY DEF Names, ReleaseArtifact
    <2>3. /\ sums' \in [ReleaseArtifact -> Nat] /\ \A a \in Names : sums'[a] = dist[a].build
      <3>1. \A b \in Binary : b.build \in Nat
        BY DEF Binary, NoBinary
      <3>2. \A a \in ReleaseArtifact : dist[a].build \in Nat
        BY <1>1, <3>1 DEF PipelineTypes
      <3> QED BY <2>1, <2>2, <3>2 DEF Sha256Sums
    <2>4. CASE Bail
      <3>1. PipelineTypes'
        BY <1>14, <1>15, <2>1, <2>3, <2>4 DEF Bail
      <3> QED BY <1>1, <1>5, <2>1, <2>4, <3>1 DEF AssetsVerified
    <2>5. CASE MovesTo(IF Opts.skipGithub THEN "homebrew" ELSE "github")
      <3> DEFINE g == IF Opts.skipGithub THEN "homebrew" ELSE "github"
      <3>1. pipe'.gate = g /\ Opts' = Opts /\ Names' = Names /\ PipelineTypes'
        BY <1>14, <1>15, <2>1, <2>3, <2>5
      <3>2. GatesPassed'
        BY <1>1, <2>1, <2>3, <3>1
           DEF GatesPassed, AfterVersions, AfterAudit, AfterSums, AfterUpload, AfterCommit
      <3> QED BY <1>1, <2>1, <3>1, <3>2 DEF ReleaseToolInv, AssetsVerified
    <2> QED BY <1>16, <2>4, <2>5 DEF WriteSha256Sums
  <1>17. ASSUME NEW g \in Gate, MovesTo(g), pipe.gate # "idle", Stay,
                sums' = sums, github' = github, tap' = tap
         PROVE  /\ pipe'.gate = g /\ Opts' = Opts /\ Names' = Names /\ (Uploads' <=> Uploads)
                /\ GatesPassed' => ReleaseToolInv'
    <2>1. pipe'.gate = g /\ Opts' = Opts /\ Names' = Names /\ PipelineTypes'
      BY <1>14, <1>17, <1>1 DEF PipelineTypes
    <2>2. AssetsVerified' /\ (Uploads' <=> Uploads)
      BY <1>1, <1>17, <2>1 DEF AssetsVerified, Uploads
    <2> QED BY <2>1, <2>2 DEF ReleaseToolInv
  <1>18. CASE GithubView
    <2>1. /\ pipe.gate = "github" /\ Stay /\ sums' = sums /\ github' = github /\ tap' = tap
          /\ MovesTo("upload") \/ MovesTo("create")
      BY <1>18 DEF GithubView
    <2>2. PICK g \in {"upload", "create"} : MovesTo(g)
      BY <2>1
    <2>3. pipe'.gate = g /\ Opts' = Opts /\ Names' = Names /\ (GatesPassed' => ReleaseToolInv')
      BY <1>15, <1>17, <2>1, <2>2
    <2>4. GatesPassed'
      BY <1>1, <2>1, <2>3
         DEF GatesPassed, AfterVersions, AfterAudit, AfterSums, AfterUpload, AfterCommit
    <2> QED BY <2>3, <2>4
  <1>19. ASSUME NEW done \in SUBSET Names, NEW summed \in BOOLEAN, pipe.gate \in {"create", "upload"},
                \/ github' = Uploaded(done, summed)
                \/ github' = [Uploaded(done, summed) EXCEPT !.notes = TRUE],
                Stay, sums' = sums, tap' = tap, NEW g \in Gate, MovesTo(g),
                \/ g = "failed"
                \/ g \in {"homebrew", "notes"} /\ done = Names /\ summed
         PROVE  ReleaseToolInv'
    <2>1. PICK gh : gh = Uploaded(done, summed)
      OBVIOUS
    <2>2. /\ gh \in [exists : BOOLEAN, notes : BOOLEAN, sums : [ReleaseArtifact -> Nat],
                      assets : [ReleaseArtifact -> Binary]]
          /\ \A a \in ReleaseArtifact : gh.assets[a] # NoBinary => Verified(gh.assets[a])
          /\ \A a \in done : gh.assets[a] = dist[a]
          /\ summed => gh.sums = sums
      <3>1. PipelineTypes /\ AssetsVerified /\ GatesPassed /\ pipe.gate \in {"create", "upload"}
        BY <1>1, <1>19
      <3>2. PICK digests \in {sums, github.sums} : digests = IF summed THEN sums ELSE github.sums
        OBVIOUS
      <3>3. gh = [github EXCEPT !.exists = TRUE,
                    !.assets = [a \in ReleaseArtifact |-> IF a \in done THEN dist[a] ELSE @[a]],
                    !.sums = digests]
        BY <2>1, <3>2 DEF Uploaded
      <3>4. /\ gh \in [exists : BOOLEAN, notes : BOOLEAN, sums : [ReleaseArtifact -> Nat],
                        assets : [ReleaseArtifact -> Binary]]
            /\ \A a \in ReleaseArtifact : gh.assets[a] # NoBinary => Verified(gh.assets[a])
            /\ \A a \in done : gh.assets[a] = dist[a]
            /\ gh.sums = digests
        BY <3>1, <3>3, UploadKeeps
      <3> QED BY <3>2, <3>4
    <2>3. /\ github' \in [exists : BOOLEAN, notes : BOOLEAN, sums : [ReleaseArtifact -> Nat],
                          assets : [ReleaseArtifact -> Binary]]
          /\ github'.assets = gh.assets /\ github'.sums = gh.sums
      BY <1>19, <2>1, <2>2
    <2>4. AssetsVerified'
      BY <2>2, <2>3 DEF AssetsVerified
    <2>5. pipe'.gate = g /\ Opts' = Opts /\ Names' = Names /\ PipelineTypes' /\ dist' = dist
      <3> HIDE DEF Stay
      <3> QED BY <1>14, <1>19, <2>3
    <2>6. CASE g = "failed"
      BY <1>5, <1>19, <2>4, <2>5, <2>6 DEF Bail
    <2>7. CASE g \in {"homebrew", "notes"} /\ done = Names /\ summed
      <3>1. \A a \in Names : sums[a] = dist[a].build
        BY <1>1, <1>19 DEF GatesPassed, AfterSums
      <3>2. Uploads'
        BY <2>2, <2>3, <2>5, <2>7, <3>1 DEF Uploads
      <3>3. ~ Opts.skipGithub
        BY <1>1, <1>19 DEF GatesPassed
      <3>4. GatesPassed'
        BY <1>1, <1>19, <2>5, <2>7, <3>1, <3>2, <3>3
           DEF GatesPassed, AfterVersions, AfterAudit, AfterSums, AfterUpload, AfterCommit
      <3> QED BY <2>4, <2>5, <3>4 DEF ReleaseToolInv
    <2> QED BY <1>19, <2>6, <2>7
  <1>20. CASE GithubCreate
    <2>1. pipe.gate = "create" /\ Stay /\ sums' = sums /\ tap' = tap
      BY <1>20 DEF GithubCreate
    <2>2. CASE Bail /\ github' \in {github, [github EXCEPT !.exists = TRUE]}
      <3>1. /\ github' \in [exists : BOOLEAN, notes : BOOLEAN, sums : [ReleaseArtifact -> Nat],
                            assets : [ReleaseArtifact -> Binary]]
            /\ github'.assets = github.assets
        BY <1>1, <2>2 DEF PipelineTypes
      <3>2. PipelineTypes'
        BY <1>14, <1>15, <2>1, <2>2, <3>1 DEF Bail
      <3> QED BY <1>1, <1>5, <2>1, <2>2, <3>1, <3>2 DEF AssetsVerified
    <2>3. CASE github' = [Uploaded(Names, TRUE) EXCEPT !.notes = TRUE] /\ MovesTo("homebrew")
      <3>1. Names \in SUBSET Names /\ TRUE \in BOOLEAN /\ "homebrew" \in Gate
        BY <1>15
      <3> QED BY <1>19, <2>1, <2>3, <3>1
    <2> QED BY <1>20, <2>2, <2>3 DEF GithubCreate
  <1>21. CASE GithubUpload
    <2>1. pipe.gate = "upload" /\ Stay /\ sums' = sums /\ tap' = tap
      BY <1>21 DEF GithubUpload
    <2>2. ASSUME NEW done \in SUBSET Names, NEW summed \in BOOLEAN, Bail, github' = Uploaded(done, summed)
          PROVE  ReleaseToolInv'
      BY <1>15, <1>19, <2>1, <2>2 DEF Bail
    <2>3. CASE github' = Uploaded(Names, TRUE) /\ MovesTo("notes")
      <3>1. Names \in SUBSET Names /\ TRUE \in BOOLEAN /\ "notes" \in Gate
        BY <1>15
      <3> QED BY <1>19, <2>1, <2>3, <3>1
    <2> QED BY <1>21, <2>2, <2>3 DEF GithubUpload
  <1>22. CASE GithubEditNotes
    <2>1. pipe.gate = "notes" /\ Stay /\ sums' = sums /\ tap' = tap
      BY <1>22 DEF GithubEditNotes
    <2>2. CASE Bail /\ github' = github
      BY <1>6, <2>1, <2>2 DEF Bail
    <2>3. CASE github' = [github EXCEPT !.notes = TRUE] /\ MovesTo("homebrew")
      <3>1. /\ github' \in [exists : BOOLEAN, notes : BOOLEAN, sums : [ReleaseArtifact -> Nat],
                            assets : [ReleaseArtifact -> Binary]]
            /\ github'.assets = github.assets /\ github'.sums = github.sums
        BY <1>1, <2>3 DEF PipelineTypes
      <3>2. pipe'.gate = "homebrew" /\ Opts' = Opts /\ Names' = Names /\ PipelineTypes' /\ dist' = dist
        BY <1>14, <1>15, <2>1, <2>3, <3>1
      <3>3. Uploads' /\ AssetsVerified'
        BY <1>1, <2>1, <3>1, <3>2 DEF Uploads, AssetsVerified, GatesPassed
      <3>4. GatesPassed'
        BY <1>1, <2>1, <3>2, <3>3
           DEF GatesPassed, AfterVersions, AfterAudit, AfterSums, AfterUpload, AfterCommit
      <3> QED BY <3>2, <3>3, <3>4 DEF ReleaseToolInv
    <2> QED BY <1>22, <2>2, <2>3 DEF GithubEditNotes
  <1>23. ASSUME pipe.gate \in {"homebrew", "commit", "push"}, Stay, sums' = sums, github' = github,
                tap' \in [file : [ReleaseArtifact -> Nat], commit : [ReleaseArtifact -> Nat],
                          pushed : [ReleaseArtifact -> Nat]],
                NEW g \in {"failed", "commit", "push", "brew", "formula"}, MovesTo(g),
                g = "commit" => tap'.file = sums,
                g \in AfterCommit /\ ~Opts.skipHomebrew /\ Opts.tap => tap'.commit = sums
         PROVE  ReleaseToolInv'
    <2>1. pipe'.gate = g /\ Opts' = Opts /\ Names' = Names /\ PipelineTypes' /\ dist' = dist
      BY <1>14, <1>15, <1>23
    <2>2. AssetsVerified' /\ (Uploads' <=> Uploads)
      BY <1>1, <1>23, <2>1 DEF AssetsVerified, Uploads
    <2>3. GatesPassed'
      BY <1>1, <1>23, <2>1, <2>2
         DEF GatesPassed, AfterVersions, AfterAudit, AfterSums, AfterUpload, AfterCommit
    <2> QED BY <2>1, <2>2, <2>3 DEF ReleaseToolInv
  <1> DEFINE TapRecord == [file : [ReleaseArtifact -> Nat], commit : [ReleaseArtifact -> Nat],
                           pushed : [ReleaseArtifact -> Nat]]
  <1>24. tap \in TapRecord /\ sums \in [ReleaseArtifact -> Nat]
    BY <1>1 DEF PipelineTypes
  <1>25. CASE WriteFormula
    <2>1. pipe.gate = "homebrew" /\ Stay /\ sums' = sums /\ github' = github
      BY <1>25 DEF WriteFormula
    <2>2. CASE Opts.skipHomebrew \/ ~Opts.tap
      BY <1>23, <1>24, <1>25, <2>1, <2>2 DEF WriteFormula
    <2>3. CASE ~ (Opts.skipHomebrew \/ ~Opts.tap)
      <3>1. tap' = [tap EXCEPT !.file = sums]
        BY <1>25, <2>3 DEF WriteFormula
      <3>2. tap' \in TapRecord /\ tap'.file = sums /\ tap'.commit = tap.commit
        BY <1>24, <3>1
      <3>3. PICK g \in {"failed", "commit", "brew", "formula"} :
                MovesTo(g) /\ (g \in {"brew", "formula"} => sums = tap.commit)
        BY <1>25, <2>3 DEF WriteFormula, Bail, AfterTap
      <3> HIDE DEF Stay
      <3> QED BY <1>23, <2>1, <3>2, <3>3 DEF AfterCommit
    <2> QED BY <2>2, <2>3
  <1>26. CASE CommitFormula
    <2>1. pipe.gate = "commit" /\ Stay /\ sums' = sums /\ github' = github /\ tap.file = sums
      BY <1>1, <1>26 DEF CommitFormula, GatesPassed
    <2>2. CASE Bail /\ tap' = tap
      BY <1>23, <1>24, <2>1, <2>2 DEF Bail, AfterCommit
    <2>3. CASE tap' = [tap EXCEPT !.commit = tap.file] /\ MovesTo("push")
      <3>1. tap' \in TapRecord /\ tap'.commit = sums
        BY <1>24, <2>1, <2>3
      <3> HIDE DEF Stay
      <3> QED BY <1>23, <2>1, <2>3, <3>1
    <2> QED BY <1>26, <2>2, <2>3 DEF CommitFormula
  <1>27. CASE PushFormula
    <2>1. /\ pipe.gate = "push" /\ Stay /\ sums' = sums /\ github' = github
          /\ ~Opts.skipHomebrew /\ Opts.tap => tap.commit = sums
      BY <1>1, <1>27 DEF PushFormula, GatesPassed, AfterCommit
    <2>2. CASE Bail /\ tap' = tap
      BY <1>23, <1>24, <2>1, <2>2 DEF Bail, AfterCommit
    <2>3. CASE tap' = [tap EXCEPT !.pushed = tap.commit] /\ MovesTo(AfterTap)
      <3>1. tap' \in TapRecord /\ tap'.commit = tap.commit
        BY <1>24, <2>3
      <3>2. AfterTap \in {"brew", "formula"}
        BY DEF AfterTap
      <3> HIDE DEF Stay
      <3> QED BY <1>23, <2>1, <2>3, <3>1, <3>2
    <2> QED BY <1>27, <2>2, <2>3 DEF PushFormula
  <1>28. CASE BrewTest \/ InRepoFormula \/ DockerImages \/ ForgePublish
    <2>1. pipe.gate \in {"brew", "formula", "images", "forge"} /\ Stay /\ sums' = sums /\ github' = github /\ tap' = tap
      BY <1>28 DEF BrewTest, InRepoFormula, DockerImages, ForgePublish
    <2>2. PICK g \in {"failed", "formula", "images", "forge", "success"} : MovesTo(g)
      BY <1>28 DEF BrewTest, InRepoFormula, DockerImages, ForgePublish, Bail
    <2>3. pipe'.gate = g /\ Opts' = Opts /\ Names' = Names /\ (Uploads' <=> Uploads) /\ (GatesPassed' => ReleaseToolInv')
      BY <1>15, <1>17, <2>1, <2>2
    <2>4. GatesPassed'
      BY <1>1, <2>1, <2>3
         DEF GatesPassed, AfterVersions, AfterAudit, AfterSums, AfterUpload, AfterCommit
    <2> QED BY <2>3, <2>4
  <1>29. CASE UNCHANGED pipelineVars
    BY <1>1, <1>29 DEF pipelineVars, ReleaseToolInv, PipelineTypes, AssetsVerified, GatesPassed, Names,
       Opts,
       Uploads
  <1> QED
    BY <1>2, <1>3, <1>7, <1>10, <1>11, <1>12, <1>13, <1>16, <1>18, <1>20, <1>21, <1>22, <1>25, <1>26,
       <1>27, <1>28,
       <1>29
       DEF PipelineNext

(* Whatever fails and however often the release is run again, what users   *)
(* can download was verified, and a run that reports success has published *)
(* its own binaries under their own digests.                               *)
THEOREM PublishedBinariesVerified == PipelineSpec => []PublishedIsVerified
  <1>1. PipelineInit => ReleaseToolInv
    BY DEF PipelineInit, ReleaseToolInv, PipelineTypes, AssetsVerified, GatesPassed, NoDigests, Binary,
       AfterVersions, AfterAudit, AfterSums, AfterUpload, AfterCommit
  <1>2. ReleaseToolInv => PublishedIsVerified
    <2> SUFFICES ASSUME ReleaseToolInv PROVE PublishedIsVerified
      OBVIOUS
    <2>1. ASSUME pipe.gate = "success", ~Opts.skipHomebrew, Opts.tap
          PROVE  \A a \in Names : tap.commit[a] = dist[a].build
      BY <2>1 DEF ReleaseToolInv, GatesPassed, AfterCommit, AfterSums, AfterUpload
    <2>2. ASSUME pipe.gate = "success", ~Opts.skipGithub PROVE Uploads
      BY <2>2 DEF ReleaseToolInv, GatesPassed, AfterUpload
    <2> QED BY <2>1, <2>2 DEF PublishedIsVerified, ReleaseToolInv, AssetsVerified, Verified, Uploads
  <1> QED BY <1>1, <1>2, ReleaseToolStep, PTL DEF PipelineSpec

-----------------------------------------------------------------------------
(* The gateway.  A call that has got past the approvals carries one of its *)
(* own, consumed in time, or is not destructive and carries none.          *)
HandlerRecord ==
    [pc : {"approval", "mint", "execute"}, call : GatewayCall, approval : Nat, at : 0 .. MaxHour]

Backed(given, tool, grant, a, at) ==
    IF ToolRisk[tool] = "destructive"
    THEN /\ a \in DOMAIN given /\ given[a].grant = grant /\ given[a].used
         /\ at - given[a].created \in 0 .. ApprovalTtl
    ELSE a = NoApproval

Carries(st, a) == st.pc = "mint" /\ st.approval = a

GatewayInv ==
    /\ gatewayHour \in 0 .. MaxHour
    /\ \E n \in Nat : approvals \in [1 .. n -> HumanApproval]
    /\ \A a \in DOMAIN approvals : approvals[a].created <= gatewayHour
    /\ handler \in [Handler -> {IdleHandler} \cup HandlerRecord]
    /\ \A h \in Handler :
          /\ handler[h].pc = "approval" => ToolRisk[handler[h].call.tool] = "destructive"
          /\ handler[h].pc = "mint" =>
                Backed(approvals, handler[h].call.tool, Grant(handler[h].call), handler[h].approval, handler[h].at)
    /\ \A r \in authority : Backed(approvals, r.tool, r.grant, r.approval, r.at)
    /\ \A a \in Nat \ {0}, h \in Handler : Carries(handler[h], a) =>
          /\ \A r \in authority : r.approval # a
          /\ \A g \in Handler \ {h} : ~ Carries(handler[g], a)
    /\ \A q, r \in authority : q.approval = r.approval /\ r.approval # NoApproval => q = r

(* A handler becomes idle or waits; nothing else moves. *)
LEMMA HandlerMoves ==
    ASSUME GatewayInv, NEW h \in Handler, NEW st \in {IdleHandler} \cup HandlerRecord,
           handler' = [handler EXCEPT ![h] = st],
           UNCHANGED <<approvals, authority, gatewayHour>>,
           st.pc = "approval" => ToolRisk[st.call.tool] = "destructive",
           st.pc = "mint" => ToolRisk[st.call.tool] # "destructive" /\ st.approval = NoApproval
    PROVE  GatewayInv'
  <1>1. handler' \in [Handler -> {IdleHandler} \cup HandlerRecord]
    BY DEF GatewayInv
  <1>2. \A g \in Handler : handler'[g] = IF g = h THEN st ELSE handler[g]
    BY DEF GatewayInv
  <1>3. \A g \in Handler, a \in Nat \ {0} : Carries(handler'[g], a) <=> g # h /\ Carries(handler[g], a)
    BY <1>2 DEF Carries, NoApproval
  <1>4. \A tool, grant, a, at : Backed(approvals', tool, grant, a, at) <=> Backed(approvals, tool, grant, a, at)
    OBVIOUS
  <1>5. \A g \in Handler :
          /\ handler'[g].pc = "approval" => ToolRisk[handler'[g].call.tool] = "destructive"
          /\ handler'[g].pc = "mint" =>
                Backed(approvals', handler'[g].call.tool, Grant(handler'[g].call), handler'[g].approval, handler'[g].at)
    BY <1>2, <1>4 DEF GatewayInv, Backed
  <1>6. \A a \in Nat \ {0}, g \in Handler : Carries(handler'[g], a) =>
          /\ \A r \in authority' : r.approval # a
          /\ \A f \in Handler \ {g} : ~ Carries(handler'[f], a)
    BY <1>3 DEF GatewayInv
  <1> QED BY <1>1, <1>4, <1>5, <1>6 DEF GatewayInv

(* A handler that takes an approval keeps its call.                        *)
WithApproval(st, a, at) == [st EXCEPT !.pc = "mint", !.approval = a, !.at = at]

(* A handler that was given an approval goes on to mint with it, for the   *)
(* same call.                                                              *)
LEMMA ApprovalFields ==
  ASSUME NEW st \in HandlerRecord, NEW a \in Nat, NEW at \in 0 .. MaxHour
  PROVE  /\ WithApproval(st, a, at) \in HandlerRecord
         /\ WithApproval(st, a, at).pc = "mint" /\ WithApproval(st, a, at).approval = a
         /\ WithApproval(st, a, at).at = at /\ WithApproval(st, a, at).call = st.call
  BY DEF HandlerRecord, WithApproval

(* Every step of a handler, an operator or the clock keeps GatewayInv. *)
LEMMA GatewayStep == GatewayInv /\ [GatewayNext]_gatewayVars => GatewayInv'
  <1> SUFFICES ASSUME GatewayInv, [GatewayNext]_gatewayVars PROVE GatewayInv'
    OBVIOUS
  <1> USE GatewayAssumption
  <1>1. ASSUME UNCHANGED <<approvals, authority, handler>>, gatewayHour' \in 0 .. MaxHour, gatewayHour <= gatewayHour'
        PROVE  GatewayInv'
    <2>1. \A tool, grant, a, at : Backed(approvals', tool, grant, a, at) <=> Backed(approvals, tool, grant, a, at)
      BY <1>1
    <2>2. \A h, a : Carries(handler'[h], a) <=> Carries(handler[h], a)
      BY <1>1
    <2>3. \A a \in DOMAIN approvals : approvals[a].created <= gatewayHour'
      BY <1>1 DEF GatewayInv, HumanApproval
    <2> QED BY <1>1, <2>1, <2>2, <2>3 DEF GatewayInv
  <1>2. CASE GatewayStart \/ HourPasses \/ (\E t \in Revocable : RevokeToken(t)) \/ UNCHANGED gatewayVars
    <2>1. gatewayHour \in 0 .. MaxHour
      BY DEF GatewayInv
    <2>2. CASE GatewayStart
      BY <1>1, <2>1, <2>2 DEF GatewayStart
    <2>3. CASE HourPasses
      BY <1>1, <2>1, <2>3 DEF HourPasses
    <2>4. CASE \E t \in Revocable : RevokeToken(t)
      BY <1>1, <2>1, <2>4 DEF RevokeToken
    <2>5. CASE UNCHANGED gatewayVars
      BY <1>1, <2>1, <2>5 DEF gatewayVars
    <2> QED BY <1>2, <2>2, <2>3, <2>4, <2>5
  <1>3. ASSUME NEW h \in Handler, NEW c \in GatewayCall, CallTool(h, c) PROVE GatewayInv'
    <2> DEFINE st == [pc |-> IF ToolRisk[c.tool] = "destructive" THEN "approval" ELSE "mint",
                      call |-> c, approval |-> NoApproval, at |-> gatewayHour]
    <2>1. st \in HandlerRecord
      BY DEF HandlerRecord, NoApproval, GatewayInv
    <2>2. handler' = [handler EXCEPT ![h] = st] /\ UNCHANGED <<approvals, authority, gatewayHour>>
      BY <1>3 DEF CallTool
    <2>3. /\ st.pc = "approval" => ToolRisk[st.call.tool] = "destructive"
          /\ st.pc = "mint" => ToolRisk[st.call.tool] # "destructive" /\ st.approval = NoApproval
      OBVIOUS
    <2> HIDE DEF st
    <2> QED BY <2>1, <2>2, <2>3, HandlerMoves
  <1>4. ASSUME NEW h \in Handler, handler' = [handler EXCEPT ![h] = IdleHandler],
               UNCHANGED <<approvals, authority, gatewayHour>>
        PROVE  GatewayInv'
    BY <1>4, HandlerMoves DEF IdleHandler
  <1>5. ASSUME NEW h \in Handler, ExecuteTool(h) PROVE GatewayInv'
    BY <1>4, <1>5 DEF ExecuteTool
  <1>6. PICK n \in Nat : approvals \in [1 .. n -> HumanApproval]
    BY DEF GatewayInv
  <1>7. ASSUME NEW h \in Handler, TakeApproval(h) PROVE GatewayInv'
    <2>1. CASE Escalate(h, handler[h].call)
      BY <1>4, <2>1 DEF Escalate
    <2>2. ASSUME NEW a \in Matching(handler[h].call), Fresh(a), Consume(h, a),
                 UNCHANGED <<authority, gatewayHour>>
          PROVE  GatewayInv'
      <3>1. /\ a \in 1 .. n /\ approvals[a] \in HumanApproval /\ ~ approvals[a].used
            /\ approvals[a].grant = Grant(handler[h].call)
            /\ gatewayHour - approvals[a].created <= ApprovalTtl
            /\ approvals[a].created <= gatewayHour
        BY <1>6, <2>2 DEF Matching, Fresh, GatewayInv
      <3>2. gatewayHour - approvals[a].created \in 0 .. ApprovalTtl
        BY <3>1 DEF HumanApproval, GatewayInv
      <3>3. handler[h] \in HandlerRecord /\ handler[h].pc = "approval"
        BY <1>7 DEF TakeApproval, GatewayInv, IdleHandler
      <3>4. ToolRisk[handler[h].call.tool] = "destructive"
        BY <3>3 DEF GatewayInv
      <3>a. a \in Nat /\ gatewayHour \in 0 .. MaxHour
        BY <3>1 DEF GatewayInv
      <3> DEFINE st == WithApproval(handler[h], a, gatewayHour)
      <3>b. \A s \in HandlerRecord, i \in Nat, at \in 0 .. MaxHour :
              /\ WithApproval(s, i, at) \in HandlerRecord
              /\ WithApproval(s, i, at).pc = "mint" /\ WithApproval(s, i, at).approval = i
              /\ WithApproval(s, i, at).at = at /\ WithApproval(s, i, at).call = s.call
        BY ApprovalFields
      <3>5. /\ st \in HandlerRecord /\ st.pc = "mint" /\ st.approval = a /\ st.at = gatewayHour
            /\ st.call = handler[h].call
        BY <3>3, <3>a, <3>b
      <3>6. handler' = [handler EXCEPT ![h] = st]
        <4>1. handler' = [handler EXCEPT ![h].pc = "mint", ![h].approval = a, ![h].at = gatewayHour]
          BY <2>2 DEF Consume
        <4>2. DOMAIN handler = Handler /\ handler = [g \in Handler |-> handler[g]]
          BY DEF GatewayInv
        <4> QED BY <4>1, <4>2 DEF WithApproval
      <3> HIDE DEF st
      <3>7. /\ handler' \in [Handler -> {IdleHandler} \cup HandlerRecord]
            /\ \A g \in Handler : handler'[g] = IF g = h THEN st ELSE handler[g]
        BY <3>5, <3>6 DEF GatewayInv
      <3>8. /\ approvals' \in [1 .. n -> HumanApproval]
            /\ \A b \in 1 .. n : /\ approvals'[b].grant = approvals[b].grant
                                 /\ approvals'[b].created = approvals[b].created
                                 /\ approvals'[b].used <=> b = a \/ approvals[b].used
        BY <1>6, <2>2, <3>1 DEF Consume, HumanApproval
      <3>9. DOMAIN approvals = 1 .. n /\ DOMAIN approvals' = 1 .. n
        BY <1>6, <3>8
      <3>10. \A tool, grant, b, at : Backed(approvals, tool, grant, b, at) => Backed(approvals', tool, grant, b, at)
        BY <3>8, <3>9 DEF Backed
      <3>11. Backed(approvals', st.call.tool, Grant(st.call), st.approval, st.at)
        BY <3>1, <3>2, <3>4, <3>5, <3>8, <3>9 DEF Backed
      <3>12. ASSUME NEW tool, NEW grant, NEW at, Backed(approvals, tool, grant, a, at) PROVE FALSE
        <4>1. a # NoApproval
          BY <3>1 DEF NoApproval
        <4> QED BY <3>1, <3>12, <4>1 DEF Backed
      <3>13. (\A r \in authority : r.approval # a) /\ \A g \in Handler : ~ Carries(handler[g], a)
        BY <3>12 DEF GatewayInv, Carries
      <3>14. \A g \in Handler, b \in Nat \ {0} : Carries(handler'[g], b) <=> IF g = h THEN b = a ELSE Carries(handler[g], b)
        BY <3>5, <3>7 DEF Carries
      <3>15. \A b \in Nat \ {0}, g \in Handler : Carries(handler'[g], b) =>
               /\ \A r \in authority' : r.approval # b
               /\ \A f \in Handler \ {g} : ~ Carries(handler'[f], b)
        BY <2>2, <3>13, <3>14 DEF GatewayInv
      <3>16. \A g \in Handler :
               /\ handler'[g].pc = "approval" => ToolRisk[handler'[g].call.tool] = "destructive"
               /\ handler'[g].pc = "mint" =>
                  Backed(approvals', handler'[g].call.tool, Grant(handler'[g].call), handler'[g].approval, handler'[g].at)
        <4> SUFFICES ASSUME NEW g \in Handler
                     PROVE  /\ handler'[g].pc = "approval" => ToolRisk[handler'[g].call.tool] = "destructive"
                            /\ handler'[g].pc = "mint" =>
                                 Backed(approvals', handler'[g].call.tool, Grant(handler'[g].call),
                                        handler'[g].approval, handler'[g].at)
          OBVIOUS
        <4>1. CASE g = h
          <5>1. handler'[g] = st
            BY <3>7, <4>1
          <5> QED BY <3>5, <3>11, <5>1 DEF Backed
        <4>2. CASE g # h
          <5>1. handler'[g] = handler[g]
            BY <3>7, <4>2
          <5> QED BY <3>10, <5>1 DEF GatewayInv
        <4> QED BY <4>1, <4>2
      <3>17. \A r \in authority' : Backed(approvals', r.tool, r.grant, r.approval, r.at)
        BY <2>2, <3>10 DEF GatewayInv
      <3>18. \A b \in DOMAIN approvals' : approvals'[b].created <= gatewayHour'
        BY <2>2, <3>8, <3>9 DEF GatewayInv
      <3> QED BY <2>2, <3>7, <3>8, <3>15, <3>16, <3>17, <3>18 DEF GatewayInv
    <2> QED BY <1>7, <2>1, <2>2 DEF TakeApproval
  <1>8. ASSUME NEW h \in Handler, MintAuthority(h) PROVE GatewayInv'
    <2> DEFINE rec == [id |-> Cardinality(authority) + 1, tool |-> handler[h].call.tool,
                       grant |-> Grant(handler[h].call), approval |-> handler[h].approval,
                       at |-> handler[h].at]
               st == [handler[h] EXCEPT !.pc = "execute"]
    <2>1. /\ handler[h].pc = "mint" /\ authority' = authority \cup {rec}
          /\ approvals' = approvals /\ gatewayHour' = gatewayHour
          /\ handler' = [handler EXCEPT ![h].pc = "execute"]
      BY <1>8 DEF MintAuthority
    <2>2. handler[h] \in HandlerRecord
      BY <2>1 DEF GatewayInv, IdleHandler
    <2>3. st \in HandlerRecord /\ st.pc = "execute"
      BY <2>2 DEF HandlerRecord
    <2>4. handler' = [handler EXCEPT ![h] = st]
      BY <2>1 DEF GatewayInv
    <2>5. /\ rec.tool = handler[h].call.tool /\ rec.grant = Grant(handler[h].call)
          /\ rec.approval = handler[h].approval /\ rec.at = handler[h].at
      OBVIOUS
    <2> HIDE DEF rec, st
    <2>6. /\ handler' \in [Handler -> {IdleHandler} \cup HandlerRecord]
          /\ \A g \in Handler : handler'[g] = IF g = h THEN st ELSE handler[g]
      BY <2>3, <2>4 DEF GatewayInv
    <2>7. \A r \in authority' : Backed(approvals', r.tool, r.grant, r.approval, r.at)
      BY <2>1, <2>5 DEF GatewayInv
    <2>8. rec.approval \in Nat /\ (rec.approval # 0 => Carries(handler[h], rec.approval))
      BY <2>1, <2>2, <2>5 DEF HandlerRecord, Carries
    <2>9. \A q \in authority : rec.approval # 0 => q.approval # rec.approval
      BY <2>8 DEF GatewayInv
    <2>10. \A q, r \in authority' : q.approval = r.approval /\ r.approval # NoApproval => q = r
      BY <2>1, <2>9 DEF GatewayInv, NoApproval
    <2>11. \A g \in Handler, b \in Nat \ {0} : Carries(handler'[g], b) <=> g # h /\ Carries(handler[g], b)
      BY <2>3, <2>6 DEF Carries
    <2>12. \A b \in Nat \ {0}, g \in Handler : Carries(handler'[g], b) =>
             /\ \A r \in authority' : r.approval # b
             /\ \A f \in Handler \ {g} : ~ Carries(handler'[f], b)
      <3> SUFFICES ASSUME NEW b \in Nat \ {0}, NEW g \in Handler, g # h, Carries(handler[g], b)
                   PROVE  /\ \A r \in authority' : r.approval # b
                          /\ \A f \in Handler \ {g} : ~ Carries(handler'[f], b)
        BY <2>11
      <3>1. ~ Carries(handler[h], b)
        BY DEF GatewayInv
      <3>2. rec.approval # b
        BY <2>8, <3>1
      <3> QED BY <2>1, <2>11, <3>2 DEF GatewayInv
    <2>13. \A g \in Handler :
             /\ handler'[g].pc = "approval" => ToolRisk[handler'[g].call.tool] = "destructive"
             /\ handler'[g].pc = "mint" =>
                Backed(approvals', handler'[g].call.tool, Grant(handler'[g].call), handler'[g].approval, handler'[g].at)
      <3> SUFFICES ASSUME NEW g \in Handler, handler'[g].pc \in {"approval", "mint"}
                   PROVE  /\ handler'[g].pc = "approval" => ToolRisk[handler'[g].call.tool] = "destructive"
                          /\ handler'[g].pc = "mint" =>
                               Backed(approvals', handler'[g].call.tool, Grant(handler'[g].call),
                                      handler'[g].approval, handler'[g].at)
        OBVIOUS
      <3>1. handler'[g] = handler[g]
        BY <2>3, <2>6
      <3> QED BY <2>1, <3>1 DEF GatewayInv
    <2> QED BY <2>1, <2>6, <2>7, <2>10, <2>12, <2>13 DEF GatewayInv
  <1>9. ASSUME NEW c \in GatewayCall, CreateApproval(Grant(c)) PROVE GatewayInv'
    <2> DEFINE new == [grant |-> Grant(c), created |-> gatewayHour, used |-> FALSE]
    <2>1. Cardinality(DOMAIN approvals) = n
      <3>1. DOMAIN approvals = 1 .. n /\ 1 \in Int /\ n \in Int
        BY <1>6
      <3>2. Cardinality(1 .. n) = IF 1 > n THEN 0 ELSE n - 1 + 1
        BY <3>1, FS_Interval
      <3> QED BY <3>1, <3>2
    <2>2. /\ approvals' = [a \in DOMAIN approvals \cup {n + 1} |->
                              IF a \in DOMAIN approvals THEN approvals[a] ELSE new]
          /\ UNCHANGED <<authority, gatewayHour, handler>>
      BY <1>9, <2>1 DEF CreateApproval
    <2>3. new \in HumanApproval /\ new.created = gatewayHour
      BY DEF HumanApproval, Grants, GatewayInv
    <2> HIDE DEF new
    <2>4. approvals' = [a \in 1 .. n + 1 |-> IF a \in 1 .. n THEN approvals[a] ELSE new]
      <3>1. DOMAIN approvals = 1 .. n /\ (1 .. n) \cup {n + 1} = 1 .. n + 1
        BY <1>6
      <3> QED BY <2>2, <3>1
    <2>5. /\ n + 1 \in Nat /\ approvals' \in [1 .. n + 1 -> HumanApproval]
          /\ \A a \in DOMAIN approvals : a \in DOMAIN approvals' /\ approvals'[a] = approvals[a]
      BY <1>6, <2>3, <2>4
    <2>6. \A a \in DOMAIN approvals' : approvals'[a].created <= gatewayHour'
      BY <1>6, <2>2, <2>3, <2>4 DEF GatewayInv
    <2>7. \A tool, grant, a, at : Backed(approvals, tool, grant, a, at) => Backed(approvals', tool, grant, a, at)
      BY <2>5 DEF Backed
    <2> QED BY <2>2, <2>5, <2>6, <2>7 DEF GatewayInv
  <1> QED BY <1>2, <1>3, <1>5, <1>7, <1>8, <1>9 DEF GatewayNext

(* However calls, approvals, hours and revocations interleave, every       *)
(* destructive execution rests on an approval of its own, for its run,     *)
(* tool and payload, taken in time.                                        *)
THEOREM DestructiveCallsApproved == GatewaySpec => []DestructiveApproved
  <1>1. GatewayInit => GatewayInv
    <2> SUFFICES ASSUME GatewayInit PROVE GatewayInv
      OBVIOUS
    <2>1. approvals \in [1 .. 0 -> HumanApproval] /\ DOMAIN approvals = {}
      BY DEF GatewayInit
    <2>2. 0 \in Nat /\ gatewayHour \in 0 .. MaxHour
      BY GatewayAssumption DEF GatewayInit
    <2> QED BY <2>1, <2>2 DEF GatewayInit, GatewayInv, IdleHandler, Carries
  <1>2. GatewayInv => DestructiveApproved
    <2> SUFFICES ASSUME GatewayInv, NEW r \in authority, ToolRisk[r.tool] = "destructive"
                 PROVE  /\ r.approval \in DOMAIN approvals
                        /\ approvals[r.approval].grant = r.grant
                        /\ r.at - approvals[r.approval].created \in 0 .. ApprovalTtl
                        /\ \A q \in authority : q.approval = r.approval => q = r
      BY DEF DestructiveApproved
    <2>1. /\ r.approval \in DOMAIN approvals /\ approvals[r.approval].grant = r.grant
          /\ r.at - approvals[r.approval].created \in 0 .. ApprovalTtl
      BY DEF GatewayInv, Backed
    <2>2. r.approval # NoApproval
      BY <2>1 DEF GatewayInv, NoApproval
    <2> QED BY <2>1, <2>2 DEF GatewayInv
  <1> QED BY <1>1, <1>2, GatewayStep, PTL DEF GatewaySpec

-----------------------------------------------------------------------------
(* The registry.  A publish in flight whose version never raced is the     *)
(* only writer there is; so what it found in the bucket and in the index   *)
(* is still there when it writes.  A repair pass carries every line that a *)
(* lone publish added, and until a publish starts the index is the one it  *)
(* read.                                                                   *)
SlotRecord ==
    [pc : {"exists", "put_crate", "get_index", "put_index"}, q : RegistryRequest,
     existing : Seq(IndexLine), entry : IndexLine \cup {NoArtifact}]

RepairRecord ==
    [pc : {"idle", "lines", "done"}, apply : BOOLEAN, body : Seq(IndexLine),
     out : Seq(IndexLine), changed : BOOLEAN, failed : BOOLEAN, quiet : BOOLEAN]

RegistryTypes ==
    /\ RegistryTypeOK
    /\ serving \in [RegistrySlot -> {IdleSlot} \cup SlotRecord]
    /\ repair \in RepairRecord

ListedBy(line, p) == line.vers = p[1] /\ line.cksum = p[2]

Lists(lines, p) == \E i \in DOMAIN lines : ListedBy(lines[i], p)

Lone == {p \in publishAcked : p[1] \notin raced}

InFlight(st) == st.pc # "idle"

(* The record to be added is there once the version was found free.        *)
Prepared(st) ==
    st.pc \in {"put_crate", "get_index", "put_index"} =>
        st.entry \in IndexLine /\ st.entry.vers = st.q.vers /\ st.entry.cksum = st.q.artifact

(* What a lone publish knows of the bucket.                                *)
Knows(st, stored) ==
    /\ st.pc = "put_crate" => stored[st.q.vers] = NoArtifact
    /\ st.pc \in {"get_index", "put_index"} => stored[st.q.vers] = st.q.artifact

SlotsSound ==
    \A s \in RegistrySlot :
        /\ Prepared(serving[s])
        /\ serving[s].pc = "put_index" => \A p \in Lone : Lists(serving[s].existing, p)
        /\ InFlight(serving[s]) /\ serving[s].q.vers \notin raced =>
              /\ ~ Repairing
              /\ \A o \in RegistrySlot : InFlight(serving[o]) => o = s
              /\ Knows(serving[s], crates)

(* Line i of the index a repair pass read lists p, and so does what it is  *)
(* replaced by.                                                            *)
Carried(body, out, p) ==
    \E i \in DOMAIN body : ListedBy(body[i], p) /\ (i <= Len(out) => ListedBy(out[i], p))

Rebuilt(body, out, stored) ==
    \A i \in DOMAIN out : out[i] = RegenerateEntry(body[i].vers, stored[body[i].vers], body[i].yanked)

Kept(body, out) == \A i \in DOMAIN out : out[i] = body[i]

RepairRuns ==
    /\ Len(repair.out) <= Len(repair.body)
    /\ repair.pc # "idle" /\ repair.quiet => \A s \in RegistrySlot : ~ InFlight(serving[s])
    /\ repair.pc = "lines" =>
          /\ \A p \in Lone : Carried(repair.body, repair.out, p)
          /\ repair.quiet => indexFile = repair.body
          /\ ~ repair.changed => Kept(repair.body, repair.out)
          /\ repair.quiet /\ ~ repair.failed => Rebuilt(repair.body, repair.out, crates)

RegistryInv == RegistryTypes /\ SlotsSound /\ RepairRuns /\ LonePublishListed /\ RepairSound

(* What a publish records of a dependency is what a repair reads back.     *)
LEMMA DeclarationsAgree == RecordsAgree
  BY DEF RecordsAgree, Declaration, IndexDep, ToIndexDep, PublishDep, ManifestDep, NormalizeReq,
     SameRegistry

(* The index line that publish writes is a line of the index, for its      *)
(* version and artifact.                                                   *)
LEMMA IndexEntryTyped ==
    ASSUME NEW v \in Version, NEW a \in Artifact, NEW d \in Declaration
    PROVE  /\ IndexEntry(v, a, PublishDep(d)) \in IndexLine
           /\ IndexEntry(v, a, PublishDep(d)).vers = v /\ IndexEntry(v, a, PublishDep(d)).cksum = a
  <1>1. IndexDep(PublishDep(d)) \in IndexDependency
    BY DEF Declaration, IndexDep, PublishDep, NormalizeReq, SameRegistry, IndexDependency
  <1> QED BY <1>1 DEF IndexEntry, Line, IndexLine

(* So is the line that the repair regenerates from the artifact. *)
LEMMA RegeneratedTyped ==
    ASSUME RegistryAssumption, NEW v \in Version, NEW a \in Artifact, NEW y \in BOOLEAN, Manifest[a] # NoManifest
    PROVE  /\ RegenerateEntry(v, a, y) \in IndexLine
           /\ RegenerateEntry(v, a, y).vers = v /\ RegenerateEntry(v, a, y).cksum = a
           /\ RegenerateEntry(v, a, y).yanked = y
  <1>1. PICK d : d = Manifest[a] /\ d \in Declaration
    BY DEF RegistryAssumption
  <1>2. ToIndexDep(ManifestDep(d)) \in IndexDependency
    <2>1. ToIndexDep(ManifestDep(d)) = IndexDep(PublishDep(d))
      BY <1>1, DeclarationsAgree DEF RecordsAgree
    <2>2. IndexEntry(v, a, PublishDep(d)) \in IndexLine
      BY <1>1, IndexEntryTyped
    <2> QED BY <2>1, <2>2 DEF IndexEntry, Line, IndexLine
  <1> QED BY <1>1, <1>2 DEF RegenerateEntry, Line, IndexLine

(* A handler goes on, or ends, without a write.                            *)
LEMMA ServingMoves ==
    ASSUME RegistryInv, NEW s \in RegistrySlot, NEW st \in {IdleSlot} \cup SlotRecord,
           serving' = [serving EXCEPT ![s] = st],
           UNCHANGED <<crates, indexFile, repair, publishAcked, raced>>,
           Prepared(st), st.pc = "put_index" => \A p \in Lone : Lists(st.existing, p),
           InFlight(st) => InFlight(serving[s]) /\ st.q = serving[s].q,
           InFlight(st) /\ st.q.vers \notin raced => Knows(st, crates)
    PROVE  RegistryInv'
  <1>1. /\ serving' \in [RegistrySlot -> {IdleSlot} \cup SlotRecord]
        /\ serving'[s] = st /\ \A o \in RegistrySlot \ {s} : serving'[o] = serving[o]
    BY DEF RegistryInv, RegistryTypes
  <1>2. Lone' = Lone
    BY DEF Lone
  <1>3. \A o \in RegistrySlot : InFlight(serving'[o]) => InFlight(serving[o])
    BY <1>1
  <1>4. SlotsSound'
    <2> SUFFICES ASSUME NEW o \in RegistrySlot
                 PROVE  /\ Prepared(serving'[o])
                        /\ serving'[o].pc = "put_index" => \A p \in Lone : Lists(serving'[o].existing, p)
                        /\ InFlight(serving'[o]) /\ serving'[o].q.vers \notin raced =>
                              /\ ~ Repairing
                              /\ \A o1 \in RegistrySlot : InFlight(serving'[o1]) => o1 = o
                              /\ Knows(serving'[o], crates)
      BY <1>2 DEF SlotsSound, Repairing
    <2>1. CASE o # s
      BY <1>1, <1>3, <2>1 DEF RegistryInv, SlotsSound
    <2>2. CASE o = s
      BY <1>1, <1>3, <2>2 DEF RegistryInv, SlotsSound
    <2> QED BY <2>1, <2>2
  <1>5. RepairRuns'
    BY <1>2, <1>3 DEF RegistryInv, RepairRuns
  <1>6. RegistryTypes'
    BY <1>1 DEF RegistryInv, RegistryTypes, RegistryTypeOK
  <1>7. LonePublishListed' /\ RepairSound'
    BY DEF RegistryInv, LonePublishListed, RepairSound
  <1> QED BY <1>4, <1>5, <1>6, <1>7 DEF RegistryInv

(* The upload of a crate, answered or not.                                 *)
LEMMA CratePut ==
    ASSUME RegistryInv, RegistryAssumption, NEW s \in RegistrySlot, NEW st \in {IdleSlot} \cup SlotRecord,
           serving[s].pc = "put_crate", StorePut(serving[s].q),
           serving' = [serving EXCEPT ![s] = st],
           UNCHANGED <<indexFile, repair, publishAcked, raced>>,
           Prepared(st), st.pc \in {"idle", "get_index"}, InFlight(st) => st.q = serving[s].q
    PROVE  RegistryInv'
  <1>1. /\ serving' \in [RegistrySlot -> {IdleSlot} \cup SlotRecord]
        /\ serving'[s] = st /\ \A o \in RegistrySlot \ {s} : serving'[o] = serving[o]
    BY DEF RegistryInv, RegistryTypes
  <1>2. Lone' = Lone
    BY DEF Lone
  <1>3. InFlight(serving[s]) /\ \A o \in RegistrySlot : InFlight(serving'[o]) => InFlight(serving[o])
    BY <1>1 DEF InFlight
  <1>4. PICK q \in RegistryRequest : q = serving[s].q
    BY DEF RegistryInv, RegistryTypes, IdleSlot, SlotRecord
  <1>5. q.vers \in Version /\ q.artifact \in Artifact /\ crates' = [crates EXCEPT ![q.vers] = q.artifact]
    BY <1>4 DEF RegistryAssumption, StorePut
  <1>6. RegistryTypes'
    BY <1>1, <1>5 DEF RegistryInv, RegistryTypes, RegistryTypeOK
  <1>7. SlotsSound'
    <2> SUFFICES ASSUME NEW o \in RegistrySlot
                 PROVE  /\ Prepared(serving'[o])
                        /\ serving'[o].pc = "put_index" => \A p \in Lone : Lists(serving'[o].existing, p)
                        /\ InFlight(serving'[o]) /\ serving'[o].q.vers \notin raced =>
                              /\ ~ Repairing
                              /\ \A o1 \in RegistrySlot : InFlight(serving'[o1]) => o1 = o
                              /\ Knows(serving'[o], crates')
      BY <1>2 DEF SlotsSound, Repairing
    <2>1. CASE o # s
      BY <1>1, <1>3, <2>1 DEF RegistryInv, SlotsSound
    <2>2. CASE o = s
      <3>1. st.pc = "get_index" => Knows(st, crates')
        <4>1. crates'[q.vers] = q.artifact
          BY <1>5 DEF RegistryInv, RegistryTypes, RegistryTypeOK
        <4> QED BY <1>4, <4>1 DEF Knows, InFlight
      <3> QED BY <1>1, <1>3, <1>4, <2>2, <3>1 DEF RegistryInv, SlotsSound, InFlight
    <2> QED BY <2>1, <2>2
  <1>8. RepairRuns'
    BY <1>2, <1>3 DEF RegistryInv, RepairRuns
  <1>9. LonePublishListed'
    <2> SUFFICES ASSUME NEW p \in publishAcked, p[1] \notin raced
                 PROVE  crates'[p[1]] = p[2]
      BY DEF RegistryInv, LonePublishListed
    <2>1. crates[p[1]] = p[2] /\ p[1] \in Version /\ p[2] # NoArtifact
      BY DEF RegistryInv, LonePublishListed, RegistryTypes, RegistryTypeOK, RegistryAssumption
    <2>2. q.vers \notin raced => crates[q.vers] = NoArtifact
      BY <1>3, <1>4 DEF RegistryInv, SlotsSound, Knows
    <2> QED BY <1>5, <2>1, <2>2 DEF RegistryInv, RegistryTypes, RegistryTypeOK
  <1>10. RepairSound'
    BY <1>3 DEF RegistryInv, RepairSound, RepairRuns
  <1> QED BY <1>6, <1>7, <1>8, <1>9, <1>10 DEF RegistryInv

(* The write of the index object by a publish, answered or not.            *)
LEMMA IndexPut ==
    ASSUME RegistryInv, RegistryAssumption, NEW s \in RegistrySlot,
           serving[s].pc = "put_index", indexFile' = Extended(s),
           serving' = [serving EXCEPT ![s] = IdleSlot],
           publishAcked' \subseteq publishAcked \cup {<<serving[s].q.vers, serving[s].q.artifact>>},
           UNCHANGED <<crates, repair, raced>>
    PROVE  RegistryInv'
  <1>1. /\ serving' \in [RegistrySlot -> {IdleSlot} \cup SlotRecord]
        /\ serving'[s] = IdleSlot /\ \A o \in RegistrySlot \ {s} : serving'[o] = serving[o]
    BY DEF RegistryInv, RegistryTypes
  <1>2. PICK st \in SlotRecord : st = serving[s]
    BY DEF RegistryInv, RegistryTypes, IdleSlot
  <1>3. st.q \in RegistryRequest /\ st.existing \in Seq(IndexLine) /\ st.pc = "put_index"
    BY <1>2 DEF SlotRecord
  <1>4. st.entry \in IndexLine /\ st.entry.vers = st.q.vers /\ st.entry.cksum = st.q.artifact
    BY <1>2 DEF RegistryInv, SlotsSound, Prepared
  <1>5. PICK p0 : p0 = <<st.q.vers, st.q.artifact>>
    OBVIOUS
  <1>6. /\ publishAcked' \subseteq publishAcked \cup {p0} /\ p0 \in Version \X Artifact
        /\ indexFile' = Append(st.existing, st.entry) /\ indexFile' \in Seq(IndexLine)
    BY <1>2, <1>3, <1>4, <1>5 DEF Extended, RegistryAssumption
  <1>7. \A p : Lists(st.existing, p) => Lists(indexFile', p)
    <2>1. \A i \in DOMAIN st.existing : i \in DOMAIN indexFile' /\ indexFile'[i] = st.existing[i]
      BY <1>3, <1>4, <1>6
    <2> QED BY <2>1 DEF Lists
  <1>8. Lists(indexFile', p0)
    <2>1. Len(st.existing) + 1 \in DOMAIN indexFile' /\ indexFile'[Len(st.existing) + 1] = st.entry
      BY <1>3, <1>4, <1>6
    <2> QED BY <1>4, <1>5, <2>1 DEF Lists, ListedBy
  <1>9. Lone' \subseteq Lone \cup {p \in {p0} : p[1] \notin raced}
    BY <1>6 DEF Lone
  <1>10. InFlight(serving[s]) /\ \A o \in RegistrySlot : InFlight(serving'[o]) => InFlight(serving[o]) /\ o # s
    BY <1>1 DEF InFlight, IdleSlot
  <1>11. ASSUME p0[1] \notin raced
         PROVE  /\ crates[p0[1]] = p0[2] /\ ~ Repairing
                /\ \A o \in RegistrySlot : ~ InFlight(serving'[o])
    BY <1>2, <1>3, <1>5, <1>10, <1>11 DEF RegistryInv, SlotsSound, Knows
  <1>12. RegistryTypes'
    <2>1. publishAcked' \in SUBSET (Version \X Artifact)
      BY <1>6 DEF RegistryInv, RegistryTypes, RegistryTypeOK
    <2> QED BY <1>1, <1>6, <2>1 DEF RegistryInv, RegistryTypes, RegistryTypeOK
  <1>13. SlotsSound'
    <2> SUFFICES ASSUME NEW o \in RegistrySlot
                 PROVE  /\ Prepared(serving'[o])
                        /\ serving'[o].pc = "put_index" => \A p \in Lone' : Lists(serving'[o].existing, p)
                        /\ InFlight(serving'[o]) /\ serving'[o].q.vers \notin raced =>
                              /\ ~ Repairing
                              /\ \A o1 \in RegistrySlot : InFlight(serving'[o1]) => o1 = o
                              /\ Knows(serving'[o], crates)
      BY DEF SlotsSound, Repairing
    <2>1. CASE o # s
      <3>1. InFlight(serving'[o]) => Lone' \subseteq Lone
        BY <1>9, <1>11
      <3>2. serving'[o].pc = "put_index" => InFlight(serving'[o])
        BY DEF InFlight
      <3> QED BY <1>1, <1>10, <2>1, <3>1, <3>2 DEF RegistryInv, SlotsSound
    <2>2. CASE o = s
      BY <1>1, <2>2 DEF IdleSlot, Prepared, InFlight
    <2> QED BY <2>1, <2>2
  <1>14. repair.pc # "idle" => ~ repair.quiet
    BY <1>10 DEF RegistryInv, RepairRuns
  <1>15. RepairRuns'
    <2>1. repair.pc = "lines" => Lone' \subseteq Lone
      BY <1>9, <1>11 DEF Repairing
    <2> QED BY <1>14, <2>1 DEF RegistryInv, RepairRuns
  <1>16. LonePublishListed'
    <2> SUFFICES ASSUME NEW p \in publishAcked', p[1] \notin raced
                 PROVE  crates[p[1]] = p[2] /\ Lists(indexFile', p)
      BY DEF LonePublishListed, Lists, ListedBy
    <2>1. CASE p \in publishAcked
      <3>1. p \in Lone /\ Lists(st.existing, p)
        BY <1>2, <1>3, <2>1 DEF Lone, RegistryInv, SlotsSound
      <3> QED BY <1>7, <2>1, <3>1 DEF RegistryInv, LonePublishListed
    <2>2. CASE p = p0
      BY <1>8, <1>11, <2>2
    <2> QED BY <1>6, <2>1, <2>2
  <1>17. RepairSound'
    BY <1>14 DEF RepairSound
  <1> QED BY <1>12, <1>13, <1>15, <1>16, <1>17 DEF RegistryInv

(* A request starts a publish: the versions it overlaps are raced.         *)
LEMMA PublishStarts ==
    ASSUME RegistryInv, RegistryAssumption, NEW s \in RegistrySlot, NEW q \in RegistryRequest,
           Arrive(s, q)
    PROVE  RegistryInv'
  <1>1. CASE AnswerCode(q) # 0
    BY <1>1, ServingMoves DEF Arrive, Respond, IdleSlot, Prepared, InFlight
  <1>2. CASE AnswerCode(q) = 0
    <2>1. PICK st \in SlotRecord :
             /\ st = [pc |-> "exists", q |-> q, existing |-> <<>>, entry |-> NoArtifact]
             /\ st.pc = "exists" /\ st.q = q
      <3>1. <<>> \in Seq(IndexLine) /\ NoArtifact \in IndexLine \cup {NoArtifact}
        OBVIOUS
      <3>2. [pc |-> "exists", q |-> q, existing |-> <<>>, entry |-> NoArtifact] \in SlotRecord
        BY <3>1 DEF SlotRecord
      <3> QED BY <3>2
    <2>2. /\ serving' = [serving EXCEPT ![s] = st]
          /\ raced' = raced \cup (IF Publishing # {} \/ Repairing
                                  THEN {q.vers} \cup {serving[o].q.vers : o \in Publishing} ELSE {})
          /\ repair' = [repair EXCEPT !.quiet = FALSE]
          /\ UNCHANGED <<crates, indexFile, publishAcked>>
      BY <1>2, <2>1 DEF Arrive
    <2>3. /\ serving' \in [RegistrySlot -> {IdleSlot} \cup SlotRecord]
          /\ serving'[s] = st /\ \A o \in RegistrySlot \ {s} : serving'[o] = serving[o]
      BY <2>2 DEF RegistryInv, RegistryTypes
    <2>4. /\ repair' \in RepairRecord /\ ~ repair'.quiet /\ repair'.pc = repair.pc
          /\ repair'.body = repair.body /\ repair'.out = repair.out /\ repair'.changed = repair.changed
          /\ repair'.failed = repair.failed
      BY <2>2 DEF RegistryInv, RegistryTypes, RepairRecord
    <2>5. raced \subseteq raced' /\ Lone' \subseteq Lone
      BY <2>2 DEF Lone
    <2>6. RegistryTypes'
      <3>1. raced' \subseteq Version
        <4>1. \A o \in Publishing : serving[o].q.vers \in Version
          <5> SUFFICES ASSUME NEW o \in RegistrySlot, serving[o].pc # "idle" PROVE serving[o].q.vers \in Version
            BY DEF Publishing
          <5>1. serving[o].q \in RegistryRequest
            BY DEF RegistryInv, RegistryTypes, IdleSlot, SlotRecord
          <5> QED BY <5>1 DEF RegistryAssumption
        <4>2. q.vers \in Version
          BY DEF RegistryAssumption
        <4> QED BY <2>2, <4>1, <4>2 DEF RegistryInv, RegistryTypes, RegistryTypeOK
      <3> QED BY <2>2, <2>3, <2>4, <3>1 DEF RegistryInv, RegistryTypes, RegistryTypeOK
    <2>7. SlotsSound'
      <3> SUFFICES ASSUME NEW o \in RegistrySlot
                   PROVE  /\ Prepared(serving'[o])
                          /\ serving'[o].pc = "put_index" => \A p \in Lone' : Lists(serving'[o].existing, p)
                          /\ InFlight(serving'[o]) /\ serving'[o].q.vers \notin raced' =>
                                /\ ~ Repairing
                                /\ \A o1 \in RegistrySlot : InFlight(serving'[o1]) => o1 = o
                                /\ Knows(serving'[o], crates)
        BY <2>2, <2>4 DEF SlotsSound, Repairing
      <3>1. CASE o # s
        <4>1. InFlight(serving[o]) => serving[o].q.vers \in raced'
          BY <2>2, <3>1 DEF Publishing, InFlight
        <4> QED BY <2>3, <2>5, <3>1, <4>1 DEF RegistryInv, SlotsSound
      <3>2. CASE o = s
        <4>1. q.vers \notin raced' => ~ Repairing /\ Publishing = {}
          BY <2>2
        <4> QED BY <2>1, <2>3, <3>2, <4>1 DEF Prepared, Knows, InFlight, Publishing
      <3> QED BY <3>1, <3>2
    <2>8. RepairRuns'
      BY <2>4, <2>5 DEF RegistryInv, RepairRuns
    <2>9. LonePublishListed' /\ RepairSound'
      BY <2>2, <2>4, <2>5 DEF RegistryInv, LonePublishListed, RepairSound
    <2> QED BY <2>6, <2>7, <2>8, <2>9 DEF RegistryInv
  <1> QED BY <1>1, <1>2

(* A line is rebuilt from its artifact, under the same version and yanked  *)
(* flag, or kept.                                                          *)
LEMMA RepairedLineSound ==
    ASSUME RegistryTypes, RegistryAssumption, NEW line \in IndexLine
    PROVE  /\ RepairedLine(line) \in IndexLine
           /\ RepairedLine(line).vers = line.vers
           /\ RepairedLine(line).cksum \in {line.cksum, crates[line.vers]}
           /\ StoreExists(line.vers) /\ Manifest[crates[line.vers]] # NoManifest =>
                 RepairedLine(line) = RegenerateEntry(line.vers, crates[line.vers], line.yanked)
  <1>1. line.vers \in Version /\ line.yanked \in BOOLEAN
    BY DEF IndexLine
  <1>2. CASE ~ StoreExists(line.vers) \/ Manifest[crates[line.vers]] = NoManifest
    BY <1>2 DEF RepairedLine
  <1>3. CASE StoreExists(line.vers) /\ Manifest[crates[line.vers]] # NoManifest
    <2>1. crates[line.vers] \in Artifact
      BY <1>1, <1>3 DEF StoreExists, RegistryTypes, RegistryTypeOK
    <2>2. RepairedLine(line) = RegenerateEntry(line.vers, crates[line.vers], line.yanked)
      BY <1>3 DEF RepairedLine
    <2> QED BY <1>1, <1>3, <2>1, <2>2, RegeneratedTyped
  <1> QED BY <1>2, <1>3

(* The repair pass takes a line: it is carried, whatever became of it.     *)
LEMMA RepairTakesLine ==
    ASSUME RegistryInv, RegistryAssumption, repair.pc = "lines", Len(repair.out) < Len(repair.body),
           NEW new \in IndexLine, NEW i, i = Len(repair.out) + 1,
           new.vers = repair.body[i].vers, new.cksum \in {repair.body[i].cksum, crates[new.vers]},
           repair' \in RepairRecord, repair'.pc = "lines", repair'.body = repair.body,
           repair'.apply = repair.apply, repair'.quiet = repair.quiet,
           repair'.out = Append(repair.out, new),
           ~ repair'.changed => ~ repair.changed /\ new = repair.body[i],
           ~ repair'.failed => /\ ~ repair.failed
                               /\ new = RegenerateEntry(repair.body[i].vers, crates[repair.body[i].vers],
                                                        repair.body[i].yanked),
           UNCHANGED <<crates, indexFile, serving, publishAcked, raced>>
    PROVE  RegistryInv'
  <1>1. PICK body, out : /\ body = repair.body /\ out = repair.out
                         /\ body \in Seq(IndexLine) /\ out \in Seq(IndexLine)
    BY DEF RegistryInv, RegistryTypes, RepairRecord
  <1>2. /\ i \in DOMAIN body /\ i = Len(out) + 1 /\ repair'.out = Append(out, new)
        /\ Len(repair'.out) = i /\ i <= Len(body) /\ repair'.out[i] = new
        /\ \A j \in DOMAIN out : j < i /\ repair'.out[j] = out[j]
        /\ DOMAIN repair'.out = DOMAIN out \cup {i}
    BY <1>1
  <1>3. Lone' = Lone
    BY DEF Lone
  <1>4. ASSUME NEW p \in Lone PROVE Carried(body, repair'.out, p)
    <2>1. PICK j \in DOMAIN body : ListedBy(body[j], p) /\ (j <= Len(out) => ListedBy(out[j], p))
      BY <1>1 DEF RegistryInv, RepairRuns, Carried
    <2>2. crates[p[1]] = p[2]
      BY DEF RegistryInv, LonePublishListed, Lone
    <2>3. CASE j = i
      <3>1. ListedBy(new, p)
        BY <1>1, <2>1, <2>2, <2>3 DEF ListedBy
      <3> QED BY <1>2, <2>1, <2>3, <3>1 DEF Carried
    <2>4. CASE j < i
      BY <1>1, <1>2, <2>1, <2>4 DEF Carried
    <2>5. CASE j > i
      BY <1>1, <1>2, <2>1, <2>5 DEF Carried
    <2> QED BY <1>1, <1>2, <2>3, <2>4, <2>5
  <1>5. ~ repair'.changed => Kept(body, repair'.out)
    BY <1>1, <1>2 DEF RegistryInv, RepairRuns, Kept
  <1>6. repair.quiet /\ ~ repair'.failed => Rebuilt(body, repair'.out, crates)
    BY <1>1, <1>2 DEF RegistryInv, RepairRuns, Rebuilt
  <1>7. RepairRuns'
    BY <1>1, <1>2, <1>3, <1>4, <1>5, <1>6 DEF RegistryInv, RepairRuns
  <1>8. RegistryTypes' /\ LonePublishListed' /\ RepairSound'
    BY DEF RegistryInv, RegistryTypes, RegistryTypeOK, LonePublishListed, RepairSound
  <1>9. SlotsSound'
    BY <1>3 DEF RegistryInv, SlotsSound, Repairing
  <1> QED BY <1>7, <1>8, <1>9 DEF RegistryInv

(* The pass ends: it writes what it rebuilt, or nothing.                   *)
LEMMA RepairEnds ==
    ASSUME RegistryInv, RegistryAssumption, repair.pc = "lines",
           repair' \in RepairRecord, repair'.pc = "done", repair'.body = repair.body,
           repair'.out = repair.out, repair'.quiet = repair.quiet, repair'.apply = repair.apply,
           \/ indexFile' = indexFile /\ repair'.failed
           \/ /\ Len(repair.out) = Len(repair.body) /\ repair'.failed = repair.failed
              /\ indexFile' = IF repair.changed /\ repair.apply THEN repair.out ELSE indexFile,
           UNCHANGED <<crates, serving, publishAcked, raced>>
    PROVE  RegistryInv'
  <1>1. PICK body, out : /\ body = repair.body /\ out = repair.out
                         /\ body \in Seq(IndexLine) /\ out \in Seq(IndexLine)
    BY DEF RegistryInv, RegistryTypes, RepairRecord
  <1>2. Lone' = Lone
    BY DEF Lone
  <1>3. \/ indexFile' = indexFile
        \/ Len(out) = Len(body) /\ indexFile' = out
    BY <1>1
  <1>4. RegistryTypes'
    BY <1>1, <1>3 DEF RegistryInv, RegistryTypes, RegistryTypeOK
  <1>5. SlotsSound'
    BY <1>2 DEF RegistryInv, SlotsSound, Repairing
  <1>6. RepairRuns'
    BY DEF RegistryInv, RepairRuns
  <1>7. LonePublishListed'
    <2>1. CASE indexFile' = indexFile
      BY <2>1 DEF RegistryInv, LonePublishListed
    <2>2. CASE Len(out) = Len(body) /\ indexFile' = out
      <3> SUFFICES ASSUME NEW p \in publishAcked, p[1] \notin raced
                   PROVE  crates[p[1]] = p[2] /\ \E i \in DOMAIN out : ListedBy(out[i], p)
        BY <2>2 DEF LonePublishListed, ListedBy
      <3>1. PICK j \in DOMAIN body : ListedBy(body[j], p) /\ (j <= Len(out) => ListedBy(out[j], p))
        BY <1>1 DEF RegistryInv, RepairRuns, Carried, Lone
      <3>2. j \in DOMAIN out /\ ListedBy(out[j], p)
        BY <1>1, <2>2, <3>1
      <3> QED BY <3>2 DEF RegistryInv, LonePublishListed
    <2> QED BY <1>3, <2>1, <2>2
  <1>8. RepairSound'
    <2> SUFFICES ASSUME repair.quiet, ~ repair'.failed
                 PROVE  /\ Len(indexFile') = Len(body)
                        /\ \A i \in DOMAIN indexFile' :
                              /\ indexFile'[i].vers = body[i].vers /\ indexFile'[i].yanked = body[i].yanked
                              /\ repair.apply => indexFile'[i] = RegenerateEntry(body[i].vers, crates[body[i].vers],
                                                                                body[i].yanked)
                              /\ ~ repair.apply => indexFile'[i] = body[i]
                        /\ RecordsAgree
      BY <1>1 DEF RepairSound
    <2>1. /\ Len(out) = Len(body) /\ ~ repair.failed
          /\ indexFile' = IF repair.changed /\ repair.apply THEN out ELSE body
      BY <1>1 DEF RegistryInv, RepairRuns
    <2>2. \A i \in DOMAIN out :
             out[i] = RegenerateEntry(body[i].vers, crates[body[i].vers], body[i].yanked)
      BY <1>1, <2>1 DEF RegistryInv, RepairRuns, Rebuilt
    <2>3. ~ repair.changed => \A i \in DOMAIN out : out[i] = body[i]
      BY <1>1 DEF RegistryInv, RepairRuns, Kept
    <2>4. \A i \in DOMAIN out : out[i].vers = body[i].vers /\ out[i].yanked = body[i].yanked
      BY <2>2 DEF RegenerateEntry, Line
    <2>5. DOMAIN out = DOMAIN body
      BY <1>1, <2>1
    <2>6. CASE repair.changed /\ repair.apply
      BY <1>1, <2>1, <2>2, <2>4, <2>6, DeclarationsAgree
    <2>7. CASE ~ repair.changed
      BY <1>1, <2>1, <2>2, <2>3, <2>5, <2>7, DeclarationsAgree
    <2>8. CASE ~ repair.apply
      BY <1>1, <2>1, <2>8, DeclarationsAgree
    <2> QED BY <2>6, <2>7, <2>8
  <1> QED BY <1>4, <1>5, <1>6, <1>7, <1>8 DEF RegistryInv

(* Every step of a request or of the repair keeps RegistryInv. *)
LEMMA RegistryStep == RegistryInv /\ [RegistryNext]_registryVars => RegistryInv'
  <1> SUFFICES ASSUME RegistryInv, [RegistryNext]_registryVars PROVE RegistryInv'
    OBVIOUS
  <1> USE RegistryAssumption
  <1>1. CASE UNCHANGED registryVars
    BY <1>1 DEF registryVars, RegistryInv, RegistryTypes, RegistryTypeOK, SlotsSound, RepairRuns,
       Lone, Repairing,
                LonePublishListed, RepairSound
  <1>2. ASSUME NEW s \in RegistrySlot, serving[s].pc # "idle"
        PROVE  serving[s] \in SlotRecord /\ InFlight(serving[s])
    BY <1>2 DEF RegistryInv, RegistryTypes, IdleSlot, InFlight
  <1>3. IdleSlot \in {IdleSlot} \cup SlotRecord /\ IdleSlot.pc = "idle" /\ Prepared(IdleSlot) /\ ~ InFlight(IdleSlot)
    BY DEF IdleSlot, Prepared, InFlight
  <1>4. ASSUME NEW s \in RegistrySlot, serving' = [serving EXCEPT ![s] = IdleSlot],
               UNCHANGED <<crates, indexFile, repair, publishAcked, raced>>
        PROVE  RegistryInv'
    BY <1>3, <1>4, ServingMoves
  <1>5. ASSUME NEW s \in RegistrySlot, CrateExists(s) PROVE RegistryInv'
    <2>1. CASE StoreExists(serving[s].q.vers)
      BY <1>4, <1>5, <2>1 DEF CrateExists, Respond, ServingOnly
    <2>2. CASE ~ StoreExists(serving[s].q.vers)
      <3>1. PICK old \in SlotRecord : old = serving[s] /\ old.pc = "exists" /\ InFlight(old)
        BY <1>2, <1>5 DEF CrateExists
      <3>2. PICK e \in IndexLine : /\ e = IndexEntry(old.q.vers, old.q.artifact, PublishDep(old.q.dep))
                                   /\ e.vers = old.q.vers /\ e.cksum = old.q.artifact
        <4>1. old.q \in RegistryRequest
          BY DEF SlotRecord
        <4>2. old.q.vers \in Version /\ old.q.artifact \in Artifact /\ old.q.dep \in Declaration
          BY <4>1 DEF RegistryAssumption
        <4> QED BY <4>2, IndexEntryTyped
      <3>a. PICK st : st = [old EXCEPT !.pc = "put_crate", !.entry = e]
        OBVIOUS
      <3>3. /\ st = [old EXCEPT !.pc = "put_crate", !.entry = e] /\ st \in SlotRecord
            /\ st.pc = "put_crate" /\ st.entry = e /\ st.q = old.q
        BY <3>a DEF SlotRecord
      <3>4. /\ serving' = [serving EXCEPT ![s] = st]
            /\ UNCHANGED <<crates, indexFile, repair, publishAcked, raced>>
        BY <1>5, <2>2, <3>1, <3>2, <3>3 DEF CrateExists, ServingOnly
      <3>5. Prepared(st) /\ st.pc # "put_index" /\ Knows(st, crates)
        BY <2>2, <3>1, <3>2, <3>3 DEF Prepared, Knows, StoreExists
      <3> QED BY <3>1, <3>3, <3>4, <3>5, ServingMoves
    <2> QED BY <2>1, <2>2
  <1>6. ASSUME NEW s \in RegistrySlot, PutCrate(s) PROVE RegistryInv'
    <2>1. PICK old \in SlotRecord : old = serving[s] /\ old.pc = "put_crate" /\ InFlight(old)
      BY <1>2, <1>6 DEF PutCrate
    <2>a. PICK st : st = [old EXCEPT !.pc = "get_index"]
      OBVIOUS
    <2>2. /\ st = [old EXCEPT !.pc = "get_index"] /\ st \in SlotRecord /\ st.pc = "get_index"
          /\ st.q = old.q /\ st.entry = old.entry
      BY <2>a DEF SlotRecord
    <2>3. /\ serving' = [serving EXCEPT ![s] = st] /\ StorePut(serving[s].q)
          /\ UNCHANGED <<indexFile, repair, publishAcked, raced>>
      BY <1>6, <2>1, <2>2 DEF PutCrate
    <2>4. Prepared(st)
      BY <2>1, <2>2 DEF Prepared, RegistryInv, SlotsSound
    <2> QED BY <2>1, <2>2, <2>3, <2>4, CratePut
  <1>7. ASSUME NEW s \in RegistrySlot, GetIndex(s) PROVE RegistryInv'
    <2>1. PICK old \in SlotRecord : old = serving[s] /\ old.pc = "get_index" /\ InFlight(old)
      BY <1>2, <1>7 DEF GetIndex
    <2>2. PICK f \in Seq(IndexLine) : f = indexFile
      BY DEF RegistryInv, RegistryTypes, RegistryTypeOK
    <2>a. PICK st : st = [old EXCEPT !.pc = "put_index", !.existing = f]
      OBVIOUS
    <2>3. /\ st = [old EXCEPT !.pc = "put_index", !.existing = f] /\ st \in SlotRecord
          /\ st.pc = "put_index" /\ st.q = old.q /\ st.entry = old.entry /\ st.existing = f
      BY <2>a DEF SlotRecord
    <2>4. /\ serving' = [serving EXCEPT ![s] = st]
          /\ UNCHANGED <<crates, indexFile, repair, publishAcked, raced>>
      BY <1>7, <2>1, <2>2, <2>3 DEF GetIndex, ServingOnly, StoreGet
    <2>5. Prepared(st) /\ (st.q.vers \notin raced => Knows(st, crates))
      BY <2>1, <2>3 DEF Prepared, Knows, RegistryInv, SlotsSound
    <2>6. \A p \in Lone : Lists(st.existing, p)
      BY <2>2, <2>3 DEF RegistryInv, LonePublishListed, Lone, Lists, ListedBy
    <2> QED BY <2>1, <2>3, <2>4, <2>5, <2>6, ServingMoves
  <1>8. ASSUME NEW s \in RegistrySlot, PutIndex(s) PROVE RegistryInv'
    BY <1>8, IndexPut DEF PutIndex, Respond
  <1>9. ASSUME NEW s \in RegistrySlot, StorageError(s) PROVE RegistryInv'
    <2>1. /\ serving' = [serving EXCEPT ![s] = IdleSlot] /\ UNCHANGED <<repair, publishAcked, raced>>
          /\ \/ UNCHANGED <<crates, indexFile>>
             \/ serving[s].pc = "put_crate" /\ StorePut(serving[s].q) /\ UNCHANGED indexFile
             \/ serving[s].pc = "put_index" /\ indexFile' = Extended(s) /\ UNCHANGED crates
      BY <1>9 DEF StorageError, Respond
    <2>2. CASE UNCHANGED <<crates, indexFile>>
      BY <1>4, <2>1, <2>2
    <2>3. CASE serving[s].pc = "put_crate" /\ StorePut(serving[s].q) /\ UNCHANGED indexFile
      BY <1>3, <2>1, <2>3, CratePut
    <2>4. CASE serving[s].pc = "put_index" /\ indexFile' = Extended(s) /\ UNCHANGED crates
      BY <2>1, <2>4, IndexPut
    <2> QED BY <2>1, <2>2, <2>3, <2>4
  <1>10. ASSUME NEW apply \in BOOLEAN, RepairStart(apply) PROVE RegistryInv'
    <2>1. PICK f \in Seq(IndexLine) : f = indexFile
      BY DEF RegistryInv, RegistryTypes, RegistryTypeOK
    <2>2. /\ repair'.pc = "lines" /\ repair'.apply = apply /\ repair'.body = f /\ repair'.out = <<>>
          /\ ~ repair'.changed /\ ~ repair'.failed /\ (repair'.quiet => Publishing = {})
          /\ repair' \in RepairRecord
      <3>1. PICK quiet \in BOOLEAN : quiet = (Publishing = {})
        OBVIOUS
      <3>2. repair' = [pc |-> "lines", apply |-> apply, body |-> f, out |-> <<>>,
                       changed |-> FALSE, failed |-> FALSE, quiet |-> quiet]
        BY <1>10, <2>1, <3>1 DEF RepairStart, IdleRepair, StoreGet
      <3>3. <<>> \in Seq(IndexLine)
        OBVIOUS
      <3>4. repair' \in RepairRecord
        BY <3>2, <3>3 DEF RepairRecord
      <3> QED BY <3>1, <3>2, <3>4
    <2>3. /\ raced' = raced \cup {serving[o].q.vers : o \in Publishing}
          /\ UNCHANGED <<crates, indexFile, serving, publishAcked>>
      BY <1>10 DEF RepairStart
    <2>4. raced \subseteq raced' /\ Lone' \subseteq Lone
      BY <2>3 DEF Lone
    <2>5. raced' \subseteq Version
      <3>1. \A o \in Publishing : serving[o].q.vers \in Version
        <4> SUFFICES ASSUME NEW o \in RegistrySlot, serving[o].pc # "idle" PROVE serving[o].q.vers \in Version
          BY DEF Publishing
        <4>1. serving[o].q \in RegistryRequest
          BY <1>2 DEF SlotRecord
        <4> QED BY <4>1 DEF RegistryAssumption
      <3> QED BY <2>3, <3>1 DEF RegistryInv, RegistryTypes, RegistryTypeOK
    <2>6. RegistryTypes'
      BY <2>2, <2>3, <2>5 DEF RegistryInv, RegistryTypes, RegistryTypeOK
    <2>7. SlotsSound'
      <3>1. \A s \in RegistrySlot : InFlight(serving[s]) => serving[s].q.vers \in raced'
        BY <2>3 DEF Publishing, InFlight
      <3> QED BY <2>3, <2>4, <3>1 DEF RegistryInv, SlotsSound
    <2>8. RepairRuns'
      <3>1. \A p \in Lone' : Carried(f, <<>>, p)
        BY <2>1, <2>4 DEF RegistryInv, LonePublishListed, Lone, Carried, ListedBy
      <3>2. repair'.quiet => \A s \in RegistrySlot : ~ InFlight(serving[s])
        BY <2>2 DEF Publishing, InFlight
      <3>3. Kept(f, <<>>) /\ Rebuilt(f, <<>>, crates) /\ Len(<<>>) <= Len(f)
        BY DEF Kept, Rebuilt
      <3> QED BY <2>1, <2>2, <2>3, <3>1, <3>2, <3>3 DEF RepairRuns
    <2>9. LonePublishListed' /\ RepairSound'
      BY <2>2, <2>3, <2>4 DEF RegistryInv, LonePublishListed, RepairSound
    <2> QED BY <2>6, <2>7, <2>8, <2>9 DEF RegistryInv
  <1>11. repair.body \in Seq(IndexLine) /\ repair.out \in Seq(IndexLine) /\ repair \in RepairRecord
    BY DEF RegistryInv, RegistryTypes, RepairRecord
  <1>12. CASE RepairLine
    <2>1. PICK i : i = Len(repair.out) + 1 /\ i \in DOMAIN repair.body
      BY <1>11, <1>12 DEF RepairLine
    <2>2. PICK line \in IndexLine : line = repair.body[i]
      BY <1>11, <2>1
    <2>3. PICK new : /\ new = RepairedLine(line) /\ new \in IndexLine /\ new.vers = line.vers
                     /\ new.cksum \in {line.cksum, crates[line.vers]}
                     /\ StoreExists(line.vers) /\ Manifest[crates[line.vers]] # NoManifest =>
                          new = RegenerateEntry(line.vers, crates[line.vers], line.yanked)
      BY RepairedLineSound DEF RegistryInv
    <2>5. /\ repair' = [repair EXCEPT !.out = Append(@, new), !.changed = @ \/ new # line,
                           !.failed = @ \/ ~StoreExists(line.vers) \/ Manifest[crates[line.vers]] = NoManifest]
          /\ repair.pc = "lines" /\ Len(repair.out) < Len(repair.body)
          /\ UNCHANGED <<crates, indexFile, serving, publishAcked, raced>>
      BY <1>12, <2>1, <2>2, <2>3 DEF RepairLine
    <2>6. Append(repair.out, new) \in Seq(IndexLine)
      BY <1>11, <2>3
    <2>7. /\ repair' \in RepairRecord /\ repair'.pc = "lines" /\ repair'.body = repair.body
          /\ repair'.apply = repair.apply /\ repair'.quiet = repair.quiet
          /\ repair'.out = Append(repair.out, new)
      BY <1>11, <2>5, <2>6 DEF RepairRecord
    <2>8. ~ repair'.changed => ~ repair.changed /\ new = line
      BY <1>11, <2>5 DEF RepairRecord
    <2>9. ~ repair'.failed => /\ ~ repair.failed
                              /\ new = RegenerateEntry(line.vers, crates[line.vers], line.yanked)
      BY <1>11, <2>3, <2>5 DEF RepairRecord
    <2> QED BY <2>1, <2>2, <2>3, <2>5, <2>7, <2>8, <2>9, RepairTakesLine
  <1>13. CASE RepairWrite
    <2>1. /\ repair' \in RepairRecord /\ repair'.pc = "done" /\ repair'.body = repair.body
          /\ repair'.out = repair.out /\ repair'.quiet = repair.quiet /\ repair'.apply = repair.apply
          /\ repair'.failed = repair.failed
      BY <1>11, <1>13 DEF RepairWrite, RepairRecord
    <2> QED BY <1>13, <2>1, RepairEnds DEF RepairWrite
  <1>14. CASE RepairFails
    <2>1. repair.pc = "lines" /\ UNCHANGED <<crates, indexFile, serving, publishAcked, raced>>
      BY <1>11, <1>14 DEF RepairFails, Repairing, RepairRecord
    <2>2. CASE /\ Len(repair.out) < Len(repair.body)
               /\ repair' = [repair EXCEPT !.failed = TRUE, !.out = Append(@, repair.body[Len(@) + 1])]
      <3>1. PICK i : i = Len(repair.out) + 1 /\ i \in DOMAIN repair.body
        BY <1>11, <2>2
      <3>2. PICK line \in IndexLine : line = repair.body[i]
        BY <1>11, <3>1
      <3>3. Append(repair.out, line) \in Seq(IndexLine)
        BY <1>11, <3>2
      <3>4. repair' = [repair EXCEPT !.failed = TRUE, !.out = Append(@, line)]
        BY <2>2, <3>1, <3>2
      <3>5. /\ repair' \in RepairRecord /\ repair'.pc = "lines" /\ repair'.body = repair.body
            /\ repair'.apply = repair.apply /\ repair'.quiet = repair.quiet
            /\ repair'.out = Append(repair.out, line) /\ repair'.failed = TRUE /\ repair'.changed = repair.changed
        BY <1>11, <2>1, <3>3, <3>4 DEF RepairRecord
      <3> QED BY <2>1, <2>2, <3>1, <3>2, <3>5, RepairTakesLine
    <2>3. CASE repair' = [repair EXCEPT !.failed = TRUE, !.pc = "done"]
      <3>1. /\ repair' \in RepairRecord /\ repair'.pc = "done" /\ repair'.body = repair.body
            /\ repair'.out = repair.out /\ repair'.quiet = repair.quiet /\ repair'.apply = repair.apply
            /\ repair'.failed = TRUE
        BY <1>11, <2>3 DEF RepairRecord
      <3> QED BY <2>1, <3>1, RepairEnds
    <2> QED BY <1>14, <2>2, <2>3 DEF RepairFails
  <1> QED BY <1>1, <1>5, <1>6, <1>7, <1>8, <1>9, <1>10, <1>12, <1>13, <1>14,
             PublishStarts DEF RegistryNext

(* However publishes, faults and the repair pass interleave, a publish     *)
(* that overlapped no other writer stays listed under the checksum of its  *)
(* stored bytes, and a repair that ran alone restores what the artifacts   *)
(* say and nothing else.                                                   *)
THEOREM PublishesAndRepairsSound == RegistrySpec => [](RegistryTypeOK /\ RegistrySound)
  <1>1. RegistryInit => RegistryInv
    <2> SUFFICES ASSUME RegistryInit PROVE RegistryInv
      OBVIOUS
    <2>1. repair \in RepairRecord /\ repair.pc = "idle" /\ Len(repair.out) <= Len(repair.body)
      BY DEF RegistryInit, IdleRepair, RepairRecord
    <2>2. \A s \in RegistrySlot : serving[s] = IdleSlot /\ serving[s].pc = "idle"
      BY DEF RegistryInit, IdleSlot
    <2>3. RegistryTypes
      BY <2>1, RegistryAssumption DEF RegistryInit, RegistryTypes, RegistryTypeOK
    <2>4. SlotsSound
      BY <2>2 DEF SlotsSound, Prepared, InFlight
    <2>5. RepairRuns /\ RepairSound
      BY <2>1 DEF RepairRuns, RepairSound
    <2>6. LonePublishListed
      BY DEF RegistryInit, LonePublishListed
    <2> QED BY <2>3, <2>4, <2>5, <2>6 DEF RegistryInv
  <1>2. RegistryInv => RegistryTypeOK /\ RegistrySound
    BY DEF RegistryInv, RegistryTypes, RegistrySound
  <1> QED BY <1>1, <1>2, RegistryStep, PTL DEF RegistrySpec

-----------------------------------------------------------------------------
(* The release registry.  A client with a stamped record to send.           *)
ReleaseDigest == {s.digest : s \in AgentSpec}

Sending ==
    [pc : {"send"}, digest : ReleaseDigest, at : Nat, kind : {"promote", "rollback"}, read : Nat]

Senders == {p \in Promoter : client[p] # IdleClient}

(* What a rollback read is still true of the history as long as nothing was *)
(* appended and the stamps are in order.                                    *)
Stamped(rs) == \A i, j \in DOMAIN rs : i < j => rs[i].at < rs[j].at

ReadStands(c, rs) ==
    /\ c.read <= Len(rs)
    /\ c.kind = "rollback" =>
          /\ c.read >= 2
          /\ c.read = Len(rs) /\ Stamped(rs) => c.digest = rs[c.read - 1].digest

(* What is inductive about the releases; a client sends at most one record. *)
ReleaseInv ==
    /\ now \in 0 .. MaxReleases /\ rfaults \in 0 .. ReleaseFaults
    /\ releases \in Seq(ReleaseRecord)
    /\ \A i, j \in DOMAIN releases : releases[i] = releases[j] => i = j
    /\ client = [p \in Promoter |-> client[p]]
    /\ \A p \in Promoter : client[p] = IdleClient \/ (client[p] \in Sending /\ ReadStands(client[p], releases))
    /\ IsFiniteSet(Senders) /\ Len(releases) + Cardinality(Senders) <= now

(* The history under stamps in order is the collection backwards. *)
LEMMA HistoryNewestFirst ==
    ASSUME releases \in Seq(ReleaseRecord), InStampOrder
    PROVE  LET n == Len(releases)
           IN  /\ Len(ReleaseHistory) = n
               /\ n >= 1 => ReleaseHistory[1] = releases[n]
               /\ n >= 2 => ReleaseHistory[2] = releases[n - 1]
  <1> DEFINE n == Len(releases)
             newer(i) == {j \in DOMAIN releases :
                            \/ releases[j].at > releases[i].at
                            \/ releases[j].at = releases[i].at /\ j < i}
             nth(m) == CHOOSE i \in DOMAIN releases : Cardinality(newer(i)) = m - 1
  <1>1. n \in Nat /\ DOMAIN releases = 1..n /\ \A i \in 1..n : releases[i].at \in Nat
    <2>1. n \in Nat /\ DOMAIN releases = 1..n /\ \A i \in 1..n : releases[i] \in ReleaseRecord
      OBVIOUS
    <2> QED BY <2>1 DEF ReleaseRecord
  <1>2. /\ DOMAIN ReleaseHistory = 1..n /\ \A m \in 1..n : ReleaseHistory[m] = releases[nth(m)]
        /\ ReleaseHistory = [m \in 1..n |-> releases[nth(m)]]
    BY <1>1 DEF ReleaseHistory
  <1>3. ASSUME NEW i \in 1..n PROVE newer(i) = (i + 1)..n
    <2>1. ASSUME NEW j \in 1..n PROVE j \in newer(i) <=> j > i
      <3>1. releases[i].at \in Nat /\ releases[j].at \in Nat
        BY <1>1
      <3>2. CASE j > i
        <4>1. releases[i].at < releases[j].at
          BY <1>1, <3>2 DEF InStampOrder
        <4> QED BY <1>1, <3>1, <3>2, <4>1
      <3>3. CASE j = i
        BY <1>1, <3>1, <3>3
      <3>4. CASE j < i
        <4>1. releases[j].at < releases[i].at
          BY <1>1, <3>4 DEF InStampOrder
        <4> QED BY <1>1, <3>1, <3>4, <4>1
      <3> QED BY <3>2, <3>3, <3>4
    <2>2. newer(i) \subseteq 1..n
      BY <1>1
    <2>3. \A j \in (i + 1)..n : j \in 1..n /\ j > i
      BY <1>1
    <2>4. \A j \in 1..n : j > i => j \in (i + 1)..n
      BY <1>1
    <2> HIDE DEF newer, n
    <2> QED BY <2>1, <2>2, <2>3, <2>4
  <1>4. \A i \in 1..n : Cardinality(newer(i)) = n - i
    <2>1. \A i \in 1..n : Cardinality((i + 1)..n) = n - i
      <3> TAKE i \in 1..n
      <3>1. i + 1 \in Int /\ n \in Int
        BY <1>1
      <3>2. Cardinality((i + 1)..n) = IF i + 1 > n THEN 0 ELSE n - (i + 1) + 1
        BY <3>1, FS_Interval
      <3> QED BY <1>1, <3>2
    <2> HIDE DEF newer
    <2> QED BY <1>3, <2>1
  <1>5. Len(ReleaseHistory) = n
    <2>1. ReleaseHistory \in Seq({releases[nth(m)] : m \in 1..n})
      <3> HIDE DEF nth
      <3>1. ReleaseHistory \in [1..n -> {releases[nth(m)] : m \in 1..n}]
        BY <1>2
      <3> QED BY <1>1, <3>1
    <2> HIDE DEF nth
    <2> QED BY <1>1, <1>2, <2>1
  <1>6. ASSUME NEW m \in 1..n PROVE nth(m) = (n + 1) - m
    <2>1. (n + 1) - m \in 1..n /\ n - ((n + 1) - m) = m - 1
      BY <1>1
    <2>2. Cardinality(newer((n + 1) - m)) = m - 1
      BY <1>4, <2>1
    <2> HIDE DEF newer
    <2>3. nth(m) \in 1..n /\ Cardinality(newer(nth(m))) = m - 1
      BY <1>1, <2>1, <2>2
    <2>4. n - nth(m) = m - 1
      BY <1>4, <2>3
    <2> HIDE DEF nth
    <2> QED BY <1>1, <2>3, <2>4
  <1> HIDE DEF nth, newer
  <1>7. ASSUME n >= 1 PROVE ReleaseHistory[1] = releases[n]
    <2>1. 1 \in 1..n /\ (n + 1) - 1 = n
      BY <1>1, <1>7
    <2> QED BY <1>2, <1>6, <2>1
  <1>8. ASSUME n >= 2 PROVE ReleaseHistory[2] = releases[n - 1]
    <2>1. 2 \in 1..n /\ (n + 1) - 2 = n - 1
      BY <1>1, <1>8
    <2> QED BY <1>2, <1>6, <2>1
  <1> QED BY <1>5, <1>7, <1>8

CurrentIsLast ==
    releases \in Seq(ReleaseRecord) /\ InStampOrder /\ Len(releases) >= 1
       => ReleaseHistory[1] = releases[Len(releases)]

(* The first entry of the history is the last release, in every state. *)
LEMMA CurrentAlways == CurrentIsLast
  BY HistoryNewestFirst DEF CurrentIsLast

(* Every entry of the history is a release. *)
LEMMA HistoryOfReleases ==
    ASSUME releases \in Seq(ReleaseRecord), Len(ReleaseHistory) >= 2
    PROVE  Len(releases) >= 2 /\ ReleaseHistory[2].digest \in ReleaseDigest
  <1> DEFINE n == Len(releases)
             S == 1..n
             over(u, v) == releases[u].at > releases[v].at \/ (releases[u].at = releases[v].at /\ u < v)
             R == {p \in S \X S : over(p[1], p[2])}
             newer(i) == {j \in DOMAIN releases :
                            \/ releases[j].at > releases[i].at
                            \/ releases[j].at = releases[i].at /\ j < i}
             nth(m) == CHOOSE i \in DOMAIN releases : Cardinality(newer(i)) = m - 1
  <1>1. n \in Nat /\ DOMAIN releases = S /\ \A i \in S : releases[i] \in ReleaseRecord
    OBVIOUS
  <1>2. \A i \in S : releases[i].at \in Nat /\ releases[i].digest \in ReleaseDigest
    BY <1>1 DEF ReleaseRecord, ReleaseDigest
  <1>3. ReleaseHistory = [m \in S |-> releases[nth(m)]]
    BY <1>1 DEF ReleaseHistory
  <1>4. Len(ReleaseHistory) = n
    <2> HIDE DEF nth
    <2>1. ReleaseHistory \in [1..n -> {releases[nth(m)] : m \in S}]
      BY <1>3
    <2>2. ReleaseHistory \in Seq({releases[nth(m)] : m \in S}) /\ DOMAIN ReleaseHistory = 1..n
      BY <1>1, <2>1
    <2> QED BY <1>1, <2>2
  <1>5. IsFiniteSet(S) /\ Cardinality(S) = n
    <2>1. 1 \in Int /\ n \in Int
      BY <1>1
    <2>2. IsFiniteSet(1..n) /\ Cardinality(1..n) = IF 1 > n THEN 0 ELSE n - 1 + 1
      BY <2>1, FS_Interval
    <2> QED BY <1>1, <2>2
  <1>6. ASSUME NEW i \in S PROVE newer(i) = Below(S, R, i)
    <2>1. newer(i) = {j \in S : over(j, i)}
      BY <1>1
    <2>2. \A j \in S : <<j, i>> \in R <=> over(j, i)
      OBVIOUS
    <2> HIDE DEF newer, R, over
    <2> QED BY <2>1, <2>2 DEF Below
  <1>7. IsTotalOrder(S, R)
    <2>1. \A u, v \in S : <<u, v>> \in R <=> over(u, v)
      <3> HIDE DEF over
      <3> QED OBVIOUS
    <2>2. \A i \in S : i \in Nat
      BY <1>1
    <2> HIDE DEF S, R
    <2>3. \A u \in S : <<u, u>> \notin R
      BY <1>2, <2>1, <2>2
    <2>4. ASSUME NEW u \in S, NEW v \in S, NEW w \in S, <<u, v>> \in R, <<v, w>> \in R PROVE <<u, w>> \in R
      <3>1. /\ releases[u].at \in Nat /\ releases[v].at \in Nat /\ releases[w].at \in Nat
            /\ u \in Nat /\ v \in Nat /\ w \in Nat
        BY <1>2, <2>2
      <3>2. \/ releases[u].at > releases[v].at
            \/ releases[u].at = releases[v].at /\ u < v
        BY <2>1, <2>4
      <3>3. \/ releases[v].at > releases[w].at
            \/ releases[v].at = releases[w].at /\ v < w
        BY <2>1, <2>4
      <3>4. \/ releases[u].at > releases[w].at
            \/ releases[u].at = releases[w].at /\ u < w
        BY <3>1, <3>2, <3>3
      <3> QED BY <2>1, <3>4
    <2>5. ASSUME NEW u \in S, NEW v \in S, u # v PROVE <<u, v>> \in R \/ <<v, u>> \in R
      <3>1. releases[u].at \in Nat /\ releases[v].at \in Nat /\ u \in Nat /\ v \in Nat
        BY <1>2, <2>2
      <3> QED BY <2>1, <2>5, <3>1
    <2> QED BY <2>3, <2>4, <2>5 DEF IsTotalOrder
  <1>8. n >= 2
    BY <1>4
  <1>9. \E i \in S : Cardinality(newer(i)) = 2 - 1
    <2> HIDE DEF S, R, newer
    <2>1. 1 \in 0..(Cardinality(S) - 1)
      BY <1>1, <1>5, <1>8
    <2>2. PICK i \in S : Cardinality(Below(S, R, i)) = 1
      BY <1>5, <1>7, <2>1, RankOnto
    <2> QED BY <1>6, <2>2
  <1> HIDE DEF newer
  <1>10. nth(2) \in S
    BY <1>1, <1>9
  <1>11. ReleaseHistory[2] = releases[nth(2)]
    <2>1. 2 \in S
      BY <1>1, <1>8
    <2> HIDE DEF S, nth
    <2> QED BY <1>3, <2>1
  <1> HIDE DEF S, nth
  <1> QED BY <1>2, <1>8, <1>10, <1>11

(* A client's record as it is stamped. *)
LEMMA StampKeeps ==
    ASSUME ReleaseInv, NEW p \in Promoter, NEW digest \in ReleaseDigest, NEW kind \in {"promote", "rollback"},
           client[p].pc = "idle", now < MaxReleases, Stamp(p, digest, kind),
           now' = now + 1, releases' = releases, rfaults' = rfaults,
           kind = "rollback" => /\ Len(releases) >= 2
                                /\ InStampOrder => digest = releases[Len(releases) - 1].digest
    PROVE  ReleaseInv'
  <1> DEFINE c == [pc |-> "send", digest |-> digest, at |-> now + Skew[p], kind |-> kind, read |-> Len(releases)]
  <1>1. /\ now \in 0 .. MaxReleases /\ rfaults \in 0 .. ReleaseFaults /\ releases \in Seq(ReleaseRecord)
        /\ client = [q \in Promoter |-> client[q]]
        /\ \A q \in Promoter : client[q] = IdleClient \/ (client[q] \in Sending /\ ReadStands(client[q], releases))
        /\ IsFiniteSet(Senders) /\ Len(releases) + Cardinality(Senders) <= now
    BY DEF ReleaseInv
  <1>2. client' = [client EXCEPT ![p] = c]
    BY DEF Stamp
  <1>3. now \in Nat /\ now' \in 0 .. MaxReleases /\ now + Skew[p] \in Nat /\ Len(releases) \in Nat
    BY <1>1, ReleaseAssumption
  <1>4. c \in Sending
    BY <1>3 DEF Sending
  <1>5. c.digest = digest /\ c.kind = kind /\ c.read = Len(releases) /\ c.pc = "send"
    OBVIOUS
  <1> HIDE DEF c
  <1>6. ReadStands(c, releases')
    <2>1. Stamped(releases) => InStampOrder
      BY DEF Stamped, InStampOrder
    <2> QED BY <1>3, <1>5, <2>1 DEF ReadStands
  <1>7. client[p] = IdleClient /\ c # IdleClient
    BY <1>1, <1>5 DEF Sending, IdleClient
  <1>8. client' = [q \in Promoter |-> client'[q]] /\ \A q \in Promoter : client'[q] = IF q = p THEN c ELSE client[q]
    BY <1>1, <1>2
  <1>9. \A q \in Promoter : client'[q] = IdleClient \/ (client'[q] \in Sending /\ ReadStands(client'[q], releases'))
    BY <1>1, <1>4, <1>6, <1>8
  <1>10. Senders' = Senders \cup {p} /\ p \notin Senders
    BY <1>7, <1>8 DEF Senders
  <1>11. IsFiniteSet(Senders') /\ Cardinality(Senders') = Cardinality(Senders) + 1
    BY <1>1, <1>10, FS_AddElement
  <1>12. Cardinality(Senders) \in Nat
    BY <1>1, FS_CardinalityType
  <1>13. Len(releases') + Cardinality(Senders') <= now'
    BY <1>1, <1>3, <1>11, <1>12
  <1>14. \A i, j \in DOMAIN releases' : releases'[i] = releases'[j] => i = j
    BY DEF ReleaseInv
  <1> QED BY <1>1, <1>3, <1>8, <1>9, <1>11, <1>13, <1>14 DEF ReleaseInv

(* What is appended: the record of the client, unless it is there. *)
LEMMA AppendedIs ==
    ASSUME ReleaseInv, NEW c \in Sending
    PROVE  /\ Appended(c) \in Seq(ReleaseRecord)
           /\ \A i, j \in DOMAIN Appended(c) : Appended(c)[i] = Appended(c)[j] => i = j
           /\ \/ Appended(c) = releases
              \/ Appended(c) = Append(releases, Entry(c)) /\ Len(Appended(c)) = Len(releases) + 1
  <1> DEFINE e == Entry(c)
             n == Len(releases)
             more == Append(releases, e)
  <1>1. releases \in Seq(ReleaseRecord) /\ \A i, j \in DOMAIN releases : releases[i] = releases[j] => i = j
    BY DEF ReleaseInv
  <1>2. e \in ReleaseRecord
    BY DEF Entry, ReleaseRecord, Sending, ReleaseDigest
  <1> HIDE DEF e
  <1>3. CASE \E i \in DOMAIN releases : releases[i] = e
    BY <1>1, <1>3 DEF Appended, e
  <1>4. CASE \A i \in DOMAIN releases : releases[i] # e
    <2>1. Appended(c) = more
      BY <1>4 DEF Appended, e
    <2>2. n \in Nat /\ DOMAIN releases = 1..n
      BY <1>1
    <2>3. /\ more \in Seq(ReleaseRecord) /\ Len(more) = n + 1 /\ DOMAIN more = 1..(n + 1)
          /\ more[n + 1] = e /\ \A i \in 1..n : more[i] = releases[i]
      BY <1>1, <1>2
    <2>4. \A i \in 1..(n + 1) : i \in 1..n \/ i = n + 1
      BY <2>2
    <2> HIDE DEF more, n
    <2>5. \A i, j \in DOMAIN more : more[i] = more[j] => i = j
      BY <1>1, <1>4, <2>2, <2>3, <2>4
    <2> QED BY <2>1, <2>3, <2>5 DEF more, e, n
  <1> QED BY <1>3, <1>4

(* A record is sent, and arrives or does not. *)
LEMMA SendKeeps ==
    ASSUME ReleaseInv, NEW p \in Promoter, client[p].pc = "send", releases' \in {releases, Appended(client[p])},
           client' = [client EXCEPT ![p] = IdleClient], now' = now, rfaults' \in 0 .. ReleaseFaults
    PROVE  ReleaseInv'
  <1>1. /\ now \in 0 .. MaxReleases /\ releases \in Seq(ReleaseRecord)
        /\ client = [q \in Promoter |-> client[q]]
        /\ \A q \in Promoter : client[q] = IdleClient \/ (client[q] \in Sending /\ ReadStands(client[q], releases))
        /\ IsFiniteSet(Senders) /\ Len(releases) + Cardinality(Senders) <= now
        /\ \A i, j \in DOMAIN releases : releases[i] = releases[j] => i = j
    BY DEF ReleaseInv
  <1>2. client[p] \in Sending /\ client[p] # IdleClient
    BY <1>1 DEF IdleClient
  <1>3. /\ releases' \in Seq(ReleaseRecord)
        /\ \A i, j \in DOMAIN releases' : releases'[i] = releases'[j] => i = j
        /\ releases' = releases \/ Len(releases') = Len(releases) + 1
    BY <1>1, <1>2, AppendedIs
  <1>4. client' = [q \in Promoter |-> client'[q]]
        /\ \A q \in Promoter : client'[q] = IF q = p THEN IdleClient ELSE client[q]
    BY <1>1
  <1>5. ASSUME NEW d \in Sending, ReadStands(d, releases) PROVE ReadStands(d, releases')
    <2>1. Len(releases) \in Nat /\ Len(releases') \in Nat /\ d.read \in Nat
      BY <1>1, <1>3 DEF Sending
    <2>2. CASE releases' = releases
      BY <1>5, <2>2
    <2>3. CASE Len(releases') = Len(releases) + 1
      <3>1. d.read <= Len(releases') /\ d.read # Len(releases') /\ (d.kind = "rollback" => d.read >= 2)
        BY <1>5, <2>1, <2>3 DEF ReadStands
      <3> QED BY <3>1 DEF ReadStands
    <2> QED BY <1>3, <2>2, <2>3
  <1>6. \A q \in Promoter : client'[q] = IdleClient \/ (client'[q] \in Sending /\ ReadStands(client'[q], releases'))
    BY <1>1, <1>4, <1>5
  <1>7. Senders' = Senders \ {p} /\ p \in Senders
    BY <1>2, <1>4 DEF Senders
  <1>8. IsFiniteSet(Senders') /\ Cardinality(Senders') = Cardinality(Senders) - 1
    BY <1>1, <1>7, FS_RemoveElement
  <1>9. Cardinality(Senders) \in Nat /\ Len(releases) \in Nat
    BY <1>1, FS_CardinalityType
  <1>10. Len(releases') + Cardinality(Senders') <= now'
    BY <1>1, <1>3, <1>8, <1>9
  <1> QED BY <1>1, <1>3, <1>4, <1>6, <1>8, <1>10 DEF ReleaseInv

(* Every step keeps what is inductive about the releases. *)
LEMMA ReleaseStepKeeps == ASSUME ReleaseInv, [ReleaseNext]_releaseVars PROVE ReleaseInv'
  <1>1. /\ releases \in Seq(ReleaseRecord) /\ rfaults \in 0 .. ReleaseFaults
        /\ \A p \in Promoter : client[p] = IdleClient \/ client[p] \in Sending
    BY DEF ReleaseInv
  <1>2. ASSUME NEW p \in Promoter, NEW s \in AgentSpec, Promote(p, s) PROVE ReleaseInv'
    <2>1. s.digest \in ReleaseDigest /\ "promote" \in {"promote", "rollback"} /\ "promote" # "rollback"
      BY DEF ReleaseDigest
    <2> QED BY <1>2, <2>1, StampKeeps DEF Promote
  <1>3. ASSUME NEW p \in Promoter, Rollback(p) PROVE ReleaseInv'
    <2> DEFINE d == RollbackTarget(ReleaseHistory).digest
    <2>1. /\ client[p].pc = "idle" /\ now < MaxReleases /\ Len(ReleaseHistory) >= 2
          /\ Stamp(p, d, "rollback") /\ now' = now + 1 /\ releases' = releases /\ rfaults' = rfaults
      BY <1>3 DEF Rollback
    <2>2. Len(releases) >= 2 /\ d \in ReleaseDigest
      BY <1>1, <2>1, HistoryOfReleases DEF RollbackTarget
    <2>3. InStampOrder => d = releases[Len(releases) - 1].digest
      BY <1>1, <2>2, HistoryNewestFirst DEF RollbackTarget
    <2> HIDE DEF d
    <2> QED BY <2>1, <2>2, <2>3, StampKeeps
  <1>4. ASSUME NEW p \in Promoter, SendRelease(p) PROVE ReleaseInv'
    <2>1. /\ client[p].pc = "send" /\ releases' \in {releases, Appended(client[p])}
          /\ client' = [client EXCEPT ![p] = IdleClient] /\ now' = now /\ rfaults' \in 0 .. ReleaseFaults
      BY <1>1, <1>4 DEF SendRelease
    <2> QED BY <2>1, SendKeeps
  <1>5. ASSUME NEW p \in Promoter, SendReleaseLost(p) PROVE ReleaseInv'
    <2>1. /\ client[p].pc = "send" /\ releases' \in {releases, Appended(client[p])}
          /\ client' = [client EXCEPT ![p] = IdleClient] /\ now' = now
          /\ rfaults < ReleaseFaults /\ rfaults' = rfaults + 1
      BY <1>5 DEF SendReleaseLost
    <2>2. rfaults' \in 0 .. ReleaseFaults
      BY <1>1, <2>1, ReleaseAssumption
    <2> QED BY <2>1, <2>2, SendKeeps
  <1>6. CASE UNCHANGED releaseVars
    <2>1. now' = now /\ rfaults' = rfaults /\ releases' = releases /\ client' = client
      BY <1>6 DEF releaseVars
    <2>2. Senders' = Senders
      BY <2>1 DEF Senders
    <2> QED BY <2>1, <2>2 DEF ReleaseInv
  <1> QED BY <1>2, <1>3, <1>4, <1>5, <1>6 DEF ReleaseNext

(* A rollback that arrives makes current what was current before the last  *)
(* release it read.                                                        *)
LEMMA RollbackArrives ==
    ASSUME ReleaseInv, [ReleaseNext]_releaseVars, NEW p \in Promoter,
           client[p].pc = "send", client[p].kind = "rollback", client'[p] = IdleClient,
           client[p].read = Len(releases), Len(releases') > Len(releases), InStampOrder'
    PROVE  ReleaseHistory'[1].digest = releases[Len(releases) - 1].digest
  <1> DEFINE c == client[p]
             n == Len(releases)
  <1>1. /\ releases \in Seq(ReleaseRecord) /\ releases' \in Seq(ReleaseRecord)
        /\ client = [q \in Promoter |-> client[q]]
        /\ \A q \in Promoter : client[q] = IdleClient \/ (client[q] \in Sending /\ ReadStands(client[q], releases))
    BY ReleaseStepKeeps DEF ReleaseInv
  <1>2. c \in Sending /\ ReadStands(c, releases) /\ c # IdleClient
    BY <1>1 DEF IdleClient
  <1>3. n \in Nat /\ Len(releases') \in Nat /\ releases' # releases
    BY <1>1
  <1>4. PICK q \in Promoter : client[q].pc = "send" /\ releases' = Appended(client[q])
                              /\ client' = [client EXCEPT ![q] = IdleClient]
    BY <1>3 DEF ReleaseNext, releaseVars, Promote, Rollback, SendRelease, SendReleaseLost
  <1>5. q = p
    <2> SUFFICES ASSUME q # p PROVE FALSE
      OBVIOUS
    <2>1. client'[p] = client[p]
      BY <1>1, <1>4
    <2> QED BY <1>2, <2>1
  <1>6. releases' = Append(releases, Entry(c)) /\ Len(releases') = n + 1
    BY <1>2, <1>3, <1>4, <1>5, AppendedIs
  <1>7. releases'[n + 1] = Entry(c) /\ \A i \in 1..n : releases'[i] = releases[i]
    BY <1>1, <1>6
  <1>8. Stamped(releases)
    <2>1. DOMAIN releases = 1..n /\ DOMAIN releases' = 1..(n + 1) /\ 1..n \subseteq 1..(n + 1)
      BY <1>1, <1>6
    <2> QED BY <1>7, <2>1 DEF InStampOrder, Stamped
  <1>9. c.digest = releases[n - 1].digest
    BY <1>2, <1>8 DEF ReadStands
  <1>10. ReleaseHistory'[1] = releases'[n + 1]
    <2>1. (CurrentIsLast)'
      BY CurrentAlways, PTL
    <2> QED BY <1>1, <1>3, <1>6, <2>1 DEF CurrentIsLast
  <1>11. Entry(c).digest = c.digest
    BY DEF Entry
  <1> QED BY <1>7, <1>9, <1>10, <1>11

(* With any number of promoters, any clocks and lost answers: a rollback    *)
(* whose reading of the history still stands when its record arrives makes  *)
(* current the release that was current before the last change, and the     *)
(* history never holds a record twice.                                      *)
THEOREM RollbackIsExact == ReleaseSpec => []ReleaseTypeOK /\ RollbackUndoesLast
  <1>1. ReleaseInit => ReleaseInv
    <2> SUFFICES ASSUME ReleaseInit PROVE ReleaseInv
      OBVIOUS
    <2>1. releases = <<>> /\ now = 0 /\ client = [p \in Promoter |-> IdleClient] /\ rfaults = 0
      BY DEF ReleaseInit
    <2>2. Senders = {}
      BY <2>1 DEF Senders
    <2>3. IsFiniteSet(Senders) /\ Cardinality(Senders) = 0
      BY <2>2, FS_EmptySet
    <2> QED BY <2>1, <2>3, ReleaseAssumption DEF ReleaseInv
  <1>2. ReleaseInv /\ [ReleaseNext]_releaseVars => ReleaseInv'
    BY ReleaseStepKeeps
  <1>3. ReleaseInv => ReleaseTypeOK
    <2> SUFFICES ASSUME ReleaseInv PROVE ReleaseTypeOK
      OBVIOUS
    <2>1. Cardinality(Senders) \in Nat /\ Len(releases) \in Nat /\ Len(releases) + Cardinality(Senders) <= now
          /\ now \in 0 .. MaxReleases
      BY FS_CardinalityType DEF ReleaseInv
    <2>2. Len(releases) <= now
      BY <2>1, ReleaseAssumption
    <2> QED BY <2>2 DEF ReleaseInv, ReleaseTypeOK
  <1>4. ReleaseInv /\ [ReleaseNext]_releaseVars =>
           [\A p \in Promoter :
              /\ client[p].pc = "send" /\ client[p].kind = "rollback" /\ client'[p] = IdleClient
              /\ client[p].read = Len(releases) /\ Len(releases') > Len(releases)
              /\ InStampOrder'
              => ReleaseHistory'[1].digest = releases[Len(releases) - 1].digest]_releaseVars
    BY RollbackArrives
  <1> QED BY <1>1, <1>2, <1>3, <1>4, PTL DEF ReleaseSpec, RollbackUndoesLast
=============================================================================
