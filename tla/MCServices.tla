----------------------------- MODULE MCServices -----------------------------
(***************************************************************************)
(* Instances for TLC of the registry, the gateway, the login and the       *)
(* release tool, which share no state with one another.                    *)
(***************************************************************************)
EXTENDS CargoRegistry, McpGateway, ForgeLogin, ReleasePipeline, TLC

CONSTANTS v1, v2, v3, a1, a2, b1, s1, s2

(* The registry: artifacts a1 and a2 hold a manifest, b1 does not.         *)
DepOn(r, alias) ==
    [name |-> "serde", alias |-> alias, req |-> "bare", defaults |-> TRUE,
     kind |-> "normal", registry |-> r]

MCManifest ==
    [a \in Artifact |-> CASE a = a1 -> DepOn("none", "none")
                          [] a = a2 -> DepOn("own", "ser")
                          [] OTHER -> NoManifest]

Basic == [scheme |-> "basic", login |-> "token", password |-> Token]

RegistryCall(route, v, a) ==
    [route |-> route, vers |-> v, artifact |-> a, dep |-> DepOn("own", "ser"),
     https |-> TRUE, auth |-> Basic, wellformed |-> TRUE]

MCRegistryRequest ==
    {RegistryCall("publish", v2, a2), RegistryCall("publish", v3, b1)}
      \cup {RegistryCall(r, v2, a2) : r \in {"index", "download", "config"}}
      \cup {[RegistryCall("publish", v2, a2) EXCEPT !.wellformed = FALSE],
            [RegistryCall("publish", v2, a2) EXCEPT !.https = FALSE],
            [RegistryCall("publish", v2, a2) EXCEPT !.auth.password = Wrong]}

(* v1 was published through the worker and yanked: its record has no       *)
(* checksum.                                                               *)
MCLegacyCrates == [v \in Version |-> IF v = v1 THEN a1 ELSE NoArtifact]

MCLegacyIndex == <<Line(v1, NoArtifact, IndexDep(DepOn("none", "none")), TRUE)>>

(* The gateway: one agent's token, with a write and two deletes.           *)
MCClaims == [run |-> "r", scopes |-> {"repo.merge.execute", "memory.write", "memory.delete"},
             max |-> "write", jti |-> "j", session |-> "s"]

ToolCall(t, a) ==
    [tool |-> t, args |-> a, parses |-> TRUE, headers |-> TRUE, signed |-> TRUE,
     claims |-> MCClaims]

MCGatewayCall == {ToolCall("memory::write", "m"), ToolCall("memory::delete", "m"),
                  ToolCall("memory::delete", "n")}

(* The login: by device code with an https url, by tailscale with a token  *)
(* in the environment, in a cluster, by browser, and with a plain url.     *)
Invocation(u, dev, inc, ts, disp, force, token) ==
    [url |-> u, issuer |-> "unset", device |-> dev, inCluster |-> inc, tailscale |-> ts,
     display |-> disp, forcePkce |-> force, envToken |-> token, envUrl |-> "unset",
     envIssuer |-> "unset", envOrg |-> "unset"]

MCLoginInput ==
    {Invocation("https", TRUE, FALSE, FALSE, FALSE, FALSE, "unset"),
     Invocation("unset", FALSE, FALSE, TRUE, FALSE, FALSE, "env"),
     Invocation("unset", FALSE, TRUE, FALSE, FALSE, FALSE, "unset"),
     Invocation("unset", FALSE, FALSE, FALSE, TRUE, TRUE, "env"),
     Invocation("plain", FALSE, FALSE, FALSE, FALSE, FALSE, "env")}

(* The release tool: verification only, everything, without the Linux      *)
(* build, and with little but the build of the host; a tree at the version *)
(* to release, one at another, and one nobody prepared.                    *)
Options(verify, noLinux, noGithub) ==
    [verifyOnly |-> verify, skipLinux |-> noLinux, skipGithub |-> noGithub,
     skipHomebrew |-> FALSE, tap |-> TRUE, images |-> TRUE, forge |-> TRUE,
     brewTest |-> ~noLinux]

MCReleaseOption ==
    {Options(TRUE, FALSE, FALSE), Options(FALSE, FALSE, FALSE), Options(FALSE, TRUE, FALSE),
     [Options(FALSE, TRUE, TRUE) EXCEPT !.tap = FALSE, !.forge = FALSE]}

TreeAt(v, s, c) == [version |-> v, section |-> s, pins |-> TRUE, clean |-> c]

MCTree == {TreeAt("v1", "written", TRUE), TreeAt("v2", "written", TRUE),
           TreeAt("v1", "empty", FALSE)}

=============================================================================
