-------------------------- MODULE ReleasePipeline ---------------------------
(***************************************************************************)
(* aivcs-release-public: the ten gates of a public release of the command  *)
(* line tool, from the version lockstep to the publication on the forge.   *)
(* Every external command may fail and end the run; the release is then    *)
(* run again over what the earlier run left.  Meanwhile the working tree   *)
(* may change.                                                             *)
(***************************************************************************)
EXTENDS Naturals

CONSTANTS Target,          (* the version to release *)
          Tree,            (* states of the working tree: [version, section, pins, clean] *)
          ReleaseOption,   (* a subset of ReleaseOptions *)
          MaxReleaseRuns,     (* bound on runs of the pipeline *)
          MaxEdits         (* bound on changes of the tree *)

(* The flags of the command line; tap: a checkout of the tap is given.     *)
ReleaseOptions ==
    [verifyOnly : BOOLEAN, skipLinux : BOOLEAN, skipGithub : BOOLEAN, skipHomebrew : BOOLEAN,
     tap : BOOLEAN, images : BOOLEAN, forge : BOOLEAN, brewTest : BOOLEAN]

ASSUME ReleasePipelineAssumption ==
    /\ MaxReleaseRuns \in Nat /\ MaxEdits \in Nat
    /\ ReleaseOption \subseteq ReleaseOptions

ReleaseArtifact == {"darwin-arm64", "linux-arm64", "linux-x86_64"}   (* ARTIFACTS *)
NoBinary == [build |-> 0]
NoDigests == [a \in ReleaseArtifact |-> 0]

VARIABLES tree,      (* the repository's working tree *)
          pipe,      (* the running release: its options and its gate *)
          dist,      (* the binaries in the build directory *)
          sums,      (* SHA256SUMS in the build directory; a digest is the number of the build *)
          github,    (* the release on GitHub *)
          tap,       (* the Homebrew tap: the file, the last commit, what was pushed *)
          shipped, (* whether images, the in-repository formula and the forge are up to date *)
          releaseRuns, edits

pipelineVars == <<tree, pipe, dist, sums, github, tap, shipped, releaseRuns, edits>>

PipelineInit ==
    /\ tree \in Tree
    /\ pipe = [gate |-> "idle"]
    /\ dist = [a \in ReleaseArtifact |-> NoBinary]
    /\ sums = NoDigests
    /\ github = [exists |-> FALSE, notes |-> FALSE, sums |-> NoDigests,
                 assets |-> [a \in ReleaseArtifact |-> NoBinary]]
    /\ tap = [file |-> NoDigests, commit |-> NoDigests, pushed |-> NoDigests]
    /\ shipped = {}
    /\ releaseRuns = 0 /\ edits = 0

Opts == pipe.opts

Names == IF Opts.skipLinux THEN {"darwin-arm64"} ELSE ReleaseArtifact

MovesTo(g) == pipe' = [pipe EXCEPT !.gate = g]

Bail == MovesTo("failed")

(* run_checked: the command succeeds and the effect happens, or the run    *)
(* ends.                                                                   *)
AtGate(g) == pipe.gate = g

-----------------------------------------------------------------------------
EditTree(t) ==
    /\ edits < MaxEdits /\ t # tree
    /\ tree' = t /\ edits' = edits + 1
    /\ UNCHANGED <<pipe, dist, sums, github, tap, shipped, releaseRuns>>

StartRelease(o) ==
    /\ pipe.gate \in {"idle", "failed", "verified", "success"} /\ releaseRuns < MaxReleaseRuns
    /\ releaseRuns' = releaseRuns + 1
    /\ pipe' = [gate |-> "lockstep", opts |-> o]
    /\ UNCHANGED <<tree, dist, sums, github, tap, shipped, edits>>

(* verify_semver_lockstep: Cargo.toml, the changelog's heading and the     *)
(* pins of the docs.                                                       *)
SemverLockstep == tree.version = Target /\ tree.section # "missing" /\ tree.pins

Lockstep ==
    /\ AtGate("lockstep")
    /\ CASE ~SemverLockstep -> Bail
         [] SemverLockstep /\ Opts.verifyOnly -> MovesTo("verified")
         [] OTHER -> MovesTo("host")
    /\ UNCHANGED <<tree, dist, sums, github, tap, shipped, releaseRuns, edits>>

(* A build takes the tree as it is then; no two builds are the same bytes. *)
Built == [build |-> releaseRuns, reports |-> tree.version, clean |-> tree.clean]

HostBuild ==
    /\ AtGate("host")
    /\ \/ Bail /\ UNCHANGED dist
       \/ /\ dist' = [dist EXCEPT !["darwin-arm64"] = Built]
          /\ MovesTo(IF Opts.skipLinux THEN "versions" ELSE "linux-arm64")
    /\ UNCHANGED <<tree, sums, github, tap, shipped, releaseRuns, edits>>

DockerLinuxBuild(a, next) ==
    /\ AtGate(a)
    /\ \/ Bail /\ UNCHANGED dist
       \/ dist' = [dist EXCEPT ![a] = Built] /\ MovesTo(next)
    /\ UNCHANGED <<tree, sums, github, tap, shipped, releaseRuns, edits>>

(* A plausible bug: only the binary of the host is asked for its version.  *)
AssertHostVersion ==
    /\ AtGate("versions")
    /\ IF dist["darwin-arm64"].reports = Target THEN MovesTo("audit") ELSE Bail
    /\ UNCHANGED <<tree, dist, sums, github, tap, shipped, releaseRuns, edits>>

AssertVersions ==
    /\ AtGate("versions")
    /\ IF \A a \in Names : dist[a].reports = Target THEN MovesTo("audit") ELSE Bail
    /\ UNCHANGED <<tree, dist, sums, github, tap, shipped, releaseRuns, edits>>

(* audit_binary_file: no forbidden deployment string in the bytes.         *)
AuditBinary(a) == dist[a].clean

AuditBinaries ==
    /\ AtGate("audit")
    /\ IF \A a \in Names : AuditBinary(a) THEN MovesTo("sums") ELSE Bail
    /\ UNCHANGED <<tree, dist, sums, github, tap, shipped, releaseRuns, edits>>

(* The digests of the binaries of this run.                                *)
Sha256Sums == [a \in ReleaseArtifact |-> IF a \in Names THEN dist[a].build ELSE 0]

(* extract_section: the changelog has the heading of the version, and its  *)
(* body is not empty.                                                      *)
ExtractSection == tree.section = "written"

(* write_sha256sums, then extract_section of the changelog.                *)
WriteSha256Sums ==
    /\ AtGate("sums")
    /\ sums' = Sha256Sums
    /\ IF ~ExtractSection THEN Bail
       ELSE MovesTo(IF Opts.skipGithub THEN "homebrew" ELSE "github")
    /\ UNCHANGED <<tree, dist, github, tap, shipped, releaseRuns, edits>>

-----------------------------------------------------------------------------
(* publish_github_release.  `gh release view` that fails counts as no      *)
(* release.                                                                *)
GithubView ==
    /\ AtGate("github")
    /\ \/ github.exists /\ MovesTo("upload")
       \/ MovesTo("create")
    /\ UNCHANGED <<tree, dist, sums, github, tap, shipped, releaseRuns, edits>>

(* The release holds the assets of Names after an upload that reached      *)
(* those in done and, if summed, SHA256SUMS.                               *)
Uploaded(done, summed) ==
    [github EXCEPT !.exists = TRUE,
                   !.assets = [a \in ReleaseArtifact |-> IF a \in done THEN dist[a] ELSE @[a]],
                   !.sums = IF summed THEN sums ELSE @]

(* A create that fails may leave a release without its assets.             *)
GithubCreate ==
    /\ AtGate("create")
    /\ \/ Bail /\ github' \in {github, [github EXCEPT !.exists = TRUE]}
       \/ /\ ~github.exists
          /\ github' = [Uploaded(Names, TRUE) EXCEPT !.notes = TRUE]
          /\ MovesTo("homebrew")
    /\ UNCHANGED <<tree, dist, sums, tap, shipped, releaseRuns, edits>>

(* gh release upload --clobber replaces the assets one after the other.    *)
GithubUpload ==
    /\ AtGate("upload")
    /\ \/ Bail /\ \E done \in SUBSET Names : github' = Uploaded(done, done = Names)
       \/ Bail /\ \E done \in SUBSET Names : github' = Uploaded(done, FALSE)
       \/ github' = Uploaded(Names, TRUE) /\ MovesTo("notes")
    /\ UNCHANGED <<tree, dist, sums, tap, shipped, releaseRuns, edits>>

GithubEditNotes ==
    /\ AtGate("notes")
    /\ \/ Bail /\ UNCHANGED github
       \/ github' = [github EXCEPT !.notes = TRUE] /\ MovesTo("homebrew")
    /\ UNCHANGED <<tree, dist, sums, tap, shipped, releaseRuns, edits>>

-----------------------------------------------------------------------------
(* update_homebrew.  A digest that was not computed is written as SKIP,    *)
(* here 0.  The commit and the push are left out when the formula is the   *)
(* committed one.                                                          *)
AfterTap == IF Opts.brewTest THEN "brew" ELSE "formula"

WriteFormula ==
    /\ AtGate("homebrew")
    /\ IF Opts.skipHomebrew \/ ~Opts.tap
       THEN MovesTo("formula") /\ UNCHANGED tap
       ELSE /\ tap' = [tap EXCEPT !.file = sums]
            /\ \/ Bail
               \/ MovesTo(IF sums # tap.commit THEN "commit" ELSE AfterTap)
    /\ UNCHANGED <<tree, dist, sums, github, shipped, releaseRuns, edits>>

CommitFormula ==
    /\ AtGate("commit")
    /\ \/ Bail /\ UNCHANGED tap
       \/ tap' = [tap EXCEPT !.commit = tap.file] /\ MovesTo("push")
    /\ UNCHANGED <<tree, dist, sums, github, shipped, releaseRuns, edits>>

PushFormula ==
    /\ AtGate("push")
    /\ \/ Bail /\ UNCHANGED tap
       \/ tap' = [tap EXCEPT !.pushed = tap.commit] /\ MovesTo(AfterTap)
    /\ UNCHANGED <<tree, dist, sums, github, shipped, releaseRuns, edits>>

BrewTest ==
    /\ AtGate("brew")
    /\ Bail \/ MovesTo("formula")
    /\ UNCHANGED <<tree, dist, sums, github, tap, shipped, releaseRuns, edits>>

-----------------------------------------------------------------------------
(* write_in_repo_formula.                                                  *)
InRepoFormula ==
    /\ AtGate("formula")
    /\ shipped' = shipped \cup {"formula"}
    /\ MovesTo("images")
    /\ UNCHANGED <<tree, dist, sums, github, tap, releaseRuns, edits>>

DockerImages ==
    /\ AtGate("images")
    /\ IF Opts.images /\ ~Opts.skipLinux
       THEN \/ Bail /\ UNCHANGED shipped
            \/ shipped' = shipped \cup {"images"} /\ MovesTo("forge")
       ELSE MovesTo("forge") /\ UNCHANGED shipped
    /\ UNCHANGED <<tree, dist, sums, github, tap, releaseRuns, edits>>

ForgePublish ==
    /\ AtGate("forge")
    /\ \/ Opts.forge /\ Bail /\ UNCHANGED shipped
       \/ /\ shipped' = IF Opts.forge THEN shipped \cup {"forge"} ELSE shipped
          /\ MovesTo("success")
    /\ UNCHANGED <<tree, dist, sums, github, tap, releaseRuns, edits>>

PipelineNext ==
    \/ \E t \in Tree : EditTree(t)
    \/ \E o \in ReleaseOption : StartRelease(o)
    \/ Lockstep \/ HostBuild
    \/ DockerLinuxBuild("linux-arm64", "linux-x86_64")
    \/ DockerLinuxBuild("linux-x86_64", "versions")
    \/ AssertVersions \/ AuditBinaries \/ WriteSha256Sums
    \/ GithubView \/ GithubCreate \/ GithubUpload \/ GithubEditNotes
    \/ WriteFormula \/ CommitFormula \/ PushFormula \/ BrewTest
    \/ InRepoFormula \/ DockerImages \/ ForgePublish

PipelineSpec == PipelineInit /\ [][PipelineNext]_pipelineVars

-----------------------------------------------------------------------------
PipelineTypeOK ==
    /\ tree \in Tree
    /\ pipe.gate # "idle" => Opts \in ReleaseOption
    /\ shipped \subseteq {"formula", "images", "forge"}
    /\ \A a \in ReleaseArtifact :
         /\ {sums[a], github.sums[a], tap.file[a], tap.commit[a], tap.pushed[a], dist[a].build}
              \subseteq 0 .. releaseRuns
         /\ github.assets[a] # NoBinary => github.assets[a].build <= dist[a].build
    /\ edits \in 0 .. MaxEdits

(* Whatever fails and however often the release is run again, what users   *)
(* download was verified: every binary on GitHub reports the released      *)
(* version and carries no deployment hostname; and once a run reports      *)
(* success, SHA256SUMS and the committed formula are those of the binaries *)
(* beside them.                                                            *)
PublishedIsVerified ==
    /\ \A a \in ReleaseArtifact :
         github.assets[a] # NoBinary => github.assets[a].reports = Target /\ github.assets[a].clean
    /\ pipe.gate = "success" =>
         /\ ~Opts.skipGithub =>
              \A a \in Names : github.assets[a] = dist[a] /\ github.sums[a] = dist[a].build
         /\ ~Opts.skipHomebrew /\ Opts.tap =>
              \A a \in Names : tap.commit[a] = dist[a].build

=============================================================================
