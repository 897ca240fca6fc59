------------------------------ MODULE WorkTree ------------------------------
(***************************************************************************)
(* The working trees at the two ends of the forge: `aivcs push` walks one  *)
(* and uploads its files, `aivcs pull` and `aivcs clone` materialize a     *)
(* commit in the other.  Users edit both meanwhile.  A content stands for  *)
(* its bytes and for their SHA-256.  The requests of a push after its      *)
(* uploads are one step here: ForgePublish has them one by one.            *)
(***************************************************************************)
EXTENDS Naturals, FiniteSets, FiniteSetsExt

CONSTANTS FilePath,      (* paths, numbers in the order of their names *)
          Ignored,       (* paths that .aivcsignore matches *)
          Unsafe,        (* paths that ensure_safe_repo_path refuses *)
          FileContent,
          ForeignCommit, (* manifests other clients published, by commit id *)
          MaxPushes, MaxPulls, MaxFileEdits  (* bounds *)

(* ManifestEntry; a manifest has at most one entry for a path. *)
ManifestEntry == [digest : FileContent, exec : BOOLEAN]

TreeManifest == UNION {[S -> ManifestEntry] : S \in SUBSET FilePath}

(* A pattern of .aivcsignore matches the path; ensure_safe_repo_path. *)
Ignores(p) == p \in Ignored

EnsureSafeRepoPath(p) == p \notin Unsafe

ASSUME WorkTreeAssumption ==
    /\ \A c \in DOMAIN ForeignCommit : ForeignCommit[c] \in TreeManifest
    /\ FilePath \subseteq Nat /\ MaxPushes \in Nat /\ MaxPulls \in Nat /\ MaxFileEdits \in Nat
    /\ DOMAIN ForeignCommit \subseteq Nat

VARIABLES here, there,   (* path -> [content, exec] *)
          blobStore,     (* the contents in the CAS *)
          manifests,     (* commit id -> path -> [digest, exec] *)
          headCommit,
          push, pull,    (* the two commands *)
          treeCounts     (* pushes, pulls and edits so far *)

treeVars == <<here, there, blobStore, manifests, headCommit, push, pull, treeCounts>>

NoSuchFile == [content |-> "missing", exec |-> FALSE]
HalfWritten == "torn"

(* The function f with the value v at k, which may be new to it. *)
With(f, k, v) == [q \in DOMAIN f \cup {k} |-> IF q = k THEN v ELSE f[q]]

TreeDigests(manifest) == {manifest[p].digest : p \in DOMAIN manifest}

IdlePush == [pc |-> "idle", todo |-> {}, manifest |-> <<>>, parent |-> 0, uploads |-> {}]

IdlePull == [pc |-> "idle", tries |-> 0, manifest |-> <<>>, todo |-> {}, need |-> {},
             writing |-> {}, written |-> {}, edited |-> {}]

(* Commit 0 is the empty root that create_repo stores. *)
TreeInit ==
    /\ \E saved \in [FilePath \ Unsafe -> FileContent] :
          here = [p \in FilePath |-> IF p \in Unsafe THEN NoSuchFile
                                     ELSE [content |-> saved[p], exec |-> TRUE]]
    /\ there = [p \in FilePath |-> NoSuchFile]
    /\ manifests = [c \in {0} \cup DOMAIN ForeignCommit |-> IF c = 0 THEN <<>> ELSE ForeignCommit[c]]
    /\ blobStore = UNION {TreeDigests(ForeignCommit[c]) : c \in DOMAIN ForeignCommit}
    /\ headCommit = 0
    /\ push = IdlePush /\ pull = IdlePull
    /\ treeCounts = [pushes |-> 0, pulls |-> 0, edits |-> 0]

Counted(c) == treeCounts' = [treeCounts EXCEPT ![c] = @ + 1]

(* A user saves a file in one of the trees, or removes it there.           *)
EditHere(p, c) ==
    /\ treeCounts.edits < MaxFileEdits /\ Counted("edits")
    /\ here' = [here EXCEPT ![p].content = c]
    /\ UNCHANGED <<there, blobStore, manifests, headCommit, push, pull>>

EditThere(p, c) ==
    /\ treeCounts.edits < MaxFileEdits /\ Counted("edits")
    /\ there' = [there EXCEPT ![p].content = c]
    /\ pull' = [pull EXCEPT !.edited = @ \cup {p}]
    /\ UNCHANGED <<here, blobStore, manifests, headCommit, push>>

-----------------------------------------------------------------------------
PushOnly == UNCHANGED <<here, there, pull>>

PushFails == push' = IdlePush /\ UNCHANGED <<blobStore, manifests, headCommit, treeCounts>>

StartPush ==
    /\ push.pc = "idle" /\ treeCounts.pushes < MaxPushes /\ Counted("pushes")
    /\ push' = [IdlePush EXCEPT !.pc = "walk", !.todo = {p \in FilePath : ~Ignores(p)}]
    /\ UNCHANGED <<blobStore, manifests, headCommit>> /\ PushOnly

(* walk_manifest reads and hashes one file after the other, in the order   *)
(* of the directory.                                                       *)
WalkFile(p) ==
    /\ push.pc = "walk" /\ p \in push.todo
    /\ push' = [push EXCEPT !.todo = @ \ {p},
                   !.manifest = IF here[p].content = NoSuchFile.content THEN @
                                ELSE With(@, p, [digest |-> here[p].content, exec |-> here[p].exec])]
    /\ UNCHANGED <<blobStore, manifests, headCommit, treeCounts>> /\ PushOnly

(* An empty tree is refused.  The branch is resolved; the digests of its   *)
(* commit need no upload, when its manifest could be read.                 *)
EndWalk ==
    /\ push.pc = "walk" /\ push.todo = {}
    /\ IF push.manifest = <<>> THEN PushFails
       ELSE /\ \E known \in {{}, TreeDigests(manifests[headCommit])} :
                  push' = [push EXCEPT !.pc = "upload", !.parent = headCommit,
                              !.uploads = TreeDigests(push.manifest) \ known]
            /\ UNCHANGED <<blobStore, manifests, headCommit, treeCounts>>
    /\ PushOnly

(* An upload reads the file again, the first one with the digest; the      *)
(* forge stores what it is sent under its own digest.                      *)
UploadBlob(d) ==
    LET file == Min({p \in DOMAIN push.manifest : push.manifest[p].digest = d})
    IN  /\ push.pc = "upload" /\ d \in push.uploads
        /\ \/ PushFails
           \/ /\ here[file].content # NoSuchFile.content
              /\ blobStore' = blobStore \cup {here[file].content}
              /\ push' = [push EXCEPT !.uploads = @ \ {d}]
              /\ UNCHANGED <<manifests, headCommit, treeCounts>>
        /\ PushOnly

(* The forge refuses a commit with a blob it does not have, other than     *)
(* those of the parent's tree.  A plausible bug trusts the uploads.        *)
ForgeAcceptsTrusting == TRUE

ForgeAccepts == TreeDigests(push.manifest) \ TreeDigests(manifests[push.parent]) \subseteq blobStore

CommitPush ==
    /\ push.pc = "upload" /\ push.uploads = {}
    /\ IF ForgeAccepts
       THEN /\ manifests' = With(manifests, Cardinality(DOMAIN manifests), push.manifest)
            /\ headCommit' = Cardinality(DOMAIN manifests)
            /\ push' = IdlePush
            /\ UNCHANGED <<blobStore, treeCounts>>
       ELSE PushFails
    /\ PushOnly

-----------------------------------------------------------------------------
PullOnly == UNCHANGED <<here, blobStore, manifests, headCommit, push>>

PullEnds(pc) == pull' = [pull EXCEPT !.pc = pc] /\ UNCHANGED <<there, treeCounts>>

(* What fetch and clone accept: a branch, with the slug or apart from it,  *)
(* or the id of a commit.                                                  *)
CloneTarget == DOMAIN manifests

StartPull(c) ==
    /\ pull.pc \in {"idle", "ok"} /\ treeCounts.pulls < MaxPulls /\ Counted("pulls")
    /\ pull' = [IdlePull EXCEPT !.pc = "load", !.tries = 1, !.manifest = manifests[c],
                   !.todo = DOMAIN manifests[c]]
    /\ UNCHANGED there /\ PullOnly

(* load_manifest: the manifest route, the commit route when that fails or  *)
(* is empty, the manifest route again when the commit has none; an empty   *)
(* manifest is refused in the end.                                         *)
LoadManifest ==
    /\ pull.pc = "load"
    /\ \/ pull.manifest # <<>> /\ PullEnds("compare")
       \/ pull.tries = 1 /\ pull' = [pull EXCEPT !.tries = 2] /\ UNCHANGED <<there, treeCounts>>
       \/ pull.tries = 2 /\ PullEnds("idle")
    /\ PullOnly

(* file_matches_digest.  A plausible bug takes a file that is there for    *)
(* the file that belongs there.                                            *)
MatchesPresent(p) == there[p].content # NoSuchFile.content

Matches(p) == there[p].content = pull.manifest[p].digest

(* A file that has its content already is left alone.  A path that would   *)
(* leave the directory ends the command, before anything was written.      *)
CompareFile(p) ==
    /\ pull.pc = "compare" /\ p \in pull.todo
    /\ IF ~EnsureSafeRepoPath(p) THEN PullEnds("idle")
       ELSE /\ pull' = [pull EXCEPT !.todo = @ \ {p},
                           !.need = IF Matches(p) THEN @ ELSE @ \cup {p},
                           !.edited = @ \ {p}]
            /\ UNCHANGED <<there, treeCounts>>
    /\ PullOnly

(* The next download to end: its retries were of use, or one failure ends  *)
(* the command and drops the other downloads.                              *)
DownloadBlob(d) ==
    LET paths == {p \in pull.need : pull.manifest[p].digest = d}
    IN  /\ pull.pc = "compare" /\ pull.todo = {} /\ pull.writing = {} /\ paths # {}
        /\ \/ /\ d \in blobStore
              /\ pull' = [pull EXCEPT !.writing = paths]
              /\ UNCHANGED <<there, treeCounts>>
           \/ PullEnds("idle")
        /\ PullOnly

(* fs::write keeps the mode of a file that is there; the mode of an        *)
(* executable is set afterwards.                                           *)
WriteFile(p) ==
    /\ pull.pc = "compare" /\ p \in pull.writing
    /\ there' = [there EXCEPT ![p].content = pull.manifest[p].digest]
    /\ pull' = [pull EXCEPT !.pc = "chmod", !.writing = @ \ {p}, !.need = @ \ {p},
                   !.written = @ \cup {p}, !.edited = @ \ {p}]
    /\ UNCHANGED treeCounts /\ PullOnly

SetMode ==
    /\ pull.pc = "chmod"
    /\ there' = [p \in FilePath |-> IF p \in pull.written /\ pull.manifest[p].exec
                                    THEN [there[p] EXCEPT !.exec = TRUE] ELSE there[p]]
    /\ pull' = [pull EXCEPT !.pc = "compare"]
    /\ UNCHANGED treeCounts /\ PullOnly

EndPull ==
    /\ pull.pc = "compare" /\ pull.todo = {} /\ pull.need = {}
    /\ PullEnds("ok") /\ PullOnly

(* The command is killed; a file it was writing keeps what had arrived.    *)
KillPull ==
    /\ pull.pc \notin {"idle", "ok"}
    /\ there' \in {there} \cup {[there EXCEPT ![p].content = HalfWritten] : p \in pull.writing}
    /\ pull' = IdlePull
    /\ UNCHANGED treeCounts /\ PullOnly

(* The commands push, and fetch and clone. *)
PushCommand ==
    \/ StartPush \/ EndWalk \/ CommitPush
    \/ \E p \in FilePath : WalkFile(p)
    \/ \E d \in FileContent : UploadBlob(d)

FetchCommand ==
    \/ LoadManifest \/ SetMode \/ EndPull \/ KillPull
    \/ \E c \in CloneTarget : StartPull(c)
    \/ \E p \in FilePath : CompareFile(p) \/ WriteFile(p)
    \/ \E d \in FileContent : DownloadBlob(d)

TreeNext ==
    \/ PushCommand \/ FetchCommand
    \/ \E p \in FilePath \ Unsafe, c \in FileContent \cup {NoSuchFile.content} :
          EditHere(p, c) \/ EditThere(p, c)

TreeSpec == TreeInit /\ [][TreeNext]_treeVars

-----------------------------------------------------------------------------
TreeTypeOK ==
    /\ \A tree \in {here, there} :
          tree \in [FilePath -> [content : FileContent \cup {NoSuchFile.content, HalfWritten},
                                exec : BOOLEAN]]
    /\ \A c \in DOMAIN manifests : manifests[c] \in TreeManifest
    /\ headCommit \in DOMAIN manifests
    /\ push.pc \in {"idle", "walk", "upload"} /\ push.todo \subseteq FilePath
    /\ push.manifest \in TreeManifest /\ push.uploads \subseteq TreeDigests(push.manifest)
    /\ pull.pc \in {"idle", "load", "compare", "chmod", "ok"} /\ pull.manifest \in TreeManifest
    /\ UNION {pull.todo, pull.need, pull.writing, pull.written} \subseteq DOMAIN pull.manifest

(* A pull that reports success has put the commit in place: every file of  *)
(* its manifest has the content that was walked, whatever killed pulls and *)
(* users had left there, except for files edited after the pull looked at  *)
(* or wrote them; a file this pull wrote is executable where it should be. *)
PulledWhole ==
    pull.pc = "ok" =>
        \A p \in DOMAIN pull.manifest \ pull.edited :
            /\ there[p].content = pull.manifest[p].digest
            /\ p \in pull.written /\ pull.manifest[p].exec => there[p].exec

(* Whatever is edited between the walk and the uploads, every commit the   *)
(* forge accepted can be pulled.                                           *)
CommitsPullable == \A c \in DOMAIN manifests : TreeDigests(manifests[c]) \subseteq blobStore

(* Between two working trees nothing is lost: a commit that a push         *)
(* recorded can be pulled, and a pull that succeeds reproduces it.         *)
WorkTreeSound == PulledWhole /\ CommitsPullable

=============================================================================
