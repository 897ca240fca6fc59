--------------------------- MODULE CargoRegistry ---------------------------
(***************************************************************************)
(* The sparse Cargo registry: the routes of one crate over object storage, *)
(* and the maintenance command regenerate-index.  An action of a handler   *)
(* or of the repair pass is one call to the store and the code up to the   *)
(* next.  An artifact stands for its bytes and for their SHA-256.          *)
(***************************************************************************)
EXTENDS Sequences, Naturals, FiniteSets

CONSTANTS Version, Artifact, NoArtifact,
          Manifest,         (* the dependency an artifact's Cargo.toml declares *)
          NoManifest,       (* an archive without a readable Cargo.toml *)
          Token, Wrong,     (* the registry's token, and another string *)
          RegistrySlot,     (* requests in flight *)
          RegistryRequest,  (* the requests clients send *)
          LegacyCrates, LegacyIndex,  (* as the retired worker left them *)
          RegistryFaults    (* how many store calls may fail *)

Declaration ==
    [name : {"serde"}, alias : {"none", "ser"}, req : {"bare", "caret", "any"},
     defaults : BOOLEAN, kind : {"normal", "dev", "build"},
     registry : {"none", "own", "sparse+own", "own/", "other"}]

(* A dependency as the index has it: requirements are normalised, and the  *)
(* registry itself is never named.                                         *)
IndexDependency ==
    [name : {"serde", "ser"}, package : {"none", "serde"}, req : {"caret", "any"},
     defaults : BOOLEAN, kind : {"normal", "dev", "build"},
     registry : {"none", "crates.io", "other"}]

(* A line of the index file, one per published version. *)
IndexLine ==
    [vers : Version, cksum : Artifact \cup {NoArtifact}, dep : IndexDependency, yanked : BOOLEAN]

ASSUME RegistryAssumption ==
    /\ NoArtifact \notin Artifact /\ Token # Wrong /\ RegistryFaults \in Nat
    /\ Manifest \in [Artifact -> Declaration \cup {NoManifest}]
    /\ \A q \in RegistryRequest :
          q.vers \in Version /\ q.artifact \in Artifact /\ q.dep \in Declaration
    /\ LegacyCrates \in [Version -> Artifact \cup {NoArtifact}]
    /\ LegacyIndex \in Seq(IndexLine)

VARIABLES crates,   (* the bucket of artifacts, by version *)
          indexFile,  (* the index object of the crate: its lines *)
          serving,  (* handlers *)
          repair,   (* the repair pass *)
          publishAcked,  (* <<version, artifact>> whose publish was answered 200 *)
          raced,    (* versions whose publish overlapped another writer *)
          registryFaults

registryVars == <<crates, indexFile, serving, repair, publishAcked, raced, registryFaults>>

(* Dependencies.  cargo publishes a renamed dependency under its real name *)
(* with explicit_name_in_toml, and leaves out the registry of a crates.io  *)
(* dependency; an index record leaves out its own registry instead.        *)
NormalizeReq(r) == IF r = "bare" THEN "caret" ELSE r

(* `sparse+` and a trailing slash are cosmetic. *)
SameRegistry(a) == a \in {"own", "sparse+own", "own/"}

IndexDep(d) ==
    [name |-> IF d.alias # "none" THEN d.alias ELSE d.name,
     package |-> IF d.alias # "none" THEN d.name ELSE "none",
     req |-> NormalizeReq(d.req), defaults |-> d.defaults, kind |-> d.kind,
     registry |-> CASE d.registry = "none" -> "crates.io"
                    [] SameRegistry(d.registry) -> "none"
                    [] OTHER -> d.registry]

(* to_index_deps: in Cargo.toml the dependency is keyed by its alias, and  *)
(* `package` has the real name.                                            *)
ToIndexDep(t) ==
    [name |-> t.key, package |-> t.package,
     req |-> NormalizeReq(t.version), defaults |-> t.defaults, kind |-> t.section,
     registry |-> CASE t.index = "none" -> "crates.io"
                    [] SameRegistry(t.index) -> "none"
                    [] OTHER -> t.index]

(* How cargo spells one declaration in the two places (external): in the   *)
(* publish body and in the normalized manifest inside the archive.         *)
PublishDep(x) ==
    [name |-> x.name, alias |-> x.alias, defaults |-> x.defaults,
     req |-> IF x.req = "bare" THEN "caret" ELSE x.req, kind |-> x.kind, registry |-> x.registry]

ManifestDep(x) ==
    [key |-> IF x.alias # "none" THEN x.alias ELSE x.name,
     package |-> IF x.alias # "none" THEN x.name ELSE "none",
     version |-> x.req, defaults |-> x.defaults, section |-> x.kind,
     index |-> x.registry]

(* Building a line of the index. *)
Line(v, c, d, y) == [vers |-> v, cksum |-> c, dep |-> d, yanked |-> y]

IndexEntry(v, a, dep) == Line(v, a, IndexDep(dep), FALSE)

(* regenerate_entry keeps the yanked flag, which the artifact does not     *)
(* hold.  A plausible bug resets it as a new publish would.                *)
RegenerateUnyanked(v, a, yanked) == Line(v, a, ToIndexDep(ManifestDep(Manifest[a])), FALSE)

RegenerateEntry(v, a, yanked) == Line(v, a, ToIndexDep(ManifestDep(Manifest[a])), yanked)

RegistryTypeOK ==
    /\ crates \in [Version -> Artifact \cup {NoArtifact}]
    /\ indexFile \in Seq(IndexLine)
    /\ publishAcked \in SUBSET (Version \X Artifact)
    /\ raced \in SUBSET Version

IdleSlot == [pc |-> "idle", q |-> NoArtifact, existing |-> <<>>, entry |-> NoArtifact]

IdleRepair == [pc |-> "idle", apply |-> FALSE, body |-> <<>>, out |-> <<>>,
               changed |-> FALSE, failed |-> FALSE, quiet |-> TRUE]

RegistryInit ==
    /\ crates = LegacyCrates /\ indexFile = LegacyIndex
    /\ serving = [s \in RegistrySlot |-> IdleSlot]
    /\ repair = IdleRepair
    /\ publishAcked = {} /\ raced = {} /\ registryFaults = 0

-----------------------------------------------------------------------------
(* Guards, transport first: a plaintext request is redirected before its   *)
(* token is examined.                                                      *)
Authorized(auth) ==
    \/ auth.scheme = "raw" /\ auth.password = Token
    \/ auth.scheme = "bearer" /\ auth.password = Token
    \/ auth.scheme = "basic" /\ Token \in {auth.login, auth.password}

Guard(q) ==
    CASE ~ q.https -> 301
      [] q.https /\ ~ Authorized(q.auth) -> 401
      [] OTHER -> 0

(* S3Store: each call is atomic, and get and exists see the last put. *)
StoreExists(v) == crates[v] # NoArtifact

StoreGet == indexFile

StorePut(q) == crates' = [crates EXCEPT ![q.vers] = q.artifact]

(* The publishes in flight, and the writers a new one overlaps. *)
Publishing == {s \in RegistrySlot : serving[s].pc # "idle"}

Repairing == repair.pc \notin {"idle", "done"}

(* The response ends the handler; its code tells the branches apart.       *)
Respond(s, code) == code \in Nat /\ serving' = [serving EXCEPT ![s] = IdleSlot]

(* The publish body is u32-framed; one that does not parse is refused.     *)
ParsePublish(q) == q.wellformed

(* What ends a request at once: a guard, a malformed payload, or, for the  *)
(* routes that only read, the answer of their one store call.              *)
AnswerCode(q) ==
    CASE Guard(q) # 0 -> Guard(q)
      [] q.route = "publish" -> IF ParsePublish(q) THEN 0 ELSE 400
      [] q.route = "config" -> 200
      [] q.route = "download" -> IF StoreExists(q.vers) THEN 200 ELSE 404
      [] q.route = "index" -> IF StoreGet = <<>> THEN 404 ELSE 200

(* A request arrives and passes the guards, or is answered at once. *)
Arrive(s, q) ==
    /\ serving[s].pc = "idle"
    /\ IF AnswerCode(q) # 0
       THEN Respond(s, AnswerCode(q)) /\ UNCHANGED <<repair, raced>>
       ELSE /\ serving' = [serving EXCEPT ![s] =
                  [pc |-> "exists", q |-> q, existing |-> <<>>, entry |-> NoArtifact]]
            /\ raced' = raced \cup
                  (IF Publishing # {} \/ Repairing
                   THEN {q.vers} \cup {serving[o].q.vers : o \in Publishing}
                   ELSE {})
            /\ repair' = [repair EXCEPT !.quiet = FALSE]
    /\ UNCHANGED <<crates, indexFile, publishAcked, registryFaults>>

ServingOnly(s) == UNCHANGED <<crates, indexFile, repair, publishAcked, raced, registryFaults>>

(* A published version is refused; otherwise the index record is built     *)
(* from the payload before the upload.                                     *)
CrateExists(s) ==
    LET q == serving[s].q
    IN  /\ serving[s].pc = "exists"
        /\ IF StoreExists(q.vers)
           THEN Respond(s, 409)
           ELSE serving' = [serving EXCEPT ![s].pc = "put_crate",
                     ![s].entry = IndexEntry(q.vers, q.artifact, PublishDep(q.dep))]
        /\ ServingOnly(s)

PutCrate(s) ==
    /\ serving[s].pc = "put_crate"
    /\ StorePut(serving[s].q)
    /\ serving' = [serving EXCEPT ![s].pc = "get_index"]
    /\ UNCHANGED <<indexFile, repair, publishAcked, raced, registryFaults>>

GetIndex(s) ==
    /\ serving[s].pc = "get_index"
    /\ serving' = [serving EXCEPT ![s].pc = "put_index", ![s].existing = StoreGet]
    /\ ServingOnly(s)

(* The object read is written back with the new record at its end.  A      *)
(* plausible bug replaces the object by the record.                        *)
ExtendedReplacing(s) == <<serving[s].entry>>

Extended(s) == Append(serving[s].existing, serving[s].entry)

PutIndex(s) ==
    /\ serving[s].pc = "put_index"
    /\ indexFile' = Extended(s)
    /\ publishAcked' = publishAcked \cup {<<serving[s].q.vers, serving[s].q.artifact>>}
    /\ Respond(s, 200)
    /\ UNCHANGED <<crates, repair, raced, registryFaults>>

(* A store call fails, a put perhaps with its effect done: 502.  The       *)
(* client may also go away, which drops the handler at its await.          *)
StorageError(s) ==
    /\ serving[s].pc # "idle" /\ registryFaults < RegistryFaults
    /\ \/ UNCHANGED <<crates, indexFile>>
       \/ serving[s].pc = "put_crate" /\ StorePut(serving[s].q) /\ UNCHANGED indexFile
       \/ /\ serving[s].pc = "put_index"
          /\ indexFile' = Extended(s)
          /\ UNCHANGED crates
    /\ Respond(s, 502)
    /\ registryFaults' = registryFaults + 1
    /\ UNCHANGED <<repair, publishAcked, raced>>

-----------------------------------------------------------------------------
(* regenerate-index [--apply], run once: it lists the index and reads the  *)
(* object, ...                                                             *)
RepairStart(apply) ==
    /\ repair.pc = "idle"
    /\ repair' = [IdleRepair EXCEPT !.pc = "lines", !.apply = apply,
                      !.body = StoreGet, !.quiet = Publishing = {}]
    /\ raced' = raced \cup {serving[o].q.vers : o \in Publishing}
    /\ UNCHANGED <<crates, indexFile, serving, publishAcked, registryFaults>>

(* ... rebuilds the record of one line from its artifact; a line that      *)
(* cannot be rebuilt, or agrees with the artifact, is kept as it is, ...   *)
RepairedLine(line) ==
    IF ~StoreExists(line.vers) \/ Manifest[crates[line.vers]] = NoManifest
    THEN line ELSE RegenerateEntry(line.vers, crates[line.vers], line.yanked)

RepairLine ==
    LET line == repair.body[Len(repair.out) + 1]
    IN  /\ repair.pc = "lines" /\ Len(repair.out) < Len(repair.body)
        /\ repair' = [repair EXCEPT
               !.out = Append(@, RepairedLine(line)),
               !.changed = @ \/ RepairedLine(line) # line,
               !.failed = @ \/ ~StoreExists(line.vers)
                            \/ Manifest[crates[line.vers]] = NoManifest]
        /\ UNCHANGED <<crates, indexFile, serving, publishAcked, raced, registryFaults>>

(* ... and writes the object when something changed and --apply was given. *)
RepairWrite ==
    /\ repair.pc = "lines" /\ Len(repair.out) = Len(repair.body)
    /\ indexFile' = IF repair.changed /\ repair.apply
                THEN repair.out ELSE indexFile
    /\ repair' = [repair EXCEPT !.pc = "done"]
    /\ UNCHANGED <<crates, serving, publishAcked, raced, registryFaults>>

(* A read that fails keeps the line, a failed listing or write ends the    *)
(* pass; either is reported, and the command exits non-zero.               *)
RepairFails ==
    /\ Repairing /\ registryFaults < RegistryFaults
    /\ \/ /\ Len(repair.out) < Len(repair.body)
          /\ repair' = [repair EXCEPT !.failed = TRUE,
                           !.out = Append(@, repair.body[Len(@) + 1])]
       \/ repair' = [repair EXCEPT !.failed = TRUE, !.pc = "done"]
    /\ registryFaults' = registryFaults + 1
    /\ UNCHANGED <<crates, indexFile, serving, publishAcked, raced>>

RegistryNext ==
    \/ \E s \in RegistrySlot :
        \/ \E q \in RegistryRequest : Arrive(s, q)
        \/ CrateExists(s) \/ PutCrate(s) \/ GetIndex(s) \/ PutIndex(s)
        \/ StorageError(s)
    \/ \E apply \in BOOLEAN : RepairStart(apply)
    \/ RepairLine \/ RepairWrite \/ RepairFails

RegistrySpec == RegistryInit /\ [][RegistryNext]_registryVars

-----------------------------------------------------------------------------
(* A publish that overlapped no other publish of the crate and no repair   *)
(* pass is in the index for good, under the checksum of the stored bytes;  *)
(* whatever other publishes race, fail or are dropped, and whatever the    *)
(* repair pass rewrites, only the racing versions themselves can be lost   *)
(* from the read-modify-write of the index object.                         *)
LonePublishListed ==
    \A p \in publishAcked :
        p[1] \notin raced =>
            /\ crates[p[1]] = p[2]
            /\ \E i \in DOMAIN indexFile :
                   indexFile[i].vers = p[1] /\ indexFile[i].cksum = p[2]

(* What publish builds from cargo's payload is what repair builds from the *)
(* manifest in the archive, however the dependency is declared, so that    *)
(* "a record that already agrees is never rewritten".                      *)
RecordsAgree == \A x \in Declaration : IndexDep(PublishDep(x)) = ToIndexDep(ManifestDep(x))

(* When the repair pass ran alone with --apply and reports no failure,     *)
(* every record agrees with its artifact, none was lost or reordered, and  *)
(* a yanked version stays yanked; a dry run changes nothing; and records   *)
(* written by this service need no repair.                                 *)
RepairSound ==
    repair.pc = "done" /\ repair.quiet /\ ~ repair.failed =>
        /\ Len(indexFile) = Len(repair.body)
        /\ \A i \in DOMAIN indexFile :
              LET old == repair.body[i]  new == indexFile[i]
              IN  /\ new.vers = old.vers /\ new.yanked = old.yanked
                  /\ repair.apply => new = RegenerateEntry(old.vers, crates[old.vers], old.yanked)
                  /\ ~ repair.apply => new = old
        /\ RecordsAgree

(* What the registry promises: versions published alone stay listed, and   *)
(* a repair restores what the artifacts say and nothing else.              *)
RegistrySound == LonePublishListed /\ RepairSound

(* "Published artifacts are immutable": a version answered 200 keeps the   *)
(* bytes that were published.                                              *)
AckedBytesStored == \A p \in publishAcked : crates[p[1]] = p[2]

=============================================================================
