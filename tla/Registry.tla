------------------------------ MODULE Registry ------------------------------
(***************************************************************************)
(* runtime/register_hailo_ollama.py publishing HEFs into the model store   *)
(* of hailo-ollama, and the server that scans the store when it starts.    *)
(*                                                                         *)
(* Registrars run at the same time on one store.  Each hashes the HEF,     *)
(* copies it to the blob its digest names, then writes the manifest of its *)
(* tag: reading the HEF twice, and truncating each file before filling it. *)
(***************************************************************************)
EXTENDS Naturals

CONSTANTS Registrars,  \* runs of the script; each may be repeated
          Tags,        \* the <family>/<tag> they may register under
          Paths,       \* the files --hef may name
          Hefs,        \* the builds those files may hold
          MaxCrashes,  \* bound: scripts killed or failing in a behaviour
          MaxRebuilds  \* bound: rebuilds of a file in a behaviour

ASSUME BoundsAssumption == MaxCrashes \in Nat /\ MaxRebuilds \in Nat

VARIABLES hef,       \* Paths -> bytes of the file
          blob,      \* digest -> bytes stored under sha256_<digest>
          manifest,  \* tag -> the digest its manifest.json names
          reg,       \* registrar -> where it is and what it has read
          served,    \* tag -> the digest the running server has for it
          faults,    \* crashes and rebuilds so far (bounded)
          disturbed  \* digests whose last copy was killed or had its HEF rebuilt
                     \* under it, and that were not copied alone since (history)

vars == <<hef, blob, manifest, reg, served, faults, disturbed>>

(* The bytes of a file: a build, written out or not.  sha256 tells any two *)
(* apart, so bytes stand for their digest too.                             *)
Bytes == Hefs \X BOOLEAN
Absent  == << >>
Torn    == <<"torn">>      \* opened for writing, and not filled
Garbled == <<"garbled">>   \* a manifest with the tail of a longer one behind it

Idle == [at |-> "idle"]
Copying(p, digest) == reg[p].at = "copying" /\ reg[p].digest = digest

-----------------------------------------------------------------------------

(* Variant for checking: the blob named after the file.                    *)
HashOfTheName(p) ==
  /\ reg[p].at = "idle"
  /\ \E path \in Paths, tag \in Tags :
       reg' = [reg EXCEPT ![p] = [at |-> "hashed", tag |-> tag, path |-> path, digest |-> path,
                                  steady |-> TRUE]]
  /\ UNCHANGED <<hef, blob, manifest, served, faults, disturbed>>

(* Variant for checking: only the first chunk hashed, common to all builds.*)
HashFirstChunk(p) ==
  /\ reg[p].at = "idle"
  /\ \E path \in Paths, tag \in Tags :
       reg' = [reg EXCEPT ![p] = [at |-> "hashed", tag |-> tag, path |-> path,
                                  digest |-> <<CHOOSE h \in Hefs : TRUE, hef[path][2]>>,
                                  steady |-> TRUE]]
  /\ UNCHANGED <<hef, blob, manifest, served, faults, disturbed>>

(* hef.is_file(), then sha256_of(hef).  The file is steady until rebuilt.  *)
Hash(p) ==
  /\ reg[p].at = "idle"
  /\ \E path \in Paths, tag \in Tags :
       reg' = [reg EXCEPT ![p] = [at |-> "hashed", tag |-> tag, path |-> path, digest |-> hef[path],
                                  steady |-> TRUE]]
  /\ UNCHANGED <<hef, blob, manifest, served, faults, disturbed>>

(* Variant for checking: the file hashed again to name its blob.           *)
BlobNameOfTheFile(p) == hef[reg[p].path]

(* The blob the manifest will name. *)
BlobName(p) == reg[p].digest

(* Nobody else is copying what p copies. *)
Alone(p) == \A q \in Registrars \ {p} : ~ Copying(q, reg[p].digest)

(* Variant for checking: a blob that is there already is not copied again. *)
CopyOpenUnlessThere(p) ==
  /\ reg[p].at = "hashed"
  /\ IF blob[BlobName(p)] = Absent
       THEN /\ blob' = [blob EXCEPT ![BlobName(p)] = Torn]
            /\ reg' = [reg EXCEPT ![p] =
                         [at |-> "copying", tag |-> reg[p].tag, path |-> reg[p].path,
                          digest |-> reg[p].digest, steady |-> reg[p].steady, intact |-> TRUE]]
            /\ UNCHANGED disturbed
       ELSE /\ reg' = [reg EXCEPT ![p] =
                         [at |-> "copied", tag |-> reg[p].tag, digest |-> reg[p].digest]]
            /\ disturbed' = IF Alone(p) THEN disturbed \ {reg[p].digest} ELSE disturbed
            /\ UNCHANGED blob
  /\ UNCHANGED <<hef, manifest, served, faults>>

(* shutil.copy2 opens the blob for writing, which empties it: whatever an  *)
(* unfinished copy to the same blob had written is gone.                   *)
CopyOpen(p) ==
  /\ reg[p].at = "hashed"
  /\ blob' = [blob EXCEPT ![BlobName(p)] = Torn]
  /\ reg' = [ q \in Registrars |->
                IF q = p
                  THEN [at |-> "copying", tag |-> reg[p].tag, path |-> reg[p].path,
                        digest |-> reg[p].digest, steady |-> reg[p].steady, intact |-> TRUE]
                ELSE IF Copying(q, reg[p].digest)
                  THEN [reg[q] EXCEPT !.intact = FALSE]
                ELSE reg[q] ]
  /\ disturbed' = IF reg[p].steady THEN disturbed ELSE disturbed \cup {reg[p].digest}
  /\ UNCHANGED <<hef, manifest, served, faults>>

(* What a copy leaves of a file that is rebuilt meanwhile: the new bytes,  *)
(* or some of either.                                                      *)
Read(p) == {hef[reg[p].path]} \cup (IF reg[p].steady THEN {} ELSE {Torn})

(* ... and fills it with what the HEF holds by then.  A copy that nothing  *)
(* disturbed, made alone, mends what earlier ones left.                    *)
CopyDone(p) ==
  /\ reg[p].at = "copying"
  /\ \E bytes \in Read(p) :
       blob' = [blob EXCEPT ![BlobName(p)] =
                  IF reg[p].intact \/ @ = bytes THEN bytes ELSE Torn]
  /\ reg' = [reg EXCEPT ![p] = [at |-> "copied", tag |-> reg[p].tag, digest |-> reg[p].digest]]
  /\ disturbed' = IF reg[p].intact /\ reg[p].steady /\ Alone(p)
                    THEN disturbed \ {reg[p].digest} ELSE disturbed
  /\ UNCHANGED <<hef, manifest, served, faults>>

(* open(manifest_path, "w") *)
ManifestOpen(p) ==
  /\ reg[p].at = "copied"
  /\ manifest' = [manifest EXCEPT ![reg[p].tag] = Torn]
  /\ reg' = [reg EXCEPT ![p].at = "describing"]
  /\ UNCHANGED <<hef, blob, served, faults, disturbed>>

(* json.dump, which reaches the file in one write, at its start, when it   *)
(* is closed.  A manifest that another run closed since this one opened it *)
(* is written over, and keeps its tail if it was the longer one.           *)
ManifestClose(p) ==
  /\ reg[p].at = "describing"
  /\ \E result \in {reg[p].digest} \cup (IF manifest[reg[p].tag] = Torn THEN {} ELSE {Garbled}) :
       manifest' = [manifest EXCEPT ![reg[p].tag] = result]
  /\ reg' = [reg EXCEPT ![p] = Idle]
  /\ UNCHANGED <<hef, blob, served, faults, disturbed>>

(* The script is killed, or a write fails. *)
Crash(p) ==
  /\ faults.crashes < MaxCrashes
  /\ faults' = [faults EXCEPT !.crashes = @ + 1]
  /\ reg[p].at # "idle"
  /\ reg' = [reg EXCEPT ![p] = Idle]
  /\ disturbed' = disturbed \cup { d \in Bytes : Copying(p, d) }
  /\ UNCHANGED <<hef, blob, manifest, served>>

(* Registrars that have hashed a file and not yet copied all of it; what   *)
(* they have hashed is no longer what the file holds.                      *)
Using(path) == { p \in Registrars : reg[p].at \in {"hashed", "copying"} /\ reg[p].path = path }

Unsettle(path) ==
  /\ reg' = [ p \in Registrars |->
                IF p \in Using(path) THEN [reg[p] EXCEPT !.steady = FALSE] ELSE reg[p] ]
  /\ disturbed' = disturbed
       \cup { reg[p].digest : p \in { q \in Using(path) : reg[q].at = "copying" } }

(* Step 6 of the pipeline writes a new build over the file meanwhile. *)
RebuildOpen(path) ==
  /\ faults.rebuilds < MaxRebuilds
  /\ faults' = [faults EXCEPT !.rebuilds = @ + 1]
  /\ hef[path][2]
  /\ \E h \in Hefs : hef' = [hef EXCEPT ![path] = <<h, FALSE>>]
  /\ Unsettle(path)
  /\ UNCHANGED <<blob, manifest, served>>

RebuildDone(path) ==
  /\ ~ hef[path][2]
  /\ hef' = [hef EXCEPT ![path] = <<@[1], TRUE>>]
  /\ Unsettle(path)
  /\ UNCHANGED <<blob, manifest, served, faults>>

(* hailo-ollama scans the manifests when it starts, and only then; it has  *)
(* nothing for a tag whose manifest it cannot read.                        *)
ServerStart ==
  /\ served' = [ t \in Tags |-> IF manifest[t] \in Bytes THEN manifest[t] ELSE Absent ]
  /\ UNCHANGED <<hef, blob, manifest, reg, faults, disturbed>>

-----------------------------------------------------------------------------

Init ==
  /\ hef \in [Paths -> Hefs \X {TRUE}]
  /\ blob = [ d \in Bytes |-> Absent ]
  /\ manifest = [ t \in Tags |-> Absent ]
  /\ reg = [ p \in Registrars |-> Idle ]
  /\ served = [ t \in Tags |-> Absent ]
  /\ faults = [crashes |-> 0, rebuilds |-> 0]
  /\ disturbed = {}

Next ==
  \/ \E p \in Registrars :
       Hash(p) \/ CopyOpen(p) \/ CopyDone(p) \/ ManifestOpen(p) \/ ManifestClose(p) \/ Crash(p)
  \/ \E path \in Paths : RebuildOpen(path) \/ RebuildDone(path)
  \/ ServerStart

Spec == Init /\ [][Next]_vars

-----------------------------------------------------------------------------

Registrar ==
  {Idle}
    \cup [at : {"hashed"}, tag : Tags, path : Paths, digest : Bytes, steady : BOOLEAN]
    \cup [at : {"copying"}, tag : Tags, path : Paths, digest : Bytes, steady : BOOLEAN,
          intact : BOOLEAN]
    \cup [at : {"copied", "describing"}, tag : Tags, digest : Bytes]

(* The store keeps its types: blobs are named, and manifests name blobs,   *)
(* by what sha256 can be taken of.                                         *)
TypeOK ==
  /\ hef \in [Paths -> Bytes]
  /\ blob \in [Bytes -> Bytes \cup {Absent, Torn}]
  /\ manifest \in [Tags -> Bytes \cup {Absent, Torn, Garbled}]
  /\ reg \in [Registrars -> Registrar]
  /\ served \in [Tags -> Bytes \cup {Absent}]
  /\ faults \in [crashes : 0 .. MaxCrashes, rebuilds : 0 .. MaxRebuilds]
  /\ disturbed \subseteq Bytes

(* However registrars interleave, whatever is killed and whatever is       *)
(* rebuilt under them, a manifest, and what the server took from it, never *)
(* names a blob that was not put in the store: the blob comes first and    *)
(* nothing removes one.                                                    *)
ManifestHasBlob ==
  \A t \in Tags : \A d \in {manifest[t], served[t]} \cap Bytes : blob[d] # Absent

(* The blob under a digest is what it is named after, or is being copied.  *)
Intact(d) == blob[d] = d \/ \E p \in Registrars : Copying(p, d)

(* The blob of every published model holds the bytes its manifest          *)
(* promises, or is just being copied again (main's copy2 empties it).      *)
(* Registrars of one HEF truncating each other's copy, or of two HEFs      *)
(* sharing a tag, leave nothing else; a kill or a rebuild damages no other *)
(* blob than the one whose copy it hits, and that one until the HEF is     *)
(* registered once more with no other copy of it under way.                *)
RegisteredIsIntact ==
  \A t \in Tags : manifest[t] \in Bytes \ disturbed => Intact(manifest[t])

(* The same of what the running server serves, whatever its tag's manifest *)
(* has become: publishing another build under the tag leaves the blob the  *)
(* server scanned alone, registering the same HEF again does not.          *)
ServedIsIntact ==
  \A t \in Tags : served[t] \in Bytes \ disturbed => Intact(served[t])

(* register_hailo_ollama.py says what is in the store: under               *)
(* sha256_<sha256-of-hef>, "the HEF bytes themselves" -- so a blob some    *)
(* manifest names, and no registrar is copying, hashes to its name.        *)
BlobIsTheHef ==
  \A t \in Tags : manifest[t] \in Bytes =>
    \/ blob[manifest[t]] = manifest[t]
    \/ \E p \in Registrars : reg[p].at = "copying"
=============================================================================
