--------------------------- MODULE RegistryProofs ---------------------------
(***************************************************************************)
(* The model store, for any number of registrars, tags, files and builds,  *)
(* and any number of kills and rebuilds.                                   *)
(***************************************************************************)
EXTENDS Registry, TLAPS

(* From the moment a registrar opens its blob, the store has one.          *)
CopiedHasBlob ==
  \A p \in Registrars :
    reg[p].at \in {"copying", "copied", "describing"} => blob[reg[p].digest] # Absent

(* Until its copy is over, a registrar's file is the one it hashed, unless *)
(* it was rebuilt.                                                         *)
FileIsAsHashed ==
  \A p \in Registrars :
    reg[p].at \in {"hashed", "copying"} /\ reg[p].steady = TRUE
      => hef[reg[p].path] = reg[p].digest

(* A copy of a file that was rebuilt disturbs its blob. *)
UnsteadyDisturbs ==
  \A p \in Registrars :
    reg[p].at = "copying" /\ reg[p].digest \notin disturbed => reg[p].steady = TRUE

(* A blob that is in the store and incomplete is being filled, by the      *)
(* registrar that truncated it last.                                       *)
TornIsBeingFilled ==
  \A d \in Bytes \ disturbed :
    blob[d] \in {Absent, d} \/ \E p \in Registrars : Copying(p, d) /\ reg[p].intact = TRUE

IInv ==
  /\ TypeOK
  /\ CopiedHasBlob
  /\ ManifestHasBlob
  /\ FileIsAsHashed
  /\ UnsteadyDisturbs
  /\ TornIsBeingFilled

-----------------------------------------------------------------------------

(* No digest is mistaken for a missing or an unreadable file. *)
LEMMA DistinctBytes ==
  Absent \notin Bytes /\ Torn \notin Bytes /\ Garbled \notin Bytes /\ Torn # Absent
BY DEF Absent, Torn, Garbled, Bytes

(* What a registrar remembers in each place. *)
LEMMA Remembered ==
  ASSUME TypeOK, NEW p \in Registrars
  PROVE  /\ reg[p].at \in {"idle", "hashed", "copying", "copied", "describing"}
         /\ reg[p].at # "idle" => reg[p].tag \in Tags /\ reg[p].digest \in Bytes
         /\ reg[p].at \in {"hashed", "copying"} =>
              reg[p].path \in Paths /\ reg[p].steady \in BOOLEAN
         /\ reg[p].at = "copying" => reg[p].intact \in BOOLEAN
<1>1. reg[p] \in Registrar
  BY DEF TypeOK
<1>. QED BY <1>1 DEF Registrar, Idle

(* An action changes one registrar; the others remember what they did.     *)
LEMMA HashKeepsInv ==
  ASSUME IInv, NEW p \in Registrars, Hash(p)
  PROVE  IInv'
<1>1. PICK path \in Paths, tag \in Tags :
        reg' = [reg EXCEPT ![p] = [at |-> "hashed", tag |-> tag, path |-> path, digest |-> hef[path],
                                   steady |-> TRUE]]
  BY DEF Hash
<1>2. UNCHANGED <<hef, blob, manifest, served, faults, disturbed>> /\ reg[p].at = "idle"
  BY DEF Hash
<1>3. reg'[p] = [at |-> "hashed", tag |-> tag, path |-> path, digest |-> hef[path],
                                   steady |-> TRUE]
      /\ \A q \in Registrars \ {p} : reg'[q] = reg[q]
  BY <1>1 DEF IInv, TypeOK
<1>4. TypeOK'
  <2>1. reg'[p] \in Registrar
    BY <1>3 DEF IInv, TypeOK, Registrar
  <2>. QED BY <1>1, <1>2, <2>1 DEF IInv, TypeOK
<1>5. CopiedHasBlob'
  BY <1>2, <1>3 DEF IInv, CopiedHasBlob
<1>6. ManifestHasBlob'
  BY <1>2 DEF IInv, ManifestHasBlob
<1>7. FileIsAsHashed'
  BY <1>2, <1>3 DEF IInv, FileIsAsHashed
<1>8. TornIsBeingFilled'
  BY <1>2, <1>3 DEF IInv, TornIsBeingFilled, Copying
<1>9. UnsteadyDisturbs'
  BY <1>2, <1>3 DEF IInv, UnsteadyDisturbs
<1>. QED BY <1>4, <1>5, <1>6, <1>7, <1>8, <1>9 DEF IInv

(* The action CopyOpen. *)
LEMMA CopyOpenKeepsInv ==
  ASSUME IInv, NEW p \in Registrars, CopyOpen(p)
  PROVE  IInv'
<1>. DEFINE d == reg[p].digest
            opened == [at |-> "copying", tag |-> reg[p].tag, path |-> reg[p].path,
                       digest |-> reg[p].digest, steady |-> reg[p].steady, intact |-> TRUE]
<1>1. /\ reg[p].at = "hashed" /\ UNCHANGED <<hef, manifest, served, faults>>
      /\ disturbed' = IF reg[p].steady THEN disturbed ELSE disturbed \cup {d}
  BY DEF CopyOpen
<1>2. d \in Bytes /\ reg[p].tag \in Tags /\ reg[p].path \in Paths /\ reg[p].steady \in BOOLEAN
  BY <1>1, Remembered DEF IInv
<1>3. blob' = [blob EXCEPT ![d] = Torn]
  BY DEF CopyOpen, BlobName
<1>4. blob'[d] = Torn /\ \A e \in Bytes \ {d} : blob'[e] = blob[e]
  BY <1>2, <1>3 DEF IInv, TypeOK
<1>5. reg'[p] = opened
  BY DEF CopyOpen
<1>6. ASSUME NEW q \in Registrars, q # p
      PROVE  IF Copying(q, d) THEN reg'[q] = [reg[q] EXCEPT !.intact = FALSE] ELSE reg'[q] = reg[q]
  BY <1>6 DEF CopyOpen
<1>7. ASSUME NEW q \in Registrars, q # p
      PROVE  /\ reg'[q] \in Registrar
             /\ reg'[q].at = reg[q].at
             /\ reg[q].at # "idle" => reg'[q].digest = reg[q].digest
             /\ reg[q].at \in {"hashed", "copying"} =>
                  reg'[q].path = reg[q].path /\ reg'[q].steady = reg[q].steady
  <2>1. reg[q] \in Registrar
    BY DEF IInv, TypeOK
  <2>2. CASE Copying(q, d)
    <3>1. reg[q] \in [at : {"copying"}, tag : Tags, path : Paths, digest : Bytes,
                         steady : BOOLEAN, intact : BOOLEAN]
      BY <2>1, <2>2 DEF Registrar, Copying, Idle
    <3>2. reg'[q] = [reg[q] EXCEPT !.intact = FALSE]
      BY <1>6, <1>7, <2>2
    <3>3. reg'[q] \in [at : {"copying"}, tag : Tags, path : Paths, digest : Bytes,
                         steady : BOOLEAN, intact : BOOLEAN]
      BY <3>1, <3>2
    <3>. QED BY <3>1, <3>2, <3>3 DEF Registrar
  <2>3. CASE ~ Copying(q, d)
    BY <1>6, <1>7, <2>1, <2>3
  <2>. QED BY <2>2, <2>3
<1>8. TypeOK'
  <2>1. opened \in Registrar
    BY <1>2 DEF Registrar
  <2>2. reg' \in [Registrars -> Registrar]
    <3>1. \A q \in Registrars : reg'[q] \in Registrar
      BY <1>5, <1>7, <2>1
    <3>. DEFINE after(q) == IF q = p THEN opened
                            ELSE IF Copying(q, d) THEN [reg[q] EXCEPT !.intact = FALSE] ELSE reg[q]
    <3>2. reg' = [ q \in Registrars |-> after(q) ]
      BY DEF CopyOpen
    <3>. HIDE DEF after
    <3>3. reg' = [ q \in Registrars |-> reg'[q] ]
      BY <3>2
    <3>. QED BY <3>1, <3>3
  <2>3. blob' \in [Bytes -> Bytes \cup {Absent, Torn}]
    BY <1>2, <1>3 DEF IInv, TypeOK
  <2>4. disturbed' \subseteq Bytes
    BY <1>1, <1>2 DEF IInv, TypeOK
  <2>. QED BY <1>1, <2>2, <2>3, <2>4 DEF IInv, TypeOK
<1>9. \A e \in Bytes : blob[e] # Absent => blob'[e] # Absent
  BY <1>4, DistinctBytes
<1>10. CopiedHasBlob'
  <2>. SUFFICES ASSUME NEW q \in Registrars, reg'[q].at \in {"copying", "copied", "describing"}
                PROVE  blob'[reg'[q].digest] # Absent
    BY DEF CopiedHasBlob
  <2>1. CASE q = p
    BY <2>1, <1>4, <1>5, DistinctBytes
  <2>2. CASE q # p
    <3>1. reg[q].at \in {"copying", "copied", "describing"} /\ reg'[q].digest = reg[q].digest
      BY <2>2, <1>7
    <3>2. reg[q].digest \in Bytes /\ blob[reg[q].digest] # Absent
      BY <3>1, Remembered DEF IInv, CopiedHasBlob
    <3>. QED BY <3>1, <3>2, <1>9
  <2>. QED BY <2>1, <2>2
<1>11. ManifestHasBlob'
  BY <1>1, <1>9 DEF IInv, ManifestHasBlob, TypeOK
<1>12. FileIsAsHashed'
  BY <1>1, <1>5, <1>7 DEF IInv, FileIsAsHashed
<1>14. UnsteadyDisturbs'
  BY <1>1, <1>2, <1>5, <1>7 DEF IInv, UnsteadyDisturbs
<1>13. TornIsBeingFilled'
  <2>. SUFFICES ASSUME NEW e \in Bytes \ disturbed
                PROVE  \/ blob'[e] \in {Absent, e}
                       \/ \E q \in Registrars : Copying(q, e)' /\ reg'[q].intact = TRUE
    BY <1>1 DEF TornIsBeingFilled
  <2>1. CASE e = d
    BY <2>1, <1>5 DEF Copying
  <2>2. CASE e # d
    <3>1. blob'[e] = blob[e]
      BY <2>2, <1>4
    <3>2. ASSUME NEW q \in Registrars, Copying(q, e), reg[q].intact = TRUE
          PROVE  Copying(q, e)' /\ reg'[q].intact = TRUE
      <4>1. q # p /\ ~ Copying(q, d)
        BY <3>2, <2>2, <1>1 DEF Copying
      <4>. QED BY <4>1, <3>2, <1>6 DEF Copying
    <3>. QED BY <3>1, <3>2 DEF IInv, TornIsBeingFilled
  <2>. QED BY <2>1, <2>2
<1>. QED BY <1>8, <1>10, <1>11, <1>12, <1>13, <1>14 DEF IInv

(* The action CopyDone. *)
LEMMA CopyDoneKeepsInv ==
  ASSUME IInv, NEW p \in Registrars, CopyDone(p)
  PROVE  IInv'
<1>. DEFINE d == reg[p].digest
<1>1. reg[p].at = "copying" /\ UNCHANGED <<hef, manifest, served, faults>>
  BY DEF CopyDone
<1>2. d \in Bytes /\ reg[p].tag \in Tags /\ hef[reg[p].path] \in Bytes
      /\ reg[p].steady \in BOOLEAN /\ reg[p].intact \in BOOLEAN
  BY <1>1, Remembered DEF IInv, TypeOK
<1>3. reg' = [reg EXCEPT ![p] = [at |-> "copied", tag |-> reg[p].tag, digest |-> d]]
  BY DEF CopyDone
<1>4. reg'[p] = [at |-> "copied", tag |-> reg[p].tag, digest |-> d]
      /\ \A q \in Registrars \ {p} : reg'[q] = reg[q]
  BY <1>3 DEF IInv, TypeOK
<1>5. PICK bytes \in Read(p) :
        blob' = [blob EXCEPT ![d] = IF reg[p].intact \/ blob[d] = bytes THEN bytes ELSE Torn]
  BY <1>2 DEF CopyDone, BlobName, IInv, TypeOK
<1>13. bytes \in Bytes \cup {Torn} /\ bytes # Absent
       /\ (reg[p].steady => bytes = hef[reg[p].path])
  BY <1>2, DistinctBytes DEF Read
<1>6. /\ blob'[d] = IF reg[p].intact \/ blob[d] = bytes THEN bytes ELSE Torn
      /\ \A e \in Bytes \ {d} : blob'[e] = blob[e]
  BY <1>2, <1>5 DEF IInv, TypeOK
<1>14. \/ disturbed' = disturbed
       \/ /\ disturbed' = disturbed \ {d}
          /\ reg[p].intact /\ reg[p].steady /\ Alone(p)
  BY DEF CopyDone
<1>7. TypeOK'
  <2>1. reg'[p] \in Registrar
    BY <1>2, <1>4 DEF Registrar
  <2>2. blob' \in [Bytes -> Bytes \cup {Absent, Torn}]
    BY <1>2, <1>5, <1>13 DEF IInv, TypeOK
  <2>3. disturbed' \subseteq Bytes
    BY <1>14 DEF IInv, TypeOK
  <2>. QED BY <1>1, <1>3, <1>4, <2>1, <2>2, <2>3 DEF IInv, TypeOK
<1>8. \A e \in Bytes : blob[e] # Absent => blob'[e] # Absent
  BY <1>2, <1>6, <1>13, DistinctBytes
<1>9. CopiedHasBlob'
  <2>1. \A q \in Registrars : reg'[q].at \in {"copying", "copied", "describing"}
          => reg[q].at \in {"copying", "copied", "describing"} /\ reg'[q].digest = reg[q].digest
    BY <1>1, <1>4
  <2>. QED BY <2>1, <1>8, Remembered DEF IInv, CopiedHasBlob
<1>10. ManifestHasBlob'
  BY <1>1, <1>8 DEF IInv, ManifestHasBlob, TypeOK
<1>11. FileIsAsHashed'
  BY <1>1, <1>4 DEF IInv, FileIsAsHashed
<1>15. UnsteadyDisturbs'
  <2>. SUFFICES ASSUME NEW q \in Registrars, reg'[q].at = "copying", reg'[q].digest \notin disturbed'
                PROVE  reg'[q].steady = TRUE
    BY DEF UnsteadyDisturbs
  <2>1. q # p /\ reg'[q] = reg[q]
    BY <1>4
  <2>2. reg[q].digest \notin disturbed
    BY <1>14, <2>1 DEF Alone, Copying
  <2>. QED BY <2>1, <2>2 DEF IInv, UnsteadyDisturbs
<1>12. TornIsBeingFilled'
  <2>. SUFFICES ASSUME NEW e \in Bytes \ disturbed'
                PROVE  \/ blob'[e] \in {Absent, e}
                       \/ \E q \in Registrars : Copying(q, e)' /\ reg'[q].intact = TRUE
    BY DEF TornIsBeingFilled
  <2>1. CASE e = d
    <3>1. reg[p].steady
      BY <1>1, <1>2, <1>14, <2>1 DEF IInv, UnsteadyDisturbs
    <3>2. bytes = d
      BY <1>1, <1>2, <1>13, <3>1 DEF IInv, FileIsAsHashed
    <3>3. CASE blob'[d] = d
      BY <2>1, <3>3
    <3>4. CASE blob'[d] # d
      <4>1. ~ reg[p].intact /\ blob[d] # d
        BY <1>6, <3>2, <3>4
      <4>2. blob[d] # Absent
        BY <1>1 DEF IInv, CopiedHasBlob
      <4>3. e \in Bytes \ disturbed
        BY <1>14, <4>1
      <4>4. PICK q \in Registrars : Copying(q, d) /\ reg[q].intact = TRUE
        BY <2>1, <4>1, <4>2, <4>3 DEF IInv, TornIsBeingFilled
      <4>5. q # p
        BY <4>1, <4>4
      <4>. QED BY <2>1, <4>4, <4>5, <1>4 DEF Copying
    <3>. QED BY <3>3, <3>4
  <2>2. CASE e # d
    <3>1. blob'[e] = blob[e] /\ e \in Bytes \ disturbed
      BY <2>2, <1>6, <1>14
    <3>2. ASSUME NEW q \in Registrars, Copying(q, e), reg[q].intact = TRUE
          PROVE  Copying(q, e)' /\ reg'[q].intact = TRUE
      BY <3>2, <2>2, <1>4 DEF Copying
    <3>. QED BY <3>1, <3>2 DEF IInv, TornIsBeingFilled
  <2>. QED BY <2>1, <2>2
<1>. QED BY <1>7, <1>9, <1>10, <1>11, <1>12, <1>15 DEF IInv

(* The action ManifestOpen. *)
LEMMA ManifestOpenKeepsInv ==
  ASSUME IInv, NEW p \in Registrars, ManifestOpen(p)
  PROVE  IInv'
<1>1. reg[p].at = "copied" /\ UNCHANGED <<hef, blob, served, faults, disturbed>>
  BY DEF ManifestOpen
<1>2. reg[p] \in [at : {"copied", "describing"}, tag : Tags, digest : Bytes]
  BY <1>1 DEF IInv, TypeOK, Registrar, Idle
<1>3. /\ manifest' = [manifest EXCEPT ![reg[p].tag] = Torn]
      /\ reg' = [reg EXCEPT ![p] = [reg[p] EXCEPT !.at = "describing"]]
  BY DEF ManifestOpen
<1>4. /\ reg'[p] \in [at : {"copied", "describing"}, tag : Tags, digest : Bytes]
      /\ reg'[p].at = "describing" /\ reg'[p].digest = reg[p].digest
      /\ \A q \in Registrars \ {p} : reg'[q] = reg[q]
  BY <1>2, <1>3 DEF IInv, TypeOK
<1>5. TypeOK'
  <2>1. reg'[p] \in Registrar
    BY <1>4 DEF Registrar
  <2>2. manifest' \in [Tags -> Bytes \cup {Absent, Torn, Garbled}]
    BY <1>3 DEF IInv, TypeOK
  <2>. QED BY <1>1, <1>3, <1>4, <2>1, <2>2 DEF IInv, TypeOK
<1>6. CopiedHasBlob'
  BY <1>1, <1>4 DEF IInv, CopiedHasBlob
<1>7. ManifestHasBlob'
  BY <1>1, <1>2, <1>3, DistinctBytes DEF IInv, TypeOK, ManifestHasBlob
<1>8. FileIsAsHashed' /\ UnsteadyDisturbs'
  BY <1>1, <1>4 DEF IInv, FileIsAsHashed, UnsteadyDisturbs
<1>9. TornIsBeingFilled'
  BY <1>1, <1>4 DEF IInv, TornIsBeingFilled, Copying
<1>. QED BY <1>5, <1>6, <1>7, <1>8, <1>9 DEF IInv

(* The action ManifestClose. *)
LEMMA ManifestCloseKeepsInv ==
  ASSUME IInv, NEW p \in Registrars, ManifestClose(p)
  PROVE  IInv'
<1>1. reg[p].at = "describing" /\ UNCHANGED <<hef, blob, served, faults, disturbed>>
  BY DEF ManifestClose
<1>2. reg[p].digest \in Bytes /\ reg[p].tag \in Tags /\ blob[reg[p].digest] # Absent
  BY <1>1, Remembered DEF IInv, CopiedHasBlob
<1>3. PICK result \in {reg[p].digest, Garbled} :
        manifest' = [manifest EXCEPT ![reg[p].tag] = result] /\ reg' = [reg EXCEPT ![p] = Idle]
  BY DEF ManifestClose
<1>4. reg'[p] = Idle /\ \A q \in Registrars \ {p} : reg'[q] = reg[q]
  BY <1>3 DEF IInv, TypeOK
<1>5. TypeOK'
  <2>1. manifest' \in [Tags -> Bytes \cup {Absent, Torn, Garbled}]
    BY <1>2, <1>3 DEF IInv, TypeOK
  <2>. QED BY <1>1, <1>3, <2>1 DEF IInv, TypeOK, Registrar
<1>6. CopiedHasBlob'
  BY <1>1, <1>4 DEF IInv, CopiedHasBlob, Idle
<1>7. ManifestHasBlob'
  BY <1>1, <1>2, <1>3, DistinctBytes DEF IInv, TypeOK, ManifestHasBlob
<1>8. FileIsAsHashed' /\ UnsteadyDisturbs'
  BY <1>1, <1>4 DEF IInv, FileIsAsHashed, UnsteadyDisturbs, Idle
<1>9. TornIsBeingFilled'
  BY <1>1, <1>4 DEF IInv, TornIsBeingFilled, Copying
<1>. QED BY <1>5, <1>6, <1>7, <1>8, <1>9 DEF IInv

(* A killed copy may stay torn: its digest counts as disturbed.            *)
LEMMA CrashKeepsInv ==
  ASSUME IInv, NEW p \in Registrars, Crash(p)
  PROVE  IInv'
<1>1. UNCHANGED <<hef, blob, manifest, served>> /\ reg' = [reg EXCEPT ![p] = Idle]
  BY DEF Crash
<1>2. disturbed' = disturbed \cup { d \in Bytes : Copying(p, d) }
  BY DEF Crash
<1>3. reg'[p] = Idle /\ \A q \in Registrars \ {p} : reg'[q] = reg[q]
  BY <1>1 DEF IInv, TypeOK
<1>4. TypeOK'
  <2>1. faults' \in [crashes : 0 .. MaxCrashes, rebuilds : 0 .. MaxRebuilds]
    <3>1. faults \in [crashes : 0 .. MaxCrashes, rebuilds : 0 .. MaxRebuilds]
          /\ faults.crashes < MaxCrashes /\ faults' = [faults EXCEPT !.crashes = faults.crashes + 1]
      BY DEF IInv, TypeOK, Crash
    <3>. QED BY <3>1, BoundsAssumption
  <2>. QED BY <1>1, <1>2, <2>1 DEF IInv, TypeOK, Registrar
<1>5. CopiedHasBlob'
  BY <1>1, <1>3 DEF IInv, CopiedHasBlob, Idle
<1>6. ManifestHasBlob'
  BY <1>1 DEF IInv, ManifestHasBlob
<1>7. FileIsAsHashed' /\ UnsteadyDisturbs'
  BY <1>1, <1>2, <1>3 DEF IInv, FileIsAsHashed, UnsteadyDisturbs, Idle
<1>8. TornIsBeingFilled'
  BY <1>1, <1>2, <1>3 DEF IInv, TornIsBeingFilled, Copying
<1>. QED BY <1>4, <1>5, <1>6, <1>7, <1>8 DEF IInv

(* So does that of a HEF rebuilt while a registrar was at it.              *)
LEMMA RebuildKeepsInv ==
  ASSUME IInv, NEW path \in Paths, RebuildOpen(path) \/ RebuildDone(path)
  PROVE  IInv'
<1>. DEFINE hit == { reg[p].digest : p \in { q \in Using(path) : reg[q].at = "copying" } }
<1>1. UNCHANGED <<blob, manifest, served>> /\ disturbed' = disturbed \cup hit
  BY DEF RebuildOpen, RebuildDone, Unsettle
<1>2. \A other \in Paths \ {path} : hef'[other] = hef[other]
  BY DEF RebuildOpen, RebuildDone, IInv, TypeOK
<1>8. /\ DOMAIN reg' = Registrars
      /\ reg' = [ p \in Registrars |-> reg'[p] ]
      /\ \A p \in Registrars :
           reg'[p] = IF p \in Using(path) THEN [reg[p] EXCEPT !.steady = FALSE] ELSE reg[p]
  BY DEF RebuildOpen, RebuildDone, Unsettle
<1>9. ASSUME NEW p \in Registrars
      PROVE  /\ reg'[p] \in Registrar
             /\ reg'[p].at = reg[p].at
             /\ reg[p].at # "idle" => reg'[p].digest = reg[p].digest
             /\ reg[p].at \in {"hashed", "copying"} =>
                  /\ reg'[p].path = reg[p].path
                  /\ reg'[p].steady = IF reg[p].path = path THEN FALSE ELSE reg[p].steady
             /\ reg[p].at = "copying" => reg'[p].intact = reg[p].intact
  <2>1. reg[p] \in Registrar
    BY DEF IInv, TypeOK
  <2>2. CASE p \notin Using(path)
    BY <2>1, <2>2, <1>8 DEF Using
  <2>3. CASE p \in Using(path)
    <3>1. \/ reg[p] \in [at : {"hashed"}, tag : Tags, path : Paths, digest : Bytes, steady : BOOLEAN]
          \/ reg[p] \in [at : {"copying"}, tag : Tags, path : Paths, digest : Bytes,
                         steady : BOOLEAN, intact : BOOLEAN]
      BY <2>1, <2>3 DEF Using, Registrar, Idle
    <3>2. reg'[p] = [reg[p] EXCEPT !.steady = FALSE]
      BY <2>3, <1>8
    <3>3. reg[p].path = path
      BY <2>3 DEF Using
    <3>. QED BY <3>1, <3>2, <3>3 DEF Registrar
  <2>. QED BY <2>2, <2>3
<1>3. TypeOK'
  <2>1. hef' \in [Paths -> Bytes]
    <3>1. CASE RebuildOpen(path)
      <4>1. PICK h \in Hefs : hef' = [hef EXCEPT ![path] = <<h, FALSE>>]
        BY <3>1 DEF RebuildOpen
      <4>2. <<h, FALSE>> \in Bytes
        BY DEF Bytes
      <4>. QED BY <4>1, <4>2 DEF IInv, TypeOK
    <3>2. CASE RebuildDone(path)
      <4>1. hef[path][1] \in Hefs
        BY DEF IInv, TypeOK, Bytes
      <4>2. hef' = [hef EXCEPT ![path] = <<hef[path][1], TRUE>>]
        BY <3>2 DEF RebuildDone
      <4>3. <<hef[path][1], TRUE>> \in Bytes
        BY <4>1 DEF Bytes
      <4>. QED BY <4>2, <4>3 DEF IInv, TypeOK
    <3>. QED BY <3>1, <3>2
  <2>2. faults' \in [crashes : 0 .. MaxCrashes, rebuilds : 0 .. MaxRebuilds]
    <3>1. faults \in [crashes : 0 .. MaxCrashes, rebuilds : 0 .. MaxRebuilds]
      BY DEF IInv, TypeOK
    <3>2. CASE RebuildOpen(path)
      <4>1. faults.rebuilds < MaxRebuilds /\ faults' = [faults EXCEPT !.rebuilds = faults.rebuilds + 1]
        BY <3>1, <3>2 DEF RebuildOpen
      <4>. QED BY <3>1, <4>1, BoundsAssumption
    <3>3. CASE RebuildDone(path)
      BY <3>1, <3>3 DEF RebuildDone
    <3>. QED BY <3>2, <3>3
  <2>3. disturbed' \subseteq Bytes
    <3>1. \A p \in Using(path) : reg[p].digest \in Bytes
      BY Remembered DEF IInv, Using
    <3>. QED BY <1>1, <3>1 DEF IInv, TypeOK
  <2>4. reg' \in [Registrars -> Registrar]
    BY <1>8, <1>9
  <2>. QED BY <1>1, <2>1, <2>2, <2>3, <2>4 DEF IInv, TypeOK
<1>4. CopiedHasBlob'
  BY <1>1, <1>9 DEF IInv, CopiedHasBlob
<1>5. ManifestHasBlob'
  BY <1>1 DEF IInv, ManifestHasBlob
<1>6. FileIsAsHashed'
  <2>. SUFFICES ASSUME NEW p \in Registrars, reg[p].at \in {"hashed", "copying"},
                       reg'[p].steady = TRUE
                PROVE  hef'[reg[p].path] = reg[p].digest
    BY <1>9 DEF FileIsAsHashed
  <2>1. reg[p].path \in Paths \ {path} /\ reg[p].steady = TRUE
    BY <1>9, Remembered DEF IInv
  <2>. QED BY <1>2, <2>1 DEF IInv, FileIsAsHashed
<1>10. UnsteadyDisturbs'
  <2>. SUFFICES ASSUME NEW p \in Registrars, reg[p].at = "copying", reg[p].digest \notin disturbed'
                PROVE  reg'[p].steady = TRUE
    BY <1>9 DEF UnsteadyDisturbs
  <2>1. reg[p].path # path /\ reg[p].digest \notin disturbed
    BY <1>1 DEF Using
  <2>. QED BY <1>9, <2>1 DEF IInv, UnsteadyDisturbs
<1>7. TornIsBeingFilled'
  <2>1. ASSUME NEW e \in Bytes, NEW p \in Registrars, Copying(p, e), reg[p].intact = TRUE
        PROVE  Copying(p, e)' /\ reg'[p].intact = TRUE
    BY <2>1, <1>9 DEF Copying
  <2>. QED BY <1>1, <2>1 DEF IInv, TornIsBeingFilled
<1>. QED BY <1>3, <1>4, <1>5, <1>6, <1>7, <1>10 DEF IInv

(* The server starts, and a stutter. *)
LEMMA ServerStartKeepsInv == IInv /\ (ServerStart \/ UNCHANGED vars) => IInv'
<1>. SUFFICES ASSUME IInv, ServerStart \/ UNCHANGED vars PROVE IInv'
  OBVIOUS
<1>1. UNCHANGED <<hef, blob, manifest, reg, faults, disturbed>>
  BY DEF ServerStart, vars
<1>2. /\ served' \in [Tags -> Bytes \cup {Absent}]
      /\ \A t \in Tags : served'[t] \in {served[t], manifest[t], Absent}
  BY DistinctBytes DEF ServerStart, vars, IInv, TypeOK
<1>. QED BY <1>1, <1>2, DistinctBytes DEF IInv, TypeOK, CopiedHasBlob, ManifestHasBlob,
           FileIsAsHashed, UnsteadyDisturbs, TornIsBeingFilled, Copying

(* The invariant holds initially. *)
LEMMA InitInv == Init => IInv
<1>. SUFFICES ASSUME Init PROVE IInv
  OBVIOUS
<1>1. TypeOK
  <2>1. hef \in [Paths -> Bytes]
    BY DEF Init, Bytes
  <2>2. reg \in [Registrars -> Registrar] /\ faults \in [crashes : 0 .. MaxCrashes, rebuilds : 0 .. MaxRebuilds]
    BY BoundsAssumption DEF Init, Registrar
  <2>. QED BY <2>1, <2>2 DEF Init, TypeOK
<1>2. CopiedHasBlob /\ FileIsAsHashed /\ UnsteadyDisturbs
  BY DEF Init, Idle, CopiedHasBlob, FileIsAsHashed, UnsteadyDisturbs
<1>3. ManifestHasBlob /\ TornIsBeingFilled
  BY DistinctBytes DEF Init, ManifestHasBlob, TornIsBeingFilled
<1>. QED BY <1>1, <1>2, <1>3 DEF IInv

(* The inductive invariant of the store. *)
THEOREM StoreInvariance == Spec => []IInv
<1>1. IInv /\ [Next]_vars => IInv'
  <2>. SUFFICES ASSUME IInv, [Next]_vars PROVE IInv'
    OBVIOUS
  <2>1. ASSUME NEW p \in Registrars,
               \/ Hash(p) \/ CopyOpen(p) \/ CopyDone(p)
               \/ ManifestOpen(p) \/ ManifestClose(p) \/ Crash(p)
        PROVE  IInv'
    BY <2>1, HashKeepsInv, CopyOpenKeepsInv, CopyDoneKeepsInv, ManifestOpenKeepsInv,
       ManifestCloseKeepsInv, CrashKeepsInv
  <2>. QED BY <2>1, RebuildKeepsInv, ServerStartKeepsInv DEF Next
<1>. QED BY <1>1, InitInv, PTL DEF Spec

-----------------------------------------------------------------------------

(* What the files of the store, the registrars and the server hold keeps   *)
(* its types.                                                              *)
THEOREM TypeCorrectness == Spec => []TypeOK
<1>1. IInv => TypeOK
  BY DEF IInv
<1>. QED BY <1>1, StoreInvariance, PTL

(* The blob comes before the manifest, whatever else happens in between.   *)
THEOREM BlobComesFirst == Spec => []ManifestHasBlob
<1>1. IInv => ManifestHasBlob
  BY DEF IInv
<1>. QED BY <1>1, StoreInvariance, PTL

(* A blob in the store whose last copies nobody disturbed is whole or      *)
(* being filled.                                                           *)
LEMMA PresentIsIntact ==
  ASSUME IInv, NEW d \in Bytes \ disturbed, blob[d] # Absent
  PROVE  Intact(d)
BY DEF IInv, TornIsBeingFilled, Intact

(* A published model has the bytes its manifest promises, unless they are  *)
(* being copied again, or a kill or a rebuild hit their last copy.         *)
THEOREM PublishedIsIntact == Spec => []RegisteredIsIntact
<1>1. ASSUME IInv PROVE RegisteredIsIntact
  BY <1>1, DistinctBytes, PresentIsIntact DEF RegisteredIsIntact, IInv, ManifestHasBlob
<1>. QED BY <1>1, StoreInvariance, PTL

(* So has what the running server serves, whatever its tags are registered *)
(* to meanwhile: no copy of another HEF touches it, one of its own does.   *)
THEOREM ServingIsIntact == Spec => []ServedIsIntact
<1>1. ASSUME IInv PROVE ServedIsIntact
  BY <1>1, DistinctBytes, PresentIsIntact DEF ServedIsIntact, IInv, ManifestHasBlob
<1>. QED BY <1>1, StoreInvariance, PTL
=============================================================================
