---------------------------- MODULE UpgradeProofs ----------------------------
(***************************************************************************)
(* Proofs about Upgrade, for every set of components, images and releases. *)
(*                                                                         *)
(* FilesAgree speaks of the time between two commands, so it needs to be   *)
(* known what an upgrade has written at each point: docker-compose.yml has *)
(* the images of stack.json until they are replaced and those of the new   *)
(* manifest from then on, but for what an upgrade that broke off has left  *)
(* in it (Files).  That replacing each old image by the new one gives the  *)
(* images of the new manifest, and leaves those of other releases, is      *)
(* ReplaceGivesNew, which rests on each component having a repository of   *)
(* its own (DistinctImages).                                               *)
(***************************************************************************)
EXTENDS Upgrade, TLAPS

(* What a manifest must be for the stack to run.                           *)
Fit(m) == m \in Published /\ \A c \in Used : m[c] # NoImage

(* Service u has the image of manifest m, that of a release an upgrade to  *)
(* which broke off, or none since a write broke off.                       *)
Explained(m, u) ==
  \/ compose[u] = m[u]
  \/ \E release \in broken : compose[u] = ManifestOf[release][u]
  \/ cut = "yes" /\ compose[u] = NoImage

(* Where docker-compose.yml stands.                                        *)
Files ==
  /\ Fit(manifest)
  /\ pc = "record" => Fit(ManifestOf[target])
  /\ \A u \in Used :
       Explained(IF pc = "record" THEN ManifestOf[target] ELSE manifest, u)

(* What is on the host once a pull is over.                                *)
Pulled ==
  /\ pc = "pull upgraded" \/ report = "upgraded" => manifest = ManifestOf[target]
  /\ pc = "pull upgraded" => Named(manifest) \subseteq local \cup LocalImages \cup todo
  /\ report = "upgraded" => Named(manifest) \subseteq local \cup LocalImages
  /\ report = "upgraded" => pc = "idle"

(* What was checked before anything is replaced.                           *)
Checked ==
  pc \in {"replace", "record"} /\ force = "no" =>
    Supported(LabelOf[manifest["firefly"]], target)

IInv == TypeOK /\ Files /\ Pulled /\ Checked

(* What is published is a manifest.                                        *)
LEMMA PublishedTyped ==
  /\ Published \subseteq [Components -> Images \cup {NoImage}]
  /\ \A release \in Releases : ManifestOf[release] \in Published
  /\ Used \subseteq Components /\ "firefly" \in Used /\ NoImage \notin Images
  BY UpgradeAssumption DEF Published

(* What replaceVersions makes of an image: of that of the old manifest     *)
(* that of the new one, and of another release's either that or itself.    *)
LEMMA ReplaceGivesNew ==
  ASSUME NEW old \in Published, NEW new \in Published, NEW other \in Published,
         NEW images, NEW u \in Used, images[u] = other[u]
  PROVE  /\ Replace(old, new, images)[u] \in {new[u], images[u]}
         /\ other = old /\ old[u] # NoImage => Replace(old, new, images)[u] = new[u]
<1> DEFINE found == CHOOSE c \in Components : old[c] = images[u]
<1>1. u \in Components
  BY PublishedTyped
<1>2. CASE images[u] # NoImage /\ \E c \in Components : old[c] = images[u]
  <2>1. found \in Components /\ old[found] = other[u]
    BY <1>2
  <2>2. found = u
    BY <1>1, <1>2, <2>1, DistinctImages
  <2> QED
    BY <1>2, <2>2 DEF Replace
<1>3. CASE ~(images[u] # NoImage /\ \E c \in Components : old[c] = images[u])
  BY <1>1, <1>3 DEF Replace
<1> QED
  BY <1>2, <1>3

(* The initial states satisfy the inductive invariant.                     *)
LEMMA InitInductive == Init => IInv
<1> SUFFICES ASSUME Init PROVE IInv
  OBVIOUS
<1>1. Fit(manifest)
  BY UpgradeAssumption DEF Init, Fit, Published
<1>2. compose \in [Used -> Images \cup {NoImage}]
  BY <1>1, PublishedTyped DEF Init, Fit, ImagesOf
<1>3. target \in Releases
  BY UpgradeAssumption DEF Init
<1>4. manifest \in [Components -> Images \cup {NoImage}]
  BY <1>1, PublishedTyped DEF Fit
<1>5. Named(manifest) \subseteq Images
  BY <1>4 DEF Named
<1>6. TypeOK
  BY <1>2, <1>3, <1>4, <1>5, UpgradeAssumption DEF Init, TypeOK
<1>7. \A u \in Used : Explained(manifest, u)
  BY DEF Init, ImagesOf, Explained
<1> QED
  BY <1>1, <1>6, <1>7 DEF Init, IInv, Files, Pulled, Checked

(* Replacing the images leads from a file that the old manifest explains   *)
(* to one that the new does.                                               *)
LEMMA ReplacedFits ==
  ASSUME IInv, pc = "replace", ~Panics(manifest, ManifestOf[target]),
         NEW u \in Used
  PROVE  LET images == Replace(manifest, ManifestOf[target], compose) IN
         /\ Fit(ManifestOf[target])
         /\ images[u] \in Images \cup {NoImage}
         /\ \/ images[u] = ManifestOf[target][u]
            \/ \E release \in broken : images[u] = ManifestOf[release][u]
            \/ cut = "yes" /\ images[u] = NoImage
<1> DEFINE new == ManifestOf[target]
           images == Replace(manifest, new, compose)
<1> USE DEF IInv, TypeOK, Files, Explained
<1>1. u \in Components /\ new \in Published /\ manifest \in Published
  BY PublishedTyped DEF Fit
<1>2. Fit(new)
  <2>1. ASSUME NEW c \in Used PROVE new[c] # NoImage
    BY PublishedTyped DEF Panics, Fit
  <2> QED
    BY <1>1, <2>1 DEF Fit
<1>3. new[u] \in Images \cup {NoImage}
  BY <1>1, PublishedTyped
<1>4. CASE compose[u] = manifest[u]
  <2>1. images[u] = new[u]
    BY <1>1, <1>4, ReplaceGivesNew DEF Fit
  <2> QED
    BY <1>2, <1>3, <2>1
<1>5. ASSUME NEW release \in broken, compose[u] = ManifestOf[release][u]
      PROVE  /\ images[u] \in Images \cup {NoImage}
             /\ images[u] = new[u] \/ images[u] = ManifestOf[release][u]
  <2>1. ManifestOf[release] \in Published
    BY PublishedTyped
  <2>2. images[u] \in {new[u], compose[u]}
    BY <1>1, <1>5, <2>1, ReplaceGivesNew
  <2> QED
    BY <1>3, <1>5, <2>2
<1>6. CASE cut = "yes" /\ compose[u] = NoImage
  BY <1>2, <1>6 DEF Replace
<1> QED
  BY <1>2, <1>3, <1>4, <1>5, <1>6

(* Every step keeps the inductive invariant.                               *)
LEMMA StepInductive == IInv /\ [Next]_vars => IInv'
<1> SUFFICES ASSUME IInv, [Next]_vars PROVE IInv'
  OBVIOUS
<1>a. MaxRetries \in Nat
  BY UpgradeAssumption, Zenon
<1>b. retries \in 0 .. MaxRetries /\ attempt \in 0 .. retries
  BY DEF IInv, TypeOK
<1>c. /\ 0 \in 0 .. MaxRetries /\ 0 \in 0 .. 0 /\ 0 \in 0 .. retries
      /\ attempt < retries => attempt + 1 \in 0 .. retries
  BY <1>a, <1>b
<1> USE DEF IInv, TypeOK, Files, Pulled, Checked
<1>0. manifest \in [Components -> Images \cup {NoImage}] /\ Named(manifest) \subseteq Images
  BY DEF Named
<1>d. Used \subseteq Components /\ NoImage \notin Images
  BY PublishedTyped
<1> USE DEF files, request
<1>1. ASSUME NEW release \in Releases, NEW forced \in {"yes", "no"},
             UpgradeStack(release, forced)
      PROVE  IInv'
  BY <1>1 DEF UpgradeStack, Explained
<1>2. CASE Validate
  BY <1>2 DEF Validate, Explained
<1>3. CASE Refuse
  BY <1>3, <1>b, <1>c DEF Refuse, Return, Explained
<1>4. CASE ReplaceVersions
  <2>1. /\ Fit(ManifestOf[target])
        /\ compose' \in [Used -> Images \cup {NoImage}]
    BY <1>4, ReplacedFits, UpgradeAssumption DEF ReplaceVersions, Replace
  <2>2. \A u \in Used : Explained(ManifestOf[target], u)'
    BY <1>4, ReplacedFits DEF ReplaceVersions, Explained
  <2> QED
    BY <1>4, <2>1, <2>2 DEF ReplaceVersions
<1>5. CASE ReplaceFails
  BY <1>5, <1>b, <1>c DEF ReplaceFails, Return, Explained
<1>6. CASE ReplaceBreaksOff
  <2> DEFINE images == Replace(manifest, ManifestOf[target], compose)
  <2>1. PICK left \in SUBSET Used :
          compose' = [u \in Used |-> IF u \in left THEN images[u] ELSE NoImage]
    BY <1>6 DEF ReplaceBreaksOff, WritePart
  <2>2. \A u \in Used : compose'[u] = images[u] \/ compose'[u] = NoImage
    BY <2>1, Zenon
  <2>3. compose' \in [Used -> Images \cup {NoImage}]
    BY <1>6, <2>1, ReplacedFits DEF ReplaceBreaksOff
  <2>4. cut' = "yes" /\ broken' = broken \cup {target} /\ manifest' = manifest
    BY <1>6 DEF ReplaceBreaksOff, WritePart
  <2>5. \A u \in Used : Explained(manifest, u)'
    BY <1>6, <2>2, <2>4, ReplacedFits DEF ReplaceBreaksOff, Explained
  <2> QED
    BY <1>6, <1>b, <1>c, <2>3, <2>4, <2>5 DEF ReplaceBreaksOff, WritePart, Return
<1>7. CASE WriteStackConfig
  <2>1. /\ manifest' = ManifestOf[target] /\ Fit(manifest')
        /\ manifest' \in [Components -> Images \cup {NoImage}]
        /\ Named(manifest') \subseteq Images
    <3>1. manifest' = ManifestOf[target] /\ Fit(ManifestOf[target])
      BY <1>7 DEF WriteStackConfig
    <3>2. ManifestOf[target] \in [Components -> Images \cup {NoImage}]
      BY <3>1, PublishedTyped DEF Fit
    <3> QED
      BY <3>1, <3>2 DEF Fit, Named
  <2>2. TypeOK'
    BY <1>7, <1>c, <2>1, UpgradeAssumption DEF WriteStackConfig, BeginPull
  <2>3. Pulled'
    BY <1>7, <2>1 DEF WriteStackConfig, BeginPull
  <2>4. \A u \in Used : Explained(manifest, u)'
    BY <1>7 DEF WriteStackConfig, Explained
  <2>5. Files' /\ Checked'
    BY <1>7, <2>1, <2>4 DEF WriteStackConfig
  <2> QED
    BY <2>2, <2>3, <2>5
<1>8. CASE WriteStackConfigFails
  <2>1. \A u \in Used : Explained(manifest, u)'
    BY <1>8 DEF WriteStackConfigFails, Explained
  <2> QED
    BY <1>8, <1>b, <1>c, <2>1 DEF WriteStackConfigFails, Return
<1>9. CASE Pull
  BY <1>9, <1>b, <1>c DEF Pull, Explained
<1>10. CASE PullFails
  BY <1>10, <1>b, <1>c DEF PullFails, Explained
<1>11. CASE PullGivesUp
  BY <1>11, <1>b, <1>c DEF PullGivesUp, Return, Explained
<1>12. CASE Done
  BY <1>12, <1>b, <1>c DEF Done, Return, Explained
<1>13. ASSUME NEW n \in 0 .. MaxRetries, PullStack(n) PROVE IInv'
  BY <1>0, <1>13, <1>c, UpgradeAssumption DEF PullStack, BeginPull, Explained
<1>14. CASE FirstStart
  <2>1. ImagesOf(manifest) \in [Used -> Images \cup {NoImage}]
    BY <1>0, <1>d DEF ImagesOf
  <2>2. /\ compose' \in [Used -> Images \cup {NoImage}]
        /\ cut' \in {"yes", "no"} /\ manifest' = manifest /\ config' = config
        /\ \A u \in Used : \/ compose'[u] = manifest[u]
                           \/ cut' = "yes" /\ compose'[u] = NoImage
    <3>1. CASE compose' = ImagesOf(manifest) /\ cut' = "no"
               /\ UNCHANGED <<manifest, config>>
      BY <2>1, <3>1 DEF ImagesOf
    <3>2. CASE WritePart(ImagesOf(manifest))
      <4>1. PICK left \in SUBSET Used :
              compose' = [u \in Used |-> IF u \in left THEN ImagesOf(manifest)[u]
                                        ELSE NoImage]
        BY <3>2 DEF WritePart
      <4> QED
        BY <2>1, <3>2, <4>1 DEF WritePart, ImagesOf
    <3> QED
      BY <1>14, <3>1, <3>2 DEF FirstStart
  <2>3. \A u \in Used : Explained(manifest, u)'
    BY <2>2 DEF Explained
  <2> QED
    BY <1>14, <2>2, <2>3 DEF FirstStart
<1>15. CASE LoadStackFails
  BY <1>15, <1>b, <1>c DEF LoadStackFails, Return, Explained
<1>16. CASE Kill
  <2>1. \A u \in Used : Explained(manifest, u)'
    BY <1>16 DEF Kill, Explained
  <2> QED
    BY <1>16, <1>b, <1>c, <2>1 DEF Kill, Return
<1>17. CASE UNCHANGED vars
  BY <1>17 DEF vars, Explained
<1> QED
  BY <1>1, <1>2, <1>3, <1>4, <1>5, <1>6, <1>7, <1>8, <1>9, <1>10, <1>11,
     <1>12, <1>13, <1>14, <1>15, <1>16, <1>17 DEF Next, Proceed

(* The inductive invariant holds in every state of an upgrade.             *)
THEOREM Invariant == Spec => []IInv
  BY InitInductive, StepInductive, PTL DEF Spec

-----------------------------------------------------------------------------

(* Every variable of an upgrade keeps its type.                            *)
THEOREM TypeCorrect == Spec => []TypeOK
  BY Invariant, PTL DEF IInv

(* Between two commands every service in docker-compose.yml runs the image *)
(* that stack.json names, or that of a release an upgrade to which broke   *)
(* off between the two files and was not made good.                        *)
THEOREM FilesAlwaysAgree == Spec => []FilesAgree
<1>1. IInv => FilesAgree
  BY DEF IInv, Files, Explained, FilesAgree
<1> QED
  BY <1>1, Invariant, PTL

(* An upgrade that reports success runs the release that was asked for,    *)
(* and has its images, also when an upgrade to that release broke off      *)
(* before.                                                                 *)
THEOREM UpgradedToRelease == Spec => []UpgradedIsTheRelease
<1>1. IInv => UpgradedIsTheRelease
  <2> SUFFICES ASSUME IInv, report = "upgraded", broken = {}, cut = "no", NEW c \in Used
               PROVE  /\ compose[c] = ManifestOf[target][c]
                      /\ compose[c] \in local \cup LocalImages
    BY DEF UpgradedIsTheRelease
  <2>1. compose[c] = manifest[c] /\ manifest = ManifestOf[target]
    BY DEF IInv, Files, Pulled, Explained
  <2>2. manifest[c] \in Named(manifest)
    BY PublishedTyped DEF IInv, Files, Fit, Named
  <2> QED
    BY <2>1, <2>2 DEF IInv, Pulled
<1> QED
  BY <1>1, Invariant, PTL

(* Comparing the patch versions as strings is right for those that have as *)
(* many digits.                                                            *)
LEMMA OlderIsSmaller ==
  ASSUME NEW a \in Seq(Nat), NEW b \in Seq(Nat), Older(a, b)
  PROVE  StringGreater(b, a)
<1>1. PICK n \in 1 .. Len(a) : (\A j \in 1 .. n - 1 : a[j] = b[j]) /\ a[n] < b[n]
  BY DEF Older
<1>2. Len(a) = Len(b) /\ Len(a) \in Nat
  BY DEF Older
<1>3. n \in 1 .. Len(b) /\ a[n] \in Nat /\ b[n] \in Nat
  BY <1>1, <1>2
<1>4. \A j \in 1 .. n - 1 : j <= Len(a) /\ b[j] = a[j]
  BY <1>1, <1>2
<1> QED
  BY <1>1, <1>3, <1>4 DEF StringGreater

(* Without --force no upgrade is a downgrade of the patch version or       *)
(* changes the minor version.                                              *)
THEOREM NeverDowngrades == Spec => NoDowngrade
<1> DEFINE Step ==
      manifest' # manifest /\ force = "no" =>
        LET old == LabelOf[manifest["firefly"]] IN
          /\ old[1] = target[1] /\ old[2] = target[2]
          /\ ~Older(target[3], old[3])
<1>1. IInv /\ [Next]_vars => [Step]_vars
  <2> SUFFICES ASSUME IInv, [Next]_vars, manifest' # manifest, force = "no"
               PROVE  LET old == LabelOf[manifest["firefly"]] IN
                        /\ old[1] = target[1] /\ old[2] = target[2]
                        /\ ~Older(target[3], old[3])
    OBVIOUS
  <2> DEFINE old == LabelOf[manifest["firefly"]]
  <2>1. WriteStackConfig
    BY DEF Next, Proceed, vars, UpgradeStack, Validate, Refuse, ReplaceVersions,
           ReplaceFails, ReplaceBreaksOff, WritePart, WriteStackConfigFails,
           Pull, PullFails, PullGivesUp, Done, PullStack, FirstStart,
           LoadStackFails, Kill, files, request
  <2>2. Supported(old, target)
    BY <2>1 DEF WriteStackConfig, IInv, Checked
  <2>3. manifest["firefly"] \in Images
    BY PublishedTyped DEF IInv, Files, Fit, TypeOK
  <2>4. old \in Seq(Seq(Nat)) /\ target \in Seq(Seq(Nat))
    BY <2>3, UpgradeAssumption DEF IInv, TypeOK
  <2>5. old[3] \in Seq(Nat) /\ target[3] \in Seq(Nat)
    BY <2>2, <2>4 DEF Supported
  <2>6. ~Older(target[3], old[3])
    BY <2>2, <2>5, OlderIsSmaller DEF Supported
  <2> QED
    BY <2>2, <2>6 DEF Supported
<1>2. [][Step]_vars => NoDowngrade
  BY PTL DEF NoDowngrade
<1> QED
  BY <1>1, <1>2, Invariant, PTL DEF Spec
=============================================================================
