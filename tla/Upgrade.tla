------------------------------- MODULE Upgrade -------------------------------
(***************************************************************************)
(* The versions of a stack: `ff upgrade` (UpgradeStack and replaceVersions, *)
(* internal/stacks/stack_manager.go:1096-1184) stops the stack, reads the  *)
(* version of its FireFly image, fetches the manifest of the new release,  *)
(* replaces the images in docker-compose.yml, writes stack.json, and pulls *)
(* the images.  The command can fail at each of these and be killed        *)
(* between any two; os.WriteFile truncates a file before it writes it, so  *)
(* a write that fails, or is killed, may leave part of it.  `ff pull` and  *)
(* the first start of a stack are here too.                                *)
(*                                                                         *)
(* A version is the sequence of its dotted parts, and a part that of its   *)
(* digits; a name such as main has no parts.                               *)
(***************************************************************************)
EXTENDS Naturals, Sequences, FiniteSets

CONSTANTS
  Components,   \* the entries of a manifest
  Used,         \* those whose image a service of the stack runs
  Images,       \* what an entry can name
  NoImage,      \* an entry that is missing
  OtherImages,  \* those a pull has besides: IPFS, the database, the providers'
  LocalImages,  \* the images that are built on the host and have no digest
  Releases,     \* the versions `ff upgrade` can be asked for
  ManifestOf,   \* the manifest published with each of them
  LabelOf,      \* the version in an image's label
  InitManifests, \* the manifests a stack can be initialised with
  MaxRetries    \* bound: --retries of ff pull

ASSUME UpgradeAssumption ==
  /\ "firefly" \in Used /\ Used \subseteq Components
  /\ OtherImages \subseteq Images /\ LocalImages \subseteq Images
  /\ NoImage \notin Images
  /\ ManifestOf \in [Releases -> [Components -> Images \cup {NoImage}]]
  /\ InitManifests \subseteq [Components -> Images \cup {NoImage}]
  /\ \A m \in InitManifests : \A c \in Used : m[c] # NoImage
  /\ LabelOf \in [Images -> Seq(Seq(Nat))]
  /\ Releases \subseteq Seq(Seq(Nat)) /\ Releases # {}
  /\ MaxRetries \in Nat

(* An image is the repository's name and a tag or a digest                 *)
(* (GetDockerImageString), and each component has a repository of its own, *)
(* in whatever manifest; those of a release have digests, so that none is  *)
(* part of another one's name.                                             *)
Published == InitManifests \cup {ManifestOf[release] : release \in Releases}

ASSUME DistinctImages ==
  \A m, n \in Published : \A c, d \in Components :
    m[c] = n[d] /\ m[c] # NoImage => c = d

VARIABLES
  manifest,   \* the version manifest in stack.json
  config,     \* stack.json is whole, or was cut short by a write that broke off
  compose,    \* the image of each service in docker-compose.yml, if it has one
  pc,         \* how far a command is
  target,     \* the release the last upgrade was asked for
  force,      \* its --force
  retries,    \* the retries of the pull under way
  attempt,    \* those spent on the image it is at
  todo,       \* the images it has left
  local,      \* the images that docker has
  report,     \* what the last command said
  broken,     \* the releases an upgrade to which broke off between the two files,
              \* and was not made good since
  cut         \* a write of docker-compose.yml broke off: yes or no

files   == <<manifest, config, compose, broken, cut>>
request == <<target, force>>
vars    == <<files, request, pc, retries, attempt, todo, local, report>>

-----------------------------------------------------------------------------
(* ValidateVersionUpgrade.                                                 *)

(* Go's > on strings: the first digit that differs decides, and a prefix   *)
(* comes first.                                                            *)
StringGreater(a, b) ==
  \E n \in 1 .. Len(a) :
    /\ \A j \in 1 .. n - 1 : j <= Len(b) /\ a[j] = b[j]
    /\ n > Len(b) \/ a[n] > b[n]

\* MUTANT: the patch versions are not compared.
SupportedBetweenPatches(old, new) ==
  Len(old) >= 3 /\ Len(new) >= 3 /\ old[1] = new[1] /\ old[2] = new[2]

Supported(old, new) ==
  /\ Len(old) >= 3 /\ Len(new) >= 3
  /\ old[1] = new[1] /\ old[2] = new[2]
  /\ ~StringGreater(old[3], new[3])

(* The images a stack's services run: CreateDockerCompose and the          *)
(* definitions take them from the manifest.                                *)
ImagesOf(m) == [c \in Used |-> m[c]]

Named(m) == {m[c] : c \in Components} \ {NoImage}

-----------------------------------------------------------------------------
Init ==
  /\ manifest \in InitManifests
  /\ config = "whole"
  /\ compose = ImagesOf(manifest)
  /\ pc = "idle"
  /\ target = CHOOSE release \in Releases : TRUE
  /\ force = "no"
  /\ retries = 0 /\ attempt = 0
  /\ todo = {}
  /\ local = Named(manifest) \cap LocalImages
  /\ report = "none"
  /\ broken = {} /\ cut = "no"

(* The command ends, and says so.                                          *)
Return(word) ==
  /\ pc' = "idle"
  /\ report' = word
  /\ force' = "no"
  /\ todo' = {}
  /\ retries' = 0 /\ attempt' = 0

(* LoadStack: a stack.json that is no JSON is the end of every command.    *)
LoadStackFails ==
  /\ pc = "idle"
  /\ config = "cut"
  /\ Return("failed")
  /\ UNCHANGED <<files, target, local>>

(* The stack is stopped, and stays so if the upgrade is refused.           *)
UpgradeStack(release, forced) ==
  /\ pc = "idle"
  /\ config = "whole"
  /\ pc' = "validate"
  /\ target' = release
  /\ force' = forced
  /\ report' = "none"
  /\ UNCHANGED <<files, retries, attempt, todo, local>>

(* GetImageLabel asks the registry for the digest of the running image,    *)
(* which a local one has not.                                              *)
Validate ==
  /\ pc = "validate"
  /\ manifest["firefly"] \notin LocalImages
  /\ force = "yes" \/ Supported(LabelOf[manifest["firefly"]], target)
  /\ pc' = "replace"
  /\ UNCHANGED <<files, request, retries, attempt, todo, local, report>>

(* The stack does not stop, or the label, the version or the new manifest  *)
(* is not to be had.                                                       *)
Refuse ==
  /\ pc = "validate"
  /\ Return("failed")
  /\ UNCHANGED <<files, target, local>>

(* GetDockerImageString of a missing entry panics; only the old            *)
(* tezosconnect is looked at first.                                        *)
Panics(old, new) ==
  \E c \in Components :
    /\ c = "tezosconnect" => old[c] # NoImage
    /\ old[c] = NoImage \/ new[c] = NoImage

\* MUTANT: the services other than FireFly's are left with their images.
ReplaceFireFlyOnly(old, new, images) ==
  [u \in Used |-> IF u = "firefly" /\ images[u] = old[u] THEN new[u] ELSE images[u]]

(* The images of two components are distinct, so the order in which they   *)
(* are replaced does not matter.                                           *)
Replace(old, new, images) ==
  [u \in Used |->
     IF images[u] # NoImage /\ \E c \in Components : old[c] = images[u]
     THEN new[CHOOSE c \in Components : old[c] = images[u]] ELSE images[u]]

ReplaceVersions ==
  /\ pc = "replace"
  /\ ~Panics(manifest, ManifestOf[target])
  /\ compose' = Replace(manifest, ManifestOf[target], compose)
  /\ pc' = "record"
  /\ UNCHANGED <<manifest, config, broken, cut, request, retries, attempt, todo,
                 local, report>>

(* docker-compose.yml is not to be read or opened, or the replacement      *)
(* panics.                                                                 *)
ReplaceFails ==
  /\ pc = "replace"
  /\ Return("failed")
  /\ UNCHANGED <<files, target, local>>

(* What is left of docker-compose.yml when its write breaks off.           *)
WritePart(images) ==
  /\ \E left \in SUBSET Used :
       compose' = [u \in Used |-> IF u \in left THEN images[u] ELSE NoImage]
  /\ cut' = "yes"
  /\ UNCHANGED <<manifest, config>>

ReplaceBreaksOff ==
  /\ pc = "replace"
  /\ ~Panics(manifest, ManifestOf[target])
  /\ WritePart(Replace(manifest, ManifestOf[target], compose))
  /\ broken' = broken \cup {target}
  /\ Return("failed")
  /\ UNCHANGED <<target, local>>

\* MUTANT: only what the stack had before is pulled.
BeginPullOfOld(m, n) ==
  /\ todo' = Named(manifest) \ LocalImages
  /\ retries' = n
  /\ attempt' = 0

(* PullStack: the images of the manifest, used or not, but the local ones, *)
(* and those that are in no manifest.                                      *)
BeginPull(m, n) ==
  /\ todo' = (Named(m) \cup OtherImages) \ LocalImages
  /\ retries' = n
  /\ attempt' = 0

(* The services that an earlier upgrade to the same release had replaced   *)
(* run what stack.json names from now on.                                  *)
WriteStackConfig ==
  /\ pc = "record"
  /\ manifest' = ManifestOf[target]
  /\ broken' = broken \ {target}
  /\ pc' = "pull upgraded"
  /\ BeginPull(ManifestOf[target], 0)
  /\ UNCHANGED <<config, compose, cut, request, local, report>>

(* stack.json is left as it is, or cut short.                              *)
WriteStackConfigFails ==
  /\ pc = "record"
  /\ config' \in {"whole", "cut"}
  /\ broken' = broken \cup {target}
  /\ Return("failed")
  /\ UNCHANGED <<manifest, compose, cut, target, local>>

(* RunDockerCommandRetry, for one image after the other; which is first    *)
(* does not matter.                                                        *)
Pull ==
  /\ pc \in {"pull upgraded", "pull"}
  /\ todo # {}
  /\ LET image == CHOOSE i \in todo : TRUE
     IN  local' = local \cup {image} /\ todo' = todo \ {image}
  /\ attempt' = 0
  /\ UNCHANGED <<files, request, pc, retries, report>>

\* MUTANT: one retry too many.
PullFailsOnceMore ==
  /\ pc \in {"pull upgraded", "pull"}
  /\ todo # {}
  /\ attempt <= retries
  /\ attempt' = attempt + 1
  /\ UNCHANGED <<files, request, pc, retries, todo, local, report>>

PullFails ==
  /\ pc \in {"pull upgraded", "pull"}
  /\ todo # {}
  /\ attempt < retries
  /\ attempt' = attempt + 1
  /\ UNCHANGED <<files, request, pc, retries, todo, local, report>>

\* MUTANT: the last failure is neither retried nor returned.
PullNeverGivesUp ==
  /\ pc \in {"pull upgraded", "pull"}
  /\ todo # {}
  /\ attempt > retries
  /\ Return("failed")
  /\ UNCHANGED <<files, target, local>>

PullGivesUp ==
  /\ pc \in {"pull upgraded", "pull"}
  /\ todo # {}
  /\ attempt = retries
  /\ Return("failed")
  /\ UNCHANGED <<files, target, local>>

Done ==
  /\ pc \in {"pull upgraded", "pull"}
  /\ todo = {}
  /\ Return(IF pc = "pull upgraded" THEN "upgraded" ELSE "pulled")
  /\ UNCHANGED <<files, target, local>>

-----------------------------------------------------------------------------
(* The other commands that touch the images.                               *)

PullStack(n) ==
  /\ pc = "idle"
  /\ config = "whole"
  /\ pc' = "pull"
  /\ report' = "none"
  /\ BeginPull(manifest, n)
  /\ UNCHANGED <<files, request, local>>

(* A first start, or the first after a reset, writes docker-compose.yml    *)
(* anew from stack.json (disableFireflyCoreContainers).                    *)
FirstStart ==
  /\ pc = "idle"
  /\ config = "whole"
  /\ \/ /\ compose' = ImagesOf(manifest)
        /\ cut' = "no"
        /\ report' = "none"
        /\ UNCHANGED <<manifest, config>>
     \/ /\ WritePart(ImagesOf(manifest))
        /\ report' = "failed"
  /\ broken' = {}
  /\ UNCHANGED <<request, pc, retries, attempt, todo, local>>

(* Killed in a write, the command leaves what one leaves whose write       *)
(* breaks off.                                                             *)
Kill ==
  /\ pc # "idle"
  /\ Return("none")
  /\ broken' = IF pc = "record" THEN broken \cup {target} ELSE broken
  /\ UNCHANGED <<manifest, config, compose, cut, target, local>>

(* All but the pull that succeeds.                                         *)
Proceed ==
  \/ Validate
  \/ Refuse
  \/ ReplaceVersions
  \/ ReplaceFails
  \/ ReplaceBreaksOff
  \/ WriteStackConfig
  \/ WriteStackConfigFails
  \/ PullFails
  \/ PullGivesUp
  \/ Done

Next ==
  \/ \E release \in Releases, forced \in {"yes", "no"} : UpgradeStack(release, forced)
  \/ Proceed
  \/ Pull
  \/ \E n \in 0 .. MaxRetries : PullStack(n)
  \/ FirstStart
  \/ LoadStackFails
  \/ Kill

(* A command goes on unless it is killed, and docker answers every pull;   *)
(* that it ever succeeds is not assumed.                                   *)
Spec == Init /\ [][Next]_vars /\ WF_vars(Proceed)

-----------------------------------------------------------------------------
TypeOK ==
  /\ manifest \in [Components -> Images \cup {NoImage}]
  /\ config \in {"whole", "cut"}
  /\ compose \in [Used -> Images \cup {NoImage}]
  /\ pc \in {"idle", "validate", "replace", "record", "pull upgraded", "pull"}
  /\ target \in Releases
  /\ force \in {"yes", "no"}
  /\ retries \in 0 .. MaxRetries
  /\ attempt \in 0 .. retries
  /\ todo \subseteq Images \ LocalImages
  /\ local \subseteq Images
  /\ report \in {"none", "failed", "upgraded", "pulled"}
  /\ broken \subseteq Releases
  /\ cut \in {"yes", "no"}

(* Between two commands docker-compose.yml runs the images stack.json      *)
(* names, whatever was upgraded, refused, pulled or started before.  Where *)
(* a service has another one, it is of a release an upgrade to which broke *)
(* off between the two files, by a failure or a kill, and was neither      *)
(* repeated with success nor followed by a first start; and where it has   *)
(* none, a write of docker-compose.yml broke off (replaceVersions replaces *)
(* what it finds, stack_manager.go:1119-1124).                             *)
FilesAgree ==
  pc = "idle" =>
    \A u \in Used :
      \/ compose[u] = manifest[u]
      \/ \E release \in broken : compose[u] = ManifestOf[release][u]
      \/ cut = "yes" /\ compose[u] = NoImage

(* An upgrade that reports success has every service of the stack on the   *)
(* image of the release that was asked for, and that image on the host,    *)
(* those of a manifest file given to init as well (upgrade.go:37 calls     *)
(* them pinned): from a stack whose upgrade to that same release broke     *)
(* off, too, but not after one to another release did.                     *)
UpgradedIsTheRelease ==
  report = "upgraded" /\ broken = {} /\ cut = "no" =>
    \A c \in Used : /\ compose[c] = ManifestOf[target][c]
                    /\ compose[c] \in local \cup LocalImages

(* "Your stack has been upgraded to %s" (upgrade.go:74): every service     *)
(* that docker-compose.yml has then runs the image of that release.        *)
UpgradeReportsItsRelease ==
  report = "upgraded" =>
    \A c \in Used : compose[c] \in {ManifestOf[target][c], NoImage}

(* Numerically.                                                            *)
Older(a, b) == Len(a) = Len(b) /\ \E n \in 1 .. Len(a) :
                 /\ \A j \in 1 .. n - 1 : a[j] = b[j]
                 /\ a[n] < b[n]

(* Without --force no upgrade takes a stack to an older patch version, if  *)
(* the two have as many digits, or to another minor version                *)
(* (ValidateVersionUpgrade).                                               *)
NoDowngrade ==
  [][manifest' # manifest /\ force = "no" =>
       LET old == LabelOf[manifest["firefly"]] IN
         /\ old[1] = target[1] /\ old[2] = target[2]
         /\ ~Older(target[3], old[3])]_vars

(* Every command ends, however often a pull fails (RunDockerCommandRetry). *)
EveryCommandEnds == pc # "idle" ~> pc = "idle"

=============================================================================
