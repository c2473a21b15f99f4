---------------------------- MODULE RepoCommands ----------------------------
(* Four parts that share no state, side by side: the watch of the forge's  *)
(* checks, the evidence line of a pull request, the commands that edit a   *)
(* user's files, and the build of the plugin.  One of them runs; the       *)
(* others stay where they are.                                             *)
EXTENDS CiWatch

CONSTANTS
  Pools, Bodies, Decisions, MaxMoves,                               \* PrEvidence
  Commands, Crews, PolicyDocuments, SettingsDocuments, MaxEdits,    \* RepoFiles
  Skills, MaxBuilds, MaxActs                                        \* PluginBuild

VARIABLES
  part,
  forge, repo, ledger, check, draft, moves,
  file, inode, cmd, edits, owed,
  source, output, litter, skills, quarantine, build, fresh, acts, moments, kept

claiming == <<forge, repo, ledger, check, draft, moves>>
editing == <<file, inode, cmd, edits, owed>>
building == <<source, output, litter, skills, quarantine, build, fresh, acts, moments, kept>>

-----------------------------------------------------------------------------
Claiming == INSTANCE PrEvidence
Files == INSTANCE RepoFiles WITH fresh <- inode
Plugin == INSTANCE PluginBuild

(* Commits left the base at its first commit or before; a body is lines.   *)
Commits == [fork : 0 .. 1, own : SUBSET Claiming!Docs, tree : SUBSET Claiming!Docs]

WrittenClaims ==
  [label : Claiming!Labels, empty : BOOLEAN,
   names : SUBSET [doc : Claiming!Docs, quoted : BOOLEAN]]
WrittenLines == [kind : {"claim", "decorated", "fence"}, claim : WrittenClaims]

Recordings == [decision : Claiming!Labels \union {"none"}, paths : SUBSET Claiming!Docs]

ASSUME ClaimingAssumption ==
  /\ \A pool \in Pools : pool.ours \in Commits /\ pool.theirs \in Commits
  /\ \A body \in Bodies : body \in Seq(WrittenLines)
  /\ \A recording \in Decisions : recording \in Recordings

ASSUME BuildingAssumption == IsFiniteSet(Skills) /\ MaxBuilds \in Nat /\ MaxActs \in Nat

-----------------------------------------------------------------------------
ClaimingIdle == forge = 0 /\ repo = 0 /\ ledger = 0 /\ check = 0 /\ draft = 0 /\ moves = 0

CiIdle == Init /\ watch.watching

EditingIdle ==
  /\ file = Files!File(Files!Nothing)
  /\ inode = 2 /\ edits = 0
  /\ cmd = Files!Alone("none", {})
  /\ owed = [p \in Files!Paths |-> Files!Parts(p, file[p].content)]

BuildingIdle ==
  /\ Plugin!Init /\ skills = [n \in Skills |-> 0]
  /\ output["package"].bytes = 0 /\ source["module"] = 0

AllInit ==
  \/ part = "ci" /\ Init /\ ClaimingIdle /\ EditingIdle /\ BuildingIdle
  \/ part = "evidence" /\ CiIdle /\ Claiming!Init /\ EditingIdle /\ BuildingIdle
  \/ part = "files" /\ CiIdle /\ ClaimingIdle /\ Files!Init /\ BuildingIdle
  \/ part = "plugin" /\ CiIdle /\ ClaimingIdle /\ EditingIdle /\ Plugin!Init

AllNext ==
  /\ UNCHANGED part
  /\ \/ part = "ci" /\ Next /\ UNCHANGED <<claiming, editing, building>>
     \/ part = "evidence" /\ Claiming!Next /\ UNCHANGED <<vars, editing, building>>
     \/ part = "files" /\ Files!Next /\ UNCHANGED <<vars, claiming, building>>
     \/ part = "plugin" /\ Plugin!Next /\ UNCHANGED <<vars, claiming, editing>>

(* The watch polls on; everything else may stop.                           *)
AllSpec ==
  /\ AllInit
  /\ [][AllNext]_<<part, vars, claiming, editing, building>>
  /\ WF_vars(part = "ci" /\ Poll)

-----------------------------------------------------------------------------
(* PrEvidence: check-pr --pr judges the pull request it was shown by the   *)
(* changes that are its own, and drafted lines say what was changed.       *)
EvidenceHolds == part = "evidence" => Claiming!EvidenceHolds

(* RepoFiles: what users wrote and what stdd reported as recorded stays in *)
(* the files, but for what comes between the last comparison of bytes and  *)
(* the rename (publishNativeRepoFile).                                     *)
UserPartsSurvive == Files!UserPartsSurvive

(* RepoFiles: a policy entry that is recorded is one the reader sees, and  *)
(* changes nothing else it sees (appendPolicyEntry, parsePolicy); an init  *)
(* that is done has left its files in order, and one unusable hook file    *)
(* has kept it off the others (init.mjs).                                  *)
CommandsDeliver == Files!EntriesAreSeen /\ Files!InitIsWhole

(* PluginBuild: a build publishes the sources it has listed as they were   *)
(* at one moment, without one that came after the list, and the runtime's  *)
(* package file is from no later build than the files beside it            *)
(* (buildPlugin).                                                          *)
BundleIsSound == Plugin!BundleIsSound

(* PluginBuild: no tree a user has made is lost on its way to quarantine   *)
(* or back, and none that was found stays active (quarantineStaleSkill); a *)
(* build nobody disturbs fails only on what lies beside its files and does *)
(* not belong there (buildPlugin).                                         *)
BuildsRecover == Plugin!SkillsAreKept /\ Plugin!RetryHeals

(* CiWatch: the watch ends, whatever the forge does.                       *)
WatchEnded == part = "ci" ~> watch.verdict # "none"
=============================================================================
