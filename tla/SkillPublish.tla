---------------------------- MODULE SkillPublish ----------------------------
(***************************************************************************)
(* publish_skill_bundle (skills.py): a skill folder becomes a version in   *)
(* Langfuse (external) and gets its labels, in up to three calls any of    *)
(* which may fail or lose its answer.  Kits publish the same skill at the  *)
(* same time, and again after a failure.  A label is on one version at a   *)
(* time; `latest` is Langfuse's own and always on the last version.        *)
(***************************************************************************)
EXTENDS Naturals, Sequences, FiniteSets

CONSTANTS
  Publisher,  \* the invocations of publish_skill_bundle
  Bundle,     \* the contents of a folder that is a skill bundle
  Label,      \* labels of a user
  Asks,       \* the labels a kit may ask for, in order
  MaxVersions \* bound: versions of the skill

VARIABLES
  versions,   \* the versions of the skill, as Langfuse keeps them
  publish,    \* each invocation: where it is and what it holds
  abreast     \* history: who has seen or set a version's labels as they are

publishVars == <<versions, publish, abreast>>

NotABundle == "not a bundle"
Latest == "latest"
NoBody == "no version"
ASSUME BundleAssumption ==
  /\ NotABundle \notin Bundle /\ Latest \notin Label
  /\ Asks \subseteq Seq(Label \cup {"", Latest})

Quiet == [at |-> "idle", files |-> NotABundle, labels |-> {}, seen |-> 0,
          found |-> 0, version |-> 0, held |-> {}]
Finished == {"idle", "refused", "raised", "returned"}
Leaves(p, how) == publish' = [publish EXCEPT ![p].at = how]

(* _requested_labels drops `latest` and what is asked for twice.           *)
Requested(labels) == {labels[k] : k \in DOMAIN labels} \ {Latest}

StartPublish(p, files, labels, v5) ==
  /\ publish[p].at \in Finished
  /\ publish' = [publish EXCEPT ![p] = [Quiet EXCEPT
       !.at = IF files = NotABundle \/ "" \in Requested(labels) \/ ~v5
              THEN "refused" ELSE "look",
       !.files = files, !.labels = Requested(labels)]]
  /\ UNCHANGED <<versions, abreast>>

(* _latest_version, and _same_files by content hashes; a 404 is "none".    *)
SameFilesAndLabels(p) ==   \* labels that changed need a version too
  /\ versions # <<>> /\ versions[Len(versions)].files = publish[p].files
  /\ versions[Len(versions)].labels = publish[p].labels
SameFiles(p) == versions # <<>> /\ versions[Len(versions)].files = publish[p].files

Look(p) ==
  /\ publish[p].at = "look"
  /\ publish' = [publish EXCEPT ![p].seen = Len(versions),
       ![p].at = IF SameFiles(p) THEN "labels" ELSE "create",
       ![p].found = IF SameFiles(p) THEN Len(versions) ELSE 0,
       ![p].version = IF SameFiles(p) THEN Len(versions) ELSE 0,
       ![p].held = IF SameFiles(p) THEN versions[Len(versions)].labels ELSE {}]
  /\ abreast' = IF SameFiles(p) THEN [abreast EXCEPT ![Len(versions)] = @ \cup {p}]
                ELSE abreast
  /\ UNCHANGED versions

Create(p) ==
  /\ publish[p].at = "create" /\ Len(versions) < MaxVersions
  /\ versions' = Append(versions, [files |-> publish[p].files, labels |-> {},
                                   by |-> p, seen |-> publish[p].seen])
  /\ abreast' = Append(abreast, {p})
  /\ \/ publish' = [publish EXCEPT ![p].at = "labels", ![p].version = Len(versions) + 1,
                                   ![p].held = {}]
     \/ Leaves(p, "raised")             \* the answer is lost

(* _ensure_labels: only when the labels it holds are not those asked for.  *)
LabelsMissing(p) == ~(publish[p].labels \subseteq publish[p].held)
LabelsDiffer(p) == publish[p].held # publish[p].labels

SkipLabels(p) ==
  /\ publish[p].at = "labels" /\ ~LabelsDiffer(p)
  /\ Leaves(p, "returned") /\ UNCHANGED <<versions, abreast>>

(* set_labels replaces the labels of the version and takes those it sets   *)
(* off the others, which leaves nobody abreast of a version that lost one. *)
SetLabels(p) ==
  LET v == publish[p].version  set == publish[p].labels IN
  /\ publish[p].at = "labels" /\ LabelsDiffer(p)
  /\ versions' = [w \in DOMAIN versions |->
       [versions[w] EXCEPT !.labels = IF w = v THEN set ELSE @ \ set]]
  /\ abreast' = [w \in DOMAIN versions |->
       IF w = v THEN {p} ELSE IF versions[w].labels \cap set = {} THEN abreast[w] ELSE {}]
  /\ Leaves(p, "returned") \/ Leaves(p, "raised")

CallFails(p) ==
  /\ publish[p].at \notin Finished
  /\ Leaves(p, "raised") /\ UNCHANGED <<versions, abreast>>

PublishInit ==
  /\ versions = <<>> /\ abreast = <<>>
  /\ publish = [p \in Publisher |-> Quiet]

(* What publish returned is there as it was asked for (skills.py:33): the  *)
(* version it names has the folder's files, and the labels asked for and   *)
(* no others, unless another publish labelled that version, or took one of *)
(* its labels for another version, since this one saw or set them.         *)
PublishedAsAsked ==
  \A p \in Publisher : publish[p].at = "returned" =>
    LET v == publish[p].version IN
    /\ v \in DOMAIN versions /\ versions[v].files = publish[p].files
    /\ p \in abreast[v] => versions[v].labels = publish[p].labels

(* "When the latest version's file hashes match this folder, no new        *)
(* version is created" (skills.py:38): two versions in a row have the same *)
(* files only when the second publish looked before the first had created, *)
(* whatever failed in between and was run again.                           *)
NoNeedlessVersion ==
  \A v \in DOMAIN versions : v > 1 /\ versions[v].files = versions[v - 1].files =>
    versions[v].seen < v - 1
=============================================================================
