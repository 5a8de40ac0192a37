-------------------------------- MODULE SemVer --------------------------------
(***************************************************************************)
(* Versions and their order (domain/semver.py), by which an update is      *)
(* offered: the comparator of SemVer and the choice of the release a node  *)
(* is upgraded to.                                                         *)
(*                                                                         *)
(* An identifier of a pre-release is numeric or not; its rank stands for   *)
(* its number, or for its place among the words in the order of their      *)
(* characters.  No number has leading zeros (_SEMVER_REGEX), so that two   *)
(* identifiers are equal as texts when they are as records.  A release     *)
(* that is no pre-release has no identifiers.  Build metadata takes no     *)
(* part in any comparison.                                                 *)
(***************************************************************************)
EXTENDS Integers, Sequences

CONSTANTS
    NoChannel,    \* no channel is asked for
    Channel(_)    \* SemVer.channel: what the text of a pre-release says, "stable" without one

Identifier == [numeric : BOOLEAN, rank : Nat]
SemanticVersion == [major : Nat, minor : Nat, patch : Nat, prerelease : Seq(Identifier)]

(* (major, minor, patch) of the two, compared as Python compares tuples.   *)
SameCore(a, b) == a.major = b.major /\ a.minor = b.minor /\ a.patch = b.patch
CoreLess(a, b) ==
  \/ a.major < b.major
  \/ a.major = b.major /\ a.minor < b.minor
  \/ a.major = b.major /\ a.minor = b.minor /\ a.patch < b.patch

(* Numbers come before words.                                              *)
IdentifierLess(x, y) == IF x.numeric = y.numeric THEN x.rank < y.rank ELSE x.numeric

(* The first identifiers that differ decide, else the number of them.      *)
Differ(p, q, i) ==
  /\ i \in DOMAIN p /\ i \in DOMAIN q /\ p[i] # q[i]
  /\ \A j \in 1 .. i - 1 : p[j] = q[j]
PrereleaseLess(p, q) ==
  \/ \E i \in DOMAIN p : Differ(p, q, i) /\ IdentifierLess(p[i], q[i])
  \/ Len(p) < Len(q) /\ \A i \in DOMAIN p : p[i] = q[i]

(* A release is above its pre-releases.                                    *)
Less(a, b) ==
  IF ~SameCore(a, b) THEN CoreLess(a, b)
  ELSE /\ a.prerelease # <<>>
       /\ b.prerelease = <<>> \/ PrereleaseLess(a.prerelease, b.prerelease)

-----------------------------------------------------------------------------
(* The choice of an upgrade.  Releases that differ in their build metadata *)
(* only are one version here, as they are in seen_versions.                *)

IsChannelAllowed(release, user) ==
  \/ user = "alpha"
  \/ user = "beta" /\ release \in {"beta", "stable"}
  \/ user = "stable" /\ release = "stable"

TargetChannel(current, channel) == IF channel = NoChannel THEN Channel(current) ELSE channel

NewerReleases(current, releases, channel) ==
  {v \in releases : IsChannelAllowed(Channel(v), TargetChannel(current, channel)) /\ Less(current, v)}

(* The last of the newer releases in ascending order, if there are any.    *)
ResolveDirectUpgrade(current, releases, channel) ==
  LET newer == NewerReleases(current, releases, channel)
  IN  {v \in newer : \A w \in newer : w = v \/ Less(w, v)}
===============================================================================
