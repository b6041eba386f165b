-------------------------------- MODULE Versions --------------------------------
(* internal/podman: what the client makes of the version texts of Podman and of *)
(* the catalog.  A text is the sequence of its tokens, the dots left out: the   *)
(* letter v, dashes, numbers, and parts that strconv.Atoi refuses.              *)
(*                                                                              *)
(* A definition whose name ends in Bug is the one that follows it with one      *)
(* mistake in it.  Nothing uses it: the properties are tested against it.       *)
EXTENDS Naturals, Sequences, FiniteSets

CONSTANTS
    LetterV, Dash,
    Junk            \* an empty part, or one with a letter in it

Text == Seq(Nat \cup {LetterV, Dash, Junk})

ASSUME TokensAssumption == LetterV \notin Nat /\ Dash \notin Nat /\ Junk \notin Nat

(* TrimPrefix and SplitN: a leading v and everything from the first dash on are *)
(* dropped, so a release candidate counts as the release.                       *)
Trimmed(text) == IF text # <<>> /\ text[1] = LetterV THEN Tail(text) ELSE text

BeforeDash(t) == {i \in 1 .. Len(t) : \A j \in 1 .. i : t[j] # Dash}

Parts(text) == SubSeq(Trimmed(text), 1, Cardinality(BeforeDash(Trimmed(text))))

(* parseSemver: at least two parts, and the first three are numbers; whatever   *)
(* comes after them is not looked at.  The second result of the function ...    *)
Parses(text) ==
    LET p == Parts(text) IN
    Len(p) >= 2 /\ \A i \in {1, 2, 3} : i <= Len(p) => p[i] \notin {LetterV, Dash, Junk}

(* ... and the first, where a missing third part is 0.                          *)
Numbers(text) ==
    LET p == Parts(text) IN <<p[1], p[2], IF Len(p) >= 3 THEN p[3] ELSE 0>>

(* Compares part by part and forgets that an earlier part decides.              *)
GreaterOrEqualBug(v, w) == v[1] >= w[1] /\ v[2] >= w[2] /\ v[3] >= w[3]

GreaterOrEqual(v, w) ==
    \/ v[1] > w[1]
    \/ v[1] = w[1] /\ v[2] > w[2]
    \/ v[1] = w[1] /\ v[2] = w[2] /\ v[3] >= w[3]

VersionAtLeast(text, minimum) ==
    Parses(text) /\ Parses(minimum) /\ GreaterOrEqual(Numbers(text), Numbers(minimum))

SupportedMinimumVersion == <<5, 8, 2>>
QuadletAPIIntroductionVersion == <<5, 8, 0>>

(* Takes the introduction of the API for the floor of the product.              *)
IsSupportedVersionBug(text) == VersionAtLeast(text, QuadletAPIIntroductionVersion)

IsSupportedVersion(text) == VersionAtLeast(text, SupportedMinimumVersion)

(* ProfileForVersion: what may be done with quadlets.                           *)
HasQuadletAPI(text) == VersionAtLeast(text, QuadletAPIIntroductionVersion)

================================================================================
