------------------------------ MODULE HostGlob ------------------------------
(***************************************************************************)
(* The host globs of internal/auth/host.go.  A host and a glob are the     *)
(* sequences of their labels, trimmed and lower-cased, as the functions    *)
(* split them before they compare.  A host has lost its port by then, a    *)
(* glob keeps the one it was written with: its last label is then one that *)
(* no host has.  (Hosts with a bracket that is never closed, which keep    *)
(* their colons, are left out.)                                            *)
(***************************************************************************)
EXTENDS Integers, Sequences

CONSTANTS
  Label,     \* the labels that hosts and globs may have
  PortLabel, \* labels that end in a port, which only a glob may have
  Star,      \* the label "*"
  NoLabel    \* the label between two dots, before the first or after the last

ASSUME LabelAssumption ==
  /\ Label \intersect PortLabel = {}
  /\ Star # NoLabel /\ {Star, NoLabel} \intersect (Label \union PortLabel) = {}

\* Splitting a text gives at least one label.
Host == Seq(Label \union {Star, NoLabel}) \ {<<>>}
Glob == Seq(Label \union PortLabel \union {Star, NoLabel}) \ {<<>>}

\* The bare "*" is any host.
AnyHost == <<Star>>

\* The empty text.
Nothing == <<NoLabel>>

\* labelMatch: Star is any label but the empty one.
LabelMatches(pattern, label) == IF pattern = Star THEN label # NoLabel ELSE pattern = label

\* HostMatches with matchHostGlob: the same number of labels, each of them matched.
HostMatches(glob, host) ==
  /\ Nothing \notin {glob, host}
  /\ \/ glob = AnyHost
     \/ /\ Len(glob) = Len(host)
        /\ \A i \in DOMAIN glob : LabelMatches(glob[i], host[i])

\* labelsCompatible: Star goes with every label.
LabelsCompatible(a, b) == Star \in {a, b} \/ a = b

\* A plausible slip: one glob is taken for a host that the other may match.
OverlapOneWay(a, b) == HostMatches(a, b)

\* A plausible slip: one pair of labels that agrees is enough.
OverlapAnyStar(a, b) ==
  \/ AnyHost \in {a, b}
  \/ Len(a) = Len(b) /\ \E i \in DOMAIN a : LabelsCompatible(a[i], b[i])

\* HostGlobsOverlap, decided without looking at a host.
HostGlobsOverlap(a, b) ==
  /\ Nothing \notin {a, b}
  /\ \/ AnyHost \in {a, b}
     \/ /\ Len(a) = Len(b)
        /\ \A i \in DOMAIN a : LabelsCompatible(a[i], b[i])
=============================================================================
