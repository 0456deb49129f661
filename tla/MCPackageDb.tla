---------------------------- MODULE MCPackageDb ----------------------------
(***************************************************************************)
(* Instances of PackageDb for TLC: three names, so that a package can need  *)
(* one through another, with every requirement relation among them.  That   *)
(* versions can be numbered at all is checked beside it: all upstream parts *)
(* of up to three of these tokens, and all combinations of some parts.      *)
(***************************************************************************)
EXTENDS PackageDb, VersionOrder

MCNames == 1..3

(* The essential name, the meta-package, or two names of which one may need *)
(* the other.                                                               *)
MCSpecs == {{1}, {3}, {1, 2}}

(* The words are b, git, r and rc.  A dash before a number begins a revision *)
(* (parse_version.rs:70-159).                                                *)
Tokens == {Number(0), Number(2), Tilde, Word(2), Dash, Dot}
Alike == {"number", "word"}
Parts == {v \in UNION {[1..n -> Tokens] : n \in 0..3} :
            \A i \in 2..Len(v) :
              /\ v[i].class \in Alike => v[i - 1].class # v[i].class
              /\ IsNumber(v[i]) => v[i - 1] # Dash}

One == <<Number(1)>>
Few == {One, One \o <<Dot>> \o One, One \o <<Tilde>>, One \o <<Dash, Word(1), Number(24)>>,
        One \o <<Dot, Word(2)>>, One \o <<Dot, Word(4)>>}
Revisions == {None, One, <<Word(3), Number(0)>>, <<Word(2)>>, One \o <<Tilde>>}

MCSamples == [epoch : {0}, upstream : Parts, revision : {None}]
               \cup [epoch : {0, 1}, upstream : Few, revision : Revisions]

(* The database from every relation of requirements, or the candidates with *)
(* every first one.                                                         *)
Databases == Init /\ format = "none" /\ best = "none"
Candidates == VersionInit /\ Init /\ requires = [n \in Names |-> {}]

Command == Next /\ UNCHANGED versionVars
Comparison == (\E v \in Samples : Consider(v)) /\ UNCHANGED vars

MCInit == Databases \/ Candidates
MCSpec == MCInit /\ [][(format = "none" /\ Command) \/ Comparison]_<<vars, versionVars>>
=============================================================================
