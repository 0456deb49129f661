---------------------------- MODULE VersionOrder ----------------------------
(***************************************************************************)
(* The order of package versions (version_compare.rs, parse_version.rs),    *)
(* by which sort_candidates puts the newest first.  Module PackageDb        *)
(* numbers the versions of a package, which is right if this is an order.   *)
(*                                                                          *)
(* A version is an epoch, an upstream part and a revision; a part is a      *)
(* sequence of numbers, words, tildes and other symbols, where no two       *)
(* numbers are neighbours.  Words and symbols are numbered in ASCII order,  *)
(* so what one word has in common with another is left out.  Numbers that   *)
(* do not fit 64 bits, and the underscores that conda takes for dots, are   *)
(* left out too.                                                            *)
(***************************************************************************)
EXTENDS Integers, Sequences, FiniteSets

CONSTANTS Markers, \* words that begin with rc, beta, alpha, pre, dev or snapshot
          Short,   \* the words a and b, markers when a small number follows
          Release, \* the word r of an APK revision
          Samples  \* versions to be compared

Number(n) == [class |-> "number", value |-> n]
Word(n) == [class |-> "word", value |-> n]
Symbol(n) == [class |-> "symbol", value |-> n]
Tilde == [class |-> "tilde", value |-> 0]
Dash == Symbol(1)
Dot == Symbol(2)

Token == [class : {"number"}, value : Nat]
           \cup [class : {"word", "symbol"}, value : Nat \ {0}] \cup {Tilde}

IsNumber(x) == x.class = "number"
HasClass(part, class) == \E i \in DOMAIN part : part[i].class = class
Apart(part) == \A i \in 2..Len(part) : ~(IsNumber(part[i - 1]) /\ IsNumber(part[i]))

VARIABLES format, \* the format of the packages
          best    \* the first candidate, of those considered

versionVars == <<format, best>>

ASSUME VersionOrderAssumption ==
  /\ IsFiniteSet(Samples)
  /\ \A a \in Samples : /\ a.epoch \in Nat
                        /\ {a.upstream, a.revision} \subseteq Seq(Token)
                        /\ Apart(a.upstream)

(* What peek and next answer: the token, or that there is none. *)
End == [class |-> "end", value |-> 0]
At(part, i) == IF i \in DOMAIN part THEN part[i] ELSE End

UpTo(part, i) == SubSeq(part, 1, i)
From(part, i) == SubSeq(part, i, Len(part))
Longer(v, w) == IF Len(v) < Len(w) THEN Len(w) ELSE Len(v)

(* Ordering is -1, 0 or 1. *)
Order(m, n) == IF m < n THEN -1 ELSE IF m = n THEN 0 ELSE 1
Then(order, next) == IF order = 0 THEN next ELSE order

(* What a loop returns that goes on while its rounds find both equal. *)
First(orders) ==
  LET decided == {k \in DOMAIN orders : orders[k] # 0}
  IN  IF decided = {} THEN 0
      ELSE orders[CHOOSE k \in decided : \A j \in decided : k =< j]

(* What x has become after so many rounds. *)
Rounds(step, x) == LET after[k \in Nat] == IF k = 0 THEN x ELSE step[after[k - 1]]
                   IN  after

(* How much of the beginning the loop takes that stops at the first not     *)
(* accepted.                                                                *)
Stop(accepted) ==
  CHOOSE n \in {0} \cup DOMAIN accepted :
    (\A i \in 1..n : accepted[i]) /\ (n + 1 \in DOMAIN accepted => ~accepted[n + 1])
-----------------------------------------------------------------------------
(* char_precedence, and the order of characters within a class.             *)
Precedence(x) == CASE x.class = "tilde" -> 0 [] x.class = "word" -> 1 [] OTHER -> 2
TokenOrder(x, y) == Then(Order(Precedence(x), Precedence(y)), Order(x.value, y.value))

(* Faulty: the longer one is more. *)
EndOrderByLength(x, y) == IF x = y THEN 0 ELSE IF x = End THEN -1 ELSE 1

(* One has ended: what the other goes on with is more, unless a tilde. *)
EndOrder(x, y) ==
  IF x = y THEN 0
  ELSE IF x = End THEN (IF y = Tilde THEN 1 ELSE -1) ELSE IF x = Tilde THEN -1 ELSE 1

(* debian_string_compare and rpm_string_compare, which are the same. *)
CharOrder(x, y) == IF End \in {x, y} THEN EndOrder(x, y) ELSE TokenOrder(x, y)
StringOrder(s, t) == First([i \in 1..Longer(s, t) |-> CharOrder(At(s, i), At(t, i))])
-----------------------------------------------------------------------------
(* debian_version_compare and rpm_version_compare.                          *)

(* extract_segment: the numbers, or what is no number, at the beginning;    *)
(* for RPM up to a dot, which is dropped.                                   *)
InSegment(style, v) ==
  [i \in DOMAIN v |-> IsNumber(v[i]) = IsNumber(v[1]) /\ (style = "rpm" => v[i] # Dot)]
Segment(style, v) == UpTo(v, Stop(InSegment(style, v)))
Rest(style, v) ==
  LET n == Len(Segment(style, v))
  IN  From(v, IF style = "rpm" /\ At(v, n + 1) = Dot THEN n + 2 ELSE n + 1)

(* A number before a segment that begins with other: for Debian a word is   *)
(* more than a number, for RPM less.                                        *)
MixedOrder(style, other) == IF style = "rpm" \/ other = Tilde THEN 1 ELSE -1

(* One round: two numbers, a number and another segment, or two others. *)
RoundOrder(style, v, w) ==
  LET x == At(v, 1)
      y == At(w, 1)
  IN  IF End \in {x, y} THEN EndOrder(x, y)
      ELSE IF IsNumber(x)
        THEN IF IsNumber(y) THEN Order(x.value, y.value) ELSE MixedOrder(style, y)
      ELSE IF IsNumber(y) THEN -MixedOrder(style, x)
      ELSE StringOrder(Segment(style, v), Segment(style, w))

Rests(style, v) == Rounds([w \in Seq(Token) |-> Rest(style, w)], v)
PartOrder(style, v, w) ==
  First([k \in 0..Longer(v, w) |->
           RoundOrder(style, Rests(style, v)[k], Rests(style, w)[k])])
-----------------------------------------------------------------------------
(* The special cases before that.                                           *)

IsMarker(part) ==
  /\ part # <<>> /\ part[1].class = "word"
  /\ \/ part[1].value \in Markers
     \/ /\ part[1].value \in Short /\ Len(part) = 2
        /\ IsNumber(part[2]) /\ part[2].value =< 20

(* v is w with a pre-release marker. *)
IsPreRelease(fmt, v, w) ==
  /\ Len(w) < Len(v) /\ UpTo(v, Len(w)) = w
  /\ \/ At(v, Len(w) + 1) = Dash /\ IsMarker(From(v, Len(w) + 2))
     \/ fmt = "conda" /\ IsMarker(From(v, Len(w) + 1))

IsLastDot(v, i) == i \in DOMAIN v /\ v[i] = Dot /\ \A j \in DOMAIN v : v[j] = Dot => j =< i

(* After the last dot v has a marker where w has a number. *)
HasMarkerForNumber(v, w) ==
  \E i \in DOMAIN v \cap DOMAIN w :
    /\ IsLastDot(v, i) /\ IsLastDot(w, i) /\ UpTo(v, i - 1) = UpTo(w, i - 1)
    /\ IsMarker(From(v, i + 1)) /\ IsNumber(At(w, i + 1))

(* The library for versions of numbers and dots. *)
Versioning(v, w) == PartOrder("debian", v, w)

(* compare_upstream_with_format. *)
UpstreamOrder(fmt, v, w) ==
  IF IsPreRelease(fmt, v, w) THEN -1
  ELSE IF IsPreRelease(fmt, w, v) THEN 1
  ELSE IF HasMarkerForNumber(v, w) THEN -1
  ELSE IF HasMarkerForNumber(w, v) THEN 1
  ELSE IF fmt = "rpm" THEN PartOrder("rpm", v, w)
  ELSE IF \E class \in {"tilde", "word"} : HasClass(v, class) \/ HasClass(w, class)
    THEN PartOrder("debian", v, w)
    ELSE Versioning(v, w)
-----------------------------------------------------------------------------
None == <<Number(0)>>

(* normalize_apk_revision: r1 becomes ~1. *)
Normalized(revision) ==
  IF /\ Len(revision) = 2 /\ revision[1] = Word(Release) /\ IsNumber(revision[2])
    THEN <<Tilde, revision[2]>> ELSE revision

(* For RPM and Pacman no revision is less than any. *)
RevisionOrder(fmt, r, s) ==
  LET v == Normalized(r)
      w == Normalized(s)
  IN  IF fmt = "rpm" /\ v # w /\ None \in {v, w}
        THEN IF v = None THEN -1 ELSE 1
        ELSE UpstreamOrder(fmt, v, w)

(* compare_with_format. *)
Compare(fmt, a, b) ==
  Then(Order(a.epoch, b.epoch),
       Then(UpstreamOrder(fmt, a.upstream, b.upstream),
            RevisionOrder(fmt, a.revision, b.revision)))
-----------------------------------------------------------------------------
(* sort_candidates: the newest comes first.  What the sort compares before  *)
(* it is left open.                                                         *)

Formats == {"rpm", "deb", "conda"}

VersionInit == format \in Formats /\ best \in Samples

Consider(v) ==
  /\ format \in Formats
  /\ best' = IF Compare(format, v, best) = 1 THEN v ELSE best
  /\ UNCHANGED format

VersionSpec == VersionInit /\ [][\E v \in Samples : Consider(v)]_versionVars
-----------------------------------------------------------------------------
(* Properties.                                                              *)

MarkerFree(part) == \A i \in DOMAIN part : ~IsMarker(From(part, i))
Plain == {a \in Samples : MarkerFree(a.upstream) /\ MarkerFree(a.revision)}

(* Each version with how many are older. *)
Places == {[of |-> a, in |-> fmt, after |-> Cardinality({b \in Plain : Compare(fmt, b, a) = -1})] :
             a \in Plain, fmt \in Formats}

(* The Debian policy (version_compare.rs:12): strings of no digits and      *)
(* numbers are compared in turn, where what is missing is the empty string  *)
(* or 0; letters sort before all else, and even the end of a string sorts   *)
(* after a tilde.                                                           *)
Text(v) == UpTo(v, Stop([i \in DOMAIN v |-> ~IsNumber(v[i])]))
Figure(v) == At(v, Len(Text(v)) + 1).value
Beyond(v) == From(v, Len(Text(v)) + 2)

Sorting(x) ==
  CASE x = Tilde -> 0 [] x = End -> 1 [] x.class = "word" -> 2 [] OTHER -> 3
Lexical(s, t) ==
  First([i \in 1..Longer(s, t) |->
           LET x == At(s, i)
               y == At(t, i)
           IN  Then(Order(Sorting(x), Sorting(y)), Order(x.value, y.value))])

Beyonds(v) == Rounds([w \in Seq(Token) |-> Beyond(w)], v)
Policy(v, w) ==
  First([k \in 0..Longer(v, w) |->
           LET x == Beyonds(v)[k]
               y == Beyonds(w)[k]
           IN  Then(Lexical(Text(x), Text(y)), Order(Figure(x), Figure(y)))])

EndsInNumber(a) == a.upstream # <<>> /\ IsNumber(a.upstream[Len(a.upstream)])

(* Whichever of two versions is given first, the same is the newer.         *)
(* Versions without pre-release markers can be put in one order, as         *)
(* sort_candidates does (resolve/candidate.rs:270-332): how many are older  *)
(* than a version tells its place.  With markers they cannot: 6.0-b24-1 <   *)
(* 6.0-rc1 < 6.0 < 6.0-b24-1, of which version_compare.rs:940-945 tests the *)
(* last two.  And the order of Debian packages is that of the policy        *)
(* (version_compare.rs:4) between upstream versions that end in a number;   *)
(* a missing number, which is to count as 0, is less than 0 here.           *)
VersionsOrdered ==
  format \in Formats =>
    /\ \A a \in Samples : Compare(format, best, a) = -Compare(format, a, best)
    /\ \A p \in {q \in Places : q.in = format /\ q.of = best}, q \in Places :
         q.in = format =>
           /\ Compare(format, best, q.of) = Order(p.after, q.after)
           /\ format = "deb" /\ EndsInNumber(best) /\ EndsInNumber(q.of) =>
                UpstreamOrder("deb", best.upstream, q.of.upstream) = Policy(best.upstream, q.of.upstream)
=============================================================================
