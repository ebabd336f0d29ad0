--------------------------------- MODULE Glob ---------------------------------
(***************************************************************************)
(* The lease pattern matcher (internal/glob/glob.go): literalSegmentMatch  *)
(* against the language a segment pattern denotes, and Covers, on which    *)
(* IsLeaseSubset rests, against inclusion of what Match accepts.  A        *)
(* segment is a sequence of characters, a pattern or a target a sequence   *)
(* of segments (what splitSep returns).                                    *)
(***************************************************************************)
EXTENDS Naturals, Sequences, SequencesExt

CONSTANTS Chars,       \* characters other than the star
          MaxPatChars, \* bound on the length of a pattern's segment
          MaxChars,    \* bound on the length of a target's segment
          MaxPatSegs,  \* bound on the segments of a pattern
          MaxSegs,     \* bound on the segments of a target
          Letters,     \* characters of the segments tried one by one
          MaxLetters   \* bound on their length

Star == "*"
UpTo(S, n) == UNION {[1..k -> S] : k \in 0..n}

PatSegments == UpTo(Chars \cup {Star}, MaxPatChars)
Segments == UpTo(Chars, MaxChars)
Patterns == UpTo(PatSegments, MaxPatSegs)
Targets == UpTo(Segments, MaxSegs)

From(s, i) == SubSeq(s, i, Len(s))

-------------------------------------------------------------------------------
(* literalSegmentMatch.                                                    *)

\* strings.Split(pat, "*").
RECURSIVE Parts(_)
Parts(pat) ==
  IF ~Contains(pat, Star) THEN <<pat>>
  ELSE LET i == SelectInSeq(pat, LAMBDA c : c = Star)
       IN <<SubSeq(pat, 1, i - 1)>> \o Parts(From(pat, i + 1))

\* strings.Index: where part occurs first in s, or -1 (here: none).
Occurs(s, part) == {i \in 1..(Len(s) + 1) : IsPrefix(part, From(s, i))}

\* What is left of s after the middle parts, each found as early as possible.
RECURSIVE Skip(_, _)
Skip(s, parts) ==
  IF parts = <<>> THEN {s}
  ELSE LET at == Occurs(s, Head(parts))
       IN IF at = {} THEN {}
          ELSE LET i == CHOOSE i \in at : \A k \in at : i <= k
               IN Skip(From(s, i + Len(Head(parts))), Tail(parts))

\* Mutant of SegmentMatch: the last part is looked for in all of s.
SegmentMatchOverlapping(pat, s) ==
  \/ pat = s
  \/ /\ Contains(pat, Star)
     /\ LET parts == Parts(pat)
        IN /\ IsPrefix(parts[1], s)
           /\ Skip(From(s, Len(parts[1]) + 1), SubSeq(parts, 2, Len(parts) - 1)) # {}
           /\ IsSuffix(Last(parts), s)

SegmentMatch(pat, s) ==
  \/ pat = s
  \/ /\ Contains(pat, Star)
     /\ LET parts == Parts(pat)
        IN /\ IsPrefix(parts[1], s)
           /\ \E rest \in Skip(From(s, Len(parts[1]) + 1), SubSeq(parts, 2, Len(parts) - 1)) :
                IsSuffix(Last(parts), rest)

-------------------------------------------------------------------------------
(* Match and Covers.                                                       *)

SingleStar == <<Star>>
DoubleStar == <<Star, Star>>

RECURSIVE Match(_, _)
Match(p, s) ==
  IF p = <<>> THEN s = <<>>
  ELSE CASE Head(p) = DoubleStar -> \E i \in 1..(Len(s) + 1) : Match(Tail(p), From(s, i))
         [] Head(p) = SingleStar -> s # <<>> /\ Match(Tail(p), Tail(s))
         [] OTHER -> s # <<>> /\ SegmentMatch(Head(p), Head(s)) /\ Match(Tail(p), Tail(s))

SegmentCovers(p, c) ==
  \/ p = c
  \/ ~Contains(c, Star) /\ SegmentMatch(p, c)

\* Mutant of Covers: one star covers any child segment, also "**".
RECURSIVE CoversLoosely(_, _)
CoversLoosely(p, c) ==
  IF p = <<>> THEN c = <<>>
  ELSE CASE Head(p) = DoubleStar ->
              \E i \in 1..(Len(c) + 1) : CoversLoosely(Tail(p), From(c, i))
         [] Head(p) = SingleStar -> c # <<>> /\ CoversLoosely(Tail(p), Tail(c))
         [] OTHER -> /\ c # <<>> /\ Head(c) \notin {SingleStar, DoubleStar}
                     /\ SegmentCovers(Head(p), Head(c)) /\ CoversLoosely(Tail(p), Tail(c))

RECURSIVE Covers(_, _)
Covers(p, c) ==
  IF p = <<>> THEN c = <<>>
  ELSE CASE Head(p) = DoubleStar -> \E i \in 1..(Len(c) + 1) : Covers(Tail(p), From(c, i))
         [] Head(p) = SingleStar -> c # <<>> /\ Head(c) # DoubleStar /\ Covers(Tail(p), Tail(c))
         [] OTHER -> /\ c # <<>> /\ Head(c) \notin {SingleStar, DoubleStar}
                     /\ SegmentCovers(Head(p), Head(c)) /\ Covers(Tail(p), Tail(c))

-------------------------------------------------------------------------------
(* One question at a time.                                                 *)

VARIABLES parent, child, answer
vars == <<parent, child, answer>>

Init == parent \in Patterns /\ child \in Patterns /\ answer = "none"

Ask == /\ answer = "none"
       /\ answer' = IF Covers(parent, child) THEN "covers" ELSE "no"
       /\ UNCHANGED <<parent, child>>

Next == Ask
Spec == Init /\ [][Next]_vars

\* The language of a segment pattern, by definition.
RECURSIVE Denotes(_, _)
Denotes(pat, s) ==
  IF pat = <<>> THEN s = <<>>
  ELSE IF Head(pat) = Star THEN \E i \in 1..(Len(s) + 1) : Denotes(Tail(pat), From(s, i))
  ELSE s # <<>> /\ Head(s) = Head(pat) /\ Denotes(Tail(pat), Tail(s))

(* "Covers is sound - it never returns true when the child grants          *)
(* authority the parent does not" (glob.go:19): every target the child     *)
(* pattern matches is matched by the parent pattern.                       *)
CoversSound ==
  answer = "covers" => \A s \in Targets : Match(child, s) => Match(parent, s)

(* literalSegmentMatch: "Each * matches any (possibly empty) sequence of   *)
(* characters" (glob.go:126); the greedy search for the parts between      *)
(* stars finds a match whenever there is one, and only then.               *)
SegmentsExact ==
  (parent = <<>> /\ child = <<>> /\ answer # "none") =>
    \A pat \in UpTo(Letters \cup {Star}, MaxLetters), s \in UpTo(Letters, MaxLetters) :
      SegmentMatch(pat, s) <=> Denotes(pat, s)
===============================================================================
