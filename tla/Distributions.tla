--------------------------- MODULE Distributions ---------------------------
(***************************************************************************)
(* The distributions of dbgen and qgen: read from dists.dss (bm_utils.c:   *)
(* read_dist), drawn from by weight (pick_str), and several different      *)
(* members drawn at a time (agg_str; permute.c).                           *)
(*                                                                         *)
(* A line of the file is a record: BEGIN and END with the name of a        *)
(* section, COUNT, a member with its weight, or a comment.  A draw is a    *)
(* choice; its stream is in Streams.  tpch_tools has a permutation of its  *)
(* own.                                                                    *)
(***************************************************************************)
EXTENDS Integers, Sequences, FiniteSets, SequencesExt

CONSTANTS
  Files,         \* the files
  Wanted,        \* the name of the section to read
  Colours        \* how many members agg_str takes: P_NAME_SCL, 5 of 92

Begin(name) == [kind |-> "BEGIN", name |-> name]
End(name)   == [kind |-> "END", name |-> name]
Count(n)    == [kind |-> "COUNT", n |-> n]
Member(text, weight) == [kind |-> "member", text |-> text, weight |-> weight]
Comment     == [kind |-> "#"]

ASSUME DistributionsAssumption ==
  /\ Colours \in Nat
  /\ \A f \in Files : f \in Seq(Range(f)) /\ \A k \in DOMAIN f :
       CASE f[k].kind = "BEGIN"  -> f[k] = Begin(f[k].name)
         [] f[k].kind = "COUNT"  -> f[k].n \in Nat
         [] f[k].kind = "member" -> f[k].weight \in Int
         [] OTHER -> TRUE

VARIABLES
  dist_pc,       \* "read" (read_dist), "failed" (its exit), "loaded", "shuffle" (permute),
                 \* "take" (agg_str)
  file, at,      \* the file, and the line that is next
  name_set,      \* the section was found
  list,          \* target->list: texts with the weights up to and with them
  size,          \* target->count
  perm,          \* target->permute
  source, pass,  \* permute: where the next member is, and the pass of its loop
  newer,         \* the permutation of tpch_tools
  taken          \* the members agg_str has

dist_vars == <<dist_pc, file, at, name_set, list, size, perm, source, pass, newer, taken>>

Top == IF list = <<>> THEN 0 ELSE list[Len(list)].weight

-----------------------------------------------------------------------------
DistInit ==
  /\ dist_pc = "read"
  /\ file \in Files /\ at = 1 /\ name_set = FALSE
  /\ list = <<>> /\ size = 0
  /\ perm = <<>> /\ source = 0 /\ pass = 0 /\ newer = FALSE /\ taken = <<>>

Entry(line) == [text |-> line.text, weight |-> Top + line.weight]

Sought(line) == line.kind = "BEGIN" /\ line.name = Wanted

\* read_dist: one line.  END returns before the members are counted.
ReadLine ==
  /\ dist_pc = "read" /\ at <= Len(file)
  /\ LET line == file[at]
     IN  /\ name_set' = (name_set \/ Sought(line))
         /\ dist_pc' = IF name_set /\ line.kind = "END" THEN "loaded" ELSE "read"
         /\ size' = IF name_set /\ line.kind = "COUNT" THEN line.n ELSE size
         /\ list' = IF name_set /\ line.kind = "member" THEN Append(list, Entry(line)) ELSE list
  /\ at' = at + 1
  /\ UNCHANGED <<file, perm, source, pass, newer, taken>>

\* The file ends first.
ReadEnd ==
  /\ dist_pc = "read" /\ at > Len(file)
  /\ dist_pc' = IF Len(list) = size THEN "loaded" ELSE "failed"
  /\ UNCHANGED <<file, at, name_set, list, size, perm, source, pass, newer, taken>>

\* Faulty variant: the draw is taken for one from 0.
pick_str_Past(j) == CHOOSE i \in 1..Len(list) : list[i].weight >= j - 1
                      /\ \A k \in 1..(i - 1) : list[k].weight < j - 1
\* pick_str: the first member whose weight, with those before it, reaches j.
pick_str(j) == CHOOSE i \in 1..Len(list) : list[i].weight >= j
                 /\ \A k \in 1..(i - 1) : list[k].weight < j

\* agg_str: permute_dist(d) fills the array, if there is none, and permute all of it again.
StartShuffle ==
  /\ dist_pc = "loaded" /\ Len(list) >= Colours /\ Colours > 0
  /\ perm' = [i \in 1..size |-> i]
  /\ pass' = 1
  /\ newer' \in BOOLEAN
  /\ dist_pc' = "shuffle"
  /\ UNCHANGED <<file, at, name_set, list, size, source, taken>>

\* Faulty variant: the member is copied and not exchanged.
Exchange_Copy(a, i, j) == [a EXCEPT ![i] = a[j]]
Exchange(a, i, j) == [a EXCEPT ![i] = a[j], ![j] = a[i]]

\* permute: one pass of its loop.
Shuffle ==
  /\ dist_pc = "shuffle" /\ ~newer /\ pass <= size
  /\ \E j \in 1..size : perm' = Exchange(perm, pass, j)
  /\ pass' = pass + 1
  /\ UNCHANGED <<dist_pc, file, at, name_set, list, size, source, newer, taken>>

\* tpch_tools: a pass draws from the members that no pass has placed yet.
ShuffleRest ==
  /\ dist_pc = "shuffle" /\ newer /\ pass <= size
  /\ \E j \in pass..size : perm' = Exchange(perm, pass, j)
  /\ pass' = pass + 1
  /\ UNCHANGED <<dist_pc, file, at, name_set, list, size, source, newer, taken>>

\* permute returns the first member ...
TakeFirst ==
  /\ dist_pc = "shuffle" /\ ~newer /\ pass > size
  /\ source' = 1
  /\ taken' = <<perm[1]>>
  /\ dist_pc' = "take"
  /\ UNCHANGED <<file, at, name_set, list, size, perm, pass, newer>>

\* ... and when it is called with NULL the one after it, or the first one again.
TakeNext ==
  /\ dist_pc = "take" /\ Len(taken) < Colours
  /\ source' = IF source + 1 > size THEN 1 ELSE source + 1
  /\ taken' = Append(taken, perm[source'])
  /\ UNCHANGED <<dist_pc, file, at, name_set, list, size, perm, pass, newer>>

\* tpch_tools: agg_str reads the permuted array.
TakeAll ==
  /\ dist_pc = "shuffle" /\ newer /\ pass > size
  /\ taken' = SubSeq(perm, 1, Colours)
  /\ dist_pc' = "take"
  /\ UNCHANGED <<file, at, name_set, list, size, perm, source, pass, newer>>

DistNext ==
  \/ ReadLine \/ ReadEnd \/ StartShuffle \/ Shuffle \/ ShuffleRest
  \/ TakeFirst \/ TakeNext \/ TakeAll

DistSpec == DistInit /\ [][DistNext]_dist_vars

-----------------------------------------------------------------------------
(***************************************************************************)
(* Properties.                                                             *)
(***************************************************************************)

\* The lines of the section's members, wherever in the file it stands.
SectionStart == {i \in DOMAIN file : file[i] = Begin(Wanted)}
Section ==
  LET b == CHOOSE i \in SectionStart : \A k \in SectionStart : i <= k
  IN  {i \in (b + 1)..Len(file) : /\ file[i].kind = "member"
                                 /\ \A k \in (b + 1)..i : file[k].kind # "END"}
\* The place of a member among them.
PlaceOf(i) == Cardinality({k \in Section : k <= i})

\* A distribution that was read is the section of its name, whatever stands before, after or
\* in between; and each member is drawn as often as its weight says: of the values that
\* pick_str draws from, so many pick it.
DrawnByWeight ==
  dist_pc = "loaded" /\ SectionStart # {} =>
    /\ Len(list) = Cardinality(Section)
    /\ \A i \in Section :
         /\ list[PlaceOf(i)].text = file[i].text
         /\ (\A k \in Section : file[k].weight >= 0) =>
              Cardinality({j \in 1..Top : pick_str(j) = PlaceOf(i)}) = file[i].weight

\* The members that agg_str takes are different ones: the colours of a part's name.
ColoursDiffer == Len(taken) <= size => IsInjective(taken)
=============================================================================
