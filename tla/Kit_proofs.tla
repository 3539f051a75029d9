----------------------------- MODULE Kit_proofs ------------------------------
(***************************************************************************)
(* The programs and functions that share nothing: a distribution is the    *)
(* section of its name, drawn by weight, the permutations are ones of all  *)
(* members, a jump of a generator is that many of its steps,               *)
(* dates and days are each other's inverse, the keys and dates of the rows *)
(* that refer to each other agree, a text fits its array and the draws that*)
(* are reserved for it, and decimal digits add up, multiply and divide as  *)
(* numbers.                                                                *)
(***************************************************************************)
EXTENDS Rows, Distributions, Generator, Bcd, Text, Arithmetic, FiniteSetTheorems

-----------------------------------------------------------------------------
\* Distributions: the members that agg_str takes are different ones.

\* What the array may hold when it is read anywhere.
Cell == {perm[k] : k \in Nat}

\* The array holds every member once: an exchange of two of its places keeps that.
Shuffled ==
  /\ perm \in [1..size -> 1..size]
  /\ IsInjective(perm)

\* agg_str takes the members from the first place of the array on.
InOrder ==
  /\ taken \in Seq(Cell)
  /\ newer => Len(taken) >= Colours
  /\ Len(taken) <= size => /\ \A k \in 1..Len(taken) : taken[k] = perm[k]
                           /\ newer \/ source = Len(taken)

IInv ==
  /\ file \in Files
  /\ dist_pc \in {"read", "failed", "loaded", "shuffle", "take"}
  /\ at \in Nat /\ at > 0
  /\ size \in Nat /\ source \in Nat
  /\ dist_pc \in {"read", "failed", "loaded"} => taken = <<>>
  /\ dist_pc = "shuffle" => Shuffled /\ taken = <<>> /\ pass \in Nat /\ pass > 0
  /\ dist_pc = "take" => Shuffled /\ InOrder

-----------------------------------------------------------------------------
\* A line of the file has what its kind has.
LEMMA FileIs ==
  ASSUME file \in Files
  PROVE  /\ Len(file) \in Nat /\ DOMAIN file = 1..Len(file)
         /\ \A k \in 1..Len(file) :
              /\ file[k].kind = "BEGIN" => file[k] = Begin(file[k].name)
              /\ file[k].kind = "COUNT" => file[k].n \in Nat
              /\ file[k].kind = "member" => file[k].weight \in Int
<1>1. file \in Seq(Range(file))
  BY DistributionsAssumption
<1>2. Len(file) \in Nat /\ DOMAIN file = 1..Len(file)
  BY <1>1
<1>3. ASSUME NEW k \in 1..Len(file)
      PROVE  /\ file[k].kind = "BEGIN" => file[k] = Begin(file[k].name)
             /\ file[k].kind = "COUNT" => file[k].n \in Nat
             /\ file[k].kind = "member" => file[k].weight \in Int
  BY <1>2, DistributionsAssumption
<1> QED
  BY <1>2, <1>3

LEMMA InitIInv == DistInit => IInv
BY DEF DistInit, IInv

\* A COUNT of the file is a number.
LEMMA ReadStep ==
  ASSUME IInv, ReadLine \/ ReadEnd
  PROVE  IInv'
<1>1. CASE ReadLine
  <2>1. at \in 1..Len(file)
    BY <1>1, FileIs DEF ReadLine, IInv
  <2>2. file[at].kind = "COUNT" => file[at].n \in Nat
    BY <2>1, FileIs DEF IInv
  <2>3. size' \in Nat
    BY <1>1, <2>2 DEF ReadLine, IInv
  <2> QED
    BY <1>1, <2>3 DEF ReadLine, IInv
<1>2. CASE ReadEnd
  BY <1>2 DEF ReadEnd, IInv
<1> QED
  BY <1>1, <1>2

\* The array is filled with the members in their order.
LEMMA StartStep ==
  ASSUME IInv, StartShuffle
  PROVE  IInv'
<1>1. Shuffled'
  BY DEF IInv, StartShuffle, Shuffled, IsInjective
<1> QED
  BY <1>1 DEF IInv, StartShuffle

\* Two places exchange what they hold.
LEMMA Exchanged ==
  ASSUME NEW n \in Nat, NEW a \in [1..n -> 1..n], IsInjective(a),
         NEW i \in 1..n, NEW j \in 1..n
  PROVE  Exchange(a, i, j) \in [1..n -> 1..n] /\ IsInjective(Exchange(a, i, j))
<1> DEFINE b == Exchange(a, i, j)
<1>1. b \in [1..n -> 1..n]
  BY DEF Exchange
<1>2. \A k \in 1..n : b[k] = IF k = j THEN a[i] ELSE IF k = i THEN a[j] ELSE a[k]
  BY DEF Exchange
<1>3. \A k, l \in 1..n : a[k] = a[l] => k = l
  BY DEF IsInjective
<1>4. \A k, l \in 1..n : b[k] = b[l] => k = l
  BY <1>2, <1>3
<1> QED
  BY <1>1, <1>4 DEF IsInjective

LEMMA ShuffleStep ==
  ASSUME IInv, Shuffle \/ ShuffleRest
  PROVE  IInv'
<1>1. PICK j \in 1..size : perm' = Exchange(perm, pass, j)
  BY DEF Shuffle, ShuffleRest, IInv
<1>2. size \in Nat /\ pass \in 1..size /\ Shuffled
  BY DEF Shuffle, ShuffleRest, IInv
<1>3. perm' \in [1..size -> 1..size] /\ IsInjective(perm')
  BY <1>1, <1>2, Exchanged DEF Shuffled
<1>4. Shuffled'
  BY <1>3 DEF Shuffled, Shuffle, ShuffleRest
<1> QED
  BY <1>2, <1>4 DEF IInv, Shuffle, ShuffleRest

\* One member at a time: the array does not change any more.
LEMMA TakeStep ==
  ASSUME IInv, TakeFirst \/ TakeNext
  PROVE  IInv'
<1>1. Shuffled' /\ Cell' = Cell /\ size' = size /\ size \in Nat /\ newer' = newer
  BY DEF IInv, TakeFirst, TakeNext, Shuffled, Cell
<1>2. CASE TakeFirst
  <2>1. perm[1] \in Cell
    BY DEF Cell
  <2>2. taken' \in Seq(Cell) /\ Len(taken') = 1 /\ taken'[1] = perm[1]
    BY <1>2, <2>1 DEF TakeFirst
  <2>3. perm' = perm /\ source' = 1 /\ ~newer
    BY <1>2 DEF TakeFirst
  <2>4. InOrder'
    BY <1>1, <2>2, <2>3 DEF InOrder
  <2> QED
    BY <1>1, <1>2, <2>4 DEF IInv, TakeFirst
<1>3. CASE TakeNext
  <2>1. taken \in Seq(Cell) /\ InOrder /\ Len(taken) \in Nat /\ Len(taken) < Colours /\ ~newer
    BY <1>3, DistributionsAssumption DEF TakeNext, IInv, InOrder
  <2>2. source' \in Nat /\ perm[source'] \in Cell
    BY <1>1, <1>3, <2>1 DEF TakeNext, IInv, Cell
  <2>3. /\ taken' \in Seq(Cell) /\ Len(taken') = Len(taken) + 1
        /\ taken'[Len(taken) + 1] = perm[source']
        /\ \A k \in 1..Len(taken) : taken'[k] = taken[k]
    BY <1>3, <2>1, <2>2 DEF TakeNext
  <2>4. Len(taken') <= size => source' = Len(taken) + 1
    BY <1>1, <1>3, <2>1, <2>3 DEF TakeNext, InOrder
  <2>5. perm' = perm
    BY <1>3 DEF TakeNext
  <2>6. InOrder'
    BY <1>1, <2>1, <2>2, <2>3, <2>4, <2>5 DEF InOrder
  <2> QED
    BY <1>1, <1>3, <2>6 DEF IInv, TakeNext
<1> QED
  BY <1>2, <1>3

\* All of them at once.
LEMMA TakeAllStep ==
  ASSUME IInv, TakeAll
  PROVE  IInv'
<1>1. Shuffled' /\ Cell' = Cell /\ size' = size /\ perm' = perm /\ newer'
  BY DEF IInv, TakeAll, Shuffled, Cell
<1>2. taken' = [k \in 1..Colours |-> perm[k]]
  BY DistributionsAssumption, SMTT(30) DEF TakeAll
<1>3. \A k \in 1..Colours : perm[k] \in Cell
  BY DistributionsAssumption DEF Cell
<1>4. taken' \in Seq(Cell) /\ Len(taken') = Colours
  BY <1>2, <1>3, DistributionsAssumption
<1>5. InOrder'
  BY <1>1, <1>2, <1>4, DistributionsAssumption DEF InOrder
<1> QED
  BY <1>1, <1>5 DEF IInv, TakeAll

-----------------------------------------------------------------------------
\* Whatever agg_str has taken, as long as it takes no more members than there are, it has taken
\* none of them twice.
LEMMA IInvColours == IInv => ColoursDiffer
<1> SUFFICES ASSUME IInv, Len(taken) <= size
             PROVE  IsInjective(taken)
  BY DEF ColoursDiffer
<1>1. CASE taken = <<>>
  BY <1>1 DEF IsInjective
<1>2. CASE Shuffled /\ InOrder
  <2>1. DOMAIN taken = 1..Len(taken) /\ Len(taken) \in Nat
    BY <1>2 DEF InOrder
  <2>2. \A k \in 1..Len(taken) : taken[k] = perm[k]
    BY <1>2 DEF InOrder
  <2>3. \A k \in 1..Len(taken) : k \in 1..size
    BY <2>1 DEF IInv
  <2>4. \A k, l \in 1..size : perm[k] = perm[l] => k = l
    BY <1>2 DEF Shuffled, IsInjective
  <2> QED
    BY <2>1, <2>2, <2>3, <2>4 DEF IsInjective
<1> QED
  BY <1>1, <1>2 DEF IInv

LEMMA NextIInv == IInv /\ [DistNext]_dist_vars => IInv'
<1> SUFFICES ASSUME IInv, [DistNext]_dist_vars
             PROVE  IInv'
  OBVIOUS
<1>1. CASE UNCHANGED dist_vars
  <2>1. Shuffled' = Shuffled /\ InOrder' = InOrder
    BY <1>1 DEF dist_vars, Shuffled, InOrder, Cell
  <2> QED
    BY <1>1, <2>1 DEF IInv, dist_vars
<1> QED
  BY <1>1, ReadStep, StartStep, ShuffleStep, TakeStep, TakeAllStep DEF DistNext

\* agg_str: the colours of a part's name are different ones, whichever of the two permutations
\* draws them and whatever it draws.
THEOREM Colourful == DistSpec => []ColoursDiffer
BY InitIInv, NextIInv, IInvColours, PTL DEF DistSpec

-----------------------------------------------------------------------------
\* Distributions: what read_dist has of a section, and what pick_str picks of it.

\* The line of its BEGIN.
BeginLine == CHOOSE i \in SectionStart : \A k \in SectionStart : i <= k

\* The members in the lines up to n, and how many there are.
MembersTo(n) == {i \in (BeginLine + 1)..n : file[i].kind = "member"}
CountTo(n) == Cardinality(MembersTo(n))

\* The sum of the weights before the k-th member.
SumBefore(s, k) == IF k = 1 THEN 0 ELSE s[k - 1].weight

\* What target->list may hold.
Entries == [text : {file[i].text : i \in DOMAIN file}, weight : Int]

\* A list holds the members of these lines, in their order, with the sums of their weights.
Held(s, i) ==
  /\ CountTo(i) \in 1..Len(s)
  /\ s[CountTo(i)].text = file[i].text
  /\ s[CountTo(i)].weight = SumBefore(s, CountTo(i)) + file[i].weight
Holds(s, n) ==
  /\ Len(s) = CountTo(n)
  /\ \A i \in MembersTo(n) : Held(s, i)
  /\ \A k \in 1..Len(s) : \E i \in MembersTo(n) : CountTo(i) = k

\* No line up to n ends the section.
NoEnd(n) == \A k \in (BeginLine + 1)..n : file[k].kind # "END"

\* While the section is read, and when it has been.
ReadInv ==
  /\ file \in Files /\ at \in Nat \ {0} /\ list \in Seq(Entries)
  /\ dist_pc = "read" =>
       /\ at <= Len(file) + 1
       /\ name_set <=> \E i \in SectionStart : i < at
       /\ ~name_set => list = <<>>
       /\ name_set => BeginLine < at /\ NoEnd(at - 1) /\ Holds(list, at - 1)
  /\ dist_pc = "loaded" /\ SectionStart # {} =>
       /\ at - 1 \in Nat /\ at - 1 >= BeginLine
       /\ Section = MembersTo(at - 1) /\ Holds(list, at - 1)

\* The section has a first BEGIN.
LEMMA BeginLineIs ==
  ASSUME file \in Files, SectionStart # {}
  PROVE  /\ BeginLine \in SectionStart /\ BeginLine \in 1..Len(file)
         /\ \A k \in SectionStart : BeginLine <= k
<1>1. SectionStart \in SUBSET Nat /\ SectionStart \subseteq 1..Len(file)
  BY FileIs DEF SectionStart
<1>2. \E i \in SectionStart : \A k \in SectionStart : i <= k
  BY <1>1, LeastNumber
<1>3. BeginLine \in SectionStart /\ \A k \in SectionStart : BeginLine <= k
  BY <1>2 DEF BeginLine
<1> QED
  BY <1>1, <1>3

\* One more line.
LEMMA OneLineMore ==
  ASSUME BeginLine \in Nat, NEW n \in Nat, n >= BeginLine
  PROVE  /\ CountTo(n) \in Nat
         /\ n = BeginLine => MembersTo(n) = {} /\ CountTo(n) = 0
         /\ file[n + 1].kind = "member" => /\ MembersTo(n + 1) = MembersTo(n) \cup {n + 1}
                                           /\ CountTo(n + 1) = CountTo(n) + 1
         /\ file[n + 1].kind # "member" => /\ MembersTo(n + 1) = MembersTo(n)
                                           /\ CountTo(n + 1) = CountTo(n)
<1>1. IsFiniteSet((BeginLine + 1)..n)
  BY FS_Interval
<1>2. MembersTo(n) \subseteq (BeginLine + 1)..n
  BY DEF MembersTo
<1>3. IsFiniteSet(MembersTo(n))
  BY <1>1, <1>2, FS_Subset
<1>4. CountTo(n) \in Nat
  BY <1>3, FS_CardinalityType DEF CountTo
<1>5. n = BeginLine => MembersTo(n) = {} /\ CountTo(n) = 0
  <2>1. n = BeginLine => MembersTo(n) = {}
    BY DEF MembersTo
  <2> QED
    BY <2>1, FS_EmptySet DEF CountTo
<1>6. \A i \in Int : i \in (BeginLine + 1)..(n + 1) <=> i \in (BeginLine + 1)..n \/ i = n + 1
  OBVIOUS
<1>7. ASSUME file[n + 1].kind = "member"
      PROVE  MembersTo(n + 1) = MembersTo(n) \cup {n + 1} /\ CountTo(n + 1) = CountTo(n) + 1
  <2>1. MembersTo(n + 1) = MembersTo(n) \cup {n + 1}
    BY <1>6, <1>7 DEF MembersTo
  <2>2. n + 1 \notin MembersTo(n)
    BY DEF MembersTo
  <2> QED
    BY <1>3, <2>1, <2>2, FS_AddElement DEF CountTo
<1>8. ASSUME file[n + 1].kind # "member"
      PROVE  MembersTo(n + 1) = MembersTo(n) /\ CountTo(n + 1) = CountTo(n)
  <2>1. MembersTo(n + 1) = MembersTo(n)
    BY <1>6, <1>8 DEF MembersTo
  <2> QED
    BY <2>1 DEF CountTo
<1> QED
  BY <1>4, <1>5, <1>7, <1>8

\* Nothing has been read.
LEMMA ReadInitInv == DistInit => ReadInv
<1> SUFFICES ASSUME DistInit PROVE ReadInv
  OBVIOUS
<1>1. file \in Files /\ at = 1 /\ name_set = FALSE /\ list = <<>> /\ dist_pc = "read"
  BY DEF DistInit
<1>2. \A i \in SectionStart : ~(i < at)
  BY <1>1, FileIs DEF SectionStart
<1>3. Len(file) \in Nat /\ list \in Seq(Entries)
  BY <1>1, FileIs
<1> QED
  BY <1>1, <1>2, <1>3 DEF ReadInv

\* The list after one more member,
LEMMA HoldsMore ==
  ASSUME BeginLine \in Nat, NEW n \in Nat, n >= BeginLine,
         NEW s \in Seq(Entries), Holds(s, n),
         file[n + 1].kind = "member",
         NEW e \in Entries, e.text = file[n + 1].text,
         e.weight = (IF s = <<>> THEN 0 ELSE s[Len(s)].weight) + file[n + 1].weight,
         NEW t, t = Append(s, e)
  PROVE  t \in Seq(Entries) /\ Holds(t, n + 1)
<1> DEFINE c == Len(s)
<1>1. /\ t \in Seq(Entries) /\ c \in Nat /\ Len(t) = c + 1 /\ t[c + 1] = e
      /\ \A k \in 1..c : t[k] = s[k]
  OBVIOUS
<1>2. /\ MembersTo(n + 1) = MembersTo(n) \cup {n + 1} /\ CountTo(n + 1) = CountTo(n) + 1
      /\ CountTo(n) = c
  BY OneLineMore DEF Holds
<1>3. Held(t, n + 1)
  <2>1. CountTo(n + 1) = c + 1 /\ c + 1 \in 1..Len(t)
    BY <1>1, <1>2
  <2>2. SumBefore(t, c + 1) = IF s = <<>> THEN 0 ELSE s[Len(s)].weight
    <3>1. CASE s = <<>>
      BY <3>1 DEF SumBefore
    <3>2. CASE s # <<>>
      <4>1. c \in 1..c /\ c + 1 # 1 /\ (c + 1) - 1 = c
        BY <3>2
      <4> QED
        BY <1>1, <3>2, <4>1 DEF SumBefore
    <3> QED
      BY <3>1, <3>2
  <2> QED
    BY <1>1, <2>1, <2>2 DEF Held
<1>4. ASSUME NEW i \in MembersTo(n) PROVE Held(t, i)
  <2>1. Held(s, i)
    BY DEF Holds
  <2> DEFINE k == CountTo(i)
  <2>2. k \in 1..c /\ s[k].text = file[i].text /\ s[k].weight = SumBefore(s, k) + file[i].weight
    BY <2>1 DEF Held
  <2> HIDE DEF k, c
  <2>3. SumBefore(t, k) = SumBefore(s, k)
    <3>1. k # 1 => k - 1 \in 1..c
      BY <1>1, <2>2
    <3> QED
      BY <1>1, <3>1 DEF SumBefore
  <2>4. k \in 1..Len(t) /\ t[k] = s[k]
    BY <1>1, <2>2
  <2> QED
    BY <2>2, <2>3, <2>4 DEF Held, k
<1>5. ASSUME NEW k \in 1..Len(t) PROVE \E i \in MembersTo(n + 1) : CountTo(i) = k
  <2>1. CASE k = c + 1
    BY <1>2, <2>1
  <2>2. CASE k # c + 1
    <3>1. k \in 1..c
      BY <1>1, <2>2
    <3> QED
      BY <1>2, <3>1 DEF Holds
  <2> QED
    BY <2>1, <2>2
<1> QED
  BY <1>1, <1>2, <1>3, <1>4, <1>5 DEF Holds

\* ... or after a line that is none.
LEMMA HoldsSame ==
  ASSUME BeginLine \in Nat, NEW n \in Nat, n >= BeginLine, NEW s, Holds(s, n),
         file[n + 1].kind # "member"
  PROVE  Holds(s, n + 1)
BY OneLineMore DEF Holds

\* The list at the BEGIN.
LEMMA HoldsFirst ==
  ASSUME BeginLine \in Nat
  PROVE  Holds(<<>>, BeginLine)
BY OneLineMore DEF Holds

\* A line of the file.
LEMMA ReadLineInv == ASSUME ReadInv, ReadLine PROVE ReadInv'
<1> DEFINE n == Len(file)
           b == BeginLine
           l == file[at]
<1>1. /\ dist_pc = "read" /\ at <= n /\ at' = at + 1 /\ file' = file
      /\ name_set' = (name_set \/ Sought(l))
      /\ dist_pc' = IF name_set /\ l.kind = "END" THEN "loaded" ELSE "read"
      /\ list' = IF name_set /\ l.kind = "member" THEN Append(list, Entry(l)) ELSE list
  BY DEF ReadLine
<1>2. /\ file \in Files /\ at \in Nat \ {0} /\ list \in Seq(Entries)
      /\ at <= Len(file) + 1
      /\ name_set <=> \E i \in SectionStart : i < at
      /\ ~name_set => list = <<>>
      /\ name_set => BeginLine < at /\ NoEnd(at - 1) /\ Holds(list, at - 1)
  BY <1>1 DEF ReadInv
<1>3. n \in Nat /\ at \in 1..n /\ at - 1 \in Nat /\ (at - 1) + 1 = at /\ at' - 1 = at
  BY <1>1, <1>2, FileIs
<1>4. Sought(l) <=> at \in SectionStart
  <2>1. at \in SectionStart <=> l = Begin(Wanted)
    BY <1>2, <1>3, FileIs DEF SectionStart
  <2>2. l = Begin(Wanted) => l.kind = "BEGIN" /\ l.name = Wanted
    BY DEF Begin
  <2>3. l.kind = "BEGIN" => l = Begin(l.name)
    BY <1>2, <1>3, FileIs
  <2> QED
    BY <2>1, <2>2, <2>3 DEF Sought
<1>5. SectionStart' = SectionStart /\ BeginLine' = b /\ Entries' = Entries /\ Section' = Section
  BY <1>1 DEF SectionStart, BeginLine, Entries, Section
<1>6. name_set' <=> \E i \in SectionStart : i < at'
  <2>1. \A i \in SectionStart : i < at + 1 <=> i < at \/ i = at
    BY <1>2, <1>3, FileIs DEF SectionStart
  <2> QED
    BY <1>1, <1>2, <1>4, <2>1
<1>7. /\ Holds(list, at - 1)' <=> Holds(list', at)
      /\ NoEnd(at - 1)' <=> NoEnd(at)
  <2>1. Holds(list, at - 1)' <=> Holds(list', at' - 1)
    <3>1. \A i : CountTo(i)' = CountTo(i) /\ MembersTo(i)' = MembersTo(i)
      BY <1>1, <1>5 DEF CountTo, MembersTo
    <3> QED
      BY <1>1, <3>1 DEF Holds, Held, SumBefore
  <2>2. NoEnd(at - 1)' <=> NoEnd(at' - 1)
    BY <1>1, <1>5 DEF NoEnd
  <2> QED
    BY <1>3, <2>1, <2>2
<1>8. CASE ~name_set /\ ~Sought(l)
  <2>1. ~name_set' /\ dist_pc' = "read" /\ list' = list
    BY <1>1, <1>8
  <2> QED
    BY <1>1, <1>2, <1>3, <1>5, <1>6, <1>8, <2>1 DEF ReadInv
<1>9. CASE ~name_set /\ Sought(l)
  <2>1. name_set' /\ dist_pc' = "read" /\ list' = <<>>
    BY <1>1, <1>2, <1>9
  <2>2. at = b
    <3>1. at \in SectionStart /\ ~ \E i \in SectionStart : i < at
      BY <1>2, <1>4, <1>9
    <3>2. b \in SectionStart /\ b <= at /\ b \in Int
      BY <1>2, <3>1, BeginLineIs
    <3> QED
      BY <1>3, <3>1, <3>2
  <2>3. Holds(<<>>, at) /\ NoEnd(at)
    <3>1. b \in Nat
      BY <1>3, <2>2
    <3> QED
      BY <2>2, <3>1, HoldsFirst DEF NoEnd
  <2>4. list' \in Seq(Entries)
    BY <2>1
  <2> QED
    BY <1>1, <1>2, <1>3, <1>5, <1>6, <1>7, <2>1, <2>2, <2>3, <2>4 DEF ReadInv
<1>10. CASE name_set
  <2> DEFINE m == at - 1
  <2>1. /\ SectionStart # {} /\ b \in Nat /\ b \in 1..n /\ b < at /\ NoEnd(m) /\ Holds(list, m)
        /\ m \in Nat /\ m >= b /\ m + 1 = at
    BY <1>2, <1>3, <1>10, BeginLineIs
  <2> HIDE DEF m
  <2>2. list' \in Seq(Entries) /\ Holds(list', at)
    <3>1. CASE l.kind = "member"
      <4> DEFINE e == Entry(l)
      <4>1. list' = Append(list, e)
        BY <1>1, <1>10, <3>1
      <4>2. e.text = l.text /\ e.weight = Top + l.weight
            /\ e = [text |-> l.text, weight |-> Top + l.weight]
        BY DEF Entry
      <4>3. Top \in Int
        <5>1. CASE list = <<>>
          BY <5>1 DEF Top
        <5>2. CASE list # <<>>
          <6>1. Len(list) \in 1..Len(list) /\ \A k \in 1..Len(list) : list[k] \in Entries
            BY <1>2, <5>2
          <6> QED
            BY <5>2, <6>1 DEF Top, Entries
        <5> QED
          BY <5>1, <5>2
      <4>4. l.weight \in Int /\ l.text \in {file[i].text : i \in DOMAIN file}
        BY <1>2, <1>3, <3>1, FileIs
      <4>5. e \in Entries
        BY <4>2, <4>3, <4>4 DEF Entries
      <4> HIDE DEF e
      <4>6. e.weight = (IF list = <<>> THEN 0 ELSE list[Len(list)].weight) + l.weight
        BY <4>2 DEF Top
      <4>7. l = file[m + 1]
        BY <2>1
      <4> HIDE DEF l
      <4>8. list' \in Seq(Entries) /\ Holds(list', m + 1)
        BY <1>2, <2>1, <3>1, <4>1, <4>2, <4>5, <4>6, <4>7, HoldsMore
      <4> QED
        BY <2>1, <4>8
    <3>2. CASE l.kind # "member"
      <4>1. list' = list
        BY <1>1, <3>2
      <4>2. Holds(list, m + 1)
        BY <2>1, <3>2, HoldsSame
      <4> QED
        BY <1>2, <2>1, <4>1, <4>2
    <3> QED
      BY <3>1, <3>2
  <2>3. CASE l.kind # "END"
    <3>1. dist_pc' = "read" /\ name_set'
      BY <1>1, <1>10, <2>3
    <3>2. NoEnd(at)
      <4> SUFFICES ASSUME NEW k \in (b + 1)..at PROVE file[k].kind # "END"
        BY DEF NoEnd
      <4>1. k = at \/ k \in (b + 1)..m
        BY <2>1
      <4> QED
        BY <2>1, <2>3, <4>1 DEF NoEnd
    <3>3. b < at' /\ at' \in Nat \ {0} /\ at' <= Len(file) + 1
      BY <1>1, <1>3, <2>1
    <3> QED
      BY <1>1, <1>2, <1>5, <1>6, <1>7, <2>2, <3>1, <3>2, <3>3 DEF ReadInv
  <2>4. CASE l.kind = "END"
    <3>1. dist_pc' = "loaded"
      BY <1>1, <1>10, <2>4
    <3>2. Section = MembersTo(at)
      <4>1. Section = {i \in (b + 1)..n : /\ file[i].kind = "member"
                                         /\ \A k \in (b + 1)..i : file[k].kind # "END"}
        BY DEF Section, BeginLine
      <4>2. ASSUME NEW i \in Section PROVE i \in MembersTo(at)
        <5>1. i \in (b + 1)..n /\ file[i].kind = "member" /\ \A k \in (b + 1)..i : file[k].kind # "END"
          BY <4>1
        <5>2. ~(at \in (b + 1)..i)
          BY <2>4, <5>1
        <5>3. i \in (b + 1)..at
          BY <1>3, <2>1, <5>1, <5>2
        <5> QED
          BY <5>1, <5>3 DEF MembersTo
      <4>3. ASSUME NEW i \in MembersTo(at) PROVE i \in Section
        <5>1. i \in (b + 1)..at /\ file[i].kind = "member"
          BY DEF MembersTo
        <5>2. i # at
          BY <2>4, <5>1
        <5>3. i \in (b + 1)..n /\ \A k \in (b + 1)..i : k \in (b + 1)..m
          BY <1>3, <2>1, <5>1, <5>2
        <5>4. \A k \in (b + 1)..i : file[k].kind # "END"
          BY <2>1, <5>3 DEF NoEnd
        <5> QED
          BY <4>1, <5>1, <5>3, <5>4
      <4> QED
        BY <4>2, <4>3
    <3>3. MembersTo(at - 1)' = MembersTo(at)
      BY <1>1, <1>3 DEF MembersTo, BeginLine, SectionStart
    <3> QED
      BY <1>1, <1>2, <1>3, <1>5, <1>7, <2>1, <2>2, <3>1, <3>2, <3>3 DEF ReadInv
  <2> QED
    BY <2>3, <2>4
<1> QED
  BY <1>8, <1>9, <1>10

\* The file ends.
LEMMA ReadEndInv == ASSUME ReadInv, ReadEnd PROVE ReadInv'
<1> DEFINE n == Len(file)
           b == BeginLine
<1>1. /\ dist_pc = "read" /\ at > n /\ at' = at /\ file' = file /\ list' = list
      /\ dist_pc' \in {"loaded", "failed"}
  BY DEF ReadEnd
<1>2. /\ file \in Files /\ at \in Nat \ {0} /\ list \in Seq(Entries) /\ at <= n + 1
      /\ name_set <=> \E i \in SectionStart : i < at
      /\ name_set => BeginLine < at /\ NoEnd(at - 1) /\ Holds(list, at - 1)
  BY <1>1 DEF ReadInv
<1>3. /\ SectionStart' = SectionStart /\ Entries' = Entries /\ Section' = Section /\ BeginLine' = b
      /\ MembersTo(at - 1)' = MembersTo(at - 1)
      /\ Holds(list, at - 1)' <=> Holds(list, at - 1)
  BY <1>1 DEF Holds, Held, CountTo, MembersTo, SumBefore, BeginLine, SectionStart, Entries, Section
<1>4. n \in Nat /\ at - 1 = n
  BY <1>1, <1>2, FileIs
<1>5. ASSUME SectionStart # {}
      PROVE  /\ at - 1 \in Nat /\ at - 1 >= b /\ Section = MembersTo(at - 1) /\ Holds(list, at - 1)
  <2>1. b \in SectionStart /\ b \in 1..n /\ b < at
    BY <1>2, <1>4, <1>5, BeginLineIs
  <2>2. NoEnd(n) /\ Holds(list, n)
    BY <1>2, <1>4, <2>1
  <2>3. Section = MembersTo(n)
    <3>1. Section = {i \in (b + 1)..n : /\ file[i].kind = "member"
                                       /\ \A k \in (b + 1)..i : file[k].kind # "END"}
      BY DEF Section, BeginLine
    <3>2. \A i \in (b + 1)..n : \A k \in (b + 1)..i : k \in (b + 1)..n
      BY <1>4, <2>1
    <3> QED
      BY <2>2, <3>1, <3>2 DEF MembersTo, NoEnd
  <2> QED
    BY <1>4, <2>1, <2>2, <2>3
<1> QED
  BY <1>1, <1>2, <1>3, <1>5 DEF ReadInv

\* Every step keeps it: the shuffles leave the list alone.
LEMMA ReadInvStep == ReadInv /\ [DistNext]_dist_vars => ReadInv'
<1> SUFFICES ASSUME ReadInv, [DistNext]_dist_vars PROVE ReadInv'
  OBVIOUS
<1>1. CASE ReadLine
  BY <1>1, ReadLineInv
<1>2. CASE ReadEnd
  BY <1>2, ReadEndInv
<1>3. CASE StartShuffle \/ Shuffle \/ ShuffleRest \/ TakeFirst \/ TakeNext \/ TakeAll
  <2>1. file' = file /\ at' = at /\ list' = list /\ dist_pc' \notin {"read", "loaded"}
    BY <1>3 DEF StartShuffle, Shuffle, ShuffleRest, TakeFirst, TakeNext, TakeAll
  <2>2. Entries' = Entries
    BY <2>1 DEF Entries
  <2> QED
    BY <2>1, <2>2 DEF ReadInv
<1>4. CASE UNCHANGED dist_vars
  <2>1. file' = file /\ at' = at /\ list' = list /\ dist_pc' = dist_pc /\ name_set' = name_set
    BY <1>4 DEF dist_vars
  <2>2. /\ SectionStart' = SectionStart /\ Entries' = Entries /\ Section' = Section
        /\ BeginLine' = BeginLine /\ MembersTo(at - 1)' = MembersTo(at - 1)
        /\ NoEnd(at - 1)' <=> NoEnd(at - 1)
        /\ Holds(list, at - 1)' <=> Holds(list, at - 1)
    BY <2>1 DEF Holds, Held, CountTo, MembersTo, SumBefore, BeginLine, SectionStart, Entries, Section,
                NoEnd
  <2> QED
    BY <2>1, <2>2 DEF ReadInv
<1> QED
  BY <1>1, <1>2, <1>3, <1>4 DEF DistNext

\* Weights that are not negative add up to sums that grow.
Growing(s) == \A k \in 1..Len(s) : s[k].weight \in Int /\ SumBefore(s, k) <= s[k].weight

\* ... from one member to every later one.
LEMMA GrowsOn ==
  ASSUME NEW s, Len(s) \in Nat, Growing(s)
  PROVE  /\ \A k \in 1..Len(s) : s[k].weight \in Nat /\ SumBefore(s, k) \in Nat
         /\ \A i, k \in 1..Len(s) : i <= k => s[i].weight <= s[k].weight
<1> DEFINE n == Len(s)
           w(k) == s[k].weight
           S == {k \in Nat : k \in 1..n => w(k) \in Nat /\ \A i \in 1..k : w(i) <= w(k)}
<1>1. 0 \in S
  OBVIOUS
<1>2. ASSUME NEW k \in Nat, k \in S PROVE k + 1 \in S
  <2>1. SUFFICES ASSUME k + 1 \in 1..n
      PROVE w(k + 1) \in Nat /\ \A i \in 1..(k + 1) : w(i) <= w(k + 1)
    OBVIOUS
  <2>2. w(k + 1) \in Int /\ (IF k + 1 = 1 THEN 0 ELSE w(k)) <= w(k + 1)
    <3>1. (k + 1) - 1 = k
      OBVIOUS
    <3> QED
      BY <2>1, <3>1 DEF Growing, SumBefore
  <2>3. CASE k = 0
    BY <2>2, <2>3
  <2>4. CASE k # 0
    <3>1. k \in 1..n
      BY <2>1, <2>4
    <3>2. w(k) \in Nat /\ \A i \in 1..k : w(i) <= w(k)
      BY <1>2, <3>1
    <3>3. \A i \in 1..k : w(i) \in Int
      BY <3>1 DEF Growing
    <3> HIDE DEF w
    <3>4. w(k) <= w(k + 1) /\ w(k + 1) \in Nat
      BY <2>2, <2>4, <3>2
    <3>5. ASSUME NEW i \in 1..(k + 1) PROVE w(i) <= w(k + 1)
      <4>1. CASE i = k + 1
        BY <3>4, <4>1
      <4>2. CASE i # k + 1
        <5>1. i \in 1..k
          BY <4>2
        <5> QED
          BY <3>2, <3>3, <3>4, <5>1
      <4> QED
        BY <4>1, <4>2
    <3> QED
      BY <3>4, <3>5
  <2> QED
    BY <2>3, <2>4
<1> HIDE DEF S
<1>3. Nat \subseteq S
  BY <1>1, <1>2, Induct
<1>4. \A k \in 1..n : w(k) \in Nat /\ \A i \in 1..k : w(i) <= w(k)
  BY <1>3 DEF S
<1>5. ASSUME NEW k \in 1..n PROVE SumBefore(s, k) \in Nat
  <2>1. k # 1 => k - 1 \in 1..n
    OBVIOUS
  <2> QED
    BY <1>4, <2>1 DEF SumBefore
<1> QED
  BY <1>4, <1>5

\* The values from which pick_str picks a member: as many as its weight.
LEMMA PickedBy ==
  ASSUME Len(list) \in Nat, Growing(list), NEW k \in 1..Len(list)
  PROVE  Cardinality({j \in 1..Top : pick_str(j) = k}) = list[k].weight - SumBefore(list, k)
<1> DEFINE n == Len(list)
           w(i) == list[i].weight
           lo == SumBefore(list, k)
<1>1. /\ n \in Nat \ {0} /\ \A i \in 1..n : w(i) \in Nat /\ SumBefore(list, i) \in Nat
      /\ \A i, m \in 1..n : i <= m => w(i) <= w(m)
  BY GrowsOn
<1>2. Top = w(n)
  BY <1>1 DEF Top
<1>3. lo \in Nat /\ lo <= w(k) /\ w(k) \in Nat /\ w(k) <= Top /\ Top \in Nat
  BY <1>1, <1>2 DEF Growing
<1> DEFINE Is(i, j) == w(i) >= j /\ \A m \in 1..(i - 1) : w(m) < j
<1>4. \A j : pick_str(j) = CHOOSE i \in 1..n : Is(i, j)
  BY DEF pick_str
<1>5. ASSUME NEW j \in 1..Top, NEW i \in 1..n, NEW m \in 1..n, Is(i, j), Is(m, j) PROVE i = m
  <2>1. w(i) \in Nat /\ w(m) \in Nat /\ w(i) >= j /\ w(m) >= j
    BY <1>1, <1>5
  <2>2. ~(m \in 1..(i - 1)) /\ ~(i \in 1..(m - 1))
    <3> HIDE DEF w
    <3> QED
      BY <1>3, <1>5, <2>1
  <2> QED
    BY <2>2
<1> HIDE DEF w
<1>6. ASSUME NEW j \in 1..Top PROVE Is(pick_str(j), j) /\ pick_str(j) \in 1..n
  <2> DEFINE T == {i \in 1..n : w(i) >= j}
  <2>1. n \in T /\ T \in SUBSET Nat
    BY <1>1, <1>2, <1>3
  <2>2. PICK i \in T : \A m \in T : i <= m
    <3> HIDE DEF T
    <3> QED
      BY <2>1, LeastNumber
  <2>3. Is(i, j)
    <3>1. \A m \in 1..(i - 1) : m \in 1..n /\ m \notin T
      BY <1>1, <2>2
    <3>2. \A m \in 1..(i - 1) : w(m) < j
      BY <1>1, <1>3, <3>1
    <3> QED
      BY <2>2, <3>2
  <2>4. i \in 1..n
    BY <2>2
  <2> HIDE DEF T, Is
  <2> QED
    BY <1>4, <2>3, <2>4
<1>7. \A j \in 1..Top : Is(k, j) <=> j \in (lo + 1)..w(k)
  <2> TAKE j \in 1..Top
  <2>1. CASE k = 1
    <3>1. lo = 0
      BY <2>1 DEF SumBefore
    <3> QED
      BY <1>3, <2>1, <3>1
  <2>2. CASE k # 1
    <3>1. lo = w(k - 1) /\ k - 1 \in 1..n /\ k - 1 \in 1..(k - 1)
      BY <2>2 DEF SumBefore, w
    <3>2. \A m \in 1..(k - 1) : w(m) <= w(k - 1) /\ w(m) \in Nat
      BY <1>1, <3>1
    <3> QED
      BY <1>3, <3>1, <3>2
  <2> QED
    BY <2>1, <2>2
<1>8. \A j \in 1..Top : pick_str(j) = k <=> Is(k, j)
  <2> HIDE DEF Is
  <2> QED
    BY <1>5, <1>6
<1> HIDE DEF Is, lo, n
<1>9. {j \in 1..Top : pick_str(j) = k} = (lo + 1)..w(k)
  <2>1. \A j \in (lo + 1)..w(k) : j \in 1..Top
    BY <1>3
  <2> QED
    BY <1>7, <1>8, <2>1
<1>10. Cardinality((lo + 1)..w(k)) = w(k) - lo
  <2> DEFINE u == lo + 1
             v == w(k)
  <2>1. u \in Int /\ v \in Int /\ u <= v + 1
    BY <1>3
  <2>2. v - u + 1 = v - lo
    BY <1>3
  <2> HIDE DEF u, v
  <2>3. Cardinality(u..v) = IF u > v THEN 0 ELSE v - u + 1
    BY <2>1, FS_Interval
  <2>4. Cardinality(u..v) = v - u + 1
    BY <2>1, <2>3
  <2> QED
    BY <2>2, <2>4 DEF u, v
<1> QED
  BY <1>9, <1>10 DEF w, lo

\* A member's share of the values is its weight.
LEMMA ReadInvDrawn == ReadInv => DrawnByWeight
<1> SUFFICES ASSUME ReadInv, dist_pc = "loaded", SectionStart # {}
    PROVE  /\ Len(list) = Cardinality(Section)
           /\ \A i \in Section :
                /\ list[PlaceOf(i)].text = file[i].text
                /\ (\A k \in Section : file[k].weight >= 0) =>
                     Cardinality({j \in 1..Top : pick_str(j) = PlaceOf(i)}) = file[i].weight
  BY DEF DrawnByWeight
<1> DEFINE n == at - 1
           b == BeginLine
<1>1. /\ n \in Nat /\ n >= b /\ Section = MembersTo(n) /\ Holds(list, n)
      /\ list \in Seq(Entries) /\ file \in Files
  BY DEF ReadInv
<1>2. b \in 1..Len(file)
  BY <1>1, BeginLineIs
<1> HIDE DEF n, b
<1>3. Len(list) = Cardinality(Section) /\ Len(list) \in Nat
  BY <1>1 DEF Holds, CountTo
<1>4. ASSUME NEW i \in Section PROVE PlaceOf(i) = CountTo(i) /\ file[i].weight \in Int
  <2>1. i \in (b + 1)..n /\ file[i].kind = "member" /\ i \in 1..Len(file)
    <3>1. i \in (b + 1)..Len(file)
      BY DEF Section, b, BeginLine
    <3> QED
      BY <1>1, <1>2, <3>1, FileIs DEF MembersTo, b
  <2>2. {k \in MembersTo(n) : k <= i} = MembersTo(i)
    <3>1. \A k \in Int : k \in (b + 1)..i <=> k \in (b + 1)..n /\ k <= i
      BY <1>1, <1>2, <2>1
    <3> QED
      BY <3>1 DEF MembersTo, b
  <2> QED
    BY <1>1, <2>1, <2>2, FileIs DEF PlaceOf, CountTo
<1>5. ASSUME NEW i \in Section PROVE Held(list, i)
  BY <1>1 DEF Holds
<1>6. \A k \in 1..Len(list) : \E i \in Section : CountTo(i) = k
  BY <1>1 DEF Holds
<1>7. ASSUME \A k \in Section : file[k].weight >= 0 PROVE Growing(list)
  <2> SUFFICES ASSUME NEW k \in 1..Len(list)
      PROVE list[k].weight \in Int /\ SumBefore(list, k) <= list[k].weight
    BY DEF Growing
  <2>1. PICK i \in Section : CountTo(i) = k
    BY <1>6
  <2>2. list[k].weight = SumBefore(list, k) + file[i].weight
    BY <1>5, <2>1 DEF Held
  <2>3. file[i].weight \in Int /\ file[i].weight >= 0
    BY <1>4, <1>7
  <2>4. \A m \in 1..Len(list) : list[m].weight \in Int
    <3> TAKE m \in 1..Len(list)
    <3>1. list[m] \in Entries
      BY <1>1
    <3> QED
      BY <3>1 DEF Entries
  <2>5. SumBefore(list, k) \in Int
    <3>1. k # 1 => k - 1 \in 1..Len(list)
      BY <1>3
    <3> QED
      BY <2>4, <3>1 DEF SumBefore
  <2> QED
    BY <2>2, <2>3, <2>4, <2>5
<1>8. ASSUME NEW i \in Section, \A k \in Section : file[k].weight >= 0
      PROVE  Cardinality({j \in 1..Top : pick_str(j) = PlaceOf(i)}) = file[i].weight
  <2> DEFINE k == CountTo(i)
             v == file[i].weight
  <2>1. k \in 1..Len(list) /\ list[k].weight = SumBefore(list, k) + v
    BY <1>5 DEF Held
  <2>2. Growing(list)
    BY <1>7, <1>8
  <2>3. v \in Int
    BY <1>4
  <2> HIDE DEF k, v
  <2>4. SumBefore(list, k) \in Nat
    BY <1>3, <2>1, <2>2, GrowsOn
  <2>5. Cardinality({j \in 1..Top : pick_str(j) = k}) = list[k].weight - SumBefore(list, k)
    BY <1>3, <2>1, <2>2, PickedBy
  <2>6. Cardinality({j \in 1..Top : pick_str(j) = k}) = v
    BY <2>1, <2>3, <2>4, <2>5
  <2>7. PlaceOf(i) = k
    BY <1>4 DEF k
  <2> QED
    BY <2>6, <2>7 DEF v
<1> QED
  BY <1>3, <1>4, <1>5, <1>8 DEF Held

\* A distribution that was read is the section of its name, and a member of it is picked for as
\* many values as it has weight.
THEOREM Weighted == DistSpec => []DrawnByWeight
<1>1. DistInit => ReadInv
  BY ReadInitInv
<1>2. ReadInv /\ [DistNext]_dist_vars => ReadInv'
  BY ReadInvStep
<1>3. ReadInv => DrawnByWeight
  BY ReadInvDrawn
<1> QED
  BY <1>1, <1>2, <1>3, PTL DEF DistSpec

-----------------------------------------------------------------------------
\* Generator: the numbers drawn by a jump are those that its steps draw.

\* The powers of 2 are what their recursion says.
LEMMA Pow2Is ==
  /\ Pow2 \in [Nat -> Nat \ {0}] /\ Pow2[0] = 1
  /\ \A n \in Nat : Pow2[n + 1] = 2 * Pow2[n]
<1> DEFINE X == Nat \ {0}
           g == [i \in Nat |-> [x \in X |-> 2 * x]]
           x0 == 1
<1>1. Stays(g, X) /\ x0 \in X
  BY DEF Stays
<1>2. PICK f \in [Nat -> X] : f = [n \in Nat |-> IF n = 0 THEN x0 ELSE g[n - 1][f[n - 1]]]
  <2> HIDE DEF g, X, x0
  <2>1. \E f \in [Nat -> X] : Recurs(f, x0, g)
    BY <1>1, Recursion
  <2> QED
    BY <2>1 DEF Recurs
<1>3. ASSUME NEW n \in Nat, n # 0 PROVE g[n - 1][f[n - 1]] = 2 * f[n - 1]
  <2>1. n - 1 \in Nat
    BY <1>3
  <2> QED
    BY <1>2, <2>1
<1>4. f = [n \in Nat |-> IF n = 0 THEN 1 ELSE 2 * f[n - 1]]
  BY <1>2, <1>3
<1>5. Pow2 = [n \in Nat |-> IF n = 0 THEN 1 ELSE 2 * Pow2[n - 1]]
  BY <1>4 DEF Pow2
<1>6. Pow2[0] = 1
  BY <1>5
<1>7. ASSUME NEW n \in Nat PROVE Pow2[n + 1] = 2 * Pow2[n]
  <2>1. n + 1 \in Nat /\ n + 1 # 0 /\ (n + 1) - 1 = n
    OBVIOUS
  <2> QED
    BY <1>5, <2>1
<1>8. ASSUME NEW n \in Nat PROVE Pow2[n] \in Nat \ {0}
  <2> DEFINE S == {i \in Nat : Pow2[i] \in Nat \ {0}}
  <2>1. 0 \in S /\ \A i \in Nat : i \in S => i + 1 \in S
    BY <1>6, <1>7
  <2> HIDE DEF S
  <2>2. n \in S
    BY <2>1, Induct
  <2> QED
    BY <2>2 DEF S
<1> QED
  BY <1>5, <1>6, <1>7, <1>8

LEMMA Next31 ==
  ASSUME NEW x \in 0..(GM - 1)
  PROVE  NextRand31(x) \in 0..(GM - 1) /\ Cong(NextRand31(x), x * GA, GM)
<1>1. GM \in Nat \ {0} /\ GA \in Int /\ x \in Int /\ x * GA \in Int
  BY GeneratorAssumption
<1>2. (x * GA) % GM \in 0..(GM - 1)
  BY <1>1, ModRange
<1>3. Cong((x * GA) % GM, x * GA, GM)
  BY <1>1, CongMod
<1> QED
  BY <1>2, <1>3 DEF NextRand31

\* The numbers drawn one by one.
LEMMA After31Is ==
  ASSUME NEW seed \in 0..(GM - 1)
  PROVE  /\ After31(0, seed) = seed
         /\ \A n \in Nat : After31(n, seed) \in 0..(GM - 1)
         /\ \A n \in Nat : After31(n + 1, seed) = NextRand31(After31(n, seed))
<1> DEFINE X == 0..(GM - 1)
           g == [i \in Nat |-> [x \in X |-> NextRand31(x)]]
<1>1. Stays(g, X) /\ seed \in X
  BY Next31 DEF Stays
<1>2. PICK f \in [Nat -> X] : f = [n \in Nat |-> IF n = 0 THEN seed ELSE g[n - 1][f[n - 1]]]
  <2> HIDE DEF g, X
  <2>1. \E f \in [Nat -> X] : Recurs(f, seed, g)
    BY <1>1, Recursion
  <2> QED
    BY <2>1 DEF Recurs
<1>3. ASSUME NEW n \in Nat, n # 0 PROVE g[n - 1][f[n - 1]] = NextRand31(f[n - 1])
  <2>1. n - 1 \in Nat
    BY <1>3
  <2> QED
    BY <1>2, <2>1
<1>4. f = [n \in Nat |-> IF n = 0 THEN seed ELSE NextRand31(f[n - 1])]
  BY <1>2, <1>3
<1> DEFINE h == CHOOSE u : u = [n \in Nat |-> IF n = 0 THEN seed ELSE NextRand31(u[n - 1])]
<1>5. h = [n \in Nat |-> IF n = 0 THEN seed ELSE NextRand31(h[n - 1])]
  BY <1>4
<1>6. \A n \in Nat : After31(n, seed) = h[n]
  BY DEF After31
<1> HIDE DEF h
<1>7. h[0] = seed
  BY <1>5
<1>8. ASSUME NEW n \in Nat PROVE h[n + 1] = NextRand31(h[n])
  <2>1. n + 1 \in Nat /\ n + 1 # 0 /\ (n + 1) - 1 = n
    OBVIOUS
  <2> QED
    BY <1>5, <2>1
<1>9. ASSUME NEW n \in Nat PROVE h[n] \in X
  <2> DEFINE S == {i \in Nat : h[i] \in X}
  <2>1. 0 \in S /\ \A i \in Nat : i \in S => i + 1 \in S
    BY <1>7, <1>8, Next31
  <2> HIDE DEF S
  <2>2. n \in S
    BY <2>1, Induct
  <2> QED
    BY <2>2 DEF S
<1> QED
  BY <1>6, <1>7, <1>8, <1>9

\* ... are the seed times a power of the multiplier, and no other number is.
LEMMA After31Power ==
  ASSUME NEW seed \in 0..(GM - 1), NEW n \in Nat
  PROVE  Cong(After31(n, seed), seed * PowerOf(GA)[n], GM)
<1> DEFINE p == PowerOf(GA)
           S == {i \in Nat : Cong(After31(i, seed), seed * p[i], GM)}
<1>1. GM \in Nat \ {0} /\ GA \in Int /\ seed \in Int
  BY GeneratorAssumption
<1>2. p \in [Nat -> Int] /\ p[0] = 1 /\ \A i \in Nat : p[i + 1] = p[i] * GA
  BY <1>1, PowerIs
<1> HIDE DEF p
<1>3. 0 \in S
  <2>1. After31(0, seed) = seed /\ seed * p[0] = seed
    BY <1>1, <1>2, After31Is
  <2> QED
    BY <1>1, <2>1, CongSame
<1>4. ASSUME NEW i \in Nat, i \in S PROVE i + 1 \in S
  <2> DEFINE x == After31(i, seed)
             y == After31(i + 1, seed)
  <2>1. x \in 0..(GM - 1) /\ y = NextRand31(x) /\ y \in Int
    <3>1. i + 1 \in Nat
      OBVIOUS
    <3>2. x \in 0..(GM - 1) /\ y \in 0..(GM - 1) /\ y = NextRand31(x)
      BY <3>1, After31Is
    <3> QED
      BY <3>2
  <2>2. Cong(x, seed * p[i], GM)
    BY <1>4
  <2> HIDE DEF x, y
  <2>3. x \in Int /\ seed * p[i] \in Int /\ x * GA \in Int /\ (seed * p[i]) * GA \in Int
    BY <1>1, <1>2, <2>1
  <2>4. Cong(y, x * GA, GM)
    BY <2>1, Next31
  <2>5. Cong(x * GA, (seed * p[i]) * GA, GM)
    BY <1>1, <2>2, <2>3, CongTimes
  <2>6. Cong(y, (seed * p[i]) * GA, GM)
    BY <1>1, <2>1, <2>3, <2>4, <2>5, CongTrans
  <2>7. (seed * p[i]) * GA = seed * p[i + 1]
    <3>1. p[i] \in Int /\ p[i + 1] = p[i] * GA
      BY <1>2
    <3> QED
      BY <1>1, <3>1
  <2> QED
    BY <2>6, <2>7 DEF y
<1> HIDE DEF S
<1>5. n \in S
  BY <1>3, <1>4, Induct
<1> QED
  BY <1>5 DEF S, p

LEMMA Jump31 ==
  ASSUME NEW seed \in 0..(GM - 1), NEW n \in Nat, NEW v \in 0..(GM - 1),
         Cong(v, seed * PowerOf(GA)[n], GM)
  PROVE  v = After31(n, seed)
<1> DEFINE x == After31(n, seed)
           y == seed * PowerOf(GA)[n]
<1>1. GM \in Nat \ {0} /\ GA \in Int /\ seed \in Int /\ v \in Int
  BY GeneratorAssumption
<1>2. x \in 0..(GM - 1) /\ Cong(x, y, GM)
  BY After31Is, After31Power
<1>3. y \in Int
  <2>1. PowerOf(GA)[n] \in Int
    BY <1>1, PowerIs
  <2> QED
    BY <1>1, <2>1
<1>4. Cong(v, y, GM)
  OBVIOUS
<1> HIDE DEF x, y
<1>5. x \in Int /\ Cong(y, x, GM)
  BY <1>1, <1>2, <1>3, CongSym
<1>6. Cong(v, x, GM)
  BY <1>1, <1>3, <1>4, <1>5, CongTrans
<1>7. v = x
  BY <1>1, <1>2, <1>6, CongIs
<1> QED
  BY <1>7 DEF x

LEMMA Next64 ==
  ASSUME NEW x \in 0..(GWidth - 1)
  PROVE  NextRand64(x) \in 0..(GWidth - 1) /\ Cong(NextRand64(x), x * RNG_A + 1, GWidth)
<1>1. GWidth \in Nat \ {0} /\ RNG_A \in Int /\ RNG_C = 1 /\ x * RNG_A + 1 \in Int
  BY GeneratorAssumption
<1>2. (x * RNG_A + 1) % GWidth \in 0..(GWidth - 1)
  BY <1>1, ModRange
<1>3. Cong((x * RNG_A + 1) % GWidth, x * RNG_A + 1, GWidth)
  BY <1>1, CongMod
<1> QED
  BY <1>1, <1>2, <1>3 DEF NextRand64

LEMMA After64Is ==
  ASSUME NEW seed \in 0..(GWidth - 1)
  PROVE  /\ After64(0, seed) = seed
         /\ \A n \in Nat : After64(n, seed) \in 0..(GWidth - 1)
         /\ \A n \in Nat : After64(n + 1, seed) = NextRand64(After64(n, seed))
<1> DEFINE X == 0..(GWidth - 1)
           g == [i \in Nat |-> [x \in X |-> NextRand64(x)]]
<1>1. Stays(g, X) /\ seed \in X
  BY Next64 DEF Stays
<1>2. PICK f \in [Nat -> X] : f = [n \in Nat |-> IF n = 0 THEN seed ELSE g[n - 1][f[n - 1]]]
  <2> HIDE DEF g, X
  <2>1. \E f \in [Nat -> X] : Recurs(f, seed, g)
    BY <1>1, Recursion
  <2> QED
    BY <2>1 DEF Recurs
<1>3. ASSUME NEW n \in Nat, n # 0 PROVE g[n - 1][f[n - 1]] = NextRand64(f[n - 1])
  <2>1. n - 1 \in Nat
    BY <1>3
  <2> QED
    BY <1>2, <2>1
<1>4. f = [n \in Nat |-> IF n = 0 THEN seed ELSE NextRand64(f[n - 1])]
  BY <1>2, <1>3
<1> DEFINE h == CHOOSE u : u = [n \in Nat |-> IF n = 0 THEN seed ELSE NextRand64(u[n - 1])]
<1>5. h = [n \in Nat |-> IF n = 0 THEN seed ELSE NextRand64(h[n - 1])]
  BY <1>4
<1>6. \A n \in Nat : After64(n, seed) = h[n]
  BY DEF After64
<1> HIDE DEF h
<1>7. h[0] = seed
  BY <1>5
<1>8. ASSUME NEW n \in Nat PROVE h[n + 1] = NextRand64(h[n])
  <2>1. n + 1 \in Nat /\ n + 1 # 0 /\ (n + 1) - 1 = n
    OBVIOUS
  <2> QED
    BY <1>5, <2>1
<1>9. ASSUME NEW n \in Nat PROVE h[n] \in X
  <2> DEFINE S == {i \in Nat : h[i] \in X}
  <2>1. 0 \in S /\ \A i \in Nat : i \in S => i + 1 \in S
    BY <1>7, <1>8, Next64
  <2> HIDE DEF S
  <2>2. n \in S
    BY <2>1, Induct
  <2> QED
    BY <2>2 DEF S
<1> QED
  BY <1>6, <1>7, <1>8, <1>9

LEMMA After64Sum ==
  ASSUME NEW seed \in 0..(GWidth - 1), NEW n \in Nat
  PROVE  Cong(After64(n, seed), seed * PowerOf(RNG_A)[n] + Sums(RNG_A)[n], GWidth)
<1> DEFINE p == PowerOf(RNG_A)
           s == Sums(RNG_A)
           S == {i \in Nat : Cong(After64(i, seed), seed * p[i] + s[i], GWidth)}
<1>1. GWidth \in Nat \ {0} /\ RNG_A \in Int /\ seed \in Int
  BY GeneratorAssumption
<1>2. /\ p \in [Nat -> Int] /\ p[0] = 1 /\ \A i \in Nat : p[i + 1] = p[i] * RNG_A
      /\ s \in [Nat -> Int] /\ s[0] = 0 /\ \A i \in Nat : s[i + 1] = s[i] * RNG_A + 1
  BY <1>1, PowerIs, SumsIs
<1> HIDE DEF p, s
<1>3. 0 \in S
  <2>1. After64(0, seed) = seed /\ seed * p[0] + s[0] = seed
    BY <1>1, <1>2, After64Is
  <2> QED
    BY <1>1, <2>1, CongSame
<1>4. ASSUME NEW i \in Nat, i \in S PROVE i + 1 \in S
  <2> DEFINE x == After64(i, seed)
             y == After64(i + 1, seed)
             z == seed * p[i] + s[i]
  <2>1. x \in 0..(GWidth - 1) /\ y = NextRand64(x) /\ y \in Int
    <3>1. i + 1 \in Nat
      OBVIOUS
    <3>2. x \in 0..(GWidth - 1) /\ y \in 0..(GWidth - 1) /\ y = NextRand64(x)
      BY <3>1, After64Is
    <3> QED
      BY <3>2
  <2>2. Cong(x, z, GWidth)
    BY <1>4
  <2>3. p[i] \in Int /\ s[i] \in Int /\ z \in Int
    <3>1. p[i] \in Int /\ s[i] \in Int
      BY <1>2
    <3>2. seed * p[i] \in Int
      BY <1>1, <3>1
    <3> QED
      BY <3>1, <3>2
  <2>4. z * RNG_A + 1 = seed * p[i + 1] + s[i + 1]
    <3> DEFINE u == p[i]
               v == s[i]
    <3>1. p[i + 1] = u * RNG_A /\ s[i + 1] = v * RNG_A + 1 /\ u \in Int /\ v \in Int
      BY <1>2, <2>3
    <3> HIDE DEF u, v
    <3>2. (seed * u + v) * RNG_A = seed * (u * RNG_A) + v * RNG_A
      BY <1>1, <3>1
    <3>3. z * RNG_A + 1 = seed * (u * RNG_A) + (v * RNG_A + 1)
      <4>1. seed * (u * RNG_A) \in Int /\ v * RNG_A \in Int
        BY <1>1, <3>1
      <4> QED
        BY <3>2, <4>1 DEF u, v
    <3> QED
      BY <3>1, <3>3
  <2> HIDE DEF x, y, z
  <2>5. x \in Int /\ x * RNG_A \in Int /\ z * RNG_A \in Int /\ 1 \in Int
    BY <1>1, <2>1, <2>3
  <2>6. Cong(y, x * RNG_A + 1, GWidth)
    BY <2>1, Next64
  <2>7. Cong(x * RNG_A + 1, z * RNG_A + 1, GWidth)
    <3>1. Cong(x * RNG_A, z * RNG_A, GWidth) /\ Cong(1, 1, GWidth)
      BY <1>1, <2>2, <2>3, <2>5, CongTimes, CongSame
    <3> QED
      BY <1>1, <2>5, <3>1, CongAdd
  <2>8. Cong(y, z * RNG_A + 1, GWidth)
    <3>1. x * RNG_A + 1 \in Int /\ z * RNG_A + 1 \in Int
      BY <2>5
    <3> QED
      BY <1>1, <2>1, <2>6, <2>7, <3>1, CongTrans
  <2> QED
    BY <2>4, <2>8 DEF y
<1> HIDE DEF S
<1>5. n \in S
  BY <1>3, <1>4, Induct
<1> QED
  BY <1>5 DEF S, p, s

LEMMA Jump64 ==
  ASSUME NEW seed \in 0..(GWidth - 1), NEW n \in Nat, NEW v \in 0..(GWidth - 1),
         Cong(v, seed * PowerOf(RNG_A)[n] + Sums(RNG_A)[n], GWidth)
  PROVE  v = After64(n, seed)
<1> DEFINE x == After64(n, seed)
           y == seed * PowerOf(RNG_A)[n] + Sums(RNG_A)[n]
<1>1. GWidth \in Nat \ {0} /\ RNG_A \in Int /\ seed \in Int /\ v \in Int
  BY GeneratorAssumption
<1>2. x \in 0..(GWidth - 1) /\ Cong(x, y, GWidth)
  BY After64Is, After64Sum
<1>3. y \in Int
  <2>1. PowerOf(RNG_A)[n] \in Int /\ Sums(RNG_A)[n] \in Int
    BY <1>1, PowerIs, SumsIs
  <2> QED
    BY <1>1, <2>1
<1>4. Cong(v, y, GWidth)
  OBVIOUS
<1> HIDE DEF x, y
<1>5. x \in Int /\ Cong(y, x, GWidth)
  BY <1>1, <1>2, <1>3, CongSym
<1>6. Cong(v, x, GWidth)
  BY <1>1, <1>3, <1>4, <1>5, CongTrans
<1>7. v = x
  BY <1>1, <1>2, <1>6, CongIs
<1> QED
  BY <1>7 DEF x

-----------------------------------------------------------------------------
\* RND_seed: the factor stands for the power of the bits of the order that the mask has passed.
Unit == IF Mask = 0 THEN 1 ELSE 2 * Mask
Shifting ==
  /\ how = "shift" /\ from # 0 /\ count > -GM /\ count < GM
  /\ Order = IF count < 0 THEN GM - 1 + count ELSE count
  /\ Mask = 0 \/ \E n \in Nat : Mask = Pow2[n]
  /\ Result \in Int /\ Cong(Result, PowerOf(GA)[Order \div Unit], GM)

\* NthElement: what is left of the jump, from where it is, leads to where all of it does.
Halving ==
  /\ how = "nth" /\ count \in Nat
  /\ N \in Nat /\ Z \in 0..(GM - 1) /\ Mult \in Int
  /\ Cong(Z * PowerOf(Mult)[N], from * PowerOf(GA)[count], GM)

\* AdvanceRand64: the factor and the sum stand for the bits of the count that it has passed.
Doubling ==
  /\ how = "64" /\ count \in Nat /\ nBit \in Nat
  /\ Apow \in Int /\ Cong(Apow, PowerOf(RNG_A)[count \div Pow2[nBit]], GWidth)
  /\ Dsum \in Int /\ Cong(Dsum, Sums(RNG_A)[count \div Pow2[nBit]], GWidth)

GenIInv ==
  /\ gen_pc \in {"call", "nth", "top", "bits", "mask", "return"}
  /\ gen_pc # "call" => from \in GSeeds /\ count \in Int
  /\ gen_pc = "mask" => Shifting
  /\ gen_pc = "nth" => Halving
  /\ gen_pc = "top" => how = "64" /\ count \in Nat /\ nBit \in Nat
                        /\ Apow = RNG_A /\ Dsum = 1
  /\ gen_pc = "bits" => Doubling
  /\ JumpIsSteps

LEMMA SeedIs == \A seed \in GSeeds : seed \in 0..(GM - 1) /\ seed \in 0..(GWidth - 1)
BY GeneratorAssumption

LEMMA Numbers31 == GM \in Nat \ {0} /\ GA \in 0..(GM - 1) /\ GA \in Int
BY GeneratorAssumption

LEMMA Numbers64 == GWidth \in Nat \ {0} /\ RNG_A \in Int /\ RNG_C = 1
BY GeneratorAssumption

LEMMA GenInitIInv == GenInit => GenIInv
BY DEF GenInit, GenIInv, JumpIsSteps

LEMMA CallShiftStep == ASSUME GenIInv, CallShift PROVE GenIInv'
<1>1. from' \in GSeeds /\ from' # 0 /\ count' \in Int /\ count' > -GM /\ count' < GM
  <2>1. count' \in Jumps /\ count' > -GM /\ count' < GM /\ from' \in GSeeds /\ from' # 0
    BY DEF CallShift
  <2>2. \A n \in Jumps : n \in Int
    <3>1. Jumps \subseteq (1 - GM)..GWidth /\ 1 - GM \in Int /\ GWidth \in Int
      BY GeneratorAssumption
    <3> QED
      BY <3>1
  <2> QED
    BY <2>1, <2>2
<1>2. Order' = (IF count' < 0 THEN GM - 1 + count' ELSE count') /\ Mask' = TopMask
      /\ Result' = 1 /\ how' = "shift" /\ gen_pc' = "mask"
  BY DEF CallShift
<1>3. PICK n \in 0..62 : TopMask = Pow2[n]
  BY GeneratorAssumption
<1>4. Mask' # 0 /\ TopMask \in Nat /\ 2 * TopMask >= GM
  BY <1>2, GeneratorAssumption
<1>5. Order' \in 0..(GM - 1)
  <2>1. \A c \in Int : c > -GM /\ c < GM => (IF c < 0 THEN GM - 1 + c ELSE c) \in 0..(GM - 1)
    BY Numbers31
  <2> QED
    BY <1>1, <1>2, <2>1
<1>6. Order' \div (2 * TopMask) = 0
  <2>1. Order' \in Nat /\ 2 * TopMask \in Nat /\ Order' < 2 * TopMask
    BY <1>4, <1>5, Numbers31
  <2> QED
    BY <2>1, SmallDiv
<1>7. (Order \div Unit)' = 0
  BY <1>2, <1>4, <1>6 DEF Unit
<1>8. Cong(Result, PowerOf(GA)[Order \div Unit], GM)'
  <2>1. PowerOf(GA)[0] = 1
    BY Numbers31, PowerIs
  <2>2. Cong(1, 1, GM)
    BY Numbers31, CongSame
  <2>3. Cong(Result', PowerOf(GA)[(Order \div Unit)'], GM)
    BY <1>2, <1>7, <2>1, <2>2
  <2> QED
    BY <2>3
<1>9. Shifting'
  <2>1. n \in Nat
    OBVIOUS
  <2>2. \E k \in Nat : Mask' = Pow2[k]
    BY <1>2, <1>3, <2>1
  <2> QED
    BY <1>1, <1>2, <1>8, <2>2 DEF Shifting
<1> QED
  BY <1>1, <1>2, <1>9 DEF GenIInv, JumpIsSteps

\* A pass of the loop: the order divided by the mask is the double and a bit.
LEMMA MaskBit ==
  ASSUME NEW order \in Nat, NEW mask \in Nat \ {0}, NEW r \in Int, NEW r1,
         Cong(r, PowerOf(GA)[order \div (2 * mask)], GM),
         r1 = LET square == (r * r) % GM
              IN  IF mask > order THEN r
                  ELSE IF (order \div mask) % 2 = 1 THEN (square * GA) % GM ELSE square
  PROVE  r1 \in Int /\ Cong(r1, PowerOf(GA)[order \div mask], GM)
<1>1. CASE mask > order
  <2>1. order \div mask = 0
    BY <1>1, SmallDiv
  <2>2. order \div (2 * mask) = 0
    <3>1. 2 * mask \in Nat /\ order < 2 * mask
      BY <1>1
    <3> QED
      BY <3>1, SmallDiv
  <2> QED
    BY <1>1, <2>1, <2>2
<1>2. CASE ~(mask > order)
  <2> DEFINE q == order \div (2 * mask)
             b == (order \div mask) % 2
             square == (r * r) % GM
  <2>1. q \in Nat /\ b \in {0, 1} /\ order \div mask = 2 * q + b
    BY HalfDiv
  <2>2. /\ square \in Int /\ Cong(square, PowerOf(GA)[2 * q], GM)
        /\ (square * GA) % GM \in Int /\ Cong((square * GA) % GM, PowerOf(GA)[2 * q + 1], GM)
    BY <2>1, Numbers31, PowerBit
  <2>3. r1 = IF b = 1 THEN (square * GA) % GM ELSE square
    BY <1>2
  <2> HIDE DEF q, b, square
  <2>4. CASE b = 0
    BY <2>1, <2>2, <2>3, <2>4
  <2>5. CASE b = 1
    BY <2>1, <2>2, <2>3, <2>5
  <2> QED
    BY <2>1, <2>4, <2>5
<1> QED
  BY <1>1, <1>2

LEMMA HalfMask ==
  ASSUME NEW n \in Nat
  PROVE  LET mask == Pow2[n]
             half == mask \div 2
         IN  /\ half = 0 \/ \E k \in Nat : half = Pow2[k]
             /\ (IF half = 0 THEN 1 ELSE 2 * half) = mask
<1>1. CASE n = 0
  <2>1. Pow2[n] = 1 /\ 1 \div 2 = 0
    BY <1>1, Pow2Is
  <2> QED
    BY <2>1
<1>2. CASE n # 0
  <2>1. n - 1 \in Nat /\ (n - 1) + 1 = n
    BY <1>2
  <2>2. Pow2[n] = 2 * Pow2[n - 1] /\ Pow2[n - 1] \in Nat \ {0}
    BY <2>1, Pow2Is
  <2>3. Pow2[n] \div 2 = Pow2[n - 1]
    BY <2>2
  <2> QED
    BY <2>1, <2>2, <2>3
<1> QED
  BY <1>1, <1>2

LEMMA ShiftMaskStep == ASSUME GenIInv, ShiftMask PROVE GenIInv'
<1>1. Shifting /\ Mask > 0 /\ gen_pc' = "mask" /\ from \in GSeeds /\ count \in Int
      /\ UNCHANGED <<how, from, count, Order>> /\ Mask' = Mask \div 2
  BY DEF GenIInv, ShiftMask
<1>2. PICK n \in Nat : Mask = Pow2[n]
  BY <1>1 DEF Shifting
<1>3. Mask \in Nat \ {0}
  BY <1>2, Pow2Is
<1>4. Order \in Nat
  BY <1>1, Numbers31 DEF Shifting
<1>5. /\ Mask' = 0 \/ \E k \in Nat : Mask' = Pow2[k]
      /\ Unit' = Mask
  <2>1. Unit' = IF Mask' = 0 THEN 1 ELSE 2 * Mask'
    BY DEF Unit
  <2> QED
    BY <1>1, <1>2, <2>1, HalfMask
<1>6. Result' \in Int /\ Cong(Result', PowerOf(GA)[Order \div Mask], GM)
  <2>1. Cong(Result, PowerOf(GA)[Order \div (2 * Mask)], GM) /\ Result \in Int
    BY <1>1, <1>3 DEF Shifting, Unit
  <2>2. Result' = LET square == (Result * Result) % GM
                  IN  IF Mask > Order THEN Result
                      ELSE IF (Order \div Mask) % 2 = 1 THEN (square * GA) % GM ELSE square
    BY DEF ShiftMask
  <2> QED
    BY <1>3, <1>4, <2>1, <2>2, MaskBit
<1>7. Cong(Result, PowerOf(GA)[Order \div Unit], GM)'
  <2>1. Cong(Result', PowerOf(GA)[Order' \div Unit'], GM)
    BY <1>1, <1>5, <1>6
  <2> QED
    BY <2>1
<1>8. Shifting'
  BY <1>1, <1>5, <1>6, <1>7 DEF Shifting
<1> QED
  BY <1>1, <1>8 DEF GenIInv, JumpIsSteps

LEMMA EndShiftStep == ASSUME GenIInv, EndShift PROVE GenIInv'
<1>1. /\ Shifting /\ Mask = 0 /\ gen_pc' = "return" /\ from \in GSeeds /\ count \in Int
      /\ UNCHANGED <<how, from, count>> /\ value' = (from * Result) % GM
  BY DEF GenIInv, EndShift
<1> DEFINE p == PowerOf(GA)
<1>2. p \in [Nat -> Int] /\ p[0] = 1
  BY Numbers31, PowerIs
<1>3. Order \in Nat /\ from \in 0..(GM - 1) /\ from \in Int
  <2>1. from \in 0..(GM - 1)
    BY <1>1, SeedIs
  <2> QED
    BY <1>1, <2>1, Numbers31 DEF Shifting
<1>4. Result \in Int /\ Cong(Result, p[Order], GM)
  <2>1. Order \div Unit = Order
    BY <1>1, <1>3 DEF Unit
  <2> QED
    BY <1>1, <2>1 DEF Shifting
<1>5. value' \in 0..(GM - 1) /\ Cong(value', from * p[Order], GM)
  <2>1. from * Result \in Int /\ from * p[Order] \in Int /\ p[Order] \in Int
    <3>1. p[Order] \in Int
      BY <1>2, <1>3
    <3> QED
      BY <1>3, <1>4, <3>1
  <2>2. value' \in 0..(GM - 1) /\ Cong(value', from * Result, GM)
    BY <1>1, <2>1, Numbers31, ModRange, CongMod
  <2>3. value' \in Int
    BY <2>2, Numbers31
  <2> HIDE DEF p
  <2>4. Cong(from * Result, from * p[Order], GM)
    <3> DEFINE x == p[Order]
    <3>1. x \in Int /\ Cong(Result, x, GM)
      BY <1>4, <2>1
    <3> HIDE DEF x
    <3>2. Cong(Result * from, x * from, GM) /\ Cong(from * Result, from * x, GM)
      BY <1>3, <1>4, <3>1, Numbers31, CongTimes
    <3> QED
      BY <3>2 DEF x
  <2> QED
    BY <2>1, <2>2, <2>3, <2>4, Numbers31, CongTrans
<1>6. CASE count >= 0
  <2>1. Order = count /\ count \in Nat
    BY <1>1, <1>6 DEF Shifting
  <2>2. value' = After31(count, from)
    BY <1>3, <1>5, <2>1, Jump31
  <2>3. JumpIsSteps'
    BY <1>1, <2>1, <2>2 DEF JumpIsSteps, Shifting
  <2> QED
    BY <1>1, <2>3 DEF GenIInv
<1>7. CASE count < 0
  <2>1. /\ Order = GM - 1 + count /\ -count \in Nat /\ GM - 1 \in Nat
        /\ Order + (-count) = GM - 1
    BY <1>1, <1>7, Numbers31 DEF Shifting
  <2>2. p[GM - 1] = p[Order] * p[-count] /\ p[GM - 1] \in Int /\ p[Order] \in Int /\ p[-count] \in Int
    <3>1. p[Order + (-count)] = p[Order] * p[-count]
      BY <1>3, <2>1, Numbers31, PowerAdd
    <3> QED
      BY <1>2, <1>3, <2>1, <3>1
  <2>3. Cong(from, from * p[GM - 1], GM)
    <3>1. from \in GSeeds \ {0}
      BY <1>1 DEF Shifting
    <3>2. After31(GM - 1, from) = from
      BY <3>1, PeriodAssumption
    <3> QED
      BY <1>3, <2>1, <3>2, After31Power
  <2>4. Cong(from, value' * p[-count], GM)
    <3> HIDE DEF p
    <3>1. Cong(value' * p[-count], (from * p[Order]) * p[-count], GM)
      <4> DEFINE x == value'
                 y == from * p[Order]
                 z == p[-count]
      <4>1. x \in Int /\ y \in Int /\ z \in Int /\ GM \in Int /\ Cong(x, y, GM)
        BY <1>3, <1>5, <2>2, Numbers31
      <4> HIDE DEF x, y, z
      <4>2. Cong(x * z, y * z, GM) /\ Cong(z * x, z * y, GM)
        BY <4>1, CongTimes
      <4> QED
        BY <4>2 DEF x, y, z
    <3>2. (from * p[Order]) * p[-count] = from * p[GM - 1]
      <4>1. (from * p[Order]) * p[-count] = from * (p[Order] * p[-count])
        BY <1>3, <2>2
      <4> QED
        BY <2>2, <4>1
    <3>3. value' * p[-count] \in Int /\ from * p[GM - 1] \in Int
      <4>1. value' \in Int
        BY <1>5, Numbers31
      <4> QED
        BY <1>3, <2>2, <4>1
    <3>4. Cong(from * p[GM - 1], value' * p[-count], GM)
      BY <3>1, <3>2, <3>3, Numbers31, CongSym
    <3> QED
      BY <1>3, <2>3, <3>3, <3>4, Numbers31, CongTrans
  <2>5. from = After31(-count, value')
    BY <1>3, <1>5, <2>1, <2>4, Jump31
  <2>6. JumpIsSteps'
    BY <1>1, <1>7, <2>5 DEF JumpIsSteps, Shifting
  <2> QED
    BY <1>1, <2>6 DEF GenIInv
<1> QED
  BY <1>1, <1>6, <1>7

LEMMA CallNthStep == ASSUME GenIInv, CallNth PROVE GenIInv'
<1>1. /\ from' \in GSeeds /\ count' \in Nat /\ how' = "nth" /\ gen_pc' = "nth"
      /\ N' = count' /\ Z' = from' /\ Mult' = GA
  BY DEF CallNth
<1>2. from' \in 0..(GM - 1) /\ from' \in Int
  <2>1. from' \in 0..(GM - 1)
    BY <1>1, SeedIs
  <2> QED
    BY <2>1, Numbers31
<1>3. Cong(Z' * PowerOf(Mult')[N'], from' * PowerOf(GA)[count'], GM)
  <2>1. PowerOf(GA)[count'] \in Int
    BY <1>1, Numbers31, PowerIs
  <2>2. from' * PowerOf(GA)[count'] \in Int
    BY <1>2, <2>1
  <2>3. Cong(from' * PowerOf(GA)[count'], from' * PowerOf(GA)[count'], GM)
    BY <2>2, Numbers31, CongSame
  <2> QED
    BY <1>1, <2>3
<1>4. Halving'
  BY <1>1, <1>2, <1>3, Numbers31 DEF Halving
<1> QED
  BY <1>1, <1>4 DEF GenIInv, JumpIsSteps

LEMMA NthElementStep == ASSUME GenIInv, NthElement PROVE GenIInv'
<1>1. /\ Halving /\ gen_pc' = "nth" /\ from \in GSeeds
      /\ UNCHANGED <<how, from, count>>
      /\ Z' = (IF N % 2 # 0 THEN (Mult * Z) % GM ELSE Z)
      /\ N' = N \div 2 /\ Mult' = (Mult * Mult) % GM
  BY DEF GenIInv, NthElement, Factor
<1>2. /\ N \in Nat /\ Z \in 0..(GM - 1) /\ Z \in Int /\ Mult \in Int /\ count \in Nat
  BY <1>1, Numbers31 DEF Halving
<1>3. /\ Mult' \in Int /\ Z' \in Int /\ N' \in Nat
      /\ Cong(Z' * PowerOf(Mult')[N'], Z * PowerOf(Mult)[N], GM)
  BY <1>1, <1>2, Numbers31, HalfPower
<1>4. Z' \in 0..(GM - 1)
  <2>1. Mult * Z \in Int
    BY <1>2
  <2>2. (Mult * Z) % GM \in 0..(GM - 1)
    BY <2>1, Numbers31, ModRange
  <2> QED
    BY <1>1, <1>2, <2>2
<1>5. Cong(Z' * PowerOf(Mult')[N'], from * PowerOf(GA)[count], GM)
  <2> DEFINE a == Z' * PowerOf(Mult')[N']
             b == Z * PowerOf(Mult)[N]
             c == from * PowerOf(GA)[count]
  <2>1. from \in Int
    <3>1. from \in 0..(GM - 1)
      BY <1>1, SeedIs
    <3> QED
      BY <3>1, Numbers31
  <2>2. PowerOf(Mult')[N'] \in Int /\ PowerOf(Mult)[N] \in Int /\ PowerOf(GA)[count] \in Int
    <3>1. PowerOf(Mult')[N'] \in Int
      BY <1>3, PowerIs
    <3>2. PowerOf(Mult)[N] \in Int
      BY <1>2, PowerIs
    <3>3. PowerOf(GA)[count] \in Int
      BY <1>2, Numbers31, PowerIs
    <3> QED
      BY <3>1, <3>2, <3>3
  <2>3. a \in Int /\ b \in Int /\ c \in Int
    BY <1>2, <1>3, <2>1, <2>2
  <2>4. Cong(a, b, GM) /\ Cong(b, c, GM)
    BY <1>1, <1>3 DEF Halving
  <2> HIDE DEF a, b, c
  <2>5. Cong(a, c, GM)
    BY <2>3, <2>4, Numbers31, CongTrans
  <2> QED
    BY <2>5 DEF a, c
<1>6. Halving'
  BY <1>1, <1>2, <1>3, <1>4, <1>5 DEF Halving
<1> QED
  BY <1>1, <1>2, <1>6 DEF GenIInv, JumpIsSteps

LEMMA EndNthStep == ASSUME GenIInv, EndNth PROVE GenIInv'
<1>1. /\ Halving /\ N = 0 /\ gen_pc' = "return" /\ from \in GSeeds
      /\ UNCHANGED <<how, from, count>> /\ value' = Z
  BY DEF GenIInv, EndNth
<1>2. Z \in 0..(GM - 1) /\ Z \in Int /\ count \in Nat /\ from \in 0..(GM - 1)
  <2>1. from \in 0..(GM - 1)
    BY <1>1, SeedIs
  <2> QED
    BY <1>1, <2>1, Numbers31 DEF Halving
<1>3. Cong(Z, from * PowerOf(GA)[count], GM)
  <2>1. PowerOf(Mult)[0] = 1
    BY <1>1, PowerIs DEF Halving
  <2>2. Z * PowerOf(Mult)[N] = Z
    BY <1>1, <1>2, <2>1
  <2> QED
    BY <1>1, <2>2 DEF Halving
<1>4. value' = After31(count, from)
  BY <1>1, <1>2, <1>3, Jump31
<1>5. JumpIsSteps'
  BY <1>1, <1>2, <1>4 DEF JumpIsSteps, Halving
<1> QED
  BY <1>1, <1>2, <1>5 DEF GenIInv

LEMMA CallAdvanceStep == ASSUME GenIInv, CallAdvance PROVE GenIInv'
<1>1. /\ from' \in GSeeds /\ count' \in Nat /\ how' = "64" /\ value' = from'
      /\ Apow' = RNG_A /\ Dsum' = 1 /\ nBit' = 0
      /\ gen_pc' = IF count' = 0 THEN "return" ELSE "top"
  BY Numbers64 DEF CallAdvance
<1>2. CASE count' = 0
  <2>1. After64(0, from') = from'
    <3>1. from' \in 0..(GWidth - 1)
      BY <1>1, SeedIs
    <3> QED
      BY <3>1, After64Is
  <2>2. JumpIsSteps'
    BY <1>1, <1>2, <2>1 DEF JumpIsSteps
  <2> QED
    BY <1>1, <1>2, <2>2 DEF GenIInv
<1>3. CASE count' # 0
  BY <1>1, <1>3 DEF GenIInv, JumpIsSteps
<1> QED
  BY <1>2, <1>3

LEMMA HighestBitStep == ASSUME GenIInv, HighestBit PROVE GenIInv'
<1>1. /\ how = "64" /\ count \in Nat /\ nBit \in Nat /\ Apow = RNG_A /\ Dsum = 1
      /\ from \in GSeeds
      /\ UNCHANGED <<how, from, count, Apow, Dsum>>
      /\ IF count \div Pow2[nBit] = 1 THEN gen_pc' = "bits" /\ nBit' = nBit
                                        ELSE nBit' = nBit + 1 /\ gen_pc' = "top"
  BY DEF GenIInv, HighestBit
<1>2. CASE count \div Pow2[nBit] = 1
  <2>1. PowerOf(RNG_A)[1] = RNG_A
    <3>1. PowerOf(RNG_A)[0 + 1] = 1 * RNG_A
      BY Numbers64, PowerIs
    <3> QED
      BY <3>1, Numbers64
  <2>2. Sums(RNG_A)[1] = 1
    <3>1. Sums(RNG_A)[0 + 1] = 0 * RNG_A + 1
      BY Numbers64, SumsIs
    <3> QED
      BY <3>1, Numbers64
  <2>3. Cong(RNG_A, RNG_A, GWidth) /\ Cong(1, 1, GWidth)
    BY Numbers64, CongSame
  <2>4. (count \div Pow2[nBit])' = 1
    BY <1>1, <1>2
  <2>5. Doubling'
    BY <1>1, <1>2, <2>1, <2>2, <2>3, <2>4, Numbers64 DEF Doubling
  <2> QED
    BY <1>1, <1>2, <2>5 DEF GenIInv, JumpIsSteps
<1>3. CASE count \div Pow2[nBit] # 1
  BY <1>1, <1>3 DEF GenIInv, JumpIsSteps
<1> QED
  BY <1>2, <1>3

LEMMA NextBitStep == ASSUME GenIInv, NextBit PROVE GenIInv'
<1> DEFINE q == count \div Pow2[nBit]
           b == (count \div Pow2[nBit - 1]) % 2
           sum == (Dsum * (Apow + 1)) % GWidth
           pow == (Apow * Apow) % GWidth
<1>1. /\ Doubling /\ nBit > 0 /\ nBit' = nBit - 1 /\ gen_pc' = "bits" /\ from \in GSeeds
      /\ UNCHANGED <<how, from, count>>
  BY DEF GenIInv, NextBit
<1>2. /\ Dsum' = (IF b = 1 THEN (sum + pow) % GWidth ELSE sum)
      /\ Apow' = (IF b = 1 THEN (pow * RNG_A) % GWidth ELSE pow)
  BY <1>1 DEF NextBit
<1>3. q \in Nat /\ b \in {0, 1} /\ count \div Pow2[nBit - 1] = 2 * q + b
  <2>1. nBit - 1 \in Nat /\ (nBit - 1) + 1 = nBit /\ count \in Nat
    BY <1>1 DEF Doubling
  <2>2. Pow2[nBit - 1] \in Nat \ {0} /\ Pow2[nBit] = 2 * Pow2[nBit - 1]
    BY <2>1, Pow2Is
  <2> DEFINE d == Pow2[nBit - 1]
  <2>3. d \in Nat \ {0} /\ Pow2[nBit] = 2 * d
    BY <2>2
  <2> HIDE DEF d
  <2>4. /\ count \div (2 * d) \in Nat /\ (count \div d) % 2 \in {0, 1}
        /\ count \div d = 2 * (count \div (2 * d)) + ((count \div d) % 2)
    BY <2>1, <2>3, HalfDiv
  <2> QED
    BY <2>3, <2>4 DEF d
<1>4. /\ Apow \in Int /\ Dsum \in Int /\ count \in Nat /\ nBit \in Nat
      /\ Cong(Apow, PowerOf(RNG_A)[q], GWidth) /\ Cong(Dsum, Sums(RNG_A)[q], GWidth)
  BY <1>1 DEF Doubling
<1> HIDE DEF q
<1>5. /\ pow \in Int /\ Cong(pow, PowerOf(RNG_A)[2 * q], GWidth)
      /\ (pow * RNG_A) % GWidth \in Int
      /\ Cong((pow * RNG_A) % GWidth, PowerOf(RNG_A)[2 * q + 1], GWidth)
  BY <1>3, <1>4, Numbers64, PowerBit
<1>6. /\ sum \in Int /\ Cong(sum, Sums(RNG_A)[2 * q], GWidth)
      /\ (sum + pow) % GWidth \in Int
      /\ Cong((sum + pow) % GWidth, Sums(RNG_A)[2 * q + 1], GWidth)
  BY <1>3, <1>4, Numbers64, SumBit
<1> HIDE DEF b, sum, pow
<1>7. /\ Apow' \in Int /\ Cong(Apow', PowerOf(RNG_A)[2 * q + b], GWidth)
      /\ Dsum' \in Int /\ Cong(Dsum', Sums(RNG_A)[2 * q + b], GWidth)
  <2>1. CASE b = 0
    <3>1. 2 * q + b = 2 * q
      BY <1>3, <2>1
    <3> QED
      BY <1>2, <1>5, <1>6, <2>1, <3>1
  <2>2. CASE b = 1
    BY <1>2, <1>5, <1>6, <2>2
  <2> QED
    BY <1>3, <2>1, <2>2
<1>8. (count \div Pow2[nBit])' = 2 * q + b
  BY <1>1, <1>3
<1>9. Doubling'
  <2>1. nBit' \in Nat /\ how' = "64" /\ count' \in Nat
    BY <1>1, <1>4 DEF Doubling
  <2>2. /\ Cong(Apow', PowerOf(RNG_A)[(count \div Pow2[nBit])'], GWidth)
        /\ Cong(Dsum', Sums(RNG_A)[(count \div Pow2[nBit])'], GWidth)
    BY <1>7, <1>8
  <2> QED
    BY <1>7, <2>1, <2>2 DEF Doubling
<1> QED
  BY <1>1, <1>4, <1>9 DEF GenIInv, JumpIsSteps

LEMMA EndAdvanceStep == ASSUME GenIInv, EndAdvance PROVE GenIInv'
<1>1. /\ Doubling /\ nBit = 0 /\ gen_pc' = "return" /\ from \in GSeeds
      /\ UNCHANGED <<how, from, count>> /\ value' = (from * Apow + Dsum * 1) % GWidth
  BY Numbers64 DEF GenIInv, EndAdvance
<1>2. count \div Pow2[nBit] = count
  <2>1. Pow2[nBit] = 1 /\ count \in Nat
    BY <1>1, Pow2Is DEF Doubling
  <2> QED
    BY <2>1
<1> DEFINE p == PowerOf(RNG_A)[count]
           s == Sums(RNG_A)[count]
<1>3. /\ Apow \in Int /\ Dsum \in Int /\ count \in Nat /\ from \in Int
      /\ Cong(Apow, p, GWidth) /\ Cong(Dsum, s, GWidth) /\ from \in 0..(GWidth - 1)
  <2>1. from \in 0..(GWidth - 1)
    BY <1>1, SeedIs
  <2> QED
    BY <1>1, <1>2, <2>1, Numbers64 DEF Doubling
<1>4. p \in Int /\ s \in Int
  BY <1>3, Numbers64, PowerIs, SumsIs
<1> HIDE DEF p, s
<1>5. from * Apow \in Int /\ from * p \in Int /\ from * Apow + Dsum * 1 = from * Apow + Dsum
  BY <1>3, <1>4
<1>6. Cong(from * Apow, from * p, GWidth)
  BY <1>3, <1>4, Numbers64, CongTimes
<1>7. Cong(from * Apow + Dsum, from * p + s, GWidth)
  BY <1>3, <1>4, <1>5, <1>6, Numbers64, CongAdd
<1>8. value' \in 0..(GWidth - 1) /\ Cong(value', from * p + s, GWidth)
  <2>1. from * Apow + Dsum \in Int /\ from * p + s \in Int
    BY <1>3, <1>4, <1>5
  <2>2. value' \in 0..(GWidth - 1) /\ Cong(value', from * Apow + Dsum, GWidth)
    BY <1>1, <1>5, <2>1, Numbers64, ModRange, CongMod
  <2>3. value' \in Int
    BY <2>2, Numbers64
  <2> QED
    BY <1>7, <2>1, <2>2, <2>3, Numbers64, CongTrans
<1>9. value' = After64(count, from)
  BY <1>3, <1>8, Jump64 DEF p, s
<1>10. JumpIsSteps'
  BY <1>1, <1>9 DEF JumpIsSteps, Doubling
<1> QED
  BY <1>1, <1>3, <1>10 DEF GenIInv

LEMMA GenIInvStep == GenIInv /\ [GenNext]_gen_vars => GenIInv'
<1> SUFFICES ASSUME GenIInv, [GenNext]_gen_vars PROVE GenIInv'
  OBVIOUS
<1>1. CASE GenNext
  BY <1>1, CallShiftStep, ShiftMaskStep, EndShiftStep, CallNthStep, NthElementStep, EndNthStep,
     CallAdvanceStep, HighestBitStep, NextBitStep, EndAdvanceStep DEF GenNext
<1>2. CASE UNCHANGED gen_vars
  BY <1>2 DEF gen_vars, GenIInv, JumpIsSteps, Shifting, Halving, Doubling, Unit
<1> QED
  BY <1>1, <1>2

\* JumpIsSteps: a jump over n numbers leaves the seed where n draws do, and one back where n
\* draws lead to the seed, in all three implementations: for any modulus, multiplier, seed and
\* number of draws.
THEOREM JumpsAreSteps == GenSpec => []JumpIsSteps
<1>1. GenIInv => JumpIsSteps
  BY DEF GenIInv
<1> QED
  BY <1>1, GenInitIInv, GenIInvStep, PTL DEF GenSpec

-----------------------------------------------------------------------------
\* Calendar: a day of the seven years and its date.

\* The days before the first one of a year, from STARTDATE on.
First == [y \in 92..99 |-> <<0, 366, 731, 1096, 1461, 1827, 2192, 2557>>[y - 91]]

LEMMA FirstIs ==
  /\ First[92] = 0 /\ First[93] = 366 /\ First[94] = 731 /\ First[95] = 1096
  /\ First[96] = 1461 /\ First[97] = 1827 /\ First[98] = 2192 /\ First[99] = 2557
BY DEF First

LEMMA LeapIs ==
  /\ LEAP(92) = 1 /\ LEAP(93) = 0 /\ LEAP(94) = 0 /\ LEAP(95) = 0
  /\ LEAP(96) = 1 /\ LEAP(97) = 0 /\ LEAP(98) = 0
BY DEF LEAP

LEMMA LeapInt == \A y : LEAP(y) \in {0, 1}
BY DEF LEAP

LEMMA FirstNext ==
  ASSUME NEW y \in 92..98
  PROVE  First[y] \in Nat /\ First[y + 1] = First[y] + 365 + LEAP(y)
<1>1. y \in {92, 93, 94, 95, 96, 97, 98}
  OBVIOUS
<1> QED
  BY <1>1, FirstIs, LeapIs

\* A number of days is in one year.
LEMMA InOneYear ==
  ASSUME NEW i \in 0..(TOTDATE - 1)
  PROVE  \E y \in 92..98 : First[y] <= i /\ i < First[y + 1]
<1>1. i \in 0..2556
  BY DEF TOTDATE
<1> USE FirstIs
<1>2. CASE i < 366
  BY <1>1, <1>2
<1>3. CASE 366 <= i /\ i < 731
  <2>1. 93 \in 92..98 /\ 93 + 1 = 94
    OBVIOUS
  <2> QED
    BY <1>1, <1>3, <2>1
<1>4. CASE 731 <= i /\ i < 1096
  BY <1>1, <1>4
<1>5. CASE 1096 <= i /\ i < 1461
  BY <1>1, <1>5
<1>6. CASE 1461 <= i /\ i < 1827
  BY <1>1, <1>6
<1>7. CASE 1827 <= i /\ i < 2192
  BY <1>1, <1>7
<1>8. CASE 2192 <= i
  BY <1>1, <1>8
<1> QED
  BY <1>1, <1>2, <1>3, <1>4, <1>5, <1>6, <1>7, <1>8

\* The years do not overlap.
LEMMA FirstGrows ==
  ASSUME NEW y \in 92..99, NEW z \in 92..99, y <= z
  PROVE  First[y] <= First[z]
<1>1. y \in {92, 93, 94, 95, 96, 97, 98, 99} /\ z \in {92, 93, 94, 95, 96, 97, 98, 99}
  OBVIOUS
<1> QED
  BY <1>1, FirstIs

\* julian's loop goes to that year.
LEMMA JulianIs ==
  ASSUME NEW i \in 0..(TOTDATE - 1), NEW y \in 92..98, First[y] <= i, i < First[y + 1]
  PROVE  julian(STARTDATE + i) = y * 1000 + 1 + (i - First[y])
<1> DEFINE date == STARTDATE + i
           step(n) == 365 + LEAP(StartYear + n - 1)
           f == CHOOSE u : u = [n \in Nat |-> IF n = 0 THEN date - STARTDATE ELSE u[n - 1] - step(n)]
           Within(n) == 1 + f[n] <= 365 + LEAP(StartYear + n)
           passes == CHOOSE n \in 0..100 : Within(n) /\ \A k \in 0..(n - 1) : ~Within(k)
           start == date - STARTDATE
           g == [n \in Nat |-> [x \in Int |-> x - step(n + 1)]]
           X == Int
<1>1. julian(STARTDATE + i) = (StartYear + passes) * 1000 + 1 + f[passes]
  BY DEF julian
<1>2. i \in Int /\ start = i /\ StartYear = 92
  BY DEF TOTDATE, STARTDATE, StartYear
<1>3. \A n : step(n) \in Int
  BY LeapInt
<1>4. f = [n \in Nat |-> IF n = 0 THEN date - STARTDATE ELSE f[n - 1] - step(n)]
  <2> HIDE DEF step
  <2>1. Stays(g, X) /\ start \in X
    BY <1>2, <1>3 DEF Stays
  <2>2. PICK h \in [Nat -> X] : h = [n \in Nat |-> IF n = 0 THEN start ELSE g[n - 1][h[n - 1]]]
    <3> HIDE DEF g, X, start
    <3>1. \E h \in [Nat -> X] : Recurs(h, start, g)
      BY <2>1, Recursion
    <3> QED
      BY <3>1 DEF Recurs
  <2>3. ASSUME NEW n \in Nat, n # 0 PROVE g[n - 1][h[n - 1]] = h[n - 1] - step(n)
    <3>1. n - 1 \in Nat /\ (n - 1) + 1 = n
      BY <2>3
    <3>2. h[n - 1] \in Int
      <4>1. h \in [Nat -> Int]
        OBVIOUS
      <4> QED
        BY <3>1, <4>1
    <3> QED
      BY <3>1, <3>2
  <2>4. h = [n \in Nat |-> IF n = 0 THEN date - STARTDATE ELSE h[n - 1] - step(n)]
    BY <2>2, <2>3
  <2> HIDE DEF date
  <2> QED
    BY <2>4
<1> HIDE DEF f
<1>5. f[0] = i
  <2> HIDE DEF step
  <2> QED
    BY <1>2, <1>4
<1>6. ASSUME NEW n \in 0..5 PROVE f[n + 1] = f[n] - (365 + LEAP(92 + n))
  <2>1. n + 1 \in Nat /\ n + 1 # 0 /\ (n + 1) - 1 = n
    OBVIOUS
  <2>2. step(n + 1) = 365 + LEAP(92 + n)
    <3>1. StartYear + (n + 1) - 1 = 92 + n
      BY <1>2
    <3> QED
      BY <3>1
  <2> HIDE DEF step, date
  <2> QED
    BY <1>4, <2>1, <2>2
<1>7. \A n \in 0..6 : f[n] = i - First[92 + n]
  <2>1. /\ f[1] = f[0] - (365 + LEAP(92)) /\ f[2] = f[1] - (365 + LEAP(93))
        /\ f[3] = f[2] - (365 + LEAP(94)) /\ f[4] = f[3] - (365 + LEAP(95))
        /\ f[5] = f[4] - (365 + LEAP(96)) /\ f[6] = f[5] - (365 + LEAP(97))
    <3>1. \A n \in {0, 1, 2, 3, 4, 5} : f[n + 1] = f[n] - (365 + LEAP(92 + n))
      BY <1>6
    <3> QED
      BY <3>1
  <2>2. /\ f[0] = i - First[92] /\ f[1] = i - First[93] /\ f[2] = i - First[94]
        /\ f[3] = i - First[95] /\ f[4] = i - First[96] /\ f[5] = i - First[97]
        /\ f[6] = i - First[98]
    BY <1>2, <1>5, <2>1, FirstIs, LeapIs
  <2>3. \A n \in 0..6 : n \in {0, 1, 2, 3, 4, 5, 6}
    OBVIOUS
  <2> QED
    BY <2>2, <2>3
<1>8. \A n \in 0..6 : Within(n) <=> i < First[93 + n]
  <2>1. ASSUME NEW n \in 0..6 PROVE Within(n) <=> i < First[93 + n]
    <3>1. 92 + n \in 92..98 /\ (92 + n) + 1 = 93 + n
      OBVIOUS
    <3>2. First[92 + n] \in Nat /\ First[93 + n] = First[92 + n] + 365 + LEAP(92 + n)
      BY <3>1, FirstNext
    <3>3. LEAP(92 + n) \in Int
      BY LeapInt
    <3>4. Within(n) <=> 1 + (i - First[92 + n]) <= 365 + LEAP(92 + n)
      BY <1>2, <1>7
    <3> QED
      BY <1>2, <3>2, <3>3, <3>4
  <2> QED
    BY <2>1
<1> DEFINE m == y - 92
           Found(n) == Within(n) /\ \A k \in 0..(n - 1) : ~Within(k)
<1>9. m \in 0..6 /\ m \in 0..100 /\ 93 + m = y + 1 /\ 92 + m = y
  OBVIOUS
<1>10. Found(m)
  <2>1. Within(m)
    BY <1>8, <1>9
  <2>2. ASSUME NEW k \in 0..(m - 1) PROVE ~Within(k)
    <3>1. k \in 0..6 /\ 93 + k \in 92..99 /\ y \in 92..99 /\ 93 + k <= y
      BY <1>9
    <3>2. First[93 + k] <= First[y]
      BY <3>1, FirstGrows
    <3>3. First[y] \in Nat /\ First[93 + k] \in Int
      <4>1. 93 + k \in 92..98
        BY <3>1
      <4> QED
        BY <4>1, FirstNext
    <3>4. ~(i < First[93 + k])
      BY <1>2, <3>2, <3>3
    <3> QED
      BY <1>8, <3>1, <3>4
  <2> QED
    BY <2>1, <2>2
<1>11. passes = m
  <2>1. ASSUME NEW n \in 0..100, Found(n) PROVE n = m
    <3> HIDE DEF Within
    <3>1. CASE n < m
      <4>1. n \in 0..(m - 1)
        BY <1>9, <3>1
      <4> QED
        BY <1>10, <2>1, <4>1
    <3>2. CASE m < n
      <4>1. m \in 0..(n - 1)
        BY <1>9, <3>2
      <4> QED
        BY <1>10, <2>1, <4>1
    <3> QED
      BY <1>9, <3>1, <3>2
  <2> HIDE DEF Within, m
  <2> QED
    BY <1>9, <1>10, <2>1
<1>12. f[m] = i - First[y]
  BY <1>7, <1>9
<1>13. StartYear + m = y
  BY <1>2, <1>9
<1> HIDE DEF passes, m
<1> QED
  BY <1>1, <1>11, <1>12, <1>13

\* The days up to the end of month n.
UpTo(y, n) == dcnt[n] + LEAP_ADJ(y, n)

LEMMA DcntIs ==
  /\ dcnt[0] = 0 /\ dcnt[1] = 31 /\ dcnt[2] = 59 /\ dcnt[3] = 90 /\ dcnt[4] = 120
  /\ dcnt[5] = 151 /\ dcnt[6] = 181 /\ dcnt[7] = 212 /\ dcnt[8] = 243 /\ dcnt[9] = 273
  /\ dcnt[10] = 304 /\ dcnt[11] = 334 /\ dcnt[12] = 365
BY DEF dcnt

LEMMA DcntNat == \A n \in 0..12 : dcnt[n] \in Nat
<1>1. \A n \in 0..12 : n \in {0, 1, 2, 3, 4, 5, 6, 7, 8, 9, 10, 11, 12}
  OBVIOUS
<1> QED
  BY <1>1, DcntIs

LEMMA UpToIs ==
  ASSUME NEW y
  PROVE  /\ \A n \in 0..12 : UpTo(y, n) \in Nat
         /\ UpTo(y, 0) = 0 /\ UpTo(y, 12) = 365 + LEAP(y)
<1>2. \A n : LEAP_ADJ(y, n) \in {0, 1}
  BY DEF LEAP_ADJ
<1>3. LEAP_ADJ(y, 0) = 0 /\ LEAP_ADJ(y, 12) = LEAP(y)
  BY LeapInt DEF LEAP_ADJ
<1>4. LEAP(y) \in {0, 1}
  BY LeapInt
<1>5. ASSUME NEW n \in 0..12 PROVE UpTo(y, n) \in Nat
  <2>1. dcnt[n] \in Nat /\ LEAP_ADJ(y, n) \in {0, 1}
    BY <1>2, DcntNat
  <2> QED
    BY <2>1 DEF UpTo
<1>6. UpTo(y, 0) = 0 /\ UpTo(y, 12) = 365 + LEAP(y)
  BY <1>3, <1>4, DcntIs DEF UpTo
<1> QED
  BY <1>5, <1>6

\* mk_time's loop ends in the month that the day of the year is in.
LEMMA MonthIs ==
  ASSUME NEW y, NEW d \in 1..(365 + LEAP(y))
  PROVE  /\ MonthOf(y, d) \in 1..12
         /\ d <= UpTo(y, MonthOf(y, d))
         /\ \A n \in 0..(MonthOf(y, d) - 1) : d > UpTo(y, n)
<1> DEFINE T == {m \in 1..12 : d <= UpTo(y, m)}
<1>1. d \in Nat /\ d > 0 /\ d <= UpTo(y, 12)
  <2>1. LEAP(y) \in {0, 1}
    BY LeapInt
  <2> QED
    BY <2>1, UpToIs
<1>2. T \in SUBSET Nat /\ T # {}
  BY <1>1
<1>3. PICK m \in T : \A n \in T : m <= n
  BY <1>2, LeastNumber
<1>4. ASSUME NEW n \in 0..(m - 1) PROVE d > UpTo(y, n)
  <2>1. m \in 1..12 /\ n \in 0..12 /\ n < m
    BY <1>3
  <2>2. UpTo(y, n) \in Nat
    BY <2>1, UpToIs
  <2>3. CASE n = 0
    BY <1>1, <2>3, UpToIs
  <2>4. CASE n # 0
    <3>1. n \in 1..12 /\ ~(m <= n)
      BY <2>1, <2>4
    <3>2. n \notin T
      BY <1>3, <3>1
    <3>3. ~(d <= UpTo(y, n))
      BY <3>1, <3>2
    <3> QED
      BY <1>1, <2>2, <3>3
  <2> QED
    BY <2>3, <2>4
<1>5. m \in 1..12 /\ d <= UpTo(y, m)
  BY <1>3
<1>6. MonthOf(y, d) = CHOOSE k \in 1..12 : d <= UpTo(y, k) /\ \A n \in 0..(k - 1) : d > UpTo(y, n)
  BY DEF MonthOf, UpTo
<1> QED
  BY <1>4, <1>5, <1>6

\* A date of the array is the year, the month and the day of the month.
LEMMA DateIs ==
  ASSUME NEW i \in 0..(TOTDATE - 1), NEW y \in 92..98, First[y] <= i, i < First[y + 1],
         NEW d, d = 1 + (i - First[y])
  PROVE  /\ d \in 1..(365 + LEAP(y)) /\ d \in Nat
         /\ julian(STARTDATE + i) = y * 1000 + d
         /\ asc_date[i] = <<y, MonthOf(y, d), d - UpTo(y, MonthOf(y, d) - 1)>>
<1>1. i \in Int /\ First[y] \in Nat /\ First[y + 1] = First[y] + 365 + LEAP(y)
      /\ LEAP(y) \in {0, 1}
  BY FirstNext, LeapInt DEF TOTDATE
<1>2. d \in 1..(365 + LEAP(y)) /\ d \in Nat /\ d \in 1..366
  BY <1>1
<1>3. julian(STARTDATE + i) = y * 1000 + d
  <2>1. julian(STARTDATE + i) = y * 1000 + 1 + (i - First[y])
    BY JulianIs
  <2> QED
    BY <1>1, <2>1
<1> DEFINE j == julian((i + 1) + STARTDATE - 1)
           m == MonthOf(y, d)
<1>4. j = y * 1000 + d
  <2>1. (i + 1) + STARTDATE - 1 = STARTDATE + i
    BY <1>1 DEF STARTDATE
  <2> QED
    BY <1>3, <2>1
<1>5. asc_date[i] =
        LET u == j \div 1000
            v == j % 1000
            k == MonthOf(u, v)
        IN  <<u, k, v - dcnt[k - 1] - (IF LEAP(u) = 1 /\ k > 2 THEN 1 ELSE 0)>>
  BY DEF asc_date, mk_time
<1> HIDE DEF j
<1>6. j \div 1000 = y /\ j % 1000 = d
  <2> DEFINE c == 1000
  <2>1. j \in Nat /\ y \in Nat /\ d \in 0..(c - 1) /\ c \in Nat \ {0} /\ j = y * c + d
    BY <1>2, <1>4
  <2> HIDE DEF c
  <2>2. j \div c = y /\ j % c = d
    BY <2>1, DivIs
  <2> QED
    BY <2>2 DEF c
<1>7. asc_date[i] = <<y, m, d - dcnt[m - 1] - (IF LEAP(y) = 1 /\ m > 2 THEN 1 ELSE 0)>>
  BY <1>5, <1>6
<1>8. m \in 1..12
  BY <1>2, MonthIs
<1>9. LEAP_ADJ(y, m - 1) = IF LEAP(y) = 1 /\ m > 2 THEN 1 ELSE 0
  <2> HIDE DEF m
  <2>1. m - 1 >= 2 <=> m > 2
    BY <1>8
  <2> QED
    BY <2>1 DEF LEAP_ADJ
<1>10. dcnt[m - 1] \in Nat
  <2>1. m - 1 \in {0, 1, 2, 3, 4, 5, 6, 7, 8, 9, 10, 11}
    BY <1>8
  <2> QED
    BY <2>1, DcntIs
<1>11. d - UpTo(y, m - 1) = d - dcnt[m - 1] - (IF LEAP(y) = 1 /\ m > 2 THEN 1 ELSE 0)
  <2> HIDE DEF m
  <2>1. LEAP_ADJ(y, m - 1) \in {0, 1}
    BY DEF LEAP_ADJ
  <2> QED
    BY <1>2, <1>9, <1>10, <2>1 DEF UpTo
<1> HIDE DEF m
<1>12. asc_date[i] = <<y, m, d - UpTo(y, m - 1)>>
  BY <1>7, <1>11
<1> QED
  BY <1>2, <1>3, <1>12 DEF m

\* The dates of the array are in their order.
LEMMA DatesOrdered ==
  ASSUME NEW i \in 0..(TOTDATE - 1), NEW k \in 0..(TOTDATE - 1), i < k
  PROVE  Before(asc_date[i], asc_date[k]) /\ ~Before(asc_date[k], asc_date[i])
<1>1. PICK y \in 92..98 : First[y] <= i /\ i < First[y + 1]
  BY InOneYear
<1>2. PICK z \in 92..98 : First[z] <= k /\ k < First[z + 1]
  BY InOneYear
<1> DEFINE d == 1 + (i - First[y])
           e == 1 + (k - First[z])
           m == MonthOf(y, d)
           n == MonthOf(z, e)
<1>3. /\ d \in 1..(365 + LEAP(y)) /\ d \in Nat
      /\ asc_date[i] = <<y, m, d - UpTo(y, m - 1)>>
  BY <1>1, DateIs
<1>4. /\ e \in 1..(365 + LEAP(z)) /\ e \in Nat
      /\ asc_date[k] = <<z, n, e - UpTo(z, n - 1)>>
  BY <1>2, DateIs
<1>5. i \in Int /\ k \in Int /\ y \in Int /\ z \in Int
  BY DEF TOTDATE
<1>6. y <= z
  <2>1. SUFFICES ASSUME z < y PROVE FALSE
    BY <1>5
  <2>2. z + 1 \in 92..99 /\ y \in 92..99 /\ z + 1 <= y
    BY <2>1
  <2>3. First[z + 1] <= First[y] /\ First[y] \in Nat /\ First[z + 1] \in Int
    <3>1. First[z + 1] \in Int
      <4>1. First[z] \in Nat /\ First[z + 1] = First[z] + 365 + LEAP(z) /\ LEAP(z) \in {0, 1}
        BY FirstNext, LeapInt
      <4> QED
        BY <4>1
    <3> QED
      BY <2>2, <3>1, FirstGrows, FirstNext
  <2> QED
    BY <1>1, <1>2, <1>5, <2>3
<1>7. CASE y < z
  BY <1>3, <1>4, <1>5, <1>7 DEF Before
<1>8. CASE y = z
  <2>1. d < e
    BY <1>1, <1>2, <1>5, <1>8, FirstNext
  <2> HIDE DEF d, e
  <2>2. /\ m \in 1..12 /\ d <= UpTo(y, m) /\ \A l \in 0..(m - 1) : d > UpTo(y, l)
        /\ n \in 1..12 /\ e <= UpTo(y, n) /\ \A l \in 0..(n - 1) : e > UpTo(y, l)
    BY <1>3, <1>4, <1>8, MonthIs
  <2> HIDE DEF m, n
  <2>3. \A l \in 0..12 : UpTo(y, l) \in Nat
    BY UpToIs
  <2>4. m <= n
    <3>1. SUFFICES ASSUME n < m PROVE FALSE
      BY <2>2
    <3>2. n \in 0..(m - 1) /\ n \in 0..12
      BY <2>2, <3>1
    <3>3. d > UpTo(y, n) /\ UpTo(y, n) \in Nat
      BY <2>2, <2>3, <3>2
    <3> QED
      BY <1>3, <1>4, <2>1, <2>2, <3>3
  <2>5. UpTo(y, m - 1) \in Nat
    <3>1. m - 1 \in 0..12
      BY <2>2
    <3> QED
      BY <2>3, <3>1
  <2>6. CASE m < n
    <3>1. ~(n < m) /\ m # n
      BY <2>2, <2>6
    <3> QED
      BY <1>3, <1>4, <1>5, <1>8, <2>6, <3>1 DEF Before
  <2>7. CASE m = n
    <3>1. d - UpTo(y, m - 1) < e - UpTo(y, m - 1)
      BY <1>3, <1>4, <2>1, <2>5
    <3>2. ~(e - UpTo(y, m - 1) < d - UpTo(y, m - 1))
      BY <1>3, <1>4, <2>1, <2>5
    <3>3. ~(m < m) /\ ~(y < y)
      BY <1>5, <2>2
    <3> QED
      BY <1>3, <1>4, <1>8, <2>7, <3>1, <3>2, <3>3 DEF Before
  <2> QED
    BY <2>2, <2>4, <2>6, <2>7
<1> QED
  BY <1>5, <1>6, <1>7, <1>8

LEMMA BeforeIs ==
  ASSUME NEW i \in 0..(TOTDATE - 1), NEW k \in 0..(TOTDATE - 1)
  PROVE  Before(asc_date[i], asc_date[k]) <=> i < k
<1>1. i \in Int /\ k \in Int
  BY DEF TOTDATE
<1>2. CASE i < k
  BY <1>2, DatesOrdered
<1>3. CASE k < i
  BY <1>1, <1>3, DatesOrdered
<1>4. CASE i = k
  <2>1. PICK y \in 92..98 : First[y] <= i /\ i < First[y + 1]
    BY InOneYear
  <2> DEFINE d == 1 + (i - First[y])
             m == MonthOf(y, d)
  <2>2. d \in 1..(365 + LEAP(y)) /\ d \in Nat /\ asc_date[i] = <<y, m, d - UpTo(y, m - 1)>>
    BY <2>1, DateIs
  <2> HIDE DEF d
  <2>3. m \in 1..12
    BY <2>2, MonthIs
  <2> HIDE DEF m
  <2>4. UpTo(y, m - 1) \in Nat
    <3>1. m - 1 \in 0..12
      BY <2>3
    <3> QED
      BY <3>1, UpToIs
  <2>5. d - UpTo(y, m - 1) \in Int
    BY <2>2, <2>4
  <2>6. ~Before(asc_date[i], asc_date[i])
    <3>1. ~(y < y) /\ ~(m < m) /\ ~(d - UpTo(y, m - 1) < d - UpTo(y, m - 1))
      BY <2>3, <2>5
    <3> QED
      BY <2>2, <3>1 DEF Before
  <2> QED
    BY <1>1, <1>4, <2>6
<1> QED
  BY <1>1, <1>2, <1>3, <1>4

\* June 17, 1995, and the Julian dates up to it.
Today == 1263

LEMMA TodayIs ==
  Today \in 0..(TOTDATE - 1) /\ asc_date[Today] = <<95, 6, 17>>
<1>1. Today \in 0..(TOTDATE - 1) /\ 95 \in 92..98 /\ First[95] = 1096 /\ First[95 + 1] = 1461
  BY FirstIs DEF Today, TOTDATE
<1>2. First[95] <= Today /\ Today < First[95 + 1] /\ 168 = 1 + (Today - First[95])
  BY <1>1 DEF Today
<1>3. /\ 168 \in 1..(365 + LEAP(95))
      /\ asc_date[Today] = <<95, MonthOf(95, 168), 168 - UpTo(95, MonthOf(95, 168) - 1)>>
  <2>1. \A d : d = 1 + (Today - First[95]) =>
          /\ d \in 1..(365 + LEAP(95))
          /\ asc_date[Today] = <<95, MonthOf(95, d), d - UpTo(95, MonthOf(95, d) - 1)>>
    BY <1>1, <1>2, DateIs
  <2> QED
    BY <1>2, <2>1
<1> DEFINE m == MonthOf(95, 168)
<1>4. m \in 1..12 /\ 168 <= UpTo(95, m) /\ \A n \in 0..(m - 1) : 168 > UpTo(95, n)
  BY <1>3, MonthIs
<1> HIDE DEF m
<1>5. ASSUME NEW n \in 0..12 PROVE UpTo(95, n) = dcnt[n]
  <2>1. LEAP_ADJ(95, n) = 0
    BY LeapIs DEF LEAP_ADJ
  <2> QED
    BY <2>1, DcntNat DEF UpTo
<1>6. m = 6
  <2>1. UpTo(95, 5) = 151 /\ UpTo(95, 6) = 181
    BY <1>5, DcntIs
  <2>2. ~(m <= 5)
    <3>1. \A k \in {1, 2, 3, 4, 5} : UpTo(95, k) \in Nat /\ UpTo(95, k) <= 151
      BY <1>5, DcntIs
    <3>2. SUFFICES ASSUME m <= 5 PROVE FALSE
      OBVIOUS
    <3>3. m \in {1, 2, 3, 4, 5}
      BY <1>4, <3>2
    <3> QED
      BY <1>4, <3>1, <3>3
  <2>3. ~(m >= 7)
    BY <1>4, <2>1
  <2> QED
    BY <1>4, <2>2, <2>3
<1>7. UpTo(95, 6 - 1) = 151
  BY <1>5, DcntIs
<1> QED
  BY <1>1, <1>3, <1>6, <1>7 DEF m

LEMMA ByToday ==
  ASSUME NEW i \in 0..(TOTDATE - 1)
  PROVE  julian(STARTDATE + i) <= CURRENTDATE <=> i <= Today
<1>1. PICK y \in 92..98 : First[y] <= i /\ i < First[y + 1]
  BY InOneYear
<1> DEFINE d == 1 + (i - First[y])
<1>2. d \in 1..(365 + LEAP(y)) /\ d \in Nat /\ julian(STARTDATE + i) = y * 1000 + d
  BY <1>1, DateIs
<1>3. i \in Int /\ First[y] \in Nat /\ First[y + 1] = First[y] + 365 + LEAP(y) /\ LEAP(y) \in {0, 1}
  BY FirstNext, LeapInt DEF TOTDATE
<1>4. CASE y = 95
  BY <1>1, <1>2, <1>3, <1>4, FirstIs DEF CURRENTDATE, Today
<1>5. CASE y < 95
  <2>1. First[y + 1] <= 1096
    <3>1. y + 1 \in 92..99 /\ 95 \in 92..99 /\ y + 1 <= 95
      BY <1>5
    <3> QED
      BY <3>1, FirstGrows, FirstIs
  <2> QED
    BY <1>1, <1>2, <1>3, <1>5, <2>1 DEF CURRENTDATE, Today
<1>6. CASE y > 95
  <2>1. 1461 <= First[y]
    <3>1. 96 \in 92..99 /\ y \in 92..99 /\ 96 <= y
      BY <1>6
    <3> QED
      BY <3>1, FirstGrows, FirstIs
  <2> QED
    BY <1>1, <1>2, <1>3, <1>6, <2>1 DEF CURRENTDATE, Today
<1> QED
  BY <1>4, <1>5, <1>6

-----------------------------------------------------------------------------
\* Rows: their keys and dates.

LEMMA Scale ==
  /\ RowScale \in Nat \ {0} /\ O_CKEY_MAX \in Nat /\ O_CKEY_MAX >= 3 /\ O_CKEY_MAX % 3 = 0
  /\ Suppliers \in Nat /\ Suppliers >= 10000 /\ Suppliers \div 4 \in Nat
  /\ Suppliers = 4 * (Suppliers \div 4)
  /\ L_PKEY_MAX = 20 * Suppliers
BY RowsAssumption DEF O_CKEY_MAX, Suppliers, L_PKEY_MAX

\* The loop of mk_order ends with a customer who has orders, after two passes at most.
LEMMA MortalIs ==
  ASSUME NEW c \in 1..O_CKEY_MAX
  PROVE  Mortal(c) \in 1..O_CKEY_MAX /\ Mortal(c) % CUST_MORTALITY # 0
<1> DEFINE max == O_CKEY_MAX
           D == {1, -1}
           X == (1..max) \X D
           next(x) == <<LeastOf(x[1] + x[2], max), -x[2]>>
           last(x) == IF x[1] % 3 # 0 THEN x[1]
                      ELSE IF x[2] = -1 \/ x[1] = max THEN x[1] - 1 ELSE x[1] + 1
           e == [x \in X |-> last(x)]
           try == CHOOSE f : f = [x \in X |-> IF x[1] % 3 = 0 THEN f[next(x)] ELSE x[1]]
<1>1. max \in Nat /\ max >= 3 /\ max % 3 = 0
  BY Scale
<1>2. Mortal(c) = try[<<c, 1>>]
  BY DEF Mortal, CUST_MORTALITY
<1> HIDE DEF max
\* Where a pass leads.
<1>3. ASSUME NEW k \in 1..max, k % 3 = 0
      PROVE  /\ k - 1 \in 1..max /\ (k - 1) % 3 # 0 /\ next(<<k, -1>>) = <<k - 1, 1>>
             /\ k = max => next(<<k, 1>>) = <<k, -1>>
             /\ k # max => /\ k + 1 \in 1..max /\ (k + 1) % 3 # 0
                           /\ next(<<k, 1>>) = <<k + 1, -1>>
  <2>1. k \in Int /\ k >= 3 /\ k <= max
    BY <1>1, <1>3
  <2>2. k - 1 \in 1..max /\ (k - 1) % 3 # 0
    BY <1>1, <1>3, <2>1
  <2>3. LeastOf(k - 1, max) = k - 1 /\ (k = max => LeastOf(k + 1, max) = k)
        /\ (k # max => LeastOf(k + 1, max) = k + 1)
    BY <1>1, <2>1 DEF LeastOf
  <2>4. k # max => k + 1 \in 1..max /\ (k + 1) % 3 # 0
    BY <1>1, <1>3, <2>1
  <2>5. k + (-1) = k - 1 /\ -(-1) = 1
    <3>1. \A x \in Int : -(-x) = x
      OBVIOUS
    <3>2. 1 \in Int
      OBVIOUS
    <3>3. -(-1) = 1
      BY ONLY <3>1, <3>2
    <3> QED
      BY <2>1, <3>3
  <2> QED
    BY <2>2, <2>3, <2>4, <2>5
<1>4. ASSUME NEW x \in X
      PROVE  \E k \in 1..max, d \in D : x = <<k, d>>
  OBVIOUS
\* So there is a function that the recursion defines.
<1>5. ASSUME NEW x \in X
      PROVE  last(x) = IF x[1] % 3 = 0 THEN e[next(x)] ELSE x[1]
  <2>1. PICK k \in 1..max, d \in D : x = <<k, d>>
    BY <1>4
  <2>2. CASE k % 3 # 0
    BY <2>1, <2>2
  <2>3. CASE k % 3 = 0 /\ d = -1
    <3>1. next(x) = <<k - 1, 1>> /\ <<k - 1, 1>> \in X /\ (k - 1) % 3 # 0
      BY <1>3, <2>1, <2>3
    <3>2. e[next(x)] = k - 1
      BY <3>1
    <3>3. last(x) = k - 1
      BY <2>1, <2>3
    <3> QED
      BY <2>1, <2>3, <3>2, <3>3
  <2>4. CASE k % 3 = 0 /\ d = 1 /\ k = max
    <3>1. next(x) = <<k, -1>> /\ <<k, -1>> \in X
      BY <1>3, <2>1, <2>4
    <3>2. e[next(x)] = k - 1
      BY <2>4, <3>1
    <3>3. last(x) = k - 1
      BY <2>1, <2>4
    <3> QED
      BY <2>1, <2>4, <3>2, <3>3
  <2>5. CASE k % 3 = 0 /\ d = 1 /\ k # max
    <3>1. next(x) = <<k + 1, -1>> /\ <<k + 1, -1>> \in X /\ (k + 1) % 3 # 0
      BY <1>3, <2>1, <2>5
    <3>2. e[next(x)] = k + 1
      BY <3>1
    <3>3. last(x) = k + 1
      BY <2>1, <2>5
    <3> QED
      BY <2>1, <2>5, <3>2, <3>3
  <2> QED
    BY <2>2, <2>3, <2>4, <2>5
<1>6. e = [x \in X |-> IF x[1] % 3 = 0 THEN e[next(x)] ELSE x[1]]
  <2> HIDE DEF last
  <2>1. e = [x \in X |-> last(x)]
    OBVIOUS
  <2> HIDE DEF e, X, next
  <2> QED
    BY <1>5, <2>1
<1>7. try = [x \in X |-> IF x[1] % 3 = 0 THEN try[next(x)] ELSE x[1]]
  <2> HIDE DEF e, X, next
  <2> QED
    BY <1>6
<1> HIDE DEF try
<1>8. \A x \in X : try[x] = IF x[1] % 3 = 0 THEN try[next(x)] ELSE x[1]
  <2> HIDE DEF X, next
  <2> QED
    BY <1>7
<1>9. \A k \in 1..max, d \in D :
        try[<<k, d>>] = IF k % 3 = 0 THEN try[next(<<k, d>>)] ELSE k
  BY <1>8
<1>10. ASSUME NEW k \in 1..max, k % 3 = 0 PROVE try[<<k, -1>>] = k - 1
  <2>1. k - 1 \in 1..max /\ (k - 1) % 3 # 0 /\ next(<<k, -1>>) = <<k - 1, 1>>
    BY <1>3, <1>10
  <2> HIDE DEF next
  <2>2. try[<<k, -1>>] = try[<<k - 1, 1>>]
    BY <1>9, <1>10, <2>1
  <2>3. try[<<k - 1, 1>>] = k - 1
    BY <1>9, <2>1
  <2> QED
    BY <2>2, <2>3
<1>11. c \in 1..max
  BY DEF max
<1>12. CASE c % 3 # 0
  <2>1. try[<<c, 1>>] = c
    BY <1>9, <1>11, <1>12
  <2> QED
    BY <1>2, <1>11, <1>12, <2>1 DEF max, CUST_MORTALITY
<1>13. CASE c % 3 = 0 /\ c = max
  <2>1. next(<<c, 1>>) = <<c, -1>> /\ c - 1 \in 1..max /\ (c - 1) % 3 # 0
    BY <1>3, <1>11, <1>13
  <2> HIDE DEF next
  <2>2. try[<<c, 1>>] = try[<<c, -1>>]
    BY <1>9, <1>11, <1>13, <2>1
  <2>3. try[<<c, 1>>] = c - 1
    BY <1>10, <1>11, <1>13, <2>2
  <2> QED
    BY <1>2, <2>1, <2>3 DEF max, CUST_MORTALITY
<1>14. CASE c % 3 = 0 /\ c # max
  <2>1. next(<<c, 1>>) = <<c + 1, -1>> /\ c + 1 \in 1..max /\ (c + 1) % 3 # 0
    BY <1>3, <1>11, <1>14
  <2> HIDE DEF next
  <2>2. try[<<c, 1>>] = try[<<c + 1, -1>>]
    BY <1>9, <1>11, <1>14, <2>1
  <2>3. try[<<c + 1, -1>>] = c + 1
    BY <1>9, <2>1
  <2> QED
    BY <1>2, <2>1, <2>2, <2>3 DEF max, CUST_MORTALITY
<1> QED
  BY <1>12, <1>13, <1>14

\* The four suppliers of a part are suppliers, and differ.
LEMMA SuppliersDiffer ==
  ASSUME NEW p \in 1..L_PKEY_MAX
  PROVE  /\ \A s \in 0..3 : PART_SUPP_BRIDGE(p, s) \in 1..Suppliers
         /\ \A s, t \in 0..3 : PART_SUPP_BRIDGE(p, s) = PART_SUPP_BRIDGE(p, t) => s = t
<1> DEFINE m == Suppliers
           q == (p - 1) \div m
           d == (m \div 4) + q
           place(s) == (p + s * d) % m
<1>1. /\ m \in Nat \ {0} /\ m \in Int /\ m >= 10000 /\ m \div 4 \in Nat /\ m = 4 * (m \div 4)
      /\ p \in Nat /\ p >= 1 /\ p <= 20 * m
  <2>1. L_PKEY_MAX \in Nat /\ L_PKEY_MAX = 20 * m
    BY Scale
  <2> QED
    BY <2>1, Scale
<1>2. \A s : PART_SUPP_BRIDGE(p, s) = place(s) + 1
  BY DEF PART_SUPP_BRIDGE, SUPP_PER_PART
<1> HIDE DEF m
<1>3. q \in 0..19
  <2> DEFINE r == (p - 1) % m
  <2>1. r \in 0..(m - 1) /\ q \in Int /\ p - 1 = m * q + r
    <3> DEFINE x == p - 1
    <3>1. x \in Int
      BY <1>1
    <3> HIDE DEF x
    <3>2. x % m \in 0..(m - 1) /\ x \div m \in Int /\ x = m * (x \div m) + (x % m)
      BY <1>1, <3>1, ModRange
    <3> QED
      BY <3>2 DEF x
  <2> HIDE DEF q, r
  <2>2. q >= 0
    <3>1. SUFFICES ASSUME q <= -1 PROVE FALSE
      BY <2>1
    <3>2. m * q <= -m /\ m * q \in Int
      <4>1. -q - 1 \in Nat /\ m * (-q - 1) \in Nat /\ m * (-q - 1) = -(m * q) - m
        BY <1>1, <2>1, <3>1
      <4>2. m * q \in Int
        BY <1>1, <2>1
      <4> QED
        BY <1>1, <4>1, <4>2
    <3> QED
      BY <1>1, <2>1, <3>2
  <2>3. q <= 19
    <3>1. SUFFICES ASSUME q >= 20 PROVE FALSE
      BY <2>1
    <3>2. m * q >= 20 * m /\ m * q \in Int
      <4>1. q - 20 \in Nat /\ m * (q - 20) \in Nat /\ m * (q - 20) = m * q - 20 * m
        BY <1>1, <2>1, <3>1
      <4>2. m * q \in Int
        BY <1>1, <2>1
      <4> QED
        BY <1>1, <4>1, <4>2
    <3> QED
      BY <1>1, <2>1, <3>2
  <2> QED
    BY <2>1, <2>2, <2>3
<1>4. d \in Nat /\ d > 0 /\ 3 * d < m
  BY <1>1, <1>3
<1> HIDE DEF q, d
<1>5. ASSUME NEW s \in 0..3
      PROVE  s * d \in Int /\ p + s * d \in Int /\ place(s) \in 0..(m - 1)
             /\ Cong(place(s), p + s * d, m)
  <2>1. s * d \in Int /\ p + s * d \in Int
    BY <1>1, <1>4
  <2> DEFINE x == p + s * d
  <2>2. x \in Int
    BY <2>1
  <2> HIDE DEF x
  <2>3. x % m \in 0..(m - 1) /\ Cong(x % m, x, m)
    BY <1>1, <2>2, ModRange, CongMod
  <2> QED
    BY <2>1, <2>3 DEF x
<1>6. ASSUME NEW s \in 0..3, NEW t \in 0..3, s < t, place(s) = place(t) PROVE FALSE
  <2> DEFINE a == place(s)
             u == p + s * d
             v == p + t * d
  <2>1. a \in 0..(m - 1) /\ u \in Int /\ v \in Int /\ Cong(a, u, m) /\ Cong(a, v, m)
    BY <1>5, <1>6
  <2>2. v = u + (t - s) * d
    BY <1>1, <1>4
  <2>3. (t - s) * d \in 1..(m - 1)
    <3>1. t - s \in {1, 2, 3}
      BY <1>6
    <3>2. 1 * d = d /\ 2 * d = d + d /\ 3 * d = d + d + d
      BY <1>4
    <3> QED
      BY <1>1, <1>4, <3>1, <3>2
  <2> DEFINE w == (t - s) * d
  <2> HIDE DEF place, a, u, v, w
  <2>4. a \in Int /\ w \in 0..(m - 1) /\ w # 0 /\ w \in Int /\ v = u + w
    BY <1>1, <2>1, <2>2, <2>3 DEF w
  <2>5. Cong(v, u, m)
    BY <1>1, <2>1, <2>4, CongSym, CongTrans
  <2>6. Cong(w, 0, m)
    <3>1. PICK k \in Int : v = u + k * m
      BY <2>5 DEF Cong
    <3>2. k * m \in Int
      BY <1>1
    <3>3. w = 0 + k * m
      BY <2>1, <2>4, <3>1, <3>2
    <3> QED
      BY <3>3 DEF Cong
  <2>7. 0 \in 0..(m - 1)
    BY <1>1
  <2> QED
    BY <1>1, <2>4, <2>6, <2>7, CongIs
<1>7. ASSUME NEW s \in 0..3, NEW t \in 0..3, place(s) + 1 = place(t) + 1 PROVE s = t
  <2>1. place(s) \in Int /\ place(t) \in Int
    BY <1>1, <1>5
  <2>2. place(s) = place(t)
    BY <1>7, <2>1
  <2> HIDE DEF place
  <2> QED
    BY <1>6, <2>2
<1>8. \A s \in 0..3 : place(s) + 1 \in 1..m
  BY <1>1, <1>5
<1> HIDE DEF place
<1> QED
  BY <1>2, <1>7, <1>8 DEF m

-----------------------------------------------------------------------------
\* What a lineitem is.
LineSet ==
  [partkey : PartDraws, suppkey : Nat, eprice : Int, discount : Int, tax : Int,
   sday : Nat, cday : Nat, rday : Nat, rflag : {"R", "A", "N"}, lstatus : {"F", "O"}]

OrderSet ==
  [table : {"order"}, custkey : 1..O_CKEY_MAX, date : Nat, lines : Nat, l : Seq(LineSet),
   ocnt : Nat, totalprice : Int, orderstatus : {"F", "P", "O"}]

\* It is of a supplier of its part.
Supplied(l) == \E s \in 0..3 : l.suppkey = PART_SUPP_BRIDGE(l.partkey, s)

\* It is shipped after the order and received after that, within the calendar, and its flags
\* are those of its days.
Dated(l, day0) ==
  /\ day0 < l.sday /\ l.sday < l.rday
  /\ l.sday <= TOTDATE - 1 /\ l.cday <= TOTDATE - 1 /\ l.rday <= TOTDATE - 1
  /\ l.lstatus = "O" <=> Today < l.sday
  /\ l.rflag = "N" <=> Today < l.rday

\* The count says whether all, none or some lineitems are shipped.
Counted(r) ==
  /\ r.ocnt <= Len(r.l)
  /\ r.ocnt = Len(r.l) <=> \A k \in 1..Len(r.l) : r.l[k].lstatus = "F"
  /\ r.ocnt = 0 <=> \A k \in 1..Len(r.l) : r.l[k].lstatus = "O"

OrderInv ==
  /\ row \in OrderSet
  /\ row.custkey % CUST_MORTALITY # 0
  /\ row.date >= STARTDATE /\ row.date <= O_ODATE_MAX
  /\ row.lines > 0 /\ Len(row.l) <= row.lines
  /\ \A k \in 1..Len(row.l) : Supplied(row.l[k]) /\ Dated(row.l[k], row.date - STARTDATE)
  /\ Counted(row)

RowsIInv ==
  /\ rows_pc \in {"dates", "start", "lines", "made"}
  /\ rows_pc = "lines" => OrderInv /\ row.orderstatus = "O"
  /\ rows_pc = "made" =>
       \/ /\ OrderInv /\ Len(row.l) = row.lines
          /\ row.orderstatus = IF row.ocnt = row.lines THEN "F" ELSE IF row.ocnt > 0 THEN "P" ELSE "O"
       \/ \E p \in PartDraws : row = PartRow(p)

LEMMA RowsInitIInv == RowsInit => RowsIInv
BY DEF RowsInit, RowsIInv

LEMMA LastOrder == O_ODATE_MAX = 94406 /\ STARTDATE = 92001 /\ TOTDATE = 2557
BY DEF O_ODATE_MAX, STARTDATE, TOTDATE

LEMMA TodayInt == Today \in Int
<1>1. TOTDATE - 1 \in Int
  BY LastOrder
<1> QED
  BY <1>1, TodayIs

LEMMA MkOrderStep == ASSUME RowsIInv, MkOrder PROVE RowsIInv'
<1>1. PICK c \in CustDraws, n \in 1..MaxLines,
           d \in {STARTDATE + o : o \in OrderDays} \cap STARTDATE..O_ODATE_MAX :
        row' = [table |-> "order", custkey |-> Mortal(c), date |-> d, lines |-> n,
                l |-> <<>>, ocnt |-> 0, totalprice |-> 0, orderstatus |-> "O"]
  BY DEF MkOrder
<1>2. rows_pc' = "lines"
  BY DEF MkOrder
<1>3. c \in 1..O_CKEY_MAX /\ n \in Nat /\ n > 0 /\ d \in Nat /\ d >= STARTDATE /\ d <= O_ODATE_MAX
  <2>1. c \in 1..O_CKEY_MAX /\ n \in Nat /\ n > 0
    BY RowsAssumption
  <2>2. d \in STARTDATE..O_ODATE_MAX
    OBVIOUS
  <2> QED
    BY <2>1, <2>2, LastOrder
<1>4. Mortal(c) \in 1..O_CKEY_MAX /\ Mortal(c) % CUST_MORTALITY # 0
  BY <1>3, MortalIs
<1>5. row' \in OrderSet
  BY <1>1, <1>3, <1>4 DEF OrderSet
<1>6. Counted(row')
  BY <1>1 DEF Counted
<1>7. OrderInv'
  BY <1>1, <1>3, <1>4, <1>5, <1>6 DEF OrderInv
<1> QED
  BY <1>1, <1>2, <1>7 DEF RowsIInv

\* A lineitem that is made of the draws has what the row needs.
LEMMA LineIs ==
  ASSUME NEW p \in PartDraws, NEW s \in 0..3, NEW a \in Amounts, NEW d \in STARTDATE..O_ODATE_MAX,
         NEW slag \in ShipLag, NEW clag \in CommitLag, NEW rlag \in ReceiptLag,
         NEW flag \in RFlags(d + slag + rlag),
         NEW l, l = Line(p, s, a, d + slag, d + clag, d + slag + rlag, flag)
  PROVE  l \in LineSet /\ Supplied(l) /\ Dated(l, d - STARTDATE)
<1> DEFINE sday == (d + slag) - STARTDATE
           cday == (d + clag) - STARTDATE
           rday == (d + slag + rlag) - STARTDATE
           day0 == d - STARTDATE
<1>1. slag \in 1..121 /\ clag \in 30..90 /\ rlag \in 1..30 /\ d \in Int
      /\ a \in (1..50) \X (0..10) \X (0..8) /\ p \in 1..L_PKEY_MAX
  BY RowsAssumption, LastOrder
<1>2. /\ day0 \in Nat /\ day0 < sday /\ sday < rday
      /\ sday \in 0..(TOTDATE - 1) /\ cday \in 0..(TOTDATE - 1) /\ rday \in 0..(TOTDATE - 1)
      /\ d + slag = STARTDATE + sday /\ d + slag + rlag = STARTDATE + rday
  BY <1>1, LastOrder
<1>3. /\ l.partkey = p /\ l.suppkey = PART_SUPP_BRIDGE(p, s)
      /\ l.sday = sday /\ l.cday = cday /\ l.rday = rday /\ l.rflag = flag
      /\ l.lstatus = IF Shipped(d + slag) THEN "F" ELSE "O"
  BY DEF Line
<1>4. Supplied(l)
  BY <1>3 DEF Supplied
<1>5. sday \in Int /\ cday \in Int /\ rday \in Int
  BY <1>1, LastOrder
<1> HIDE DEF sday, cday, rday
<1>6. l.lstatus = "O" <=> Today < sday
  <2>1. Shipped(d + slag) <=> sday <= Today
    BY <1>2, ByToday DEF Shipped
  <2>2. sday \in Int /\ Today \in Int
    BY <1>5, TodayInt
  <2> QED
    BY <1>3, <2>1, <2>2
<1>7. flag \in {"R", "A", "N"} /\ (flag = "N" <=> Today < rday)
  <2>1. julian(d + slag + rlag) <= CURRENTDATE <=> rday <= Today
    BY <1>2, ByToday
  <2>2. rday \in Int /\ Today \in Int
    BY <1>5, TodayInt
  <2> QED
    BY <2>1, <2>2 DEF RFlags
<1>8. Dated(l, day0)
  <2>1. sday <= TOTDATE - 1 /\ cday <= TOTDATE - 1 /\ rday <= TOTDATE - 1
    BY <1>2, LastOrder
  <2> QED
    BY <1>2, <1>3, <1>6, <1>7, <2>1 DEF Dated
<1>9. l \in LineSet
  <2>1. PART_SUPP_BRIDGE(p, s) \in Nat
    <3>1. PART_SUPP_BRIDGE(p, s) \in 1..Suppliers /\ Suppliers \in Nat
      BY <1>1, SuppliersDiffer, Scale
    <3> QED
      BY <3>1
  <2>2. a[1] \in Int /\ a[2] \in Int /\ a[3] \in Int
    BY <1>1
  <2>3. rpb_routine(p) * a[1] \in Int
    <3>1. p \in Int
      BY <1>1, Scale
    <3>2. rpb_routine(p) \in Int
      BY <3>1 DEF rpb_routine
    <3> QED
      BY <2>2, <3>2
  <2>4. sday \in Nat /\ cday \in Nat /\ rday \in Nat
    BY <1>2, LastOrder
  <2> QED
    BY <1>7, <2>1, <2>2, <2>3, <2>4 DEF Line, LineSet, sday, cday, rday
<1> QED
  BY <1>4, <1>8, <1>9

\* The date of an order is one that a lineitem can follow.
LEMMA OrderDate == ASSUME OrderInv PROVE row.date \in STARTDATE..O_ODATE_MAX
<1>1. row.date \in Nat /\ row.date >= STARTDATE /\ row.date <= O_ODATE_MAX
  BY DEF OrderInv, OrderSet
<1>2. STARTDATE \in Int /\ O_ODATE_MAX \in Int
  BY LastOrder DEF STARTDATE
<1> QED
  BY <1>1, <1>2

LEMMA MkLineStep == ASSUME RowsIInv, MkLine PROVE RowsIInv'
<1>1. PICK p \in PartDraws, s \in 0..(SUPP_PER_PART - 1), a \in Amounts,
           slag \in ShipLag, clag \in CommitLag, rlag \in ReceiptLag :
        \E flag \in RFlags(row.date + slag + rlag) :
          LET l == Line(p, s, a, row.date + slag, row.date + clag, row.date + slag + rlag, flag)
          IN  row' = [row EXCEPT !.l = Append(@, l),
                        !.totalprice = @ + Charge(l.eprice, a[2], a[3]),
                        !.ocnt = IF l.lstatus = "F" THEN @ + 1 ELSE @]
  BY DEF MkLine
<1>2. PICK flag \in RFlags(row.date + slag + rlag) :
        LET l == Line(p, s, a, row.date + slag, row.date + clag, row.date + slag + rlag, flag)
        IN  row' = [row EXCEPT !.l = Append(@, l),
                      !.totalprice = @ + Charge(l.eprice, a[2], a[3]),
                      !.ocnt = IF l.lstatus = "F" THEN @ + 1 ELSE @]
  BY <1>1
<1>3. rows_pc = "lines" /\ rows_pc' = "lines" /\ Len(row.l) < row.lines /\ OrderInv
      /\ row.orderstatus = "O"
  BY DEF MkLine, RowsIInv
<1> DEFINE l == Line(p, s, a, row.date + slag, row.date + clag, row.date + slag + rlag, flag)
<1>4. l \in LineSet /\ Supplied(l) /\ Dated(l, row.date - STARTDATE)
  <2>1. s \in 0..3
    BY DEF SUPP_PER_PART
  <2>2. row.date \in STARTDATE..O_ODATE_MAX
    BY <1>3, OrderDate
  <2>3. l = Line(p, s, a, row.date + slag, row.date + clag, row.date + slag + rlag, flag)
    OBVIOUS
  <2> HIDE DEF l
  <2> QED
    BY <2>1, <2>2, <2>3, LineIs
<1>5. Charge(l.eprice, a[2], a[3]) \in Int
  <2>1. l.eprice \in Int /\ a[2] \in Int /\ a[3] \in Int
    <3>1. a \in (1..50) \X (0..10) \X (0..8)
      BY RowsAssumption
    <3>2. l.eprice \in Int
      <4> HIDE DEF l
      <4> QED
        BY <1>4 DEF LineSet
    <3> QED
      BY <3>1, <3>2
  <2> DEFINE x == l.eprice
             y == a[2]
             z == a[3]
  <2>2. x \in Int /\ y \in Int /\ z \in Int
    BY <2>1
  <2> HIDE DEF x, y, z
  <2>3. (x * (100 - y)) \div 100 \in Int
    <3>1. x * (100 - y) \in Int
      BY <2>2
    <3> QED
      BY <3>1
  <2>4. ((x * (100 - y)) \div 100) * (100 + z) \in Int
    BY <2>2, <2>3
  <2>5. Charge(x, y, z) \in Int
    BY <2>4 DEF Charge
  <2> QED
    BY <2>5 DEF x, y, z
<1> DEFINE charge == Charge(l.eprice, a[2], a[3])
<1>6. row' = [row EXCEPT !.l = Append(@, l), !.totalprice = @ + charge,
                         !.ocnt = IF l.lstatus = "F" THEN @ + 1 ELSE @]
  BY <1>2
<1> HIDE DEF l, charge
<1>7. charge \in Int /\ l.lstatus \in {"F", "O"}
  BY <1>4, <1>5 DEF charge, LineSet
<1>8. /\ row \in OrderSet /\ row.l \in Seq(LineSet) /\ row.ocnt \in Nat /\ row.totalprice \in Int
      /\ row.lines \in Nat /\ Len(row.l) \in Nat
  BY <1>3 DEF OrderInv, OrderSet
<1>9. /\ row'.l = Append(row.l, l) /\ row'.date = row.date /\ row'.lines = row.lines
      /\ row'.custkey = row.custkey /\ row'.orderstatus = row.orderstatus
      /\ row'.ocnt = IF l.lstatus = "F" THEN row.ocnt + 1 ELSE row.ocnt
  BY <1>6, <1>8 DEF OrderSet
<1>10. row' \in OrderSet
  <2>1. Append(row.l, l) \in Seq(LineSet)
    BY <1>4, <1>8
  <2>2. row.totalprice + charge \in Int
    BY <1>7, <1>8
  <2>3. (IF l.lstatus = "F" THEN row.ocnt + 1 ELSE row.ocnt) \in Nat
    BY <1>8
  <2> QED
    BY <1>6, <1>8, <2>1, <2>2, <2>3 DEF OrderSet
<1> DEFINE n == Len(row.l)
           w == row'.l
<1>11. /\ n \in Nat /\ Len(w) = n + 1 /\ w[n + 1] = l
       /\ \A k \in 1..n : w[k] = row.l[k]
  BY <1>4, <1>8, <1>9
<1>12. ASSUME NEW k \in 1..(n + 1) PROVE k \in 1..n \/ k = n + 1
  BY <1>11
<1>13. \A k \in 1..Len(w) : Supplied(w[k]) /\ Dated(w[k], row.date - STARTDATE)
  BY <1>3, <1>4, <1>11, <1>12 DEF OrderInv
<1>14. Counted(row')
  <2>1. /\ row.ocnt \in Nat /\ row.ocnt <= n
        /\ row.ocnt = n <=> \A k \in 1..n : row.l[k].lstatus = "F"
        /\ row.ocnt = 0 <=> \A k \in 1..n : row.l[k].lstatus = "O"
    BY <1>3, <1>8 DEF OrderInv, Counted
  <2>2. n + 1 \in 1..(n + 1) /\ \A k \in 1..n : k \in 1..(n + 1)
    BY <1>11
  <2>3. /\ (\A k \in 1..(n + 1) : w[k].lstatus = "F")
             <=> l.lstatus = "F" /\ \A k \in 1..n : row.l[k].lstatus = "F"
        /\ (\A k \in 1..(n + 1) : w[k].lstatus = "O")
             <=> l.lstatus = "O" /\ \A k \in 1..n : row.l[k].lstatus = "O"
    BY <1>11, <1>12, <2>2
  <2> HIDE DEF n, w
  <2>4. /\ row'.ocnt <= n + 1
        /\ row'.ocnt = n + 1 <=> l.lstatus = "F" /\ row.ocnt = n
        /\ row'.ocnt = 0 <=> l.lstatus = "O" /\ row.ocnt = 0
    <3>1. CASE l.lstatus = "F"
      BY <1>9, <1>11, <2>1, <3>1
    <3>2. CASE l.lstatus = "O"
      BY <1>9, <1>11, <2>1, <3>2
    <3> QED
      BY <1>7, <3>1, <3>2
  <2>5. /\ row'.ocnt <= Len(w)
        /\ row'.ocnt = Len(w) <=> \A k \in 1..Len(w) : w[k].lstatus = "F"
        /\ row'.ocnt = 0 <=> \A k \in 1..Len(w) : w[k].lstatus = "O"
    BY <1>11, <2>1, <2>3, <2>4
  <2> QED
    BY <2>5 DEF Counted, w
<1>15. OrderInv'
  <2>1. Len(w) <= row.lines
    BY <1>3, <1>8, <1>11
  <2> QED
    BY <1>3, <1>9, <1>10, <1>13, <1>14, <2>1 DEF OrderInv
<1> QED
  BY <1>3, <1>9, <1>15 DEF RowsIInv

LEMMA EndOrderStep == ASSUME RowsIInv, EndOrder PROVE RowsIInv'
<1>1. rows_pc = "lines" /\ rows_pc' = "made" /\ Len(row.l) = row.lines /\ OrderInv
      /\ row.orderstatus = "O"
  BY DEF EndOrder, RowsIInv
<1> DEFINE st == IF row.ocnt = row.lines THEN "F" ELSE IF row.ocnt > 0 THEN "P" ELSE "O"
<1>2. row' = [row EXCEPT !.orderstatus = st]
  BY <1>1 DEF EndOrder
<1>3. st \in {"F", "P", "O"}
  OBVIOUS
<1> HIDE DEF st
<1>4. /\ row' \in OrderSet /\ row'.orderstatus = st /\ row'.l = row.l /\ row'.ocnt = row.ocnt
      /\ row'.lines = row.lines /\ row'.date = row.date /\ row'.custkey = row.custkey
  BY <1>1, <1>2, <1>3 DEF OrderInv, OrderSet
<1>5. OrderInv'
  BY <1>1, <1>4 DEF OrderInv, Counted
<1> QED
  BY <1>1, <1>4, <1>5 DEF RowsIInv, st

LEMMA RowsIInvStep == RowsIInv /\ [RowsNext]_rows_vars => RowsIInv'
<1> SUFFICES ASSUME RowsIInv, [RowsNext]_rows_vars PROVE RowsIInv'
  OBVIOUS
<1>1. CASE MkAscdate
  BY <1>1 DEF MkAscdate, RowsIInv
<1>2. CASE MkPart
  BY <1>2 DEF MkPart, RowsIInv
<1>3. CASE UNCHANGED rows_vars
  BY <1>3 DEF rows_vars, RowsIInv, OrderInv, Counted
<1> QED
  BY <1>1, <1>2, <1>3, MkOrderStep, MkLineStep, EndOrderStep DEF RowsNext

LEMMA IInvKeys == RowsIInv => KeysRefer
<1> SUFFICES ASSUME RowsIInv, rows_pc = "made" PROVE KeysRefer
  BY DEF KeysRefer
<1>1. CASE OrderInv
  <2>1. row \in OrderSet /\ row.table = "order" /\ row.l \in Seq(LineSet)
        /\ DOMAIN row.l = 1..Len(row.l)
    BY <1>1 DEF OrderInv, OrderSet
  <2>2. ASSUME NEW k \in DOMAIN row.l
        PROVE  \E i \in 1..SUPP_PER_PART : PartRow(row.l[k].partkey).s[i].suppkey = row.l[k].suppkey
    <3>1. PICK s \in 0..3 : row.l[k].suppkey = PART_SUPP_BRIDGE(row.l[k].partkey, s)
      BY <1>1, <2>1 DEF OrderInv, Supplied
    <3>2. s + 1 \in 1..SUPP_PER_PART /\ (s + 1) - 1 = s
      BY DEF SUPP_PER_PART
    <3>3. PartRow(row.l[k].partkey).s[s + 1].suppkey = PART_SUPP_BRIDGE(row.l[k].partkey, s)
      BY <3>2 DEF PartRow
    <3> QED
      BY <3>1, <3>2, <3>3
  <2> QED
    BY <1>1, <2>1, <2>2 DEF KeysRefer, OrderInv, OrderSet
<1>2. CASE \E p \in PartDraws : row = PartRow(p)
  <2>1. PICK p \in PartDraws : row = PartRow(p)
    BY <1>2
  <2>2. p \in 1..L_PKEY_MAX
    BY RowsAssumption
  <2>3. row.table = "part"
    BY <2>1 DEF PartRow
  <2>4. \A k \in 1..SUPP_PER_PART : k - 1 \in 0..3 /\ row.s[k].suppkey = PART_SUPP_BRIDGE(p, k - 1)
    BY <2>1 DEF PartRow, SUPP_PER_PART
  <2>5. \A k \in 1..SUPP_PER_PART : row.s[k].suppkey \in 1..Suppliers
    BY <2>2, <2>4, SuppliersDiffer
  <2>6. ASSUME NEW j \in 1..SUPP_PER_PART, NEW k \in 1..SUPP_PER_PART,
               row.s[j].suppkey = row.s[k].suppkey
        PROVE  j = k
    <3>1. j - 1 = k - 1
      BY <2>2, <2>4, <2>6, SuppliersDiffer
    <3> QED
      BY <3>1 DEF SUPP_PER_PART
  <2> QED
    BY <2>3, <2>5, <2>6 DEF KeysRefer
<1> QED
  BY <1>1, <1>2 DEF RowsIInv

LEMMA IInvDates == RowsIInv => DatesAgree
<1> SUFFICES ASSUME RowsIInv, rows_pc = "made", row.table = "order" PROVE DatesAgree
  BY DEF DatesAgree
<1>1. ~(\E p \in PartDraws : row = PartRow(p))
  BY DEF PartRow
<1>2. /\ OrderInv /\ Len(row.l) = row.lines
      /\ row.orderstatus = IF row.ocnt = row.lines THEN "F" ELSE IF row.ocnt > 0 THEN "P" ELSE "O"
  BY <1>1 DEF RowsIInv
<1>3. /\ row.l \in Seq(LineSet) /\ DOMAIN row.l = 1..Len(row.l)
      /\ row.ocnt \in Nat /\ row.lines \in Nat /\ row.lines > 0 /\ row.date \in Nat
      /\ Counted(row)
  BY <1>2 DEF OrderInv, OrderSet
<1>4. row.orderstatus = "F" <=> \A k \in DOMAIN row.l : row.l[k].lstatus = "F"
  BY <1>2, <1>3 DEF Counted
<1>5. row.orderstatus = "O" <=> \A k \in DOMAIN row.l : row.l[k].lstatus = "O"
  BY <1>2, <1>3 DEF Counted
<1> DEFINE day0 == row.date - STARTDATE
           now == <<95, 6, 17>>
<1>6. ASSUME NEW k \in DOMAIN row.l
      PROVE  /\ {row.l[k].sday, row.l[k].cday, row.l[k].rday} \subseteq DOMAIN asc_date
             /\ Before(asc_date[day0], asc_date[row.l[k].sday])
             /\ Before(asc_date[row.l[k].sday], asc_date[row.l[k].rday])
             /\ row.l[k].lstatus = "O" <=> Before(now, asc_date[row.l[k].sday])
             /\ row.l[k].rflag = "N" <=> Before(now, asc_date[row.l[k].rday])
  <2> DEFINE l == row.l[k]
  <2>1. l \in LineSet /\ Dated(l, day0)
    BY <1>2, <1>3 DEF OrderInv
  <2> HIDE DEF l
  <2>2. l.sday \in Nat /\ l.cday \in Nat /\ l.rday \in Nat
    BY <2>1 DEF LineSet
  <2>3. day0 \in Nat
    <3>1. row.date >= STARTDATE
      BY <1>2 DEF OrderInv
    <3> QED
      BY <1>3, <3>1, LastOrder
  <2>4. /\ day0 \in 0..(TOTDATE - 1) /\ l.sday \in 0..(TOTDATE - 1)
        /\ l.cday \in 0..(TOTDATE - 1) /\ l.rday \in 0..(TOTDATE - 1)
        /\ day0 < l.sday /\ l.sday < l.rday
        /\ l.lstatus = "O" <=> Today < l.sday
        /\ l.rflag = "N" <=> Today < l.rday
    <3>1. /\ day0 < l.sday /\ l.sday < l.rday
          /\ l.sday <= TOTDATE - 1 /\ l.cday <= TOTDATE - 1 /\ l.rday <= TOTDATE - 1
          /\ l.lstatus = "O" <=> Today < l.sday
          /\ l.rflag = "N" <=> Today < l.rday
      <4> HIDE DEF day0
      <4> QED
        BY <2>1 DEF Dated
    <3> HIDE DEF day0
    <3>2. TOTDATE - 1 \in Nat
      BY LastOrder
    <3>3. day0 <= TOTDATE - 1
      BY <2>2, <2>3, <3>1, <3>2
    <3> QED
      BY <2>2, <2>3, <3>1, <3>2, <3>3
  <2>5. DOMAIN asc_date = 0..(TOTDATE - 1)
    BY DEF asc_date
  <2>6. now = asc_date[Today] /\ Today \in 0..(TOTDATE - 1)
    BY TodayIs
  <2> HIDE DEF day0, now
  <2>7. /\ {l.sday, l.cday, l.rday} \subseteq DOMAIN asc_date
        /\ Before(asc_date[day0], asc_date[l.sday])
        /\ Before(asc_date[l.sday], asc_date[l.rday])
        /\ l.lstatus = "O" <=> Before(now, asc_date[l.sday])
        /\ l.rflag = "N" <=> Before(now, asc_date[l.rday])
    BY <2>4, <2>5, <2>6, BeforeIs
  <2> QED
    BY <2>7 DEF l
<1> QED
  BY <1>4, <1>5, <1>6 DEF DatesAgree

\* KeysRefer: the keys of a row name rows of other tables, and the four suppliers of a part
\* differ: for any scale and any draws.
THEOREM KeysAlwaysRefer == RowsSpec => []KeysRefer
BY RowsInitIInv, RowsIInvStep, IInvKeys, PTL DEF RowsSpec

\* DatesAgree: the dates, flags and state of an order agree: for any day of the order, any lags
\* of the shipment, the promise and the receipt, and any number of lineitems.
THEOREM DatesAlwaysAgree == RowsSpec => []DatesAgree
BY RowsInitIInv, RowsIInvStep, IInvDates, PTL DEF RowsSpec

-----------------------------------------------------------------------------
\* Bcd: digit by digit.

LEMMA TenToIs ==
  /\ TenTo \in [Nat -> Nat \ {0}] /\ TenTo[0] = 1
  /\ \A n \in Nat : TenTo[n + 1] = 10 * TenTo[n]
<1> DEFINE X == Nat \ {0}
           g == [i \in Nat |-> [x \in X |-> 10 * x]]
           x0 == 1
<1>1. Stays(g, X) /\ x0 \in X
  BY DEF Stays
<1>2. PICK f \in [Nat -> X] : f = [n \in Nat |-> IF n = 0 THEN x0 ELSE g[n - 1][f[n - 1]]]
  <2> HIDE DEF g, X, x0
  <2>1. \E f \in [Nat -> X] : Recurs(f, x0, g)
    BY <1>1, Recursion
  <2> QED
    BY <2>1 DEF Recurs
<1>3. ASSUME NEW n \in Nat, n # 0 PROVE g[n - 1][f[n - 1]] = 10 * f[n - 1]
  <2>1. n - 1 \in Nat
    BY <1>3
  <2> QED
    BY <2>1
<1>4. f = [n \in Nat |-> IF n = 0 THEN 1 ELSE 10 * f[n - 1]]
  BY <1>2, <1>3
<1>5. TenTo = [n \in Nat |-> IF n = 0 THEN 1 ELSE 10 * TenTo[n - 1]]
  BY <1>4 DEF TenTo
<1> QED
  <2>1. TenTo[0] = 1
    BY <1>5
  <2>2. \A n \in Nat : TenTo[n + 1] = 10 * TenTo[n]
    BY <1>5
  <2> DEFINE S == {n \in Nat : TenTo[n] \in Nat \ {0}}
  <2>3. 0 \in S
    BY <2>1
  <2>4. \A n \in Nat : n \in S => n + 1 \in S
    BY <2>2
  <2>5. Nat \subseteq S
    <3> HIDE DEF S
    <3> QED
      BY <2>3, <2>4, Induct
  <2>6. \A n \in Nat : TenTo[n] \in Nat \ {0}
    BY <2>5
  <2> QED
    BY <1>5, <2>1, <2>2, <2>6

LEMMA PlacesAre == BcdDigits \in Nat \ {0} /\ Place = 0..(BcdDigits - 1)
BY BcdAssumption DEF Place

\* Numbers whose places hold any values, digits or not.
Wide == [Place -> Nat]
Digital == [Place -> 0..9]

\* What the places below one are worth.
Padded(x) == [d \in Nat |-> IF d < BcdDigits THEN x[d] ELSE 0]
Low(x) ==
  CHOOSE f \in [Nat -> Nat] : f[0] = 0 /\ \A n \in Nat : f[n + 1] = f[n] + Padded(x)[n] * TenTo[n]

LEMMA LowIs ==
  ASSUME NEW x \in Wide
  PROVE  /\ Low(x) \in [Nat -> Nat] /\ Low(x)[0] = 0
         /\ \A d \in Place : Low(x)[d + 1] = Low(x)[d] + x[d] * TenTo[d]
<1> DEFINE w == [d \in Nat |-> Padded(x)[d] * TenTo[d]]
           g == [i \in Nat |-> [v \in Nat |-> v + w[i]]]
           X == Nat
           x0 == 0
<1>1. ASSUME NEW d \in Nat PROVE w[d] \in Nat
  <2>1. Padded(x)[d] \in Nat
    BY PlacesAre DEF Padded, Wide
  <2>2. TenTo[d] \in Nat
    BY TenToIs
  <2> QED
    BY <2>1, <2>2
<1>2. Stays(g, X) /\ x0 \in X
  <2>1. \A i \in Nat : \A v \in Nat : g[i][v] \in Nat
    <3> HIDE DEF w
    <3> QED
      BY <1>1
  <2> QED
    BY <2>1 DEF Stays
<1>3. \E f \in [X -> X] : f[0] = x0 /\ \A n \in Nat : f[n + 1] = g[n][f[n]]
  <2>1. \E f \in [Nat -> X] : f[0] = x0 /\ \A n \in Nat : f[n + 1] = g[n][f[n]]
    <3> HIDE DEF g, X, x0
    <3> QED
      BY <1>2, Iterated
  <2> QED
    BY <2>1
<1>4. \E f \in [Nat -> Nat] : f[0] = 0 /\ \A n \in Nat : f[n + 1] = f[n] + Padded(x)[n] * TenTo[n]
  BY <1>3
<1>5. /\ Low(x) \in [Nat -> Nat] /\ Low(x)[0] = 0
      /\ \A n \in Nat : Low(x)[n + 1] = Low(x)[n] + Padded(x)[n] * TenTo[n]
  <2> HIDE DEF w, g, X, x0
  <2> QED
    BY <1>4 DEF Low
<1>6. ASSUME NEW d \in Place PROVE Low(x)[d + 1] = Low(x)[d] + x[d] * TenTo[d]
  <2>1. d \in Nat /\ Padded(x)[d] = x[d]
    BY PlacesAre DEF Padded
  <2> QED
    BY <1>5, <2>1
<1> QED
  BY <1>5, <1>6

\* What the places from one on are worth, that place counted once.
Above(x) ==
  CHOOSE u : u = [d \in 0..BcdDigits |-> IF d = BcdDigits THEN 0 ELSE x[d] + 10 * u[d + 1]]

LEMMA AboveIs ==
  ASSUME NEW x \in Wide
  PROVE  /\ \A d \in 0..BcdDigits : Above(x)[d] \in Nat
         /\ Above(x)[BcdDigits] = 0 /\ bcd2_bin(x) = Above(x)[0]
         /\ \A d \in Place : Above(x)[d] = x[d] + 10 * Above(x)[d + 1]
<1> DEFINE D == BcdDigits
           b == [i \in Nat |-> IF i < D THEN x[D - 1 - i] ELSE 0]
           g == [i \in Nat |-> [v \in Nat |-> b[i] + 10 * v]]
           X == Nat
           x0 == 0
<1>1. D \in Nat \ {0}
  BY PlacesAre
<1>2. \A i \in Nat : b[i] \in Nat
  BY PlacesAre DEF Wide
<1>3. Stays(g, X) /\ x0 \in X
  <2>1. \A i \in Nat : \A v \in Nat : g[i][v] \in Nat
    <3> HIDE DEF b
    <3> QED
      BY <1>2
  <2> QED
    BY <2>1 DEF Stays
<1>4. \E f \in [X -> X] : f[0] = x0 /\ \A n \in Nat : f[n + 1] = g[n][f[n]]
  <2>1. \E f \in [Nat -> X] : f[0] = x0 /\ \A n \in Nat : f[n + 1] = g[n][f[n]]
    <3> HIDE DEF g, X, x0
    <3> QED
      BY <1>3, Iterated
  <2> QED
    BY <2>1
<1>5. PICK f \in [Nat -> Nat] : f[0] = 0 /\ \A n \in Nat : f[n + 1] = b[n] + 10 * f[n]
  <2> HIDE DEF b
  <2> QED
    BY <1>4
<1> DEFINE u == [d \in 0..D |-> f[D - d]]
<1>6. u = [d \in 0..D |-> IF d = D THEN 0 ELSE x[d] + 10 * u[d + 1]]
  <2>1. ASSUME NEW d \in 0..D
        PROVE  u[d] = IF d = D THEN 0 ELSE x[d] + 10 * u[d + 1]
    <3>1. CASE d = D
      BY <1>1, <1>5, <3>1
    <3>2. CASE d # D
      <4>1. /\ D - 1 - d \in Nat /\ D - d = (D - 1 - d) + 1 /\ d + 1 \in 0..D /\ D - 1 - d < D
            /\ D - (d + 1) = D - 1 - d /\ D - 1 - (D - 1 - d) = d
        BY <1>1, <3>2
      <4>2. b[D - 1 - d] = x[d]
        BY <4>1
      <4>3. u[d] = f[(D - 1 - d) + 1] /\ u[d + 1] = f[D - 1 - d]
        BY <4>1
      <4>4. f[(D - 1 - d) + 1] = b[D - 1 - d] + 10 * f[D - 1 - d]
        <5> HIDE DEF b
        <5> QED
          BY <1>5, <4>1
      <4> HIDE DEF u, b
      <4> QED
        BY <3>2, <4>2, <4>3, <4>4
    <3> QED
      BY <3>1, <3>2
  <2> HIDE DEF u
  <2>2. u = [d \in 0..D |-> u[d]]
    BY DEF u
  <2> QED
    BY <2>1, <2>2
<1>7. Above(x) = [d \in 0..D |-> IF d = D THEN 0 ELSE x[d] + 10 * Above(x)[d + 1]]
  <2>1. \E h : h = [d \in 0..D |-> IF d = D THEN 0 ELSE x[d] + 10 * h[d + 1]]
    BY <1>6
  <2> QED
    BY <2>1 DEF Above
<1>8. bcd2_bin(x) = Above(x)[0]
  BY DEF bcd2_bin, Above
<1>9. Above(x)[D] = 0 /\ \A d \in Place : Above(x)[d] = x[d] + 10 * Above(x)[d + 1]
  <2>1. D \in 0..D /\ \A d \in Place : d \in 0..D /\ d # D
    BY PlacesAre
  <2> QED
    BY <1>7, <2>1
<1> DEFINE S == {n \in Nat : n <= D => Above(x)[D - n] \in Nat}
<1>10. 0 \in S
  BY <1>1, <1>9
<1>11. ASSUME NEW n \in Nat, n \in S PROVE n + 1 \in S
  <2>1. CASE n + 1 <= D
    <3>1. D - (n + 1) \in Place /\ (D - (n + 1)) + 1 = D - n /\ n <= D
      BY <1>1, <2>1, PlacesAre
    <3>2. Above(x)[D - (n + 1)] = x[D - (n + 1)] + 10 * Above(x)[D - n]
      BY <1>9, <3>1
    <3>3. x[D - (n + 1)] \in Nat /\ Above(x)[D - n] \in Nat
      BY <1>11, <3>1 DEF Wide
    <3> QED
      BY <3>2, <3>3
  <2>2. CASE ~(n + 1 <= D)
    BY <2>2
  <2> QED
    BY <2>1, <2>2
<1>12. Nat \subseteq S
  <2> HIDE DEF S
  <2> QED
    BY <1>10, <1>11, Induct
<1>13. ASSUME NEW d \in 0..D PROVE Above(x)[d] \in Nat
  <2>1. D - d \in Nat /\ D - d <= D /\ D - (D - d) = d
    BY <1>1
  <2>2. D - d \in S
    BY <1>12, <2>1
  <2> QED
    BY <2>1, <2>2
<1> QED
  BY <1>8, <1>9, <1>13

\* The two add up to the number.
LEMMA LowAbove ==
  ASSUME NEW x \in Wide
  PROVE  /\ \A n \in 0..BcdDigits : Above(x)[n] * TenTo[n] + Low(x)[n] = bcd2_bin(x)
         /\ Low(x)[BcdDigits] = bcd2_bin(x)
<1> DEFINE D == BcdDigits
           S == {n \in Nat : n <= D => Above(x)[n] * TenTo[n] + Low(x)[n] = bcd2_bin(x)}
<1>1. D \in Nat \ {0}
  BY PlacesAre
<1>2. 0 \in S
  <2>1. Above(x)[0] \in Nat /\ 0 \in 0..D
    BY <1>1, AboveIs
  <2>2. TenTo[0] = 1 /\ Low(x)[0] = 0 /\ bcd2_bin(x) = Above(x)[0]
    BY TenToIs, LowIs, AboveIs
  <2> QED
    BY <2>1, <2>2
<1>3. ASSUME NEW n \in Nat, n \in S PROVE n + 1 \in S
  <2>1. CASE n + 1 <= D
    <3> DEFINE a == Above(x)[n]
               b == Above(x)[n + 1]
               t == TenTo[n]
               l == Low(x)[n]
               y == x[n]
    <3>1. n \in Place /\ n \in 0..D /\ n + 1 \in 0..D /\ n <= D
      BY <1>1, <2>1, PlacesAre
    <3>2. a \in Nat /\ b \in Nat /\ t \in Nat /\ l \in Nat /\ y \in Nat
      BY <3>1, AboveIs, LowIs, TenToIs DEF Wide
    <3>3. a = y + 10 * b /\ TenTo[n + 1] = 10 * t /\ Low(x)[n + 1] = l + y * t
      BY <3>1, AboveIs, LowIs, TenToIs
    <3>4. a * t + l = bcd2_bin(x)
      BY <1>3, <3>1
    <3> HIDE DEF a, b, t, l, y
    <3>5. b * (10 * t) + (l + y * t) = a * t + l
      <4>1. (y + 10 * b) * t = y * t + (10 * b) * t /\ b * (10 * t) = (10 * b) * t
        BY <3>2
      <4>2. y * t \in Nat /\ (10 * b) * t \in Nat
        BY <3>2
      <4> QED
        BY <3>2, <3>3, <4>1, <4>2
    <3>6. b * TenTo[n + 1] + Low(x)[n + 1] = bcd2_bin(x)
      BY <3>3, <3>4, <3>5
    <3> QED
      BY <3>6 DEF b
  <2>2. CASE ~(n + 1 <= D)
    BY <2>2
  <2> QED
    BY <2>1, <2>2
<1>4. Nat \subseteq S
  <2> HIDE DEF S
  <2> QED
    BY <1>2, <1>3, Induct
<1>5. \A n \in 0..D : Above(x)[n] * TenTo[n] + Low(x)[n] = bcd2_bin(x)
  BY <1>1, <1>4
<1>6. Low(x)[D] = bcd2_bin(x)
  <2>1. Above(x)[D] = 0 /\ D \in 0..D /\ TenTo[D] \in Nat /\ Low(x)[D] \in Nat
    BY <1>1, AboveIs, LowIs, TenToIs
  <2>2. Above(x)[D] * TenTo[D] + Low(x)[D] = bcd2_bin(x)
    BY <1>5, <2>1
  <2> QED
    BY <2>1, <2>2
<1> QED
  BY <1>5, <1>6

\* A digit is exchanged for another one.
LEMMA LowChanged ==
  ASSUME NEW x \in Wide, NEW p \in Place, NEW v \in Nat
  PROVE  LET y == [x EXCEPT ![p] = v]
         IN  /\ y \in Wide
             /\ \A n \in 0..BcdDigits :
                  n <= p => Low(y)[n] = Low(x)[n]
             /\ \A n \in 0..BcdDigits :
                  n > p => Low(y)[n] = Low(x)[n] + (v - x[p]) * TenTo[p]
<1> DEFINE D == BcdDigits
           y == [x EXCEPT ![p] = v]
           c == (v - x[p]) * TenTo[p]
           S == {n \in Nat : n <= D => Low(y)[n] = Low(x)[n] + (IF n > p THEN c ELSE 0)}
<1>1. D \in Nat \ {0} /\ p \in Nat
  BY PlacesAre
<1>2. y \in Wide
  BY DEF Wide
<1>3. c \in Int
  <2>1. v - x[p] \in Int /\ TenTo[p] \in Int
    BY <1>1, TenToIs DEF Wide
  <2> QED
    BY <2>1
<1>4. \A n \in Nat : Low(x)[n] \in Nat /\ Low(y)[n] \in Nat
  <2>1. Low(x) \in [Nat -> Nat]
    BY LowIs
  <2>2. Low(y) \in [Nat -> Nat]
    <3> HIDE DEF y
    <3> QED
      BY <1>2, LowIs
  <2> QED
    BY <2>1, <2>2
<1>5. 0 \in S
  <2>1. Low(x)[0] = 0
    BY LowIs
  <2>2. Low(y)[0] = 0
    <3> HIDE DEF y
    <3> QED
      BY <1>2, LowIs
  <2> QED
    BY <1>1, <2>1, <2>2
<1>6. ASSUME NEW n \in Nat, n \in S PROVE n + 1 \in S
  <2>1. CASE n + 1 <= D
    <3>1. n \in Place /\ n <= D
      BY <1>1, <2>1, PlacesAre
    <3>2. Low(x)[n + 1] = Low(x)[n] + x[n] * TenTo[n]
      BY <3>1, LowIs
    <3>3. Low(y)[n + 1] = Low(y)[n] + y[n] * TenTo[n]
      <4> HIDE DEF y
      <4> QED
        BY <1>2, <3>1, LowIs
    <3>4. Low(y)[n] = Low(x)[n] + (IF n > p THEN c ELSE 0)
      BY <1>6, <3>1
    <3>5. CASE n = p
      <4>1. y[n] = v
        BY <3>1, <3>5 DEF Wide
      <4>2. v * TenTo[n] = x[n] * TenTo[n] + c
        <5> DEFINE a == x[n]
                   t == TenTo[n]
        <5>1. a \in Nat /\ t \in Nat
          BY <3>1, TenToIs DEF Wide
        <5>2. c = (v - a) * t
          BY <3>5
        <5> HIDE DEF a, t, c
        <5>3. v * t = a * t + (v - a) * t
          BY <5>1
        <5> QED
          BY <5>2, <5>3 DEF a, t
      <4>3. Low(y)[n] = Low(x)[n]
        BY <1>1, <1>4, <3>4, <3>5
      <4>4. x[n] * TenTo[n] \in Int /\ Low(x)[n] \in Int
        BY <3>1, <1>4, TenToIs DEF Wide
      <4> HIDE DEF c, y
      <4>5. Low(y)[n + 1] = Low(x)[n] + (x[n] * TenTo[n] + c)
        BY <3>3, <4>1, <4>2, <4>3
      <4>6. n + 1 > p
        BY <1>1, <3>5
      <4> QED
        BY <1>3, <3>2, <4>4, <4>5, <4>6
    <3>6. CASE n # p
      <4>1. y[n] = x[n]
        BY <3>1, <3>6 DEF Wide
      <4>2. x[n] * TenTo[n] \in Int /\ Low(x)[n] \in Int
        BY <3>1, <1>4, TenToIs DEF Wide
      <4>3. n > p <=> n + 1 > p
        BY <1>1, <3>6
      <4> HIDE DEF c, y
      <4> QED
        BY <1>3, <3>2, <3>3, <3>4, <4>1, <4>2, <4>3
    <3> QED
      BY <3>5, <3>6
  <2>2. CASE ~(n + 1 <= D)
    BY <2>2
  <2> QED
    BY <2>1, <2>2
<1>7. Nat \subseteq S
  <2> HIDE DEF S
  <2> QED
    BY <1>5, <1>6, Induct
<1>8. ASSUME NEW n \in 0..D PROVE Low(y)[n] = Low(x)[n] + (IF n > p THEN c ELSE 0)
  <2>1. n \in Nat /\ n <= D
    BY <1>1
  <2>2. n \in S
    <3> HIDE DEF S
    <3> QED
      BY <1>7, <2>1
  <2> HIDE DEF y, c
  <2> QED
    BY <2>1, <2>2
<1>9. \A n \in 0..D : n <= p => Low(y)[n] = Low(x)[n]
  <2> HIDE DEF y, c
  <2>1. \A n \in 0..D : n \in Nat /\ (n <= p => ~(n > p))
    BY <1>1
  <2> QED
    BY <1>4, <1>8, <2>1
<1>10. \A n \in 0..D : n > p => Low(y)[n] = Low(x)[n] + c
  BY <1>8
<1> QED
  BY <1>2, <1>9, <1>10

\* The quotient by ten times a number, and the digit between the two quotients.
LEMMA TenDiv ==
  ASSUME NEW a \in Nat, NEW d \in Nat \ {0}
  PROVE  /\ a \div d \in Nat /\ a \div (10 * d) \in Nat
         /\ (a \div d) % 10 \in 0..9 /\ a % d \in 0..(d - 1)
         /\ a \div d = 10 * (a \div (10 * d)) + ((a \div d) % 10)
         /\ a % (10 * d) = (a % d) + ((a \div d) % 10) * d
<1> DEFINE q == a \div d
           r == a % d
           p == q \div 10
           s == q % 10
<1>1. q \in Nat /\ r \in 0..(d - 1) /\ a = d * q + r
  <2>1. q \in Int /\ r \in 0..(d - 1) /\ a = d * q + r
    BY ModRange
  <2>2. q >= 0
    <3> HIDE DEF q, r
    <3>1. ASSUME q < 0 PROVE FALSE
      <4>1. d * q <= -d
        BY <2>1, <3>1
      <4> QED
        BY <2>1, <4>1
    <3> QED
      BY <2>1, <3>1
  <2> QED
    BY <2>1, <2>2
<1>2. p \in Nat /\ s \in 0..9 /\ q = 10 * p + s
  <2> HIDE DEF q
  <2> QED
    BY <1>1
<1>3. p \in Nat /\ s * d + r \in 0..(10 * d - 1) /\ a = p * (10 * d) + (s * d + r)
  <2> HIDE DEF q, r, p, s
  <2>1. d * (10 * p + s) = p * (10 * d) + s * d
    BY <1>2
  <2>2. s * d \in Nat /\ s * d <= 9 * d
    BY <1>2
  <2>3. p * (10 * d) \in Nat
    BY <1>2
  <2> QED
    BY <1>1, <1>2, <2>1, <2>2, <2>3
<1>4. a \div (10 * d) = p /\ a % (10 * d) = s * d + r
  <2> DEFINE e == 10 * d
             t == s * d + r
  <2>1. e \in Nat \ {0}
    OBVIOUS
  <2> HIDE DEF e, t, p
  <2>2. p \in Nat /\ t \in 0..(e - 1) /\ a = p * e + t
    BY <1>3 DEF e, t
  <2>3. a \div e = p /\ a % e = t
    BY <2>1, <2>2, DivIs
  <2> QED
    BY <2>3 DEF e, t
<1>5. s * d \in Nat
  <2> HIDE DEF s
  <2> QED
    BY <1>2
<1> HIDE DEF q, r, p, s
<1>6. s * d + r = r + s * d
  BY <1>1, <1>5
<1> QED
  BY <1>1, <1>2, <1>4, <1>6 DEF q, r, s

\* The digits of a number are worth the number, as far as there are places.
LEMMA BinLow ==
  ASSUME NEW a \in Nat
  PROVE  /\ bin_bcd2(a) \in Digital
         /\ \A n \in 0..BcdDigits : Low(bin_bcd2(a))[n] = a % TenTo[n]
         /\ a < TenTo[BcdDigits] => Low(bin_bcd2(a))[BcdDigits] = a
<1> DEFINE D == BcdDigits
           x == bin_bcd2(a)
           S == {n \in Nat : n <= D => Low(x)[n] = a % TenTo[n]}
<1>1. D \in Nat \ {0}
  BY PlacesAre
<1>2. x \in Digital /\ x \in Wide
  <2>1. ASSUME NEW d \in Place PROVE (a \div TenTo[d]) % 10 \in 0..9
    <3>1. TenTo[d] \in Nat \ {0}
      <4>1. d \in Nat
        BY PlacesAre
      <4> QED
        BY <4>1, TenToIs
    <3> QED
      BY <3>1, TenDiv
  <2> QED
    BY <2>1 DEF bin_bcd2, Digital, Wide
<1>3. 0 \in S
  <2>1. Low(x)[0] = 0
    <3> HIDE DEF x
    <3> QED
      BY <1>2, LowIs
  <2>2. a % TenTo[0] = 0
    BY TenToIs
  <2> QED
    BY <2>1, <2>2
<1>4. ASSUME NEW n \in Nat, n \in S PROVE n + 1 \in S
  <2>1. CASE n + 1 <= D
    <3>1. n \in Place /\ n <= D
      BY <1>1, <2>1, PlacesAre
    <3>2. Low(x)[n + 1] = Low(x)[n] + x[n] * TenTo[n]
      <4> HIDE DEF x
      <4> QED
        BY <1>2, <3>1, LowIs
    <3>3. x[n] = (a \div TenTo[n]) % 10
      BY <3>1 DEF bin_bcd2
    <3>4. Low(x)[n] = a % TenTo[n]
      BY <1>4, <3>1
    <3>5. TenTo[n] \in Nat \ {0} /\ TenTo[n + 1] = 10 * TenTo[n]
      BY TenToIs
    <3>6. a % (10 * TenTo[n]) = (a % TenTo[n]) + ((a \div TenTo[n]) % 10) * TenTo[n]
      BY <3>5, TenDiv
    <3> HIDE DEF x
    <3> QED
      BY <3>2, <3>3, <3>4, <3>5, <3>6
  <2>2. CASE ~(n + 1 <= D)
    BY <2>2
  <2> QED
    BY <2>1, <2>2
<1>5. Nat \subseteq S
  <2> HIDE DEF S
  <2> QED
    BY <1>3, <1>4, Induct
<1>6. ASSUME NEW n \in 0..D PROVE Low(x)[n] = a % TenTo[n]
  <2>1. n \in Nat /\ n <= D
    BY <1>1
  <2>2. n \in S
    <3> HIDE DEF S
    <3> QED
      BY <1>5, <2>1
  <2> HIDE DEF x
  <2> QED
    BY <2>1, <2>2
<1>7. a < TenTo[D] => Low(x)[D] = a
  <2>1. TenTo[D] \in Nat /\ D \in 0..D
    BY <1>1, TenToIs
  <2>2. ASSUME NEW t \in Nat, a < t PROVE a % t = a
    BY <2>2
  <2> HIDE DEF x
  <2> QED
    BY <1>6, <2>1, <2>2
<1> QED
  BY <1>2, <1>6, <1>7

\* PlacesAre are worth less than the place above them.
LEMMA LowBound ==
  ASSUME NEW x \in Digital
  PROVE  x \in Wide /\ Low(x)[BcdDigits] \in 0..(TenTo[BcdDigits] - 1)
<1> DEFINE D == BcdDigits
           S == {n \in Nat : n <= D => Low(x)[n] < TenTo[n]}
<1>1. D \in Nat \ {0}
  BY PlacesAre
<1>2. x \in Wide
  BY DEF Wide, Digital
<1>3. 0 \in S
  BY <1>2, LowIs, TenToIs
<1>4. ASSUME NEW n \in Nat, n \in S PROVE n + 1 \in S
  <2>1. CASE n + 1 <= D
    <3> DEFINE y == x[n]
               t == TenTo[n]
               l == Low(x)[n]
    <3>1. n \in Place /\ n <= D
      BY <1>1, <2>1, PlacesAre
    <3>2. Low(x)[n + 1] = l + y * t /\ l \in Nat
      BY <1>2, <3>1, LowIs
    <3>3. y \in 0..9 /\ t \in Nat /\ TenTo[n + 1] = 10 * t
      BY <3>1, TenToIs DEF Digital
    <3>4. l < t
      BY <1>4, <3>1
    <3> HIDE DEF y, t, l
    <3>5. y * t \in Nat /\ y * t <= 9 * t
      BY <3>3
    <3> QED
      BY <3>2, <3>3, <3>4, <3>5
  <2>2. CASE ~(n + 1 <= D)
    BY <2>2
  <2> QED
    BY <2>1, <2>2
<1>5. Nat \subseteq S
  <2> HIDE DEF S
  <2> QED
    BY <1>3, <1>4, Induct
<1>6. Low(x)[D] < TenTo[D]
  BY <1>1, <1>5
<1>7. Low(x)[D] \in Nat /\ TenTo[D] \in Nat
  BY <1>1, <1>2, LowIs, TenToIs
<1> QED
  BY <1>2, <1>6, <1>7

\* The places from one on do not depend on those below it.
LEMMA AboveSame ==
  ASSUME NEW x \in Wide, NEW p \in Place, NEW v \in Nat
  PROVE  Above([x EXCEPT ![p] = v])[p + 1] = Above(x)[p + 1]
<1> DEFINE D == BcdDigits
           y == [x EXCEPT ![p] = v]
           S == {n \in Nat : n <= D - (p + 1) => Above(y)[D - n] = Above(x)[D - n]}
<1>1. D \in Nat \ {0} /\ p \in Nat /\ p + 1 <= D
  BY PlacesAre
<1>2. y \in Wide
  BY DEF Wide
<1>3. 0 \in S
  <2>1. Above(x)[D] = 0
    BY AboveIs
  <2>2. Above(y)[D] = 0
    <3> HIDE DEF y
    <3> QED
      BY <1>2, AboveIs
  <2> QED
    BY <1>1, <2>1, <2>2
<1>4. ASSUME NEW n \in Nat, n \in S PROVE n + 1 \in S
  <2>1. CASE n + 1 <= D - (p + 1)
    <3> DEFINE d == D - (n + 1)
    <3>1. d \in Place /\ d + 1 = D - n /\ d # p /\ n <= D - (p + 1)
      BY <1>1, <2>1, PlacesAre
    <3>2. y[d] = x[d]
      BY <3>1 DEF Wide
    <3>3. Above(x)[d] = x[d] + 10 * Above(x)[d + 1]
      <4> HIDE DEF d
      <4> QED
        BY <3>1, AboveIs
    <3>4. Above(y)[d] = y[d] + 10 * Above(y)[d + 1]
      <4> HIDE DEF d, y
      <4> QED
        BY <1>2, <3>1, AboveIs
    <3>5. Above(y)[D - n] = Above(x)[D - n]
      BY <1>4, <3>1
    <3> HIDE DEF y
    <3>6. Above(y)[d] = Above(x)[d]
      <4> HIDE DEF d
      <4> QED
        BY <3>1, <3>2, <3>3, <3>4, <3>5
    <3> QED
      BY <3>6
  <2>2. CASE ~(n + 1 <= D - (p + 1))
    BY <2>2
  <2> QED
    BY <2>1, <2>2
<1>5. Nat \subseteq S
  <2> HIDE DEF S
  <2> QED
    BY <1>3, <1>4, Induct
<1>6. D - (p + 1) \in Nat /\ D - (D - (p + 1)) = p + 1
  BY <1>1
<1>7. D - (p + 1) \in S
  <2> HIDE DEF S
  <2> QED
    BY <1>5, <1>6
<1>8. Above(y)[D - (D - (p + 1))] = Above(x)[D - (D - (p + 1))]
  <2> HIDE DEF y
  <2> QED
    BY <1>6, <1>7
<1> QED
  BY <1>6, <1>8

LEMMA TenNat == \A k \in Nat : TenTo[k] \in Nat
BY TenToIs

LEMMA TenAdd ==
  ASSUME NEW m \in Nat, NEW n \in Nat
  PROVE  TenTo[m + n] = TenTo[m] * TenTo[n]
<1> DEFINE S == {k \in Nat : TenTo[m + k] = TenTo[m] * TenTo[k]}
<1>1. \A k \in Nat : TenTo[k] \in Nat
  BY TenToIs
<1>2. 0 \in S
  BY <1>1, TenToIs
<1>3. ASSUME NEW k \in Nat, k \in S PROVE k + 1 \in S
  <2> DEFINE a == TenTo[m]
             b == TenTo[k]
  <2>1. TenTo[m + k] = a * b /\ m + (k + 1) = (m + k) + 1 /\ m + k \in Nat
    BY <1>3
  <2>2. TenTo[m + (k + 1)] = 10 * TenTo[m + k] /\ TenTo[k + 1] = 10 * b
    BY <2>1, TenToIs
  <2>3. a \in Nat /\ b \in Nat
    BY <1>1
  <2> HIDE DEF a, b
  <2>4. 10 * (a * b) = a * (10 * b)
    BY <2>3
  <2>5. TenTo[m + (k + 1)] = a * TenTo[k + 1]
    BY <2>1, <2>2, <2>4
  <2> QED
    BY <2>5 DEF a
<1>4. Nat \subseteq S
  <2> HIDE DEF S
  <2> QED
    BY <1>2, <1>3, Induct
<1> QED
  BY <1>4

-----------------------------------------------------------------------------
\* Addition: what is added up so far, and the places that are still to come.
Adding ==
  /\ digit \in 0..BcdDigits /\ carry \in Nat
  /\ \A d \in Place : d >= digit => bcd[d] = bin_bcd2(num)[d]
  /\ Low(bcd)[digit] + carry * TenTo[digit] = Low(bin_bcd2(num))[digit] + Low(bin_bcd2(opd))[digit]

\* Multiplication: what passes the highest place is a multiple of the place above it.
Multiplying ==
  /\ ldigit \in 0..BcdDigits /\ digit \in Place /\ carry \in Nat
  /\ ldigit < BcdDigits =>
       Cong(bcd2_bin(bcd) + carry * TenTo[digit + ldigit],
            Low(bin_bcd2(opd))[ldigit] * num
              + (bin_bcd2(opd)[ldigit] * Low(bin_bcd2(num))[digit]) * TenTo[ldigit],
            TenTo[BcdDigits])
  /\ ldigit = BcdDigits => Cong(bcd2_bin(bcd), opd * num, TenTo[BcdDigits])

\* Division: the places that are done divide as the number itself, cut off.
Dividing ==
  /\ opd > 0 /\ digit \in -1..(BcdDigits - 1) /\ carry \in 0..(opd - 1)
  /\ Above(bcd)[digit + 1] * opd + carry = num \div TenTo[digit + 1]

BcdIInv ==
  /\ bcd_pc \in {"start", "add", "mul", "div", "end"}
  /\ bcd_pc = "start" => bcd = Zero /\ ldigit = 0 /\ carry = 0
  /\ bcd_pc # "start" => num \in 0..(TenTo[BcdDigits] - 1) /\ opd \in 0..(TenTo[BcdDigits] - 1)
  /\ bcd_pc \in {"add", "mul", "div"} => operation = bcd_pc
  /\ bcd \in Digital
  /\ bcd_pc = "add" => Adding
  /\ bcd_pc = "mul" => Multiplying
  /\ bcd_pc = "div" => Dividing
  /\ BcdExact

LEMMA ZeroIs ==
  /\ Zero \in Digital /\ Zero \in Wide
  /\ bcd2_bin(Zero) = 0 /\ Above(Zero)[BcdDigits] = 0
<1>1. Zero \in Digital /\ Zero \in Wide
  BY DEF Zero, Digital, Wide
<1> DEFINE S == {n \in Nat : n <= BcdDigits => Low(Zero)[n] = 0}
<1>2. 0 \in S
  BY <1>1, LowIs
<1>3. ASSUME NEW n \in Nat, n \in S PROVE n + 1 \in S
  <2>1. CASE n + 1 <= BcdDigits
    <3>1. n \in Place /\ n <= BcdDigits
      BY <2>1, PlacesAre
    <3>2. Low(Zero)[n + 1] = Low(Zero)[n] + Zero[n] * TenTo[n]
      BY <1>1, <3>1, LowIs
    <3>3. Zero[n] = 0 /\ TenTo[n] \in Nat
      BY <3>1, TenToIs DEF Zero
    <3> QED
      BY <1>3, <3>1, <3>2, <3>3
  <2>2. CASE ~(n + 1 <= BcdDigits)
    BY <2>2
  <2> QED
    BY <2>1, <2>2
<1>4. Nat \subseteq S
  <2> HIDE DEF S
  <2> QED
    BY <1>2, <1>3, Induct
<1>5. Low(Zero)[BcdDigits] = 0
  BY <1>4, PlacesAre
<1> QED
  BY <1>1, <1>5, LowAbove, AboveIs

LEMMA BcdInitIInv == BcdInit => BcdIInv
BY ZeroIs DEF BcdInit, BcdIInv, BcdExact

LEMMA TopPlace == TenTo[BcdDigits] \in Nat \ {0}
BY TenToIs, PlacesAre

LEMMA CallStep == ASSUME BcdIInv, Call PROVE BcdIInv'
<1>1. /\ bcd_pc = "start" /\ operation' \in {"add", "mul", "div"} /\ bcd_pc' = operation'
      /\ num' \in 0..(TenTo[BcdDigits] - 1) /\ opd' \in 0..(TenTo[BcdDigits] - 1)
      /\ ldigit' = 0 /\ carry' = 0
  BY BcdAssumption DEF Call, BcdIInv
<1>2. num' \in Nat /\ opd' \in Nat /\ num' < TenTo[BcdDigits]
  BY <1>1, TopPlace
<1>3. bin_bcd2(num') \in Digital
  BY <1>2, BinLow
<1>4. bcd' \in Digital
  BY <1>3, ZeroIs DEF Call
<1>5. CASE operation' = "add"
  <2>1. bcd' = bin_bcd2(num') /\ digit' = 0
    BY <1>5 DEF Call
  <2>2. bin_bcd2(num)' = bin_bcd2(num') /\ bin_bcd2(opd)' = bin_bcd2(opd')
    BY DEF bin_bcd2
  <2>3. bin_bcd2(opd') \in Digital
    BY <1>2, BinLow
  <2>4. Low(bin_bcd2(num'))[0] = 0 /\ Low(bin_bcd2(opd'))[0] = 0
    BY <1>3, <2>3, LowBound, LowIs
  <2>5. Adding'
    <3>1. Low(bcd)' = Low(bcd') /\ Low(bin_bcd2(num))' = Low(bin_bcd2(num'))
          /\ Low(bin_bcd2(opd))' = Low(bin_bcd2(opd'))
      BY <2>2 DEF Low, Padded
    <3> QED
      BY <1>1, <2>1, <2>2, <2>4, <3>1, TenToIs, PlacesAre DEF Adding
  <2> QED
    BY <1>1, <1>4, <1>5, <2>5 DEF BcdIInv, BcdExact
<1>6. CASE operation' = "mul"
  <2>1. bcd' = Zero /\ digit' = 0
    BY <1>6 DEF Call
  <2>2. bin_bcd2(opd') \in Digital
    BY <1>2, BinLow
  <2>3. bcd2_bin(bcd)' = 0
    BY <2>1, ZeroIs DEF bcd2_bin
  <2>4. Low(bin_bcd2(num))' = Low(bin_bcd2(num')) /\ Low(bin_bcd2(opd))' = Low(bin_bcd2(opd'))
        /\ bin_bcd2(opd)' = bin_bcd2(opd')
    BY DEF Low, Padded, bin_bcd2
  <2>5. Low(bin_bcd2(num'))[0] = 0 /\ Low(bin_bcd2(opd'))[0] = 0
    BY <1>3, <2>2, LowBound, LowIs
  <2>6. bin_bcd2(opd')[0] \in Nat
    BY <2>2, PlacesAre DEF Digital
  <2>7. TenTo[0] = 1
    BY TenToIs
  <2>8. Multiplying'
    <3>1. 0 \in Place /\ 0 \in 0..BcdDigits /\ ~(0 = BcdDigits)
      BY PlacesAre
    <3>2. Cong(0 + 0 * TenTo[0 + 0], 0 * num' + (bin_bcd2(opd')[0] * 0) * TenTo[0],
               TenTo[BcdDigits])
      <4>1. 0 + 0 * TenTo[0 + 0] = 0 /\ 0 * num' + (bin_bcd2(opd')[0] * 0) * TenTo[0] = 0
        BY <1>2, <2>6, <2>7
      <4> QED
        BY <4>1, CongSame, TopPlace
    <3> QED
      BY <1>1, <2>1, <2>3, <2>4, <2>5, <3>1, <3>2 DEF Multiplying
  <2> QED
    BY <1>1, <1>4, <1>6, <2>8 DEF BcdIInv, BcdExact
<1>7. CASE operation' = "div"
  <2>1. bcd' = Zero /\ digit' = BcdDigits - 1 /\ opd' > 0
    BY <1>7 DEF Call
  <2>2. Above(bcd)' = Above(bcd')
    BY DEF Above
  <2>3. num' \div TenTo[BcdDigits] = 0
    BY <1>2, TopPlace, SmallDiv
  <2>4. Dividing'
    <3>1. (BcdDigits - 1) + 1 = BcdDigits /\ BcdDigits - 1 \in -1..(BcdDigits - 1)
      BY PlacesAre
    <3>2. 0 * opd' + 0 = 0 /\ 0 \in 0..(opd' - 1)
      <4>1. \A y \in Nat : y > 0 => 0 * y + 0 = 0 /\ 0 \in 0..(y - 1)
        OBVIOUS
      <4> QED
        BY <1>2, <2>1, <4>1
    <3> QED
      BY <1>1, <2>1, <2>2, <2>3, <3>1, <3>2, ZeroIs DEF Dividing
  <2> QED
    BY <1>1, <1>4, <1>7, <2>4 DEF BcdIInv, BcdExact
<1> QED
  BY <1>1, <1>5, <1>6, <1>7

LEMMA AddDigitStep == ASSUME BcdIInv, AddDigit PROVE BcdIInv'
<1> DEFINE p == digit
           x == bin_bcd2(num)
           y == bin_bcd2(opd)
           res == bcd[p] + y[p] + carry
           v == res % 10
<1>1. /\ bcd_pc = "add" /\ bcd_pc' = "add" /\ p < BcdDigits /\ p \in 0..BcdDigits /\ carry \in Nat
      /\ num \in 0..(TenTo[BcdDigits] - 1) /\ opd \in 0..(TenTo[BcdDigits] - 1)
      /\ bcd \in Digital /\ operation' = "add"
  BY DEF AddDigit, BcdIInv, Adding
<1>2. num' = num /\ opd' = opd /\ digit' = p + 1 /\ carry' = res \div 10
      /\ bcd' = [bcd EXCEPT ![p] = v]
  BY DEF AddDigit
<1>3. p \in Place /\ p \in Nat /\ p + 1 \in 0..BcdDigits
  BY <1>1, PlacesAre
<1>4. num \in Nat /\ opd \in Nat
  BY <1>1, TopPlace
<1>5. x \in Digital /\ y \in Digital /\ x \in Wide /\ y \in Wide /\ bcd \in Wide
  <2>1. x \in Digital /\ y \in Digital
    BY <1>4, BinLow
  <2> HIDE DEF x, y
  <2> QED
    BY <1>1, <2>1, LowBound
<1>6. bcd[p] \in Nat /\ x[p] \in Nat /\ y[p] \in Nat /\ bcd[p] = x[p]
  <2>1. bcd[p] = x[p]
    BY <1>1, <1>3 DEF BcdIInv, Adding
  <2> HIDE DEF x, y
  <2> QED
    BY <1>3, <1>5, <2>1 DEF Wide
<1>7. res \in Nat /\ v \in 0..9 /\ v \in Nat /\ res \div 10 \in Nat /\ res = 10 * (res \div 10) + v
  <2>1. res \in Nat
    <3> HIDE DEF y
    <3> QED
      BY <1>1, <1>6
  <2> HIDE DEF res
  <2> QED
    BY <2>1
<1>8. bcd' \in Digital
  <2> HIDE DEF v
  <2> QED
    BY <1>1, <1>2, <1>7 DEF Digital
<1>9. \A d \in Place : d >= p + 1 => bcd'[d] = x[d]
  <2>1. \A d \in Place : d >= p => bcd[d] = x[d]
    BY <1>1 DEF BcdIInv, Adding
  <2>2. \A d \in Place : d >= p + 1 => d # p /\ d >= p
    BY <1>3, PlacesAre
  <2> HIDE DEF x, v
  <2> QED
    BY <1>2, <1>5, <2>1, <2>2 DEF Wide
<1>10. Low(bcd')[p + 1] = Low(bcd)[p + 1] + (v - bcd[p]) * TenTo[p]
  <2> HIDE DEF v, p
  <2>1. p + 1 > p /\ v \in Nat
    BY <1>3, <1>7
  <2> QED
    BY <1>2, <1>3, <1>5, <2>1, LowChanged
<1>11. Low(bcd')[p + 1] + carry' * TenTo[p + 1] = Low(x)[p + 1] + Low(y)[p + 1]
  <2> DEFINE t == TenTo[p]
             a == bcd[p]
             b == y[p]
             l == Low(bcd)[p]
             m == Low(x)[p]
             n == Low(y)[p]
             c == res \div 10
  <2>1. t \in Nat /\ TenTo[p + 1] = 10 * t
    BY <1>3, TenToIs
  <2>2. Low(bcd)[p + 1] = l + a * t /\ l \in Nat
    BY <1>3, <1>5, LowIs
  <2>3. Low(x)[p + 1] = m + a * t /\ m \in Nat
    <3> HIDE DEF x
    <3> QED
      BY <1>3, <1>5, <1>6, LowIs
  <2>4. Low(y)[p + 1] = n + b * t /\ n \in Nat
    <3> HIDE DEF y
    <3> QED
      BY <1>3, <1>5, LowIs
  <2>5. l + carry * t = m + n
    BY <1>1 DEF BcdIInv, Adding
  <2>6. res = a + b + carry /\ a \in Nat /\ b \in Nat /\ c \in Nat /\ res = 10 * c + v /\ v \in Nat
    <3>1. res = a + b + carry
      OBVIOUS
    <3>2. a \in Nat /\ b \in Nat
      BY <1>6
    <3> HIDE DEF res, v, a, b
    <3> QED
      BY <1>7, <3>1, <3>2
  <2>7. carry' = c
    BY <1>2
  <2>8. Low(bcd')[p + 1] = (l + a * t) + (v - a) * t
    BY <1>10, <2>2
  <2> HIDE DEF t, a, b, l, m, n, c, v, res, p, x, y
  <2>9. (l + a * t) + (v - a) * t + c * (10 * t) = l + (10 * c + v) * t
    <3>1. a * t + (v - a) * t = v * t
      BY <2>1, <2>6
    <3>2. c * (10 * t) + v * t = (10 * c + v) * t
      BY <2>1, <2>6
    <3>3. a * t \in Int /\ (v - a) * t \in Int /\ v * t \in Int /\ c * (10 * t) \in Int
      BY <2>1, <2>6
    <3> QED
      BY <2>2, <3>1, <3>2, <3>3
  <2>10. (a + b + carry) * t = a * t + b * t + carry * t
    BY <1>1, <2>1, <2>6
  <2>11. a * t \in Nat /\ b * t \in Nat /\ carry * t \in Nat
    BY <1>1, <2>1, <2>6
  <2>12. l + (10 * c + v) * t = (m + a * t) + (n + b * t)
    <3>1. (10 * c + v) * t = (a + b + carry) * t
      BY <2>6
    <3> QED
      BY <2>2, <2>3, <2>4, <2>5, <2>10, <2>11, <3>1
  <2> QED
    BY <2>1, <2>3, <2>4, <2>7, <2>8, <2>9, <2>12
<1>12. Adding'
  <2>1. bin_bcd2(num)' = x /\ bin_bcd2(opd)' = y
    BY <1>2 DEF bin_bcd2
  <2>2. Low(bin_bcd2(num))' = Low(x) /\ Low(bin_bcd2(opd))' = Low(y) /\ Low(bcd)' = Low(bcd')
    BY <2>1 DEF Low, Padded
  <2>3. carry' \in Nat
    BY <1>2, <1>7
  <2> HIDE DEF x, y, res, v
  <2> QED
    BY <1>2, <1>3, <1>9, <1>11, <2>1, <2>2, <2>3 DEF Adding
<1> QED
  BY <1>1, <1>2, <1>8, <1>12 DEF BcdIInv, BcdExact

LEMMA DivDigitStep == ASSUME BcdIInv, DivDigit PROVE BcdIInv'
<1> DEFINE p == digit
           x == bin_bcd2(num)
           d1 == x[p] + 10 * carry
           v == d1 \div opd
           t == TenTo[p]
<1>1. /\ bcd_pc = "div" /\ bcd_pc' = "div" /\ p >= 0 /\ p \in -1..(BcdDigits - 1)
      /\ carry \in 0..(opd - 1) /\ opd > 0
      /\ num \in 0..(TenTo[BcdDigits] - 1) /\ opd \in 0..(TenTo[BcdDigits] - 1)
      /\ bcd \in Digital /\ operation' = "div"
  BY DEF DivDigit, BcdIInv, Dividing
<1>2. num' = num /\ opd' = opd /\ digit' = p - 1 /\ carry' = d1 % opd
      /\ bcd' = [bcd EXCEPT ![p] = v]
  BY DEF DivDigit
<1>3. p \in Place /\ p \in Nat /\ p - 1 \in -1..(BcdDigits - 1) /\ (p - 1) + 1 = p
  BY <1>1, PlacesAre
<1>4. num \in Nat /\ opd \in Nat \ {0} /\ carry \in Nat /\ carry <= opd - 1
  BY <1>1, TopPlace
<1>5. x[p] \in 0..9 /\ x[p] = (num \div t) % 10 /\ t \in Nat \ {0} /\ TenTo[p + 1] = 10 * t
  <2>1. x \in Digital
    BY <1>4, BinLow
  <2>2. x[p] \in 0..9
    <3> HIDE DEF x
    <3> QED
      BY <1>3, <2>1 DEF Digital
  <2> QED
    BY <1>3, <2>2, TenToIs DEF bin_bcd2
<1>6. bcd \in Wide
  BY <1>1, LowBound
<1>7. v \in 0..9 /\ v \in Nat /\ d1 % opd \in 0..(opd - 1) /\ d1 = opd * v + (d1 % opd)
  <2>1. d1 \in Nat /\ d1 <= 9 + 10 * (opd - 1)
    BY <1>4, <1>5
  <2> HIDE DEF d1
  <2>2. v \in Int /\ d1 % opd \in 0..(opd - 1) /\ d1 = opd * v + (d1 % opd)
    <3>1. d1 \in Int
      BY <2>1
    <3> QED
      BY <1>4, <3>1, ModRange
  <2> DEFINE r == d1 % opd
  <2>3. r \in Nat /\ r <= opd - 1 /\ d1 = opd * v + r
    BY <1>4, <2>2
  <2> HIDE DEF v, r
  <2>4. ASSUME v < 0 PROVE FALSE
    <3>1. opd * v <= -opd
      BY <1>4, <2>2, <2>4
    <3> QED
      BY <1>4, <2>1, <2>2, <2>3, <3>1
  <2>5. ASSUME v > 9 PROVE FALSE
    <3>1. opd * v >= 10 * opd
      BY <1>4, <2>2, <2>5
    <3> QED
      BY <1>4, <2>1, <2>2, <2>3, <3>1
  <2> QED
    BY <2>2, <2>4, <2>5
<1>8. bcd' \in Digital
  <2> HIDE DEF v
  <2> QED
    BY <1>1, <1>2, <1>7 DEF Digital
<1>9. Above(bcd')[p] = v + 10 * Above(bcd)[p + 1] /\ Above(bcd)[p + 1] \in Nat
  <2>1. v \in Nat
    BY <1>7
  <2> HIDE DEF v, p
  <2>2. Above(bcd')[p + 1] = Above(bcd)[p + 1]
    BY <1>2, <1>3, <1>6, <2>1, AboveSame
  <2>3. bcd' \in Wide
    BY <1>8, LowBound
  <2>4. Above(bcd')[p] = bcd'[p] + 10 * Above(bcd')[p + 1]
    BY <1>3, <2>3, AboveIs
  <2>5. bcd'[p] = v
    BY <1>2, <1>3, <1>6 DEF Wide
  <2>6. p + 1 \in 0..BcdDigits
    BY <1>3, PlacesAre
  <2> QED
    BY <1>6, <2>2, <2>4, <2>5, <2>6, AboveIs
<1>10. Above(bcd')[p] * opd + carry' = num \div t
  <2> DEFINE a == Above(bcd)[p + 1]
             q == num \div (10 * t)
             r == d1 % opd
             s == x[p]
  <2>1. a * opd + carry = q
    <3>1. a * opd + carry = num \div TenTo[p + 1]
      BY <1>1 DEF BcdIInv, Dividing
    <3> QED
      BY <1>5, <3>1
  <2>2. num \div t = 10 * q + s
    BY <1>4, <1>5, TenDiv
  <2>3. opd * v + r = s + 10 * carry /\ r \in Nat /\ v \in Nat /\ s \in Nat
    <3>1. d1 = s + 10 * carry
      OBVIOUS
    <3>2. d1 = opd * v + r /\ r \in 0..(opd - 1) /\ v \in Nat
      BY <1>7
    <3>3. s \in Nat
      BY <1>5
    <3> HIDE DEF d1, v, r, s
    <3> QED
      BY <1>4, <3>1, <3>2, <3>3
  <2>4. a \in Nat /\ Above(bcd')[p] = v + 10 * a /\ carry' = r
    BY <1>2, <1>9
  <2> HIDE DEF a, q, r, s, v, x, p, d1, t
  <2>5. (v + 10 * a) * opd = opd * v + 10 * (a * opd)
    BY <1>4, <2>3, <2>4
  <2>6. a * opd \in Nat /\ opd * v \in Nat
    BY <1>4, <2>3, <2>4
  <2>7. (v + 10 * a) * opd + r = 10 * q + s
    BY <1>4, <2>1, <2>3, <2>5, <2>6
  <2> QED
    BY <2>2, <2>4, <2>7
<1>11. Dividing'
  <2>1. Above(bcd)' = Above(bcd')
    BY DEF Above
  <2>2. carry' \in 0..(opd - 1)
    BY <1>2, <1>7
  <2> HIDE DEF v, d1
  <2> QED
    BY <1>1, <1>2, <1>3, <1>10, <2>1, <2>2 DEF Dividing
<1> QED
  BY <1>1, <1>2, <1>8, <1>11 DEF BcdIInv, BcdExact

\* What stands at a place beyond the highest is a multiple of the place above it.
LEMMA Beyond ==
  ASSUME NEW a \in Nat, NEW m \in Nat, m >= BcdDigits
  PROVE  Cong(a * TenTo[m], 0, TenTo[BcdDigits])
<1> DEFINE T == TenTo[BcdDigits]
           r == TenTo[m - BcdDigits]
<1>1. m - BcdDigits \in Nat /\ BcdDigits + (m - BcdDigits) = m /\ BcdDigits \in Nat
  BY PlacesAre
<1>2. TenTo[m] = T * r
  BY <1>1, TenAdd
<1>3. T \in Nat /\ r \in Nat
  BY <1>1, TenToIs
<1> HIDE DEF T, r
<1>4. a * (T * r) = 0 + (a * r) * T /\ a * r \in Int
  BY <1>3
<1>5. a * TenTo[m] = 0 + (a * r) * T
  BY <1>2, <1>4
<1> QED
  BY <1>4, <1>5 DEF Cong, T

LEMMA Carried ==
  ASSUME NEW r \in Nat
  PROVE  r \div 10 \in Nat /\ r % 10 \in 0..9 /\ r % 10 \in Nat /\ r = 10 * (r \div 10) + (r % 10)
OBVIOUS

\* A product and a carry are added to a digit: both sums grow by the same.
LEMMA MulBelow ==
  ASSUME NEW x \in Digital, NEW p \in Place, NEW m \in Nat, NEW c \in Nat
  PROVE  LET res == m + c + x[p]
             y   == [x EXCEPT ![p] = res % 10]
         IN  /\ y \in Digital /\ res \div 10 \in Nat
             /\ bcd2_bin(y) + (res \div 10) * TenTo[p + 1]
                  = bcd2_bin(x) + c * TenTo[p] + m * TenTo[p]
<1> DEFINE D == BcdDigits
           w == x[p]
           res == m + c + w
           t == TenTo[p]
           d == res \div 10
           v == res % 10
           y == [x EXCEPT ![p] = v]
           b == bcd2_bin(x)
<1>1. w \in Nat /\ res \in Nat
  BY DEF Digital
<1>2. d \in Nat /\ v \in 0..9 /\ v \in Nat /\ res = 10 * d + v
  <2> HIDE DEF res
  <2> QED
    BY <1>1, Carried
<1>3. p \in Nat /\ D \in 0..D /\ 0 \in 0..D /\ D > p
  BY PlacesAre
<1>4. t \in Nat /\ TenTo[p + 1] = 10 * t
  BY <1>3, TenToIs
<1>5. x \in Wide /\ b \in Nat
  <2>1. x \in Wide
    BY LowBound
  <2> QED
    BY <1>3, <2>1, AboveIs
<1>6. y \in Digital
  <2> HIDE DEF v
  <2> QED
    BY <1>2 DEF Digital
<1>7. y \in Wide /\ Low(y)[D] = Low(x)[D] + (v - w) * t
  <2> HIDE DEF v
  <2> QED
    BY <1>2, <1>3, <1>5, LowChanged
<1>8. bcd2_bin(y) = b + (v - w) * t
  <2> HIDE DEF y
  <2> QED
    BY <1>5, <1>7, LowAbove
<1>9. m + c + w = 10 * d + v
  BY <1>2
<1> HIDE DEF w, res, t, d, v, y, b, D
<1>10. b + (v - w) * t + d * (10 * t) = b + c * t + m * t
  <2>1. d * (10 * t) = (10 * d) * t /\ 10 * d = m + c + w - v
    <3>1. d * (10 * t) = (10 * d) * t
      BY <1>2, <1>4
    <3>2. 10 * d = m + c + w - v
      BY <1>1, <1>2, <1>9
    <3> QED
      BY <3>1, <3>2
  <2>2. (m + c + w - v) * t = m * t + c * t + w * t - v * t
    BY <1>1, <1>2, <1>4
  <2>3. (v - w) * t = v * t - w * t
    BY <1>1, <1>2, <1>4
  <2>4. m * t \in Int /\ c * t \in Int /\ w * t \in Int /\ v * t \in Int
    BY <1>1, <1>2, <1>4
  <2> QED
    BY <1>5, <2>1, <2>2, <2>3, <2>4
<1>11. bcd2_bin(y) + d * TenTo[p + 1] = b + c * t + m * t
  BY <1>4, <1>8, <1>10
<1> QED
  BY <1>2, <1>6, <1>11 DEF w, res, t, d, v, y, b

\* A product and a carry beyond the highest place are added to nothing.
LEMMA MulBeyond ==
  ASSUME NEW b \in Nat, NEW p \in Nat, p >= BcdDigits, NEW m \in Nat, NEW c \in Nat, NEW d \in Nat
  PROVE  Cong(b + d * TenTo[p + 1], b + c * TenTo[p] + m * TenTo[p], TenTo[BcdDigits])
<1> DEFINE T == TenTo[BcdDigits]
           e == d * TenTo[p + 1]
           f == c * TenTo[p]
           g == m * TenTo[p]
<1>1. Cong(e, 0, T) /\ Cong(f, 0, T) /\ Cong(g, 0, T)
  <2>1. p + 1 \in Nat /\ p + 1 >= BcdDigits
    BY PlacesAre
  <2> QED
    BY <2>1, Beyond
<1>2. b \in Int /\ e \in Int /\ f \in Int /\ g \in Int /\ T \in Int
  <2>1. TenTo[p] \in Nat /\ TenTo[p + 1] \in Nat /\ T \in Nat
    BY TenNat, PlacesAre
  <2> QED
    BY <2>1
<1> HIDE DEF e, f, g, T
<1>3. Cong(b, b, T) /\ b + 0 = b /\ b + e \in Int /\ b + f \in Int /\ b + f + g \in Int
  BY <1>2, CongSame
<1>4. Cong(b + e, b + 0, T) /\ Cong(b + f, b + 0, T)
  BY <1>1, <1>2, <1>3, CongAdd
<1>5. Cong(b + f + g, b + 0, T)
  BY <1>1, <1>2, <1>3, <1>4, CongAdd
<1>6. Cong(b, b + f + g, T)
  BY <1>2, <1>3, <1>5, CongSym
<1>7. Cong(b + e, b + f + g, T)
  BY <1>2, <1>3, <1>4, <1>6, CongTrans
<1> QED
  BY <1>7 DEF e, f, g, T

\* One digit times one digit, and what the place above it gets.
LEMMA MulOnce ==
  ASSUME NEW x \in Digital, NEW p \in Nat, NEW m \in Nat, NEW c \in Nat
  PROVE  LET there == IF p < BcdDigits THEN x[p] ELSE 0
             res   == m + c + there
             y     == IF p < BcdDigits THEN [x EXCEPT ![p] = res % 10] ELSE x
         IN  /\ y \in Digital /\ res \div 10 \in Nat
             /\ Cong(bcd2_bin(y) + (res \div 10) * TenTo[p + 1],
                     bcd2_bin(x) + c * TenTo[p] + m * TenTo[p], TenTo[BcdDigits])
<1> DEFINE b == bcd2_bin(x)
           f == b + c * TenTo[p] + m * TenTo[p]
           T == TenTo[BcdDigits]
<1>1. b \in Nat /\ T \in Int /\ TenTo[p] \in Nat
  <2>1. x \in Wide /\ 0 \in 0..BcdDigits
    BY LowBound, PlacesAre
  <2> QED
    BY <2>1, AboveIs, TenNat, PlacesAre
<1>2. CASE p < BcdDigits
  <2>1. p \in Place
    BY <1>2, PlacesAre
  <2> DEFINE res == m + c + x[p]
             y == [x EXCEPT ![p] = res % 10]
  <2>2. y \in Digital /\ res \div 10 \in Nat /\ bcd2_bin(y) + (res \div 10) * TenTo[p + 1] = f
    BY <2>1, MulBelow
  <2>3. f \in Int
    <3> HIDE DEF b
    <3> QED
      BY <1>1
  <2>4. Cong(f, f, T)
    <3> HIDE DEF f, T
    <3> QED
      BY <1>1, <2>3, CongSame
  <2> QED
    BY <1>2, <2>2, <2>4
<1>3. CASE ~(p < BcdDigits)
  <2> DEFINE d == (m + c + 0) \div 10
  <2>1. d \in Nat
    BY Carried
  <2>2. p >= BcdDigits
    BY <1>3, PlacesAre
  <2>3. Cong(b + d * TenTo[p + 1], f, T)
    <3> HIDE DEF b, d
    <3> QED
      BY <1>1, <2>1, <2>2, MulBeyond
  <2> QED
    BY <1>3, <2>1, <2>3
<1> QED
  BY <1>2, <1>3

LEMMA MulDigitStep == ASSUME BcdIInv, MulDigit PROVE BcdIInv'
<1> DEFINE D == BcdDigits
           T == TenTo[D]
           l == ldigit
           d == digit
           x == bin_bcd2(num)
           y == bin_bcd2(opd)
           place == d + l
           res == y[l] * x[d] + carry + There(place)
           last == d = D - 1
           A == Low(y)[l]
           L == Low(x)[d]
           E == TenTo[l]
           P == TenTo[place]
           b == bcd2_bin(bcd)
<1>1. /\ bcd_pc = "mul" /\ bcd_pc' = "mul" /\ l < D /\ l \in 0..D /\ d \in Place /\ carry \in Nat
      /\ num \in 0..(T - 1) /\ opd \in 0..(T - 1) /\ bcd \in Digital /\ operation' = "mul"
  BY DEF MulDigit, BcdIInv, Multiplying
<1>2. /\ num' = num /\ opd' = opd
      /\ bcd' = (IF place < D THEN [bcd EXCEPT ![place] = res % 10] ELSE bcd)
      /\ digit' = (IF last THEN 0 ELSE d + 1)
      /\ ldigit' = (IF last THEN l + 1 ELSE l)
      /\ carry' = (IF last /\ l + 1 < D THEN 0 ELSE res \div 10)
  BY DEF MulDigit
<1>3. l \in Place /\ l \in Nat /\ d \in Nat /\ d < D /\ place \in Nat /\ l + 1 \in 0..D
      /\ D \in Nat \ {0} /\ 0 \in Place /\ D \in 0..D /\ 0 \in 0..D
  BY <1>1, PlacesAre
<1>4. num \in Nat /\ opd \in Nat /\ num < T /\ opd < T /\ T \in Nat \ {0} /\ T \in Int
  BY <1>1, TopPlace
<1>5. x \in Digital /\ y \in Digital /\ x \in Wide /\ y \in Wide
      /\ Low(x)[D] = num /\ Low(y)[D] = opd
  <2>1. x \in Digital /\ y \in Digital /\ Low(x)[D] = num /\ Low(y)[D] = opd
    BY <1>4, BinLow
  <2> HIDE DEF x, y
  <2> QED
    BY <2>1, LowBound
<1>6. y[l] \in Nat /\ x[d] \in Nat /\ y[l] * x[d] \in Nat
  <2>1. y[l] \in Nat /\ x[d] \in Nat
    <3> HIDE DEF x, y
    <3> QED
      BY <1>1, <1>3, <1>5 DEF Wide
  <2> HIDE DEF x, y
  <2> QED
    BY <2>1
<1>7. /\ Low(x)[d + 1] = L + x[d] * TenTo[d] /\ L \in Nat
      /\ Low(y)[l + 1] = A + y[l] * E /\ A \in Nat
      /\ Low(x)[0] = 0
  <2> HIDE DEF x, y
  <2> QED
    BY <1>1, <1>3, <1>5, LowIs
<1>8. E \in Nat /\ TenTo[d] \in Nat /\ P \in Nat /\ P = TenTo[d] * E
  BY <1>3, TenNat, TenAdd
<1>9. /\ bcd' \in Digital /\ res \div 10 \in Nat
      /\ Cong(bcd2_bin(bcd') + (res \div 10) * TenTo[place + 1],
              b + carry * P + (y[l] * x[d]) * P, T)
  <2>1. res = (y[l] * x[d]) + carry + (IF place < D THEN bcd[place] ELSE 0)
    BY DEF There
  <2> DEFINE m == y[l] * x[d]
             there == IF place < D THEN bcd[place] ELSE 0
             z == IF place < D THEN [bcd EXCEPT ![place] = (m + carry + there) % 10] ELSE bcd
  <2>2. m \in Nat
    BY <1>6
  <2>3. /\ z \in Digital /\ (m + carry + there) \div 10 \in Nat
        /\ Cong(bcd2_bin(z) + ((m + carry + there) \div 10) * TenTo[place + 1],
                b + carry * P + m * P, T)
    <3> HIDE DEF m, place
    <3> QED
      BY <1>1, <1>3, <2>2, MulOnce
  <2>4. bcd' = z
    BY <1>2, <2>1
  <2> QED
    BY <2>1, <2>3, <2>4
<1> DEFINE B == bcd2_bin(bcd')
           c == res \div 10
           Q == TenTo[place + 1]
           q == y[l]
           n == x[d]
           t == TenTo[d]
<1>10. Cong(b + carry * P, A * num + (q * L) * E, T)
  BY <1>1 DEF BcdIInv, Multiplying
<1>11. b \in Nat /\ B \in Nat /\ Q \in Nat /\ c \in Nat /\ c * Q \in Nat
  <2>1. bcd \in Wide /\ bcd' \in Wide
    BY <1>1, <1>9, LowBound
  <2>2. b \in Nat /\ B \in Nat
    BY <1>3, <2>1, AboveIs
  <2>3. place + 1 \in Nat
    BY <1>3
  <2>4. Q \in Nat
    <3> HIDE DEF place
    <3> QED
      BY <2>3, TenNat
  <2>5. c \in Nat
    BY <1>9
  <2> HIDE DEF c, Q
  <2> QED
    BY <2>2, <2>4, <2>5
<1>12. Cong(B + c * Q, A * num + (q * Low(x)[d + 1]) * E, T)
  <2> DEFINE u == b + carry * P
             v == A * num + (q * L) * E
             w == (q * n) * P
             a == B + c * Q
             K == Low(x)[d + 1]
  <2>1. q \in Nat /\ n \in Nat /\ L \in Nat /\ t \in Nat /\ E \in Nat /\ A \in Nat /\ P = t * E
        /\ K = L + n * t /\ num \in Nat /\ P \in Nat
    BY <1>4, <1>6, <1>7, <1>8
  <2>2. Cong(a, u + w, T) /\ Cong(u, v, T)
    BY <1>9, <1>10
  <2> HIDE DEF b, B, c, Q, q, n, t, L, E, A, P, T, K
  <2>3. u \in Int /\ v \in Int /\ w \in Int /\ a \in Int
    <3>1. carry * P \in Nat /\ A * num \in Nat /\ q * L \in Nat /\ q * n \in Nat
      BY <1>1, <2>1
    <3>2. (q * L) * E \in Nat /\ (q * n) * P \in Nat
      BY <2>1, <3>1
    <3> QED
      BY <1>11, <3>1, <3>2
  <2>4. v + w = A * num + (q * K) * E
    <3>1. (q * K) * E = (q * L) * E + (q * n) * (t * E)
      <4>1. q * K = q * L + q * (n * t) /\ q * (n * t) = (q * n) * t
        BY <2>1
      <4>2. q * L \in Nat /\ q * n \in Nat /\ (q * n) * t \in Nat
        BY <2>1
      <4> DEFINE f == q * L
                 g == q * n
      <4>3. (f + g * t) * E = f * E + g * (t * E)
        <5> HIDE DEF f, g
        <5>1. f \in Nat /\ g \in Nat
          BY <4>2 DEF f, g
        <5> QED
          BY <2>1, <5>1
      <4> QED
        BY <4>1, <4>3
    <3>2. (q * L) * E \in Nat /\ (q * n) * P \in Nat /\ A * num \in Nat
      BY <2>1, <2>3
    <3> QED
      BY <2>1, <3>1, <3>2
  <2> HIDE DEF u, v, w, a
  <2>5. Cong(w, w, T)
    BY <1>4, <2>3, CongSame
  <2>6. Cong(u + w, v + w, T)
    BY <1>4, <2>2, <2>3, <2>5, CongAdd
  <2>7. Cong(a, v + w, T)
    <3>1. u + w \in Int /\ v + w \in Int
      BY <2>3
    <3> QED
      BY <1>4, <2>2, <2>3, <2>6, <3>1, CongTrans
  <2> QED
    BY <2>4, <2>7 DEF a, K
<1>13. Low(bin_bcd2(num))' = Low(x) /\ Low(bin_bcd2(opd))' = Low(y) /\ bin_bcd2(opd)' = y
       /\ bcd2_bin(bcd)' = B
  BY <1>2 DEF Low, Padded, bin_bcd2, bcd2_bin
<1>14. CASE ~last
  <2>1. digit' = d + 1 /\ ldigit' = l /\ carry' = c /\ d + 1 \in Place
    BY <1>2, <1>3, <1>14, PlacesAre
  <2>2. (d + 1) + l = place + 1
    BY <1>3
  <2>3. Multiplying'
    <3> HIDE DEF B, c, x, y, A, E, T
    <3>1. ~(l = D)
      BY <1>1, <1>3
    <3>2. Cong(B + c * TenTo[(d + 1) + l], A * num + (y[l] * Low(x)[d + 1]) * E, T)
      BY <1>12, <2>2
    <3> QED
      BY <1>2, <1>3, <1>11, <1>13, <2>1, <3>1, <3>2 DEF Multiplying, A, E, T
  <2> QED
    BY <1>1, <1>2, <1>4, <1>9, <2>3 DEF BcdIInv, BcdExact
<1>15. CASE last
  <2>1. digit' = 0 /\ ldigit' = l + 1 /\ carry' \in Nat /\ d + 1 = D /\ place + 1 = D + l
        /\ (l + 1 < D => carry' = 0)
    <3>1. digit' = 0 /\ ldigit' = l + 1 /\ d + 1 = D /\ place + 1 = D + l
      BY <1>2, <1>3, <1>15
    <3>2. carry' \in Nat /\ (l + 1 < D => carry' = 0)
      <4> HIDE DEF res
      <4> QED
        BY <1>2, <1>9, <1>15
    <3> QED
      BY <3>1, <3>2
  <2>2. Cong(B, Low(y)[l + 1] * num, T)
    <3> DEFINE e == c * Q
               K == Low(y)[l + 1]
    <3>1. Cong(e, 0, T)
      <4>1. place + 1 \in Nat /\ place + 1 >= D
        BY <1>3, <2>1
      <4> HIDE DEF c, place
      <4> QED
        BY <1>11, <4>1, Beyond
    <3>2. Cong(B + e, A * num + (q * num) * E, T)
      BY <1>5, <1>12, <2>1
    <3>3. q \in Nat /\ E \in Nat /\ A \in Nat /\ K = A + q * E
      BY <1>6, <1>7, <1>8
    <3>4. e \in Int /\ B \in Int
      BY <1>11
    <3> HIDE DEF e, B, q, E, A, T, K
    <3>5. A * num + (q * num) * E = K * num /\ K * num \in Int
      <4>1. (q * num) * E = (q * E) * num /\ q * E \in Nat
        BY <1>4, <3>3
      <4> DEFINE f == q * E
      <4>2. f \in Nat /\ K = A + f
        BY <3>3, <4>1
      <4> HIDE DEF f
      <4>3. (A + f) * num = A * num + f * num /\ (A + f) * num \in Int
        BY <1>4, <3>3, <4>2
      <4> QED
        BY <4>1, <4>2, <4>3 DEF f
    <3>6. Cong(B, B, T) /\ B + 0 = B /\ B + e \in Int
      BY <1>4, <3>4, CongSame
    <3>7. Cong(B + e, B + 0, T)
      BY <1>4, <3>1, <3>4, <3>6, CongAdd
    <3>8. Cong(B, B + e, T)
      BY <1>4, <3>4, <3>6, <3>7, CongSym
    <3>9. Cong(B + e, K * num, T)
      BY <3>2, <3>5
    <3> QED
      <4>1. Cong(B, K * num, T)
        BY <1>4, <3>4, <3>5, <3>6, <3>8, <3>9, CongTrans
      <4> QED
        BY <4>1 DEF K
  <2>3. Multiplying'
    <3>1. CASE l + 1 < D
      <4>1. l + 1 \in Place /\ l + 1 \in 0..D /\ ~(l + 1 = D)
        BY <1>3, <3>1, PlacesAre
      <4>2. y[l + 1] \in Nat /\ TenTo[l + 1] \in Nat /\ TenTo[0 + (l + 1)] \in Nat
        <5>1. y[l + 1] \in Nat
          <6> HIDE DEF y, l
          <6> QED
            BY <1>5, <4>1 DEF Wide
        <5>2. l + 1 \in Nat /\ 0 + (l + 1) \in Nat
          BY <1>3
        <5> QED
          BY <5>1, <5>2, TenNat
      <4> DEFINE K == Low(y)[l + 1] * num
      <4>3. B + 0 * TenTo[0 + (l + 1)] = B
        <5> HIDE DEF B
        <5> QED
          BY <1>11, <4>2
      <4>4. K \in Int
        <5>1. Low(y)[l + 1] \in Nat
          <6> HIDE DEF y, l
          <6> QED
            BY <1>5, <4>1, LowIs, PlacesAre
        <5> QED
          BY <1>4, <5>1
      <4>5. K + (y[l + 1] * 0) * TenTo[l + 1] = K
        <5> HIDE DEF K
        <5> QED
          BY <4>2, <4>4
      <4>6. Cong(B + 0 * TenTo[0 + (l + 1)], Low(y)[l + 1] * num + (y[l + 1] * Low(x)[0]) * TenTo[l + 1], T)
        <5> HIDE DEF B, T
        <5> QED
          BY <1>7, <2>2, <4>3, <4>5
      <4> HIDE DEF B, x, y, T
      <4> QED
        BY <1>2, <1>3, <1>13, <2>1, <3>1, <4>1, <4>6 DEF Multiplying, T
    <3>2. CASE ~(l + 1 < D)
      <4>1. l + 1 = D
        BY <1>3, <3>2
      <4>2. Cong(B, opd * num, T)
        <5> HIDE DEF B, T, y
        <5> QED
          BY <1>5, <2>2, <4>1
      <4> HIDE DEF B, x, y, T
      <4> QED
        BY <1>2, <1>3, <1>13, <2>1, <3>2, <4>1, <4>2 DEF Multiplying, T
    <3> QED
      BY <3>1, <3>2
  <2> QED
    BY <1>1, <1>2, <1>4, <1>9, <2>3 DEF BcdIInv, BcdExact
<1> QED
  BY <1>14, <1>15

LEMMA ReturnStep == ASSUME BcdIInv, Return PROVE BcdIInv'
<1> DEFINE D == BcdDigits
           T == TenTo[D]
           B == bcd2_bin(bcd)
<1>1. /\ bcd_pc \in {"add", "mul", "div"} /\ operation = bcd_pc /\ bcd_pc' = "end" /\ bcd \in Digital
      /\ num \in 0..(T - 1) /\ opd \in 0..(T - 1)
      /\ operation' = operation /\ num' = num /\ opd' = opd /\ bcd' = bcd /\ carry' = carry
  BY DEF Return, BcdIInv
<1>2. D \in Nat \ {0} /\ T \in Nat \ {0} /\ num \in Nat /\ opd \in Nat /\ num < T /\ opd < T
      /\ D \in 0..D /\ 0 \in 0..D
  BY <1>1, TopPlace, PlacesAre
<1>3. bcd \in Wide /\ Low(bcd)[D] \in 0..(T - 1) /\ Low(bcd)[D] = B /\ B \in Nat
  <2>1. bcd \in Wide /\ Low(bcd)[D] \in 0..(T - 1)
    BY <1>1, LowBound
  <2> QED
    BY <1>2, <2>1, LowAbove, AboveIs
<1>4. bcd2_bin(bcd)' = B
  BY <1>1 DEF bcd2_bin
<1>5. \A d \in Place : bcd[d] \in 0..9
  BY <1>1 DEF Digital
<1>6. operation = "add" => B + carry * T = num + opd
  <2> SUFFICES ASSUME operation = "add" PROVE B + carry * T = num + opd
    OBVIOUS
  <2>1. digit = D /\ Adding
    BY <1>1 DEF Return, BcdIInv
  <2>2. Low(bin_bcd2(num))[D] = num /\ Low(bin_bcd2(opd))[D] = opd
    BY <1>2, BinLow
  <2>3. Low(bcd)[D] + carry * T = Low(bin_bcd2(num))[D] + Low(bin_bcd2(opd))[D]
    BY <2>1 DEF Adding
  <2> HIDE DEF B, T, D
  <2> QED
    BY <1>3, <2>2, <2>3
<1>7. operation = "mul" => B = (num * opd) % T
  <2> SUFFICES ASSUME operation = "mul" PROVE B = (num * opd) % T
    OBVIOUS
  <2>1. ldigit = D /\ Multiplying
    BY <1>1 DEF Return, BcdIInv
  <2>2. Cong(B, opd * num, T)
    BY <2>1 DEF Multiplying
  <2>3. opd * num = num * opd /\ num * opd \in Int /\ B \in 0..(T - 1)
    BY <1>2, <1>3
  <2> DEFINE m == num * opd
  <2>4. m \in Int /\ Cong(B, m, T)
    BY <2>2, <2>3
  <2> HIDE DEF B, T, m
  <2>5. B = m % T
    BY <1>2, <2>3, <2>4, CongModIs
  <2> QED
    BY <2>5 DEF m
<1>8. operation = "div" => B = num \div opd /\ carry = num % opd
  <2> SUFFICES ASSUME operation = "div" PROVE B = num \div opd /\ carry = num % opd
    OBVIOUS
  <2>1. Dividing /\ digit + 1 = 0
    <3>1. Dividing /\ digit < 0
      BY <1>1 DEF Return, BcdIInv
    <3> QED
      BY <1>2, <3>1 DEF Dividing
  <2>2. Above(bcd)[0] * opd + carry = num \div TenTo[0]
    BY <2>1 DEF Dividing
  <2>3. Above(bcd)[0] = B /\ TenTo[0] = 1 /\ num \div 1 = num
    BY <1>2, <1>3, AboveIs, TenToIs
  <2>4. num = B * opd + carry
    <3> HIDE DEF B
    <3> QED
      BY <2>2, <2>3
  <2>5. opd \in Nat \ {0} /\ carry \in 0..(opd - 1)
    BY <1>2, <2>1 DEF Dividing
  <2> HIDE DEF B
  <2> QED
    BY <1>2, <1>3, <2>4, <2>5, DivIs
<1>9. BcdExact'
  <2> HIDE DEF B, T, D
  <2> QED
    BY <1>1, <1>4, <1>5, <1>6, <1>7, <1>8 DEF BcdExact, T, D
<1> QED
  BY <1>1, <1>9 DEF BcdIInv

LEMMA BcdIInvStep == BcdIInv /\ [BcdNext]_bcd_vars => BcdIInv'
<1> SUFFICES ASSUME BcdIInv, [BcdNext]_bcd_vars PROVE BcdIInv'
  OBVIOUS
<1>1. CASE Call
  BY <1>1, CallStep
<1>2. CASE AddDigit
  BY <1>2, AddDigitStep
<1>3. CASE MulDigit
  BY <1>3, MulDigitStep
<1>4. CASE DivDigit
  BY <1>4, DivDigitStep
<1>5. CASE Return
  BY <1>5, ReturnStep
<1>6. CASE UNCHANGED bcd_vars
  BY <1>6 DEF bcd_vars, BcdIInv, Adding, Multiplying, Dividing, BcdExact, Low, Padded, Above,
              bcd2_bin, bin_bcd2
<1> QED
  BY <1>1, <1>2, <1>3, <1>4, <1>5, <1>6 DEF BcdNext

\* The additions, multiplications and divisions digit by digit (bcd2_add, bcd2_mul, bcd2_div) have
\* the digits of the sum, the product or the quotient, for any number of digits.
THEOREM DigitsExact == BcdSpec => []BcdExact
<1>1. BcdIInv => BcdExact
  BY DEF BcdIInv
<1> QED
  BY <1>1, BcdInitIInv, BcdIInvStep, PTL DEF BcdSpec

-----------------------------------------------------------------------------
\* Text: how long a sentence can be, and what it draws.

AllParts == [draws : Int, len : Int, res : Int]

\* Parts of at most so many draws, from so long to so long, of which res sees so much more.
Bounds == [draws : Int, from : Int, to : Int, more : Int]
Bound(d, l0, l1, g) == [draws |-> d, from |-> l0, to |-> l1, more |-> g]
Both(r, q) == Bound(r.draws + q.draws, r.from + q.from, r.to + q.to, r.more + q.more)

Between(S, r) ==
  \A s \in S : /\ s \in AllParts /\ s.draws \in 1..r.draws
              /\ s.len \in r.from..r.to /\ s.res = s.len + r.more

\* The sum of two bounds is one.
LEMMA BothIs == \A r, q \in Bounds : Both(r, q) \in Bounds
BY DEF Both, Bound, Bounds

\* The fields of a part.
LEMMA PartIs ==
  ASSUME NEW d, NEW l, NEW r
  PROVE  /\ Part(d, l, r).draws = d /\ Part(d, l, r).len = l /\ Part(d, l, r).res = r
         /\ d \in Int /\ l \in Int /\ r \in Int => Part(d, l, r) \in AllParts
BY DEF Part, AllParts

\* Parts between bounds, appended, are between their sums.
LEMMA AppendedIs ==
  ASSUME NEW S, NEW P, NEW r \in Bounds, NEW q \in Bounds, Between(S, r), Between(P, q)
  PROVE  Between(Appended(S, P), Both(r, q))
<1> SUFFICES ASSUME NEW x \in Appended(S, P)
             PROVE  /\ x \in AllParts /\ x.draws \in 1..(r.draws + q.draws)
                    /\ x.len \in (r.from + q.from)..(r.to + q.to)
                    /\ x.res = x.len + (r.more + q.more)
  BY DEF Between, Both, Bound
<1>1. PICK s \in S, p \in P : x = Part(s.draws + p.draws, s.len + p.len, s.res + p.res)
  BY DEF Appended
<1>2. /\ s \in AllParts /\ s.draws \in 1..r.draws /\ s.len \in r.from..r.to
      /\ s.res = s.len + r.more
      /\ p \in AllParts /\ p.draws \in 1..q.draws /\ p.len \in q.from..q.to
      /\ p.res = p.len + q.more
  BY DEF Between
<1>3. /\ x.draws = s.draws + p.draws /\ x.len = s.len + p.len /\ x.res = s.res + p.res
      /\ s.draws + p.draws \in Int /\ s.len + p.len \in Int /\ s.res + p.res \in Int => x \in AllParts
  BY <1>1, PartIs
<1>4. /\ s.draws \in Int /\ p.draws \in Int /\ s.len \in Int /\ p.len \in Int
      /\ s.res \in Int /\ p.res \in Int
  BY <1>2 DEF AllParts
<1>5. /\ r.draws \in Int /\ r.from \in Int /\ r.to \in Int /\ r.more \in Int
      /\ q.draws \in Int /\ q.from \in Int /\ q.to \in Int /\ q.more \in Int
  BY DEF Bounds
<1> QED
  BY <1>2, <1>3, <1>4, <1>5

\* A form is composed token by token.
Steps(parts, f) ==
  /\ f[0] = {Part(1, 0, 0)}
  /\ \A i \in 0..(Len(parts) - 1) : f[i + 1] = Appended(f[i], parts[i + 1])

\* What a composition of parts is, token by token.
LEMMA ComposedIs ==
  ASSUME NEW parts \in Seq(SUBSET AllParts)
  PROVE  \E f : Steps(parts, f) /\ Composed(parts) = f[Len(parts)]
<1> DEFINE m == Len(parts)
           X == SUBSET AllParts
           x0 == {Part(1, 0, 0)}
           g == [i \in 0..(m - 1) |-> [x \in X |-> Appended(x, parts[i + 1])]]
<1>1. m \in Nat /\ \A i \in 1..m : parts[i] \in X
  OBVIOUS
<1>2. x0 \in X
  BY PartIs
<1>3. ASSUME NEW x \in X, NEW P \in X PROVE Appended(x, P) \in X
  <2> SUFFICES ASSUME NEW y \in Appended(x, P) PROVE y \in AllParts
    OBVIOUS
  <2>1. PICK s \in x, p \in P : y = Part(s.draws + p.draws, s.len + p.len, s.res + p.res)
    BY DEF Appended
  <2>2. s \in AllParts /\ p \in AllParts
    OBVIOUS
  <2>3. s.draws + p.draws \in Int /\ s.len + p.len \in Int /\ s.res + p.res \in Int
    BY <2>2 DEF AllParts
  <2> QED
    BY <2>1, <2>3, PartIs
<1> HIDE DEF m, X, x0
<1>4. StaysUpTo(g, m, X)
  <2> SUFFICES ASSUME NEW i \in 0..(m - 1), NEW x \in X PROVE g[i][x] \in X
    BY DEF StaysUpTo
  <2>1. i + 1 \in 1..m
    BY <1>1
  <2>2. g[i][x] = Appended(x, parts[i + 1])
    OBVIOUS
  <2> QED
    BY <1>1, <1>3, <2>1, <2>2
<1>5. \A i \in 0..(m - 1) : \A x \in X : g[i][x] = Appended(x, parts[i + 1])
  OBVIOUS
<1> HIDE DEF g
<1>6. PICK f \in [0..m -> X] : RecursUpTo(f, m, x0, g)
  BY <1>1, <1>2, <1>4, RecursionUpTo
<1>7. \A n \in 0..m : f[n] = IF n = 0 THEN x0 ELSE g[n - 1][f[n - 1]]
  BY <1>6 DEF RecursUpTo
<1>8. ASSUME NEW n \in 0..m, n # 0 PROVE f[n] = Appended(f[n - 1], parts[n])
  <2>1. n - 1 \in 0..(m - 1) /\ n - 1 \in 0..m /\ (n - 1) + 1 = n
    BY <1>1, <1>8
  <2>2. f[n - 1] \in X
    BY <2>1
  <2>3. g[n - 1][f[n - 1]] = Appended(f[n - 1], parts[(n - 1) + 1])
    BY <1>5, <2>1, <2>2
  <2> QED
    BY <1>7, <1>8, <2>1, <2>3
<1> DEFINE F == [n \in 0..m |-> IF n = 0 THEN x0 ELSE Appended(f[n - 1], parts[n])]
<1>9. f = F
  <2>1. \A n \in 0..m : f[n] = F[n]
    BY <1>7, <1>8
  <2> QED
    BY <2>1
<1>10. Composed(parts) = f[m]
  <2> DEFINE H(u) == u = [n \in 0..m |-> IF n = 0 THEN x0 ELSE Appended(u[n - 1], parts[n])]
  <2>1. H(f)
    BY <1>9
  <2>2. ASSUME NEW u, H(u) PROVE u[m] = f[m]
    <3> DEFINE S == {i \in Nat : i \in 0..m => u[i] = f[i]}
    <3>1. \A i \in 0..m : u[i] = IF i = 0 THEN x0 ELSE Appended(u[i - 1], parts[i])
      BY <2>2
    <3>2. 0 \in S
      BY <1>1, <1>7, <3>1
    <3>3. ASSUME NEW i \in Nat, i \in 0..m => u[i] = f[i], i + 1 \in 0..m PROVE u[i + 1] = f[i + 1]
      <4> HIDE DEF S, H, F
      <4>1. i \in 0..m /\ i + 1 # 0 /\ (i + 1) - 1 = i
        BY <1>1, <3>3
      <4>2. u[i] = f[i]
        BY <3>3, <4>1
      <4>3. u[i + 1] = Appended(u[i], parts[i + 1])
        BY <3>1, <3>3, <4>1
      <4>4. f[i + 1] = Appended(f[i], parts[i + 1])
        BY <1>8, <3>3, <4>1
      <4> QED
        BY <4>2, <4>3, <4>4
    <3>4. \A i \in Nat : i \in S => i + 1 \in S
      BY <3>3
    <3> HIDE DEF S
    <3>5. Nat \subseteq S
      BY <3>2, <3>4, Induct
    <3>6. m \in S /\ m \in 0..m
      BY <1>1, <3>5
    <3> QED
      BY <3>6 DEF S
  <2>3. H(CHOOSE u : H(u))
    BY <2>1
  <2>4. Composed(parts) = (CHOOSE u : H(u))[m]
    BY DEF Composed, m, x0
  <2> HIDE DEF H
  <2> QED
    BY <2>2, <2>3, <2>4
<1>11. ASSUME NEW i \in 0..(m - 1) PROVE f[i + 1] = Appended(f[i], parts[i + 1])
  <2>1. i + 1 \in 0..m /\ i + 1 # 0 /\ (i + 1) - 1 = i
    BY <1>1
  <2> QED
    BY <1>8, <2>1
<1>12. f[0] = x0
  <2>1. 0 \in 0..m
    BY <1>1
  <2> QED
    BY <1>7, <2>1
<1>13. Steps(parts, f)
  BY <1>11, <1>12 DEF Steps, m, x0
<1> QED
  BY <1>10, <1>13 DEF m

\* The fields of a bound.
LEMMA BoundIs ==
  ASSUME NEW d \in Int, NEW l0 \in Int, NEW l1 \in Int, NEW g \in Int
  PROVE  /\ Bound(d, l0, l1, g) \in Bounds
         /\ Bound(d, l0, l1, g).draws = d /\ Bound(d, l0, l1, g).from = l0
         /\ Bound(d, l0, l1, g).to = l1 /\ Bound(d, l0, l1, g).more = g
BY DEF Bound, Bounds

\* Parts are between looser bounds too.
LEMMA Looser ==
  ASSUME NEW S, NEW r \in Bounds, NEW q \in Bounds, Between(S, r),
         r.draws <= q.draws, q.from <= r.from, r.to <= q.to, r.more = q.more
  PROVE  Between(S, q)
<1> SUFFICES ASSUME NEW s \in S
             PROVE  /\ s \in AllParts /\ s.draws \in 1..q.draws /\ s.len \in q.from..q.to
                    /\ s.res = s.len + q.more
  BY DEF Between
<1>1. /\ s \in AllParts /\ s.draws \in 1..r.draws /\ s.len \in r.from..r.to
      /\ s.res = s.len + r.more
  BY DEF Between
<1>2. /\ r.draws \in Int /\ r.from \in Int /\ r.to \in Int
      /\ q.draws \in Int /\ q.from \in Int /\ q.to \in Int
  BY DEF Bounds
<1> QED
  BY <1>1, <1>2

\* The form alone: a draw.
Form == Bound(1, 0, 0, 0)

\* Before the first token there is the form drawn.
LEMMA StartIs ==
  ASSUME NEW parts, NEW f, Steps(parts, f)
  PROVE  Form \in Bounds /\ Between(f[0], Form)
<1>1. f[0] = {Part(1, 0, 0)}
  BY DEF Steps
<1>2. Part(1, 0, 0) \in AllParts
  BY PartIs
<1>3. /\ Part(1, 0, 0).draws = 1 /\ Part(1, 0, 0).len = 0 /\ Part(1, 0, 0).res = 0
  BY PartIs
<1>4. Form \in Bounds /\ Form.draws = 1 /\ Form.from = 0 /\ Form.to = 0 /\ Form.more = 0
  BY BoundIs DEF Form
<1> QED
  BY <1>1, <1>2, <1>3, <1>4 DEF Between

\* A token adds its bounds to those of what is before it.
LEMMA NextIs ==
  ASSUME NEW parts, NEW f, Steps(parts, f), NEW i \in 0..(Len(parts) - 1),
         NEW r \in Bounds, NEW q \in Bounds, Between(f[i], r), Between(parts[i + 1], q)
  PROVE  Both(r, q) \in Bounds /\ Between(f[i + 1], Both(r, q))
<1>1. f[i + 1] = Appended(f[i], parts[i + 1])
  BY DEF Steps
<1>2. Between(Appended(f[i], parts[i + 1]), Both(r, q))
  BY AppendedIs
<1> QED
  BY <1>1, <1>2, BothIs

\* A composition is between the sums of its parts' bounds.
LEMMA OneIs ==
  ASSUME NEW parts \in Seq(SUBSET AllParts), Len(parts) = 1,
         NEW a \in Bounds,
         Between(parts[1], a)
  PROVE  Both(Form, a) \in Bounds /\
         Between(Composed(parts), Both(Form, a))
<1>1. PICK f : Steps(parts, f) /\ Composed(parts) = f[1]
  BY ComposedIs
<1>2. Form \in Bounds /\ Between(f[0], Form)
  BY <1>1, StartIs
<1>3. Both(Form, a) \in Bounds /\ Between(f[1], Both(Form, a))
  <2>1. 0 \in 0..(Len(parts) - 1) /\ 0 + 1 = 1
    OBVIOUS
  <2>2. Both(Form, a) \in Bounds /\ Between(f[0 + 1], Both(Form, a))
    BY <1>1, <1>2, <2>1, NextIs
  <2> QED
    BY <2>1, <2>2
<1> QED
  BY <1>1, <1>3

LEMMA TwoIs ==
  ASSUME NEW parts \in Seq(SUBSET AllParts), Len(parts) = 2,
         NEW a \in Bounds, NEW b \in Bounds,
         Between(parts[1], a), Between(parts[2], b)
  PROVE  Both(Both(Form, a), b) \in Bounds /\
         Between(Composed(parts), Both(Both(Form, a), b))
<1>1. PICK f : Steps(parts, f) /\ Composed(parts) = f[2]
  BY ComposedIs
<1>2. Form \in Bounds /\ Between(f[0], Form)
  BY <1>1, StartIs
<1>3. Both(Form, a) \in Bounds /\ Between(f[1], Both(Form, a))
  <2>1. 0 \in 0..(Len(parts) - 1) /\ 0 + 1 = 1
    OBVIOUS
  <2>2. Both(Form, a) \in Bounds /\ Between(f[0 + 1], Both(Form, a))
    BY <1>1, <1>2, <2>1, NextIs
  <2> QED
    BY <2>1, <2>2
<1>4. Both(Both(Form, a), b) \in Bounds /\ Between(f[2], Both(Both(Form, a), b))
  <2>1. 1 \in 0..(Len(parts) - 1) /\ 1 + 1 = 2
    OBVIOUS
  <2>2. Both(Both(Form, a), b) \in Bounds /\ Between(f[1 + 1], Both(Both(Form, a), b))
    BY <1>1, <1>3, <2>1, NextIs
  <2> QED
    BY <2>1, <2>2
<1> QED
  BY <1>1, <1>4

LEMMA ThreeIs ==
  ASSUME NEW parts \in Seq(SUBSET AllParts), Len(parts) = 3,
         NEW a \in Bounds, NEW b \in Bounds, NEW c \in Bounds,
         Between(parts[1], a), Between(parts[2], b), Between(parts[3], c)
  PROVE  Both(Both(Both(Form, a), b), c) \in Bounds /\
         Between(Composed(parts), Both(Both(Both(Form, a), b), c))
<1>1. PICK f : Steps(parts, f) /\ Composed(parts) = f[3]
  BY ComposedIs
<1>2. Form \in Bounds /\ Between(f[0], Form)
  BY <1>1, StartIs
<1>3. Both(Form, a) \in Bounds /\ Between(f[1], Both(Form, a))
  <2>1. 0 \in 0..(Len(parts) - 1) /\ 0 + 1 = 1
    OBVIOUS
  <2>2. Both(Form, a) \in Bounds /\ Between(f[0 + 1], Both(Form, a))
    BY <1>1, <1>2, <2>1, NextIs
  <2> QED
    BY <2>1, <2>2
<1>4. Both(Both(Form, a), b) \in Bounds /\ Between(f[2], Both(Both(Form, a), b))
  <2>1. 1 \in 0..(Len(parts) - 1) /\ 1 + 1 = 2
    OBVIOUS
  <2>2. Both(Both(Form, a), b) \in Bounds /\ Between(f[1 + 1], Both(Both(Form, a), b))
    BY <1>1, <1>3, <2>1, NextIs
  <2> QED
    BY <2>1, <2>2
<1>5. Both(Both(Both(Form, a), b), c) \in Bounds /\ Between(f[3], Both(Both(Both(Form, a), b), c))
  <2>1. 2 \in 0..(Len(parts) - 1) /\ 2 + 1 = 3
    OBVIOUS
  <2>2. /\ Both(Both(Both(Form, a), b), c) \in Bounds
        /\ Between(f[2 + 1], Both(Both(Both(Form, a), b), c))
    BY <1>1, <1>4, <2>1, NextIs
  <2> QED
    BY <2>1, <2>2
<1> QED
  BY <1>1, <1>5

LEMMA FourIs ==
  ASSUME NEW parts \in Seq(SUBSET AllParts), Len(parts) = 4,
         NEW a \in Bounds, NEW b \in Bounds, NEW c \in Bounds, NEW d \in Bounds,
         Between(parts[1], a), Between(parts[2], b), Between(parts[3], c), Between(parts[4], d)
  PROVE  Both(Both(Both(Both(Form, a), b), c), d) \in Bounds /\
         Between(Composed(parts), Both(Both(Both(Both(Form, a), b), c), d))
<1>1. PICK f : Steps(parts, f) /\ Composed(parts) = f[4]
  BY ComposedIs
<1>2. Form \in Bounds /\ Between(f[0], Form)
  BY <1>1, StartIs
<1>3. Both(Form, a) \in Bounds /\ Between(f[1], Both(Form, a))
  <2>1. 0 \in 0..(Len(parts) - 1) /\ 0 + 1 = 1
    OBVIOUS
  <2>2. Both(Form, a) \in Bounds /\ Between(f[0 + 1], Both(Form, a))
    BY <1>1, <1>2, <2>1, NextIs
  <2> QED
    BY <2>1, <2>2
<1>4. Both(Both(Form, a), b) \in Bounds /\ Between(f[2], Both(Both(Form, a), b))
  <2>1. 1 \in 0..(Len(parts) - 1) /\ 1 + 1 = 2
    OBVIOUS
  <2>2. Both(Both(Form, a), b) \in Bounds /\ Between(f[1 + 1], Both(Both(Form, a), b))
    BY <1>1, <1>3, <2>1, NextIs
  <2> QED
    BY <2>1, <2>2
<1>5. Both(Both(Both(Form, a), b), c) \in Bounds /\ Between(f[3], Both(Both(Both(Form, a), b), c))
  <2>1. 2 \in 0..(Len(parts) - 1) /\ 2 + 1 = 3
    OBVIOUS
  <2>2. /\ Both(Both(Both(Form, a), b), c) \in Bounds
        /\ Between(f[2 + 1], Both(Both(Both(Form, a), b), c))
    BY <1>1, <1>4, <2>1, NextIs
  <2> QED
    BY <2>1, <2>2
<1>6. /\ Both(Both(Both(Both(Form, a), b), c), d) \in Bounds
      /\ Between(f[4], Both(Both(Both(Both(Form, a), b), c), d))
  <2>1. 3 \in 0..(Len(parts) - 1) /\ 3 + 1 = 4
    OBVIOUS
  <2>2. /\ Both(Both(Both(Both(Form, a), b), c), d) \in Bounds
        /\ Between(f[3 + 1], Both(Both(Both(Both(Form, a), b), c), d))
    BY <1>1, <1>5, <2>1, NextIs
  <2> QED
    BY <2>1, <2>2
<1> QED
  BY <1>1, <1>6

LEMMA FiveIs ==
  ASSUME NEW parts \in Seq(SUBSET AllParts), Len(parts) = 5,
         NEW a \in Bounds, NEW b \in Bounds, NEW c \in Bounds, NEW d \in Bounds, NEW e \in Bounds,
         Between(parts[1], a), Between(parts[2], b), Between(parts[3], c),
         Between(parts[4], d), Between(parts[5], e)
  PROVE  Both(Both(Both(Both(Both(Form, a), b), c), d), e) \in Bounds /\
         Between(Composed(parts), Both(Both(Both(Both(Both(Form, a), b), c), d), e))
<1>1. PICK f : Steps(parts, f) /\ Composed(parts) = f[5]
  BY ComposedIs
<1>2. Form \in Bounds /\ Between(f[0], Form)
  BY <1>1, StartIs
<1>3. Both(Form, a) \in Bounds /\ Between(f[1], Both(Form, a))
  <2>1. 0 \in 0..(Len(parts) - 1) /\ 0 + 1 = 1
    OBVIOUS
  <2>2. Both(Form, a) \in Bounds /\ Between(f[0 + 1], Both(Form, a))
    BY <1>1, <1>2, <2>1, NextIs
  <2> QED
    BY <2>1, <2>2
<1>4. Both(Both(Form, a), b) \in Bounds /\ Between(f[2], Both(Both(Form, a), b))
  <2>1. 1 \in 0..(Len(parts) - 1) /\ 1 + 1 = 2
    OBVIOUS
  <2>2. Both(Both(Form, a), b) \in Bounds /\ Between(f[1 + 1], Both(Both(Form, a), b))
    BY <1>1, <1>3, <2>1, NextIs
  <2> QED
    BY <2>1, <2>2
<1>5. Both(Both(Both(Form, a), b), c) \in Bounds /\ Between(f[3], Both(Both(Both(Form, a), b), c))
  <2>1. 2 \in 0..(Len(parts) - 1) /\ 2 + 1 = 3
    OBVIOUS
  <2>2. /\ Both(Both(Both(Form, a), b), c) \in Bounds
        /\ Between(f[2 + 1], Both(Both(Both(Form, a), b), c))
    BY <1>1, <1>4, <2>1, NextIs
  <2> QED
    BY <2>1, <2>2
<1>6. /\ Both(Both(Both(Both(Form, a), b), c), d) \in Bounds
      /\ Between(f[4], Both(Both(Both(Both(Form, a), b), c), d))
  <2>1. 3 \in 0..(Len(parts) - 1) /\ 3 + 1 = 4
    OBVIOUS
  <2>2. /\ Both(Both(Both(Both(Form, a), b), c), d) \in Bounds
        /\ Between(f[3 + 1], Both(Both(Both(Both(Form, a), b), c), d))
    BY <1>1, <1>5, <2>1, NextIs
  <2> QED
    BY <2>1, <2>2
<1>7. /\ Both(Both(Both(Both(Both(Form, a), b), c), d), e) \in Bounds
      /\ Between(f[5], Both(Both(Both(Both(Both(Form, a), b), c), d), e))
  <2>1. 4 \in 0..(Len(parts) - 1) /\ 4 + 1 = 5
    OBVIOUS
  <2>2. /\ Both(Both(Both(Both(Both(Form, a), b), c), d), e) \in Bounds
        /\ Between(f[4 + 1], Both(Both(Both(Both(Both(Form, a), b), c), d), e))
    BY <1>1, <1>6, <2>1, NextIs
  <2> QED
    BY <2>1, <2>2
<1> QED
  BY <1>1, <1>7

\* The sum of two bounds.
LEMMA SumIs ==
  ASSUME NEW d, NEW l0, NEW l1, NEW g, NEW d2, NEW m0, NEW m1, NEW h
  PROVE  Both(Bound(d, l0, l1, g), Bound(d2, m0, m1, h)) = Bound(d + d2, l0 + m0, l1 + m1, g + h)
BY DEF Both, Bound

\* The words of dists.dss.
LEMMA WordIs ==
  ASSUME NEW v \in Vocabularies
  PROVE  /\ v["N"] \subseteq 5..14 /\ v["V"] \subseteq 3..9 /\ v["J"] \subseteq 3..9
         /\ v["D"] \subseteq 4..11 /\ v["X"] \subseteq 2..14 /\ v["JC"] \subseteq 4..10
         /\ v["P"] \subseteq 2..12 /\ v["T"] \subseteq 1..2
<1>1. \A word \in Kinds : v[word] \subseteq WordLen(word, Short)..WordLen(word, Long)
  BY TextAssumption
<1>2. /\ WordLen("N", Short) = 5 /\ WordLen("N", Long) = 14
      /\ WordLen("V", Short) = 3 /\ WordLen("V", Long) = 9
      /\ WordLen("J", Short) = 3 /\ WordLen("J", Long) = 9
      /\ WordLen("D", Short) = 4 /\ WordLen("D", Long) = 11
  BY DEF WordLen, Short, Long
<1>3. /\ WordLen("X", Short) = 2 /\ WordLen("X", Long) = 14
      /\ WordLen("JC", Short) = 4 /\ WordLen("JC", Long) = 10
      /\ WordLen("P", Short) = 2 /\ WordLen("P", Long) = 12
      /\ WordLen("T", Short) = 1 /\ WordLen("T", Long) = 2
  BY DEF WordLen, Short, Long
<1>4. {"N", "V", "J", "D", "X", "JC", "P", "T"} = Kinds
  BY DEF Kinds
<1> QED
  BY <1>1, <1>2, <1>3, <1>4

\* A word with its blank.
LEMMA SpelledIs ==
  ASSUME NEW v, NEW word, NEW lo \in Int, NEW hi \in Int, v[word] \subseteq lo..hi
  PROVE  Between(Spelled(word, v), Bound(1, lo + 1, hi + 1, 0))
<1>1. ASSUME NEW s \in Spelled(word, v)
      PROVE  /\ s \in AllParts /\ s.draws \in 1..1 /\ s.len \in (lo + 1)..(hi + 1)
             /\ s.res = s.len + 0
  <2>1. PICK l \in v[word] : s = Part(1, l + 1, l + 1)
    BY DEF Spelled
  <2>2. l \in lo..hi
    BY <2>1
  <2>3. l + 1 \in Int /\ l + 1 \in (lo + 1)..(hi + 1) /\ (l + 1) + 0 = l + 1
    BY <2>2
  <2> QED
    BY <2>1, <2>3, PartIs
<1>2. /\ Bound(1, lo + 1, hi + 1, 0).draws = 1
      /\ Bound(1, lo + 1, hi + 1, 0).from = lo + 1
      /\ Bound(1, lo + 1, hi + 1, 0).to = hi + 1
      /\ Bound(1, lo + 1, hi + 1, 0).more = 0
  BY BoundIs
<1> QED
  BY <1>1, <1>2 DEF Between

\* The words of phrases with their blanks.
LEMMA WordsAre ==
  ASSUME NEW v \in Vocabularies
  PROVE  /\ Between(Spelled("N", v), Bound(1, 6, 15, 0))
         /\ Between(Spelled("V", v), Bound(1, 4, 10, 0))
         /\ Between(Spelled("J", v), Bound(1, 4, 10, 0))
         /\ Between(Spelled("D", v), Bound(1, 5, 12, 0))
         /\ Between(Spelled("X", v), Bound(1, 3, 15, 0))
         /\ Between(Spelled("JC", v), Bound(1, 5, 11, 0))
<1>1. v["N"] \subseteq 5..14 /\ 5 + 1 = 6 /\ 14 + 1 = 15
  BY WordIs
<1>2. Between(Spelled("N", v), Bound(1, 5 + 1, 14 + 1, 0))
  BY <1>1, SpelledIs
<1>3. v["V"] \subseteq 3..9 /\ 3 + 1 = 4 /\ 9 + 1 = 10
  BY WordIs
<1>4. Between(Spelled("V", v), Bound(1, 3 + 1, 9 + 1, 0))
  BY <1>3, SpelledIs
<1>5. v["J"] \subseteq 3..9
  BY WordIs
<1>6. Between(Spelled("J", v), Bound(1, 3 + 1, 9 + 1, 0))
  BY <1>5, SpelledIs
<1>7. v["D"] \subseteq 4..11 /\ 4 + 1 = 5 /\ 11 + 1 = 12
  BY WordIs
<1>8. Between(Spelled("D", v), Bound(1, 4 + 1, 11 + 1, 0))
  BY <1>7, SpelledIs
<1>9. v["X"] \subseteq 2..14 /\ 2 + 1 = 3 /\ 14 + 1 = 15
  BY WordIs
<1>10. Between(Spelled("X", v), Bound(1, 2 + 1, 14 + 1, 0))
  BY <1>9, SpelledIs
<1>11. v["JC"] \subseteq 4..10 /\ 10 + 1 = 11
  BY WordIs
<1>12. Between(Spelled("JC", v), Bound(1, 4 + 1, 10 + 1, 0))
  BY <1>11, SpelledIs
<1> QED
  BY <1>1, <1>2, <1>3, <1>4, <1>6, <1>7, <1>8, <1>9, <1>10, <1>11, <1>12

\* What has bounds is made of parts.
LEMMA BetweenParts == \A S, r : Between(S, r) => S \in SUBSET AllParts
BY DEF Between

\* A form, its parts.
LEMMA SpelledParts ==
  ASSUME NEW v \in Vocabularies, NEW form \in Seq({"N", "V", "J", "D", "X", "JC"})
  PROVE  /\ [i \in DOMAIN form |-> Spelled(form[i], v)] \in Seq(SUBSET AllParts)
         /\ Len([i \in DOMAIN form |-> Spelled(form[i], v)]) = Len(form)
         /\ \A i \in 1..Len(form) :
              [j \in DOMAIN form |-> Spelled(form[j], v)][i] = Spelled(form[i], v)
<1>1. \A w \in {"N", "V", "J", "D", "X", "JC"} : Spelled(w, v) \in SUBSET AllParts
  BY WordsAre, BetweenParts
<1>2. DOMAIN form = 1..Len(form) /\ Len(form) \in Nat
  OBVIOUS
<1>3. \A i \in 1..Len(form) : Spelled(form[i], v) \in SUBSET AllParts
  BY <1>1, <1>2
<1> DEFINE parts == [i \in 1..Len(form) |-> Spelled(form[i], v)]
<1>4. parts \in [1..Len(form) -> SUBSET AllParts]
  BY <1>3
<1>5. parts \in Seq(SUBSET AllParts) /\ Len(parts) = Len(form)
  BY <1>2, <1>4
<1>6. parts = [i \in DOMAIN form |-> Spelled(form[i], v)]
  BY <1>2
<1>7. \A i \in 1..Len(form) : parts[i] = Spelled(form[i], v)
  OBVIOUS
<1> QED
  BY <1>5, <1>6, <1>7

\* The four noun phrases of the grammar: at most four draws, six to 37 characters.
LEMMA NounN ==
  ASSUME NEW v \in Vocabularies
  PROVE  Between(Composed([i \in DOMAIN <<"N">> |-> Spelled(<<"N">>[i], v)]),
                 Bound(4, 6, 37, 0))
<1> DEFINE form == <<"N">>
          parts == [i \in DOMAIN form |-> Spelled(form[i], v)]
<1>1. form \in Seq({"N", "V", "J", "D", "X", "JC"}) /\ Len(form) = 1
  OBVIOUS
<1>2. form[1] = "N"
  OBVIOUS
<1> HIDE DEF form
<1>3. /\ parts \in Seq(SUBSET AllParts) /\ Len(parts) = 1
      /\ \A i \in 1..1 : parts[i] = Spelled(form[i], v)
  BY <1>1, SpelledParts
<1> HIDE DEF parts
<1>4. Between(parts[1], Bound(1, 6, 15, 0))
  BY <1>2, <1>3, WordsAre
<1>5. Bound(1, 6, 15, 0) \in Bounds
  BY BoundIs
<1>6. Between(Composed(parts), Both(Form, Bound(1, 6, 15, 0)))
  BY <1>3, <1>4, <1>5, OneIs
<1>7. Both(Form, Bound(1, 6, 15, 0)) = Bound(2, 6, 15, 0)
  <2>1. Both(Form, Bound(1, 6, 15, 0)) = Bound(2, 6, 15, 0)
    BY SumIs DEF Form
  <2> QED
    BY <2>1
<1>8. Between(Composed(parts), Bound(4, 6, 37, 0))
  <2>1. /\ Bound(2, 6, 15, 0) \in Bounds /\ Bound(4, 6, 37, 0) \in Bounds
         /\ Bound(2, 6, 15, 0).draws = 2 /\ Bound(4, 6, 37, 0).draws = 4
         /\ Bound(2, 6, 15, 0).from = 6 /\ Bound(4, 6, 37, 0).from = 6
         /\ Bound(2, 6, 15, 0).to = 15 /\ Bound(4, 6, 37, 0).to = 37
         /\ Bound(2, 6, 15, 0).more = 0 /\ Bound(4, 6, 37, 0).more = 0
    BY BoundIs
  <2>2. Between(Composed(parts), Bound(2, 6, 15, 0))
    BY <1>6, <1>7
  <2> QED
    BY <2>1, <2>2, Looser
<1> QED
  BY <1>8 DEF parts, form

LEMMA NounJN ==
  ASSUME NEW v \in Vocabularies
  PROVE  Between(Composed([i \in DOMAIN <<"J", "N">> |-> Spelled(<<"J", "N">>[i], v)]),
                 Bound(4, 6, 37, 0))
<1> DEFINE form == <<"J", "N">>
          parts == [i \in DOMAIN form |-> Spelled(form[i], v)]
<1>1. form \in Seq({"N", "V", "J", "D", "X", "JC"}) /\ Len(form) = 2
  OBVIOUS
<1>2. form[1] = "J" /\ form[2] = "N"
  OBVIOUS
<1> HIDE DEF form
<1>3. /\ parts \in Seq(SUBSET AllParts) /\ Len(parts) = 2
      /\ \A i \in 1..2 : parts[i] = Spelled(form[i], v)
  BY <1>1, SpelledParts
<1> HIDE DEF parts
<1>4. Between(parts[1], Bound(1, 4, 10, 0)) /\ Between(parts[2], Bound(1, 6, 15, 0))
  BY <1>2, <1>3, WordsAre
<1>5. Bound(1, 4, 10, 0) \in Bounds /\ Bound(1, 6, 15, 0) \in Bounds
  BY BoundIs
<1>6. Between(Composed(parts), Both(Both(Form, Bound(1, 4, 10, 0)), Bound(1, 6, 15, 0)))
  BY <1>3, <1>4, <1>5, TwoIs
<1>7. Both(Both(Form, Bound(1, 4, 10, 0)), Bound(1, 6, 15, 0)) = Bound(3, 10, 25, 0)
  <2>1. Both(Form, Bound(1, 4, 10, 0)) = Bound(2, 4, 10, 0)
    BY SumIs DEF Form
  <2>2. Both(Bound(2, 4, 10, 0), Bound(1, 6, 15, 0)) = Bound(3, 10, 25, 0)
    BY SumIs
  <2> QED
    BY <2>1, <2>2
<1>8. Between(Composed(parts), Bound(4, 6, 37, 0))
  <2>1. /\ Bound(3, 10, 25, 0) \in Bounds /\ Bound(4, 6, 37, 0) \in Bounds
         /\ Bound(3, 10, 25, 0).draws = 3 /\ Bound(4, 6, 37, 0).draws = 4
         /\ Bound(3, 10, 25, 0).from = 10 /\ Bound(4, 6, 37, 0).from = 6
         /\ Bound(3, 10, 25, 0).to = 25 /\ Bound(4, 6, 37, 0).to = 37
         /\ Bound(3, 10, 25, 0).more = 0 /\ Bound(4, 6, 37, 0).more = 0
    BY BoundIs
  <2>2. Between(Composed(parts), Bound(3, 10, 25, 0))
    BY <1>6, <1>7
  <2> QED
    BY <2>1, <2>2, Looser
<1> QED
  BY <1>8 DEF parts, form

LEMMA NounJCJN ==
  ASSUME NEW v \in Vocabularies
  PROVE  Between(Composed([i \in DOMAIN <<"JC", "J", "N">> |-> Spelled(<<"JC", "J", "N">>[i], v)]),
                 Bound(4, 6, 37, 0))
<1> DEFINE form == <<"JC", "J", "N">>
          parts == [i \in DOMAIN form |-> Spelled(form[i], v)]
<1>1. form \in Seq({"N", "V", "J", "D", "X", "JC"}) /\ Len(form) = 3
  OBVIOUS
<1>2. form[1] = "JC" /\ form[2] = "J" /\ form[3] = "N"
  OBVIOUS
<1> HIDE DEF form
<1>3. /\ parts \in Seq(SUBSET AllParts) /\ Len(parts) = 3
      /\ \A i \in 1..3 : parts[i] = Spelled(form[i], v)
  BY <1>1, SpelledParts
<1> HIDE DEF parts
<1>4. /\ Between(parts[1], Bound(1, 5, 11, 0))
      /\ Between(parts[2], Bound(1, 4, 10, 0))
      /\ Between(parts[3], Bound(1, 6, 15, 0))
  BY <1>2, <1>3, WordsAre
<1>5. /\ Bound(1, 4, 10, 0) \in Bounds
      /\ Bound(1, 5, 11, 0) \in Bounds
      /\ Bound(1, 6, 15, 0) \in Bounds
  BY BoundIs
<1>6. Between(Composed(parts), Both(Both(Both(Form, Bound(1, 5, 11, 0)),
          Bound(1, 4, 10, 0)), Bound(1, 6, 15, 0)))
  BY <1>3, <1>4, <1>5, ThreeIs
<1>7. Both(Both(Both(Form, Bound(1, 5, 11, 0)), Bound(1, 4, 10, 0)),
          Bound(1, 6, 15, 0)) = Bound(4, 15, 36, 0)
  <2>1. Both(Form, Bound(1, 5, 11, 0)) = Bound(2, 5, 11, 0)
    BY SumIs DEF Form
  <2>2. Both(Bound(2, 5, 11, 0), Bound(1, 4, 10, 0)) = Bound(3, 9, 21, 0)
    BY SumIs
  <2>3. Both(Bound(3, 9, 21, 0), Bound(1, 6, 15, 0)) = Bound(4, 15, 36, 0)
    BY SumIs
  <2> QED
    BY <2>1, <2>2, <2>3
<1>8. Between(Composed(parts), Bound(4, 6, 37, 0))
  <2>1. /\ Bound(4, 15, 36, 0) \in Bounds /\ Bound(4, 6, 37, 0) \in Bounds
         /\ Bound(4, 15, 36, 0).draws = 4 /\ Bound(4, 6, 37, 0).draws = 4
         /\ Bound(4, 15, 36, 0).from = 15 /\ Bound(4, 6, 37, 0).from = 6
         /\ Bound(4, 15, 36, 0).to = 36 /\ Bound(4, 6, 37, 0).to = 37
         /\ Bound(4, 15, 36, 0).more = 0 /\ Bound(4, 6, 37, 0).more = 0
    BY BoundIs
  <2>2. Between(Composed(parts), Bound(4, 15, 36, 0))
    BY <1>6, <1>7
  <2> QED
    BY <2>1, <2>2, Looser
<1> QED
  BY <1>8 DEF parts, form

LEMMA NounDJN ==
  ASSUME NEW v \in Vocabularies
  PROVE  Between(Composed([i \in DOMAIN <<"D", "J", "N">> |-> Spelled(<<"D", "J", "N">>[i], v)]),
                 Bound(4, 6, 37, 0))
<1> DEFINE form == <<"D", "J", "N">>
          parts == [i \in DOMAIN form |-> Spelled(form[i], v)]
<1>1. form \in Seq({"N", "V", "J", "D", "X", "JC"}) /\ Len(form) = 3
  OBVIOUS
<1>2. form[1] = "D" /\ form[2] = "J" /\ form[3] = "N"
  OBVIOUS
<1> HIDE DEF form
<1>3. /\ parts \in Seq(SUBSET AllParts) /\ Len(parts) = 3
      /\ \A i \in 1..3 : parts[i] = Spelled(form[i], v)
  BY <1>1, SpelledParts
<1> HIDE DEF parts
<1>4. /\ Between(parts[1], Bound(1, 5, 12, 0))
      /\ Between(parts[2], Bound(1, 4, 10, 0))
      /\ Between(parts[3], Bound(1, 6, 15, 0))
  BY <1>2, <1>3, WordsAre
<1>5. /\ Bound(1, 4, 10, 0) \in Bounds
      /\ Bound(1, 5, 12, 0) \in Bounds
      /\ Bound(1, 6, 15, 0) \in Bounds
  BY BoundIs
<1>6. Between(Composed(parts), Both(Both(Both(Form, Bound(1, 5, 12, 0)),
          Bound(1, 4, 10, 0)), Bound(1, 6, 15, 0)))
  BY <1>3, <1>4, <1>5, ThreeIs
<1>7. Both(Both(Both(Form, Bound(1, 5, 12, 0)), Bound(1, 4, 10, 0)),
          Bound(1, 6, 15, 0)) = Bound(4, 15, 37, 0)
  <2>1. Both(Form, Bound(1, 5, 12, 0)) = Bound(2, 5, 12, 0)
    BY SumIs DEF Form
  <2>2. Both(Bound(2, 5, 12, 0), Bound(1, 4, 10, 0)) = Bound(3, 9, 22, 0)
    BY SumIs
  <2>3. Both(Bound(3, 9, 22, 0), Bound(1, 6, 15, 0)) = Bound(4, 15, 37, 0)
    BY SumIs
  <2> QED
    BY <2>1, <2>2, <2>3
<1>8. Between(Composed(parts), Bound(4, 6, 37, 0))
  <2>1. /\ Bound(4, 15, 37, 0) \in Bounds /\ Bound(4, 6, 37, 0) \in Bounds
         /\ Bound(4, 15, 37, 0).draws = 4 /\ Bound(4, 6, 37, 0).draws = 4
         /\ Bound(4, 15, 37, 0).from = 15 /\ Bound(4, 6, 37, 0).from = 6
         /\ Bound(4, 15, 37, 0).to = 37 /\ Bound(4, 6, 37, 0).to = 37
         /\ Bound(4, 15, 37, 0).more = 0 /\ Bound(4, 6, 37, 0).more = 0
    BY BoundIs
  <2>2. Between(Composed(parts), Bound(4, 15, 37, 0))
    BY <1>6, <1>7
  <2> QED
    BY <2>1, <2>2, Looser
<1> QED
  BY <1>8 DEF parts, form

\* The four verb phrases: at most four draws, four to 37 characters.
LEMMA VerbV ==
  ASSUME NEW v \in Vocabularies
  PROVE  Between(Composed([i \in DOMAIN <<"V">> |-> Spelled(<<"V">>[i], v)]),
                 Bound(4, 4, 37, 0))
<1> DEFINE form == <<"V">>
          parts == [i \in DOMAIN form |-> Spelled(form[i], v)]
<1>1. form \in Seq({"N", "V", "J", "D", "X", "JC"}) /\ Len(form) = 1
  OBVIOUS
<1>2. form[1] = "V"
  OBVIOUS
<1> HIDE DEF form
<1>3. /\ parts \in Seq(SUBSET AllParts) /\ Len(parts) = 1
      /\ \A i \in 1..1 : parts[i] = Spelled(form[i], v)
  BY <1>1, SpelledParts
<1> HIDE DEF parts
<1>4. Between(parts[1], Bound(1, 4, 10, 0))
  BY <1>2, <1>3, WordsAre
<1>5. Bound(1, 4, 10, 0) \in Bounds
  BY BoundIs
<1>6. Between(Composed(parts), Both(Form, Bound(1, 4, 10, 0)))
  BY <1>3, <1>4, <1>5, OneIs
<1>7. Both(Form, Bound(1, 4, 10, 0)) = Bound(2, 4, 10, 0)
  <2>1. Both(Form, Bound(1, 4, 10, 0)) = Bound(2, 4, 10, 0)
    BY SumIs DEF Form
  <2> QED
    BY <2>1
<1>8. Between(Composed(parts), Bound(4, 4, 37, 0))
  <2>1. /\ Bound(2, 4, 10, 0) \in Bounds /\ Bound(4, 4, 37, 0) \in Bounds
         /\ Bound(2, 4, 10, 0).draws = 2 /\ Bound(4, 4, 37, 0).draws = 4
         /\ Bound(2, 4, 10, 0).from = 4 /\ Bound(4, 4, 37, 0).from = 4
         /\ Bound(2, 4, 10, 0).to = 10 /\ Bound(4, 4, 37, 0).to = 37
         /\ Bound(2, 4, 10, 0).more = 0 /\ Bound(4, 4, 37, 0).more = 0
    BY BoundIs
  <2>2. Between(Composed(parts), Bound(2, 4, 10, 0))
    BY <1>6, <1>7
  <2> QED
    BY <2>1, <2>2, Looser
<1> QED
  BY <1>8 DEF parts, form

LEMMA VerbXV ==
  ASSUME NEW v \in Vocabularies
  PROVE  Between(Composed([i \in DOMAIN <<"X", "V">> |-> Spelled(<<"X", "V">>[i], v)]),
                 Bound(4, 4, 37, 0))
<1> DEFINE form == <<"X", "V">>
          parts == [i \in DOMAIN form |-> Spelled(form[i], v)]
<1>1. form \in Seq({"N", "V", "J", "D", "X", "JC"}) /\ Len(form) = 2
  OBVIOUS
<1>2. form[1] = "X" /\ form[2] = "V"
  OBVIOUS
<1> HIDE DEF form
<1>3. /\ parts \in Seq(SUBSET AllParts) /\ Len(parts) = 2
      /\ \A i \in 1..2 : parts[i] = Spelled(form[i], v)
  BY <1>1, SpelledParts
<1> HIDE DEF parts
<1>4. Between(parts[1], Bound(1, 3, 15, 0)) /\ Between(parts[2], Bound(1, 4, 10, 0))
  BY <1>2, <1>3, WordsAre
<1>5. Bound(1, 3, 15, 0) \in Bounds /\ Bound(1, 4, 10, 0) \in Bounds
  BY BoundIs
<1>6. Between(Composed(parts), Both(Both(Form, Bound(1, 3, 15, 0)), Bound(1, 4, 10, 0)))
  BY <1>3, <1>4, <1>5, TwoIs
<1>7. Both(Both(Form, Bound(1, 3, 15, 0)), Bound(1, 4, 10, 0)) = Bound(3, 7, 25, 0)
  <2>1. Both(Form, Bound(1, 3, 15, 0)) = Bound(2, 3, 15, 0)
    BY SumIs DEF Form
  <2>2. Both(Bound(2, 3, 15, 0), Bound(1, 4, 10, 0)) = Bound(3, 7, 25, 0)
    BY SumIs
  <2> QED
    BY <2>1, <2>2
<1>8. Between(Composed(parts), Bound(4, 4, 37, 0))
  <2>1. /\ Bound(3, 7, 25, 0) \in Bounds /\ Bound(4, 4, 37, 0) \in Bounds
         /\ Bound(3, 7, 25, 0).draws = 3 /\ Bound(4, 4, 37, 0).draws = 4
         /\ Bound(3, 7, 25, 0).from = 7 /\ Bound(4, 4, 37, 0).from = 4
         /\ Bound(3, 7, 25, 0).to = 25 /\ Bound(4, 4, 37, 0).to = 37
         /\ Bound(3, 7, 25, 0).more = 0 /\ Bound(4, 4, 37, 0).more = 0
    BY BoundIs
  <2>2. Between(Composed(parts), Bound(3, 7, 25, 0))
    BY <1>6, <1>7
  <2> QED
    BY <2>1, <2>2, Looser
<1> QED
  BY <1>8 DEF parts, form

LEMMA VerbVD ==
  ASSUME NEW v \in Vocabularies
  PROVE  Between(Composed([i \in DOMAIN <<"V", "D">> |-> Spelled(<<"V", "D">>[i], v)]),
                 Bound(4, 4, 37, 0))
<1> DEFINE form == <<"V", "D">>
          parts == [i \in DOMAIN form |-> Spelled(form[i], v)]
<1>1. form \in Seq({"N", "V", "J", "D", "X", "JC"}) /\ Len(form) = 2
  OBVIOUS
<1>2. form[1] = "V" /\ form[2] = "D"
  OBVIOUS
<1> HIDE DEF form
<1>3. /\ parts \in Seq(SUBSET AllParts) /\ Len(parts) = 2
      /\ \A i \in 1..2 : parts[i] = Spelled(form[i], v)
  BY <1>1, SpelledParts
<1> HIDE DEF parts
<1>4. Between(parts[1], Bound(1, 4, 10, 0)) /\ Between(parts[2], Bound(1, 5, 12, 0))
  BY <1>2, <1>3, WordsAre
<1>5. Bound(1, 4, 10, 0) \in Bounds /\ Bound(1, 5, 12, 0) \in Bounds
  BY BoundIs
<1>6. Between(Composed(parts), Both(Both(Form, Bound(1, 4, 10, 0)), Bound(1, 5, 12, 0)))
  BY <1>3, <1>4, <1>5, TwoIs
<1>7. Both(Both(Form, Bound(1, 4, 10, 0)), Bound(1, 5, 12, 0)) = Bound(3, 9, 22, 0)
  <2>1. Both(Form, Bound(1, 4, 10, 0)) = Bound(2, 4, 10, 0)
    BY SumIs DEF Form
  <2>2. Both(Bound(2, 4, 10, 0), Bound(1, 5, 12, 0)) = Bound(3, 9, 22, 0)
    BY SumIs
  <2> QED
    BY <2>1, <2>2
<1>8. Between(Composed(parts), Bound(4, 4, 37, 0))
  <2>1. /\ Bound(3, 9, 22, 0) \in Bounds /\ Bound(4, 4, 37, 0) \in Bounds
         /\ Bound(3, 9, 22, 0).draws = 3 /\ Bound(4, 4, 37, 0).draws = 4
         /\ Bound(3, 9, 22, 0).from = 9 /\ Bound(4, 4, 37, 0).from = 4
         /\ Bound(3, 9, 22, 0).to = 22 /\ Bound(4, 4, 37, 0).to = 37
         /\ Bound(3, 9, 22, 0).more = 0 /\ Bound(4, 4, 37, 0).more = 0
    BY BoundIs
  <2>2. Between(Composed(parts), Bound(3, 9, 22, 0))
    BY <1>6, <1>7
  <2> QED
    BY <2>1, <2>2, Looser
<1> QED
  BY <1>8 DEF parts, form

LEMMA VerbXVD ==
  ASSUME NEW v \in Vocabularies
  PROVE  Between(Composed([i \in DOMAIN <<"X", "V", "D">> |-> Spelled(<<"X", "V", "D">>[i], v)]),
                 Bound(4, 4, 37, 0))
<1> DEFINE form == <<"X", "V", "D">>
          parts == [i \in DOMAIN form |-> Spelled(form[i], v)]
<1>1. form \in Seq({"N", "V", "J", "D", "X", "JC"}) /\ Len(form) = 3
  OBVIOUS
<1>2. form[1] = "X" /\ form[2] = "V" /\ form[3] = "D"
  OBVIOUS
<1> HIDE DEF form
<1>3. /\ parts \in Seq(SUBSET AllParts) /\ Len(parts) = 3
      /\ \A i \in 1..3 : parts[i] = Spelled(form[i], v)
  BY <1>1, SpelledParts
<1> HIDE DEF parts
<1>4. /\ Between(parts[1], Bound(1, 3, 15, 0))
      /\ Between(parts[2], Bound(1, 4, 10, 0))
      /\ Between(parts[3], Bound(1, 5, 12, 0))
  BY <1>2, <1>3, WordsAre
<1>5. /\ Bound(1, 3, 15, 0) \in Bounds
      /\ Bound(1, 4, 10, 0) \in Bounds
      /\ Bound(1, 5, 12, 0) \in Bounds
  BY BoundIs
<1>6. Between(Composed(parts), Both(Both(Both(Form, Bound(1, 3, 15, 0)),
          Bound(1, 4, 10, 0)), Bound(1, 5, 12, 0)))
  BY <1>3, <1>4, <1>5, ThreeIs
<1>7. Both(Both(Both(Form, Bound(1, 3, 15, 0)), Bound(1, 4, 10, 0)),
          Bound(1, 5, 12, 0)) = Bound(4, 12, 37, 0)
  <2>1. Both(Form, Bound(1, 3, 15, 0)) = Bound(2, 3, 15, 0)
    BY SumIs DEF Form
  <2>2. Both(Bound(2, 3, 15, 0), Bound(1, 4, 10, 0)) = Bound(3, 7, 25, 0)
    BY SumIs
  <2>3. Both(Bound(3, 7, 25, 0), Bound(1, 5, 12, 0)) = Bound(4, 12, 37, 0)
    BY SumIs
  <2> QED
    BY <2>1, <2>2, <2>3
<1>8. Between(Composed(parts), Bound(4, 4, 37, 0))
  <2>1. /\ Bound(4, 12, 37, 0) \in Bounds /\ Bound(4, 4, 37, 0) \in Bounds
         /\ Bound(4, 12, 37, 0).draws = 4 /\ Bound(4, 4, 37, 0).draws = 4
         /\ Bound(4, 12, 37, 0).from = 12 /\ Bound(4, 4, 37, 0).from = 4
         /\ Bound(4, 12, 37, 0).to = 37 /\ Bound(4, 4, 37, 0).to = 37
         /\ Bound(4, 12, 37, 0).more = 0 /\ Bound(4, 4, 37, 0).more = 0
    BY BoundIs
  <2>2. Between(Composed(parts), Bound(4, 12, 37, 0))
    BY <1>6, <1>7
  <2> QED
    BY <2>1, <2>2, Looser
<1> QED
  BY <1>8 DEF parts, form

\* Any noun phrase.
LEMMA NounPhrase ==
  ASSUME NEW v \in Vocabularies
  PROVE  Between(Phrases(NP, v), Bound(4, 6, 37, 0))
<1> SUFFICES ASSUME NEW x \in Phrases(NP, v)
             PROVE  x \in AllParts /\ x.draws \in 1..Bound(4, 6, 37, 0).draws
                    /\ x.len \in Bound(4, 6, 37, 0).from..Bound(4, 6, 37, 0).to
                    /\ x.res = x.len + Bound(4, 6, 37, 0).more
  BY DEF Between
<1>1. PICK form \in NP : x \in Composed([i \in DOMAIN form |-> Spelled(form[i], v)])
  BY DEF Phrases
<1>2. Between(Composed([i \in DOMAIN form |-> Spelled(form[i], v)]), Bound(4, 6, 37, 0))
  BY NounN, NounJN, NounJCJN, NounDJN DEF NP
<1> QED
  BY <1>1, <1>2 DEF Between

\* Any verb phrase.
LEMMA VerbPhrase ==
  ASSUME NEW v \in Vocabularies
  PROVE  Between(Phrases(VP, v), Bound(4, 4, 37, 0))
<1> SUFFICES ASSUME NEW x \in Phrases(VP, v)
             PROVE  x \in AllParts /\ x.draws \in 1..Bound(4, 4, 37, 0).draws
                    /\ x.len \in Bound(4, 4, 37, 0).from..Bound(4, 4, 37, 0).to
                    /\ x.res = x.len + Bound(4, 4, 37, 0).more
  BY DEF Between
<1>1. PICK form \in VP : x \in Composed([i \in DOMAIN form |-> Spelled(form[i], v)])
  BY DEF Phrases
<1>2. Between(Composed([i \in DOMAIN form |-> Spelled(form[i], v)]), Bound(4, 4, 37, 0))
  BY VerbV, VerbXV, VerbVD, VerbXVD DEF VP
<1> QED
  BY <1>1, <1>2 DEF Between

\* What txt_sentence appends for a token; res sees one more of the terminator.
LEMMA TokensAre ==
  ASSUME NEW v \in Vocabularies
  PROVE  /\ Between(Tokens("N", v), Bound(4, 6, 37, 0)) /\ Between(Tokens("V", v), Bound(4, 4, 37, 0))
         /\ Between(Tokens("P", v), Bound(5, 13, 54, 0)) /\ Between(Tokens("T", v), Bound(1, 0, 1, 1))
<1>1. Tokens("N", v) = Phrases(NP, v) /\ Tokens("V", v) = Phrases(VP, v)
  BY DEF Tokens
<1>2. Between(Tokens("P", v), Bound(5, 13, 54, 0))
  <2>1. ASSUME NEW x \in Tokens("P", v)
        PROVE  /\ x \in AllParts /\ x.draws \in 1..5 /\ x.len \in 13..54 /\ x.res = x.len + 0
    <3>1. PICK l \in v["P"], p \in Phrases(NP, v) :
                x = Part(1 + p.draws, l + 5 + p.len, l + 5 + p.res)
      BY DEF Tokens
    <3>2. l \in 2..12
      BY WordIs
    <3>5. /\ Bound(4, 6, 37, 0).draws = 4 /\ Bound(4, 6, 37, 0).from = 6
          /\ Bound(4, 6, 37, 0).to = 37 /\ Bound(4, 6, 37, 0).more = 0
      BY BoundIs
    <3>6. Between(Phrases(NP, v), Bound(4, 6, 37, 0))
      BY NounPhrase
    <3>3. /\ p \in AllParts /\ p.draws \in 1..4 /\ p.len \in 6..37 /\ p.res = p.len + 0
      BY <3>5, <3>6 DEF Between
    <3>4. /\ 1 + p.draws \in 1..5 /\ l + 5 + p.len \in 13..54 /\ l + 5 + p.res = (l + 5 + p.len) + 0
          /\ 1 + p.draws \in Int /\ l + 5 + p.len \in Int /\ l + 5 + p.res \in Int
      BY <3>2, <3>3
    <3> QED
      BY <3>1, <3>4, PartIs
  <2>2. /\ Bound(5, 13, 54, 0).draws = 5 /\ Bound(5, 13, 54, 0).from = 13
        /\ Bound(5, 13, 54, 0).to = 54 /\ Bound(5, 13, 54, 0).more = 0
    BY BoundIs
  <2> QED
    BY <2>1, <2>2 DEF Between
<1>3. Between(Tokens("T", v), Bound(1, 0, 1, 1))
  <2>1. ASSUME NEW x \in Tokens("T", v)
        PROVE  /\ x \in AllParts /\ x.draws \in 1..1 /\ x.len \in 0..1 /\ x.res = x.len + 1
    <3>1. PICK l \in v["T"] : x = Part(1, l - 1, l)
      BY DEF Tokens
    <3>2. l \in 1..2
      BY WordIs
    <3>3. l - 1 \in 0..1 /\ l = (l - 1) + 1 /\ l - 1 \in Int /\ l \in Int
      BY <3>2
    <3> QED
      BY <3>1, <3>3, PartIs
  <2>2. /\ Bound(1, 0, 1, 1).draws = 1 /\ Bound(1, 0, 1, 1).from = 0
        /\ Bound(1, 0, 1, 1).to = 1 /\ Bound(1, 0, 1, 1).more = 1
    BY BoundIs
  <2> QED
    BY <2>1, <2>2 DEF Between
<1> QED
  BY <1>1, <1>2, <1>3, NounPhrase, VerbPhrase

\* A sentence's form, its tokens.
LEMMA TokensParts ==
  ASSUME NEW v \in Vocabularies, NEW form \in Seq({"N", "V", "P", "T"})
  PROVE  /\ [i \in DOMAIN form |-> Tokens(form[i], v)] \in Seq(SUBSET AllParts)
         /\ Len([i \in DOMAIN form |-> Tokens(form[i], v)]) = Len(form)
         /\ \A i \in 1..Len(form) :
              [j \in DOMAIN form |-> Tokens(form[j], v)][i] = Tokens(form[i], v)
<1>1. \A w \in {"N", "V", "P", "T"} : Tokens(w, v) \in SUBSET AllParts
  BY TokensAre, BetweenParts
<1>2. DOMAIN form = 1..Len(form) /\ Len(form) \in Nat
  OBVIOUS
<1>3. \A i \in 1..Len(form) : Tokens(form[i], v) \in SUBSET AllParts
  BY <1>1, <1>2
<1> DEFINE parts == [i \in 1..Len(form) |-> Tokens(form[i], v)]
<1>4. parts \in [1..Len(form) -> SUBSET AllParts]
  BY <1>3
<1>5. parts \in Seq(SUBSET AllParts) /\ Len(parts) = Len(form)
  BY <1>2, <1>4
<1>6. parts = [i \in DOMAIN form |-> Tokens(form[i], v)]
  BY <1>2
<1>7. \A i \in 1..Len(form) : parts[i] = Tokens(form[i], v)
  OBVIOUS
<1> QED
  BY <1>5, <1>6, <1>7

\* The five sentences of the grammar.
LEMMA SentenceNVT ==
  ASSUME NEW v \in Vocabularies
  PROVE  Between(Composed([i \in DOMAIN <<"N", "V", "T">> |-> Tokens(<<"N", "V", "T">>[i], v)]),
                 Bound(20, 10, 183, 1))
<1> DEFINE form == <<"N", "V", "T">>
          parts == [i \in DOMAIN form |-> Tokens(form[i], v)]
<1>1. form \in Seq({"N", "V", "P", "T"}) /\ Len(form) = 3
  OBVIOUS
<1>2. form[1] = "N" /\ form[2] = "V" /\ form[3] = "T"
  OBVIOUS
<1> HIDE DEF form
<1>3. /\ parts \in Seq(SUBSET AllParts) /\ Len(parts) = 3
      /\ \A i \in 1..3 : parts[i] = Tokens(form[i], v)
  BY <1>1, TokensParts
<1> HIDE DEF parts
<1>4. /\ Between(parts[1], Bound(4, 6, 37, 0))
      /\ Between(parts[2], Bound(4, 4, 37, 0))
      /\ Between(parts[3], Bound(1, 0, 1, 1))
  BY <1>2, <1>3, TokensAre
<1>5. Bound(1, 0, 1, 1) \in Bounds /\ Bound(4, 4, 37, 0) \in Bounds /\ Bound(4, 6, 37, 0) \in Bounds
  BY BoundIs
<1>6. Between(Composed(parts), Both(Both(Both(Form, Bound(4, 6, 37, 0)),
          Bound(4, 4, 37, 0)), Bound(1, 0, 1, 1)))
  BY <1>3, <1>4, <1>5, ThreeIs
<1>7. Both(Both(Both(Form, Bound(4, 6, 37, 0)), Bound(4, 4, 37, 0)),
          Bound(1, 0, 1, 1)) = Bound(10, 10, 75, 1)
  <2>1. Both(Form, Bound(4, 6, 37, 0)) = Bound(5, 6, 37, 0)
    BY SumIs DEF Form
  <2>2. Both(Bound(5, 6, 37, 0), Bound(4, 4, 37, 0)) = Bound(9, 10, 74, 0)
    BY SumIs
  <2>3. Both(Bound(9, 10, 74, 0), Bound(1, 0, 1, 1)) = Bound(10, 10, 75, 1)
    BY SumIs
  <2> QED
    BY <2>1, <2>2, <2>3
<1>8. Between(Composed(parts), Bound(20, 10, 183, 1))
  <2>1. /\ Bound(10, 10, 75, 1) \in Bounds /\ Bound(20, 10, 183, 1) \in Bounds
         /\ Bound(10, 10, 75, 1).draws = 10 /\ Bound(20, 10, 183, 1).draws = 20
         /\ Bound(10, 10, 75, 1).from = 10 /\ Bound(20, 10, 183, 1).from = 10
         /\ Bound(10, 10, 75, 1).to = 75 /\ Bound(20, 10, 183, 1).to = 183
         /\ Bound(10, 10, 75, 1).more = 1 /\ Bound(20, 10, 183, 1).more = 1
    BY BoundIs
  <2>2. Between(Composed(parts), Bound(10, 10, 75, 1))
    BY <1>6, <1>7
  <2> QED
    BY <2>1, <2>2, Looser
<1> QED
  BY <1>8 DEF parts, form

LEMMA SentenceNVPT ==
  ASSUME NEW v \in Vocabularies
  PROVE  Between(Composed([i \in DOMAIN <<"N", "V", "P", "T">>
                  |-> Tokens(<<"N", "V", "P", "T">>[i], v)]),
                 Bound(20, 10, 183, 1))
<1> DEFINE form == <<"N", "V", "P", "T">>
          parts == [i \in DOMAIN form |-> Tokens(form[i], v)]
<1>1. form \in Seq({"N", "V", "P", "T"}) /\ Len(form) = 4
  OBVIOUS
<1>2. form[1] = "N" /\ form[2] = "V" /\ form[3] = "P" /\ form[4] = "T"
  OBVIOUS
<1> HIDE DEF form
<1>3. /\ parts \in Seq(SUBSET AllParts) /\ Len(parts) = 4
      /\ \A i \in 1..4 : parts[i] = Tokens(form[i], v)
  BY <1>1, TokensParts
<1> HIDE DEF parts
<1>4. /\ Between(parts[1], Bound(4, 6, 37, 0))
      /\ Between(parts[2], Bound(4, 4, 37, 0))
      /\ Between(parts[3], Bound(5, 13, 54, 0))
      /\ Between(parts[4], Bound(1, 0, 1, 1))
  BY <1>2, <1>3, TokensAre
<1>5. /\ Bound(1, 0, 1, 1) \in Bounds
      /\ Bound(4, 4, 37, 0) \in Bounds
      /\ Bound(4, 6, 37, 0) \in Bounds
      /\ Bound(5, 13, 54, 0) \in Bounds
  BY BoundIs
<1>6. Between(Composed(parts), Both(Both(Both(Both(Form, Bound(4, 6, 37, 0)),
          Bound(4, 4, 37, 0)), Bound(5, 13, 54, 0)), Bound(1, 0, 1, 1)))
  BY <1>3, <1>4, <1>5, FourIs
<1>7. Both(Both(Both(Both(Form, Bound(4, 6, 37, 0)), Bound(4, 4, 37, 0)),
          Bound(5, 13, 54, 0)), Bound(1, 0, 1, 1)) = Bound(15, 23, 129, 1)
  <2>1. Both(Form, Bound(4, 6, 37, 0)) = Bound(5, 6, 37, 0)
    BY SumIs DEF Form
  <2>2. Both(Bound(5, 6, 37, 0), Bound(4, 4, 37, 0)) = Bound(9, 10, 74, 0)
    BY SumIs
  <2>3. Both(Bound(9, 10, 74, 0), Bound(5, 13, 54, 0)) = Bound(14, 23, 128, 0)
    BY SumIs
  <2>4. Both(Bound(14, 23, 128, 0), Bound(1, 0, 1, 1)) = Bound(15, 23, 129, 1)
    BY SumIs
  <2> QED
    BY <2>1, <2>2, <2>3, <2>4
<1>8. Between(Composed(parts), Bound(20, 10, 183, 1))
  <2>1. /\ Bound(15, 23, 129, 1) \in Bounds /\ Bound(20, 10, 183, 1) \in Bounds
         /\ Bound(15, 23, 129, 1).draws = 15 /\ Bound(20, 10, 183, 1).draws = 20
         /\ Bound(15, 23, 129, 1).from = 23 /\ Bound(20, 10, 183, 1).from = 10
         /\ Bound(15, 23, 129, 1).to = 129 /\ Bound(20, 10, 183, 1).to = 183
         /\ Bound(15, 23, 129, 1).more = 1 /\ Bound(20, 10, 183, 1).more = 1
    BY BoundIs
  <2>2. Between(Composed(parts), Bound(15, 23, 129, 1))
    BY <1>6, <1>7
  <2> QED
    BY <2>1, <2>2, Looser
<1> QED
  BY <1>8 DEF parts, form

LEMMA SentenceNVNT ==
  ASSUME NEW v \in Vocabularies
  PROVE  Between(Composed([i \in DOMAIN <<"N", "V", "N", "T">>
                  |-> Tokens(<<"N", "V", "N", "T">>[i], v)]),
                 Bound(20, 10, 183, 1))
<1> DEFINE form == <<"N", "V", "N", "T">>
          parts == [i \in DOMAIN form |-> Tokens(form[i], v)]
<1>1. form \in Seq({"N", "V", "P", "T"}) /\ Len(form) = 4
  OBVIOUS
<1>2. form[1] = "N" /\ form[2] = "V" /\ form[3] = "N" /\ form[4] = "T"
  OBVIOUS
<1> HIDE DEF form
<1>3. /\ parts \in Seq(SUBSET AllParts) /\ Len(parts) = 4
      /\ \A i \in 1..4 : parts[i] = Tokens(form[i], v)
  BY <1>1, TokensParts
<1> HIDE DEF parts
<1>4. /\ Between(parts[1], Bound(4, 6, 37, 0))
      /\ Between(parts[2], Bound(4, 4, 37, 0))
      /\ Between(parts[3], Bound(4, 6, 37, 0))
      /\ Between(parts[4], Bound(1, 0, 1, 1))
  BY <1>2, <1>3, TokensAre
<1>5. Bound(1, 0, 1, 1) \in Bounds /\ Bound(4, 4, 37, 0) \in Bounds /\ Bound(4, 6, 37, 0) \in Bounds
  BY BoundIs
<1>6. Between(Composed(parts), Both(Both(Both(Both(Form, Bound(4, 6, 37, 0)),
          Bound(4, 4, 37, 0)), Bound(4, 6, 37, 0)), Bound(1, 0, 1, 1)))
  BY <1>3, <1>4, <1>5, FourIs
<1>7. Both(Both(Both(Both(Form, Bound(4, 6, 37, 0)), Bound(4, 4, 37, 0)),
          Bound(4, 6, 37, 0)), Bound(1, 0, 1, 1)) = Bound(14, 16, 112, 1)
  <2>1. Both(Form, Bound(4, 6, 37, 0)) = Bound(5, 6, 37, 0)
    BY SumIs DEF Form
  <2>2. Both(Bound(5, 6, 37, 0), Bound(4, 4, 37, 0)) = Bound(9, 10, 74, 0)
    BY SumIs
  <2>3. Both(Bound(9, 10, 74, 0), Bound(4, 6, 37, 0)) = Bound(13, 16, 111, 0)
    BY SumIs
  <2>4. Both(Bound(13, 16, 111, 0), Bound(1, 0, 1, 1)) = Bound(14, 16, 112, 1)
    BY SumIs
  <2> QED
    BY <2>1, <2>2, <2>3, <2>4
<1>8. Between(Composed(parts), Bound(20, 10, 183, 1))
  <2>1. /\ Bound(14, 16, 112, 1) \in Bounds /\ Bound(20, 10, 183, 1) \in Bounds
         /\ Bound(14, 16, 112, 1).draws = 14 /\ Bound(20, 10, 183, 1).draws = 20
         /\ Bound(14, 16, 112, 1).from = 16 /\ Bound(20, 10, 183, 1).from = 10
         /\ Bound(14, 16, 112, 1).to = 112 /\ Bound(20, 10, 183, 1).to = 183
         /\ Bound(14, 16, 112, 1).more = 1 /\ Bound(20, 10, 183, 1).more = 1
    BY BoundIs
  <2>2. Between(Composed(parts), Bound(14, 16, 112, 1))
    BY <1>6, <1>7
  <2> QED
    BY <2>1, <2>2, Looser
<1> QED
  BY <1>8 DEF parts, form

LEMMA SentenceNPVNT ==
  ASSUME NEW v \in Vocabularies
  PROVE  Between(Composed([i \in DOMAIN <<"N", "P", "V", "N", "T">>
                  |-> Tokens(<<"N", "P", "V", "N", "T">>[i], v)]),
                 Bound(20, 10, 183, 1))
<1> DEFINE form == <<"N", "P", "V", "N", "T">>
          parts == [i \in DOMAIN form |-> Tokens(form[i], v)]
<1>1. form \in Seq({"N", "V", "P", "T"}) /\ Len(form) = 5
  OBVIOUS
<1>2. form[1] = "N" /\ form[2] = "P" /\ form[3] = "V" /\ form[4] = "N" /\ form[5] = "T"
  OBVIOUS
<1> HIDE DEF form
<1>3. /\ parts \in Seq(SUBSET AllParts) /\ Len(parts) = 5
      /\ \A i \in 1..5 : parts[i] = Tokens(form[i], v)
  BY <1>1, TokensParts
<1> HIDE DEF parts
<1>4. /\ Between(parts[1], Bound(4, 6, 37, 0))
      /\ Between(parts[2], Bound(5, 13, 54, 0))
      /\ Between(parts[3], Bound(4, 4, 37, 0))
      /\ Between(parts[4], Bound(4, 6, 37, 0))
      /\ Between(parts[5], Bound(1, 0, 1, 1))
  BY <1>2, <1>3, TokensAre
<1>5. /\ Bound(1, 0, 1, 1) \in Bounds
      /\ Bound(4, 4, 37, 0) \in Bounds
      /\ Bound(4, 6, 37, 0) \in Bounds
      /\ Bound(5, 13, 54, 0) \in Bounds
  BY BoundIs
<1>6. Between(Composed(parts), Both(Both(Both(Both(Both(Form, Bound(4, 6, 37, 0)),
          Bound(5, 13, 54, 0)), Bound(4, 4, 37, 0)), Bound(4, 6, 37, 0)), Bound(1, 0, 1, 1)))
  BY <1>3, <1>4, <1>5, FiveIs
<1>7. Both(Both(Both(Both(Both(Form, Bound(4, 6, 37, 0)), Bound(5, 13, 54, 0)),
          Bound(4, 4, 37, 0)), Bound(4, 6, 37, 0)), Bound(1, 0, 1, 1)) = Bound(19, 29, 166, 1)
  <2>1. Both(Form, Bound(4, 6, 37, 0)) = Bound(5, 6, 37, 0)
    BY SumIs DEF Form
  <2>2. Both(Bound(5, 6, 37, 0), Bound(5, 13, 54, 0)) = Bound(10, 19, 91, 0)
    BY SumIs
  <2>3. Both(Bound(10, 19, 91, 0), Bound(4, 4, 37, 0)) = Bound(14, 23, 128, 0)
    BY SumIs
  <2>4. Both(Bound(14, 23, 128, 0), Bound(4, 6, 37, 0)) = Bound(18, 29, 165, 0)
    BY SumIs
  <2>5. Both(Bound(18, 29, 165, 0), Bound(1, 0, 1, 1)) = Bound(19, 29, 166, 1)
    BY SumIs
  <2> QED
    BY <2>1, <2>2, <2>3, <2>4, <2>5
<1>8. Between(Composed(parts), Bound(20, 10, 183, 1))
  <2>1. /\ Bound(19, 29, 166, 1) \in Bounds /\ Bound(20, 10, 183, 1) \in Bounds
         /\ Bound(19, 29, 166, 1).draws = 19 /\ Bound(20, 10, 183, 1).draws = 20
         /\ Bound(19, 29, 166, 1).from = 29 /\ Bound(20, 10, 183, 1).from = 10
         /\ Bound(19, 29, 166, 1).to = 166 /\ Bound(20, 10, 183, 1).to = 183
         /\ Bound(19, 29, 166, 1).more = 1 /\ Bound(20, 10, 183, 1).more = 1
    BY BoundIs
  <2>2. Between(Composed(parts), Bound(19, 29, 166, 1))
    BY <1>6, <1>7
  <2> QED
    BY <2>1, <2>2, Looser
<1> QED
  BY <1>8 DEF parts, form

LEMMA SentenceNPVPT ==
  ASSUME NEW v \in Vocabularies
  PROVE  Between(Composed([i \in DOMAIN <<"N", "P", "V", "P", "T">>
                  |-> Tokens(<<"N", "P", "V", "P", "T">>[i], v)]),
                 Bound(20, 10, 183, 1))
<1> DEFINE form == <<"N", "P", "V", "P", "T">>
          parts == [i \in DOMAIN form |-> Tokens(form[i], v)]
<1>1. form \in Seq({"N", "V", "P", "T"}) /\ Len(form) = 5
  OBVIOUS
<1>2. form[1] = "N" /\ form[2] = "P" /\ form[3] = "V" /\ form[4] = "P" /\ form[5] = "T"
  OBVIOUS
<1> HIDE DEF form
<1>3. /\ parts \in Seq(SUBSET AllParts) /\ Len(parts) = 5
      /\ \A i \in 1..5 : parts[i] = Tokens(form[i], v)
  BY <1>1, TokensParts
<1> HIDE DEF parts
<1>4. /\ Between(parts[1], Bound(4, 6, 37, 0))
      /\ Between(parts[2], Bound(5, 13, 54, 0))
      /\ Between(parts[3], Bound(4, 4, 37, 0))
      /\ Between(parts[4], Bound(5, 13, 54, 0))
      /\ Between(parts[5], Bound(1, 0, 1, 1))
  BY <1>2, <1>3, TokensAre
<1>5. /\ Bound(1, 0, 1, 1) \in Bounds
      /\ Bound(4, 4, 37, 0) \in Bounds
      /\ Bound(4, 6, 37, 0) \in Bounds
      /\ Bound(5, 13, 54, 0) \in Bounds
  BY BoundIs
<1>6. Between(Composed(parts), Both(Both(Both(Both(Both(Form, Bound(4, 6, 37, 0)),
          Bound(5, 13, 54, 0)), Bound(4, 4, 37, 0)), Bound(5, 13, 54, 0)), Bound(1, 0, 1, 1)))
  BY <1>3, <1>4, <1>5, FiveIs
<1>7. Both(Both(Both(Both(Both(Form, Bound(4, 6, 37, 0)), Bound(5, 13, 54, 0)),
          Bound(4, 4, 37, 0)), Bound(5, 13, 54, 0)), Bound(1, 0, 1, 1)) = Bound(20, 36, 183, 1)
  <2>1. Both(Form, Bound(4, 6, 37, 0)) = Bound(5, 6, 37, 0)
    BY SumIs DEF Form
  <2>2. Both(Bound(5, 6, 37, 0), Bound(5, 13, 54, 0)) = Bound(10, 19, 91, 0)
    BY SumIs
  <2>3. Both(Bound(10, 19, 91, 0), Bound(4, 4, 37, 0)) = Bound(14, 23, 128, 0)
    BY SumIs
  <2>4. Both(Bound(14, 23, 128, 0), Bound(5, 13, 54, 0)) = Bound(19, 36, 182, 0)
    BY SumIs
  <2>5. Both(Bound(19, 36, 182, 0), Bound(1, 0, 1, 1)) = Bound(20, 36, 183, 1)
    BY SumIs
  <2> QED
    BY <2>1, <2>2, <2>3, <2>4, <2>5
<1>8. Between(Composed(parts), Bound(20, 10, 183, 1))
  <2>1. /\ Bound(20, 36, 183, 1) \in Bounds /\ Bound(20, 10, 183, 1) \in Bounds
         /\ Bound(20, 36, 183, 1).draws = 20 /\ Bound(20, 10, 183, 1).draws = 20
         /\ Bound(20, 36, 183, 1).from = 36 /\ Bound(20, 10, 183, 1).from = 10
         /\ Bound(20, 36, 183, 1).to = 183 /\ Bound(20, 10, 183, 1).to = 183
         /\ Bound(20, 36, 183, 1).more = 1 /\ Bound(20, 10, 183, 1).more = 1
    BY BoundIs
  <2>2. Between(Composed(parts), Bound(20, 36, 183, 1))
    BY <1>6, <1>7
  <2> QED
    BY <2>1, <2>2, Looser
<1> QED
  BY <1>8 DEF parts, form

\* A sentence of at most twenty draws and from ten to 183 characters, and as long as it says.
LEMMA SentenceIs ==
  ASSUME NEW s \in Sentences
  PROVE  s \in AllParts /\ s.draws \in 1..20 /\ s.len \in 10..183 /\ s.res = s.len
<1>1. /\ Bound(20, 10, 183, 1).draws = 20 /\ Bound(20, 10, 183, 1).from = 10
      /\ Bound(20, 10, 183, 1).to = 183 /\ Bound(20, 10, 183, 1).more = 1
  BY BoundIs
<1> DEFINE Made(form, v) == Composed([i \in DOMAIN form |-> Tokens(form[i], v)])
           AllMade == UNION {Made(form, v) : form \in Grammar, v \in Vocabularies}
<1>2. ASSUME NEW form \in Grammar, NEW v \in Vocabularies
      PROVE  Between(Made(form, v), Bound(20, 10, 183, 1))
  BY SentenceNVT, SentenceNVPT, SentenceNVNT, SentenceNPVNT, SentenceNPVPT DEF Grammar
<1>3. Sentences = {[y EXCEPT !.res = ResLength(y.res)] : y \in AllMade}
  BY DEF Sentences
<1> HIDE DEF Made
<1> PICK x \in AllMade : s = [x EXCEPT !.res = ResLength(x.res)]
  BY <1>3
<1> PICK form \in Grammar, v \in Vocabularies : x \in Made(form, v)
  OBVIOUS
<1> HIDE DEF AllMade
<1>4. x \in AllParts /\ x.draws \in 1..20 /\ x.len \in 10..183 /\ x.res = x.len + 1
  BY <1>1, <1>2 DEF Between
<1>5. ResLength(x.res) = x.len /\ ResLength(x.res) \in Int
  BY <1>4 DEF ResLength
<1>6. s.draws = x.draws /\ s.len = x.len /\ s.res = ResLength(x.res) /\ s \in AllParts
  BY <1>4, <1>5 DEF AllParts
<1> QED
  BY <1>4, <1>5, <1>6

AllColumns == Texts \cup {"ADDRESS", "POOL"}

\* The draws of a text: its length, and at most twenty for every eleven characters of a
\* sentence and its blank, the last of which may be cut off down to one.
Drew(d, l) == 11 * (d - 1) <= 20 * l
\* The draws of a string: its length, and one for every five characters.
DrewString(d, l) == 5 * (d - 1) <= l + 4

\* The room there is for a column, and the numbers rnd.h reserves for it.
Roomy(c) ==
  /\ TextColumn(c).max \in Nat /\ TextColumn(c).most \in Nat
  /\ TextColumn(c).max <= TextColumn(c).most
Reserves(c, d) == d * TextColumn(c).times <= Seeds!Boundary(TextColumn(c).stream)

\* The fields of a column.
LEMMA ColumnIs ==
  ASSUME NEW avg, NEW stream, NEW most, NEW times
  PROVE  /\ Column(avg, stream, most, times).max = (avg * 16) \div 10
         /\ Column(avg, stream, most, times).most = most
         /\ Column(avg, stream, most, times).times = times
         /\ Column(avg, stream, most, times).stream = stream
BY DEF Column

\* The longest text of a column fits its array.
LEMMA RoomyIs == \A c \in AllColumns : Roomy(c)
<1>1. /\ TextColumn("P_CMNT").max = 22 /\ TextColumn("P_CMNT").most = 22
      /\ TextColumn("PS_CMNT").max = 198 /\ TextColumn("PS_CMNT").most = 198
  BY ColumnIs DEF TextColumn
<1>2. /\ TextColumn("O_CMNT").max = 78 /\ TextColumn("O_CMNT").most = 78
      /\ TextColumn("L_CMNT").max = 43 /\ TextColumn("L_CMNT").most = 43
  BY ColumnIs DEF TextColumn
<1>3. /\ TextColumn("C_CMNT").max = 116 /\ TextColumn("C_CMNT").most = 116
      /\ TextColumn("S_CMNT").max = 100 /\ TextColumn("S_CMNT").most = 100
  BY ColumnIs DEF TextColumn
<1>4. /\ TextColumn("N_CMNT").max = 115 /\ TextColumn("N_CMNT").most = 151
      /\ TextColumn("ADDRESS").max = 40 /\ TextColumn("ADDRESS").most = 40
  BY ColumnIs DEF TextColumn
<1>5. /\ TextColumn("POOL").max = TEXT_POOL_SIZE /\ TextColumn("POOL").most = TEXT_POOL_SIZE
      /\ TEXT_POOL_SIZE \in Nat
  BY TextAssumption DEF TextColumn
<1> QED
  BY <1>1, <1>2, <1>3, <1>4, <1>5 DEF AllColumns, Texts, Roomy

\* What rnd.h reserves for the streams of texts and addresses.
LEMMA BoundaryIs ==
  /\ Seeds!Boundary(Seeds!P_CMNT_SD) = 81 /\ Seeds!Boundary(Seeds!PS_CMNT_SD) = 2160
  /\ Seeds!Boundary(Seeds!O_CMNT_SD) = 216 /\ Seeds!Boundary(Seeds!L_CMNT_SD) = 945
  /\ Seeds!Boundary(Seeds!C_CMNT_SD) = 324 /\ Seeds!Boundary(Seeds!S_CMNT_SD) = 297
  /\ Seeds!Boundary(Seeds!N_CMNT_SD) = 432 /\ Seeds!Boundary(Seeds!C_ADDR_SD) = 9
BY DEF Seeds!Boundary, Seeds!P_CMNT_SD, Seeds!PS_QTY_SD, Seeds!PS_SCST_SD, Seeds!PS_CMNT_SD,
       Seeds!O_CMNT_SD, Seeds!L_QTY_SD, Seeds!L_RFLG_SD,
       Seeds!L_CMNT_SD, Seeds!C_ADDR_SD, Seeds!S_ADDR_SD,
       Seeds!C_PHNE_SD, Seeds!S_PHNE_SD, Seeds!C_CMNT_SD, Seeds!S_CMNT_SD, Seeds!P_NAME_SD,
       Seeds!N_CMNT_SD, Seeds!R_CMNT_SD,
       Seeds!RNG_PER_SENT, Seeds!SUPP_PER_PART, Seeds!O_LCNT_MAX

\* The draws of the longest texts are within those reserved.
LEMMA ReservesText ==
  ASSUME NEW c \in Texts, NEW d \in Int, Drew(d, TextColumn(c).max + 10)
  PROVE  Reserves(c, d)
<1>1. CASE c = "P_CMNT"
  <2>1. /\ TextColumn(c).max = 22 /\ TextColumn(c).times = 1
        /\ TextColumn(c).stream = Seeds!P_CMNT_SD
    BY <1>1, ColumnIs DEF TextColumn
  <2> QED
    BY <2>1, BoundaryIs DEF Drew, Reserves
<1>2. CASE c = "PS_CMNT"
  <2>1. /\ TextColumn(c).max = 198 /\ TextColumn(c).times = 4
        /\ TextColumn(c).stream = Seeds!PS_CMNT_SD
    BY <1>2, ColumnIs DEF TextColumn
  <2> QED
    BY <2>1, BoundaryIs DEF Drew, Reserves
<1>3. CASE c = "O_CMNT"
  <2>1. /\ TextColumn(c).max = 78 /\ TextColumn(c).times = 1
        /\ TextColumn(c).stream = Seeds!O_CMNT_SD
    BY <1>3, ColumnIs DEF TextColumn
  <2> QED
    BY <2>1, BoundaryIs DEF Drew, Reserves
<1>4. CASE c = "L_CMNT"
  <2>1. /\ TextColumn(c).max = 43 /\ TextColumn(c).times = 7
        /\ TextColumn(c).stream = Seeds!L_CMNT_SD
    BY <1>4, ColumnIs DEF TextColumn
  <2> QED
    BY <2>1, BoundaryIs DEF Drew, Reserves
<1>5. CASE c = "C_CMNT"
  <2>1. /\ TextColumn(c).max = 116 /\ TextColumn(c).times = 1
        /\ TextColumn(c).stream = Seeds!C_CMNT_SD
    BY <1>5, ColumnIs DEF TextColumn
  <2> QED
    BY <2>1, BoundaryIs DEF Drew, Reserves
<1>6. CASE c = "S_CMNT"
  <2>1. /\ TextColumn(c).max = 100 /\ TextColumn(c).times = 1
        /\ TextColumn(c).stream = Seeds!S_CMNT_SD
    BY <1>6, ColumnIs DEF TextColumn
  <2> QED
    BY <2>1, BoundaryIs DEF Drew, Reserves
<1>7. CASE c = "N_CMNT"
  <2>1. /\ TextColumn(c).max = 115 /\ TextColumn(c).times = 1
        /\ TextColumn(c).stream = Seeds!N_CMNT_SD
    BY <1>7, ColumnIs DEF TextColumn
  <2> QED
    BY <2>1, BoundaryIs DEF Drew, Reserves
<1> QED
  BY <1>1, <1>2, <1>3, <1>4, <1>5, <1>6, <1>7 DEF Texts

\* So are those of an address.
LEMMA ReservesString ==
  ASSUME NEW d \in Int, DrewString(d, TextColumn("ADDRESS").max)
  PROVE  Reserves("ADDRESS", d)
<1>1. /\ TextColumn("ADDRESS").max = 40 /\ TextColumn("ADDRESS").times = 1
      /\ TextColumn("ADDRESS").stream = Seeds!C_ADDR_SD
  BY ColumnIs DEF TextColumn
<1> QED
  BY <1>1, BoundaryIs DEF DrewString, Reserves

\* What a text that is being written has drawn and filled, and the pool.
TextIInv ==
  /\ column \in AllColumns
  /\ text_pc \in {"draw", "text", "string", "pool", "done"}
  /\ length \in Nat /\ wordlen \in Nat /\ draws \in Nat /\ pool \in Nat /\ hgOffset \in Nat
  /\ tgt = wordlen /\ wordlen <= length /\ length <= TextColumn(column).max
  /\ text_pc = "draw" => wordlen = 0 /\ length = 0 /\ draws = 0
  /\ text_pc = "text" => column # "ADDRESS" /\ (column = "POOL" => length = TEXT_POOL_SIZE)
  /\ text_pc = "string" => column = "ADDRESS"
  /\ text_pc = "pool" => column = "POOL" /\ pool = TEXT_POOL_SIZE
  /\ text_pc = "done" =>
       /\ column # "POOL" /\ wordlen = length
       /\ pool > 0 => column \in Texts /\ draws = 2 /\ hgOffset + length <= pool
  /\ text_pc \in {"draw", "text", "string"} => pool = 0
  /\ column \in Texts /\ pool = 0 =>
       Drew(draws, IF wordlen < length THEN wordlen ELSE wordlen + 10)
  /\ column = "ADDRESS" => DrewString(draws, wordlen) /\ pool = 0

\* A sentence that fits takes its place and a blank, one that does not what is left of it.
LEMMA DrewSentence ==
  ASSUME NEW d \in Nat, NEW l \in Nat, Drew(d, l), NEW m \in 1..20
  PROVE  /\ \A k \in Nat : k >= 11 => Drew(d + m, l + k) /\ Drew(d + m, (l + k) + 10)
         /\ \A k \in Nat : k >= 1 => Drew(d + m, (l + k) + 10)
<1>1. 11 * (d - 1) <= 20 * l
  BY DEF Drew
<1>2. 11 * (d + m - 1) <= 20 * (l + 11)
  BY <1>1
<1>3. ASSUME NEW k \in Nat, k >= 11 PROVE Drew(d + m, l + k) /\ Drew(d + m, (l + k) + 10)
  BY <1>2, <1>3 DEF Drew
<1>4. ASSUME NEW k \in Nat, k >= 1 PROVE Drew(d + m, (l + k) + 10)
  BY <1>2, <1>4 DEF Drew
<1> QED
  BY <1>3, <1>4

\* A character draws a number if it is the first of five.
LEMMA DrewCharacter ==
  ASSUME NEW d \in Nat, NEW i \in Nat, DrewString(d, i)
  PROVE  DrewString(IF Drawn(i) THEN d + 1 ELSE d, i + 1)
<1>1. CASE Drawn(i)
  <2>1. i = 5 * (i \div 5)
    BY <1>1 DEF Drawn
  <2>2. 5 * (d - 1) <= 5 * (i \div 5)
    BY <2>1 DEF DrewString
  <2> QED
    BY <1>1, <2>1, <2>2 DEF DrewString
<1>2. CASE ~Drawn(i)
  BY <1>2 DEF DrewString
<1> QED
  BY <1>1, <1>2

\* The lengths that can be drawn; the pool holds the longest comment.
LEMMA LengthsIs ==
  /\ \A c \in AllColumns \ {"POOL"} :
       /\ TextLengths[c] \subseteq Nat
       /\ \A l \in TextLengths[c] : l <= TextColumn(c).max
  /\ TextColumn("POOL").max = TEXT_POOL_SIZE /\ TEXT_POOL_SIZE \in Nat /\ TEXT_POOL_SIZE > 0
  /\ \A c \in Texts : TextColumn(c).max <= TEXT_POOL_SIZE /\ TextColumn(c).max \in Nat
<1>1. ASSUME NEW c \in AllColumns \ {"POOL"}
      PROVE  /\ TextLengths[c] \subseteq TextColumn(c).min..TextColumn(c).max
             /\ TextColumn(c).min \in Nat /\ TextColumn(c).max \in Nat
  <2>1. TextLengths[c] \subseteq TextColumn(c).min..TextColumn(c).max
    BY TextAssumption DEF AllColumns
  <2>2. TextColumn(c).max \in Nat
    BY RoomyIs DEF Roomy
  <2>3. /\ TextColumn("P_CMNT").min \in Nat /\ TextColumn("PS_CMNT").min \in Nat
        /\ TextColumn("O_CMNT").min \in Nat /\ TextColumn("L_CMNT").min \in Nat
    BY DEF TextColumn, Column
  <2>4. /\ TextColumn("C_CMNT").min \in Nat /\ TextColumn("S_CMNT").min \in Nat
        /\ TextColumn("N_CMNT").min \in Nat /\ TextColumn("ADDRESS").min \in Nat
    BY DEF TextColumn, Column
  <2> QED
    BY <2>1, <2>2, <2>3, <2>4 DEF AllColumns, Texts
<1>2. ASSUME NEW c \in AllColumns \ {"POOL"}
      PROVE  /\ TextLengths[c] \subseteq Nat
             /\ \A l \in TextLengths[c] : l <= TextColumn(c).max
  BY <1>1
<1>3. TextColumn("POOL").max = TEXT_POOL_SIZE /\ TEXT_POOL_SIZE \in Nat
  BY TextAssumption DEF TextColumn
<1>4. \A c \in Texts : TextColumn(c).max <= TEXT_POOL_SIZE /\ TextColumn(c).max \in Nat
  BY TextAssumption, <1>1 DEF AllColumns, Texts
<1>5. TEXT_POOL_SIZE > 0
  <2>1. TextColumn("P_CMNT").max = 22
    BY ColumnIs DEF TextColumn
  <2> QED
    BY <1>3, <1>4, <2>1 DEF Texts
<1> QED
  BY <1>2, <1>3, <1>4, <1>5

\* The invariant holds at the beginning and through each step.
LEMMA TextInitIInv == TextInit => TextIInv
<1> SUFFICES ASSUME TextInit PROVE TextIInv
  OBVIOUS
<1>1. column \in AllColumns /\ TextColumn(column).max \in Nat
  BY TextAssumption, RoomyIs DEF TextInit, AllColumns, Roomy
<1>2. Drew(0, 10) /\ DrewString(0, 0)
  BY DEF Drew, DrewString
<1> QED
  BY <1>1, <1>2 DEF TextInit, TextIInv

LEMMA DrawLengthIs == TextIInv /\ DrawLength => TextIInv'
<1> SUFFICES ASSUME TextIInv, DrawLength PROVE TextIInv'
  OBVIOUS
<1>1. column \in AllColumns \ {"POOL"}
  BY DEF TextIInv, DrawLength
<1>2. length' \in Nat /\ length' <= TextColumn(column).max
  BY <1>1, LengthsIs DEF DrawLength
<1>3. \A l \in Nat : Drew(1, l)
  BY DEF Drew
<1>4. DrewString(1, 0)
  BY DEF DrewString
<1>5. "ADDRESS" \notin Texts
  BY DEF Texts
<1> QED
  BY <1>1, <1>2, <1>3, <1>4, <1>5 DEF TextIInv, DrawLength

LEMMA StartPoolIs == TextIInv /\ StartPool => TextIInv'
<1>1. TextColumn("POOL").max = TEXT_POOL_SIZE /\ TEXT_POOL_SIZE \in Nat
  BY LengthsIs
<1>2. "POOL" \notin Texts
  BY DEF Texts
<1> QED
  BY <1>1, <1>2 DEF TextIInv, StartPool

LEMMA AddCharacterIs == TextIInv /\ AddCharacter => TextIInv'
<1> SUFFICES ASSUME TextIInv, AddCharacter PROVE TextIInv'
  OBVIOUS
<1>1. column = "ADDRESS" /\ column \notin Texts /\ DrewString(draws, wordlen) /\ pool = 0
  BY DEF TextIInv, AddCharacter, Texts
<1>2. draws \in Nat /\ wordlen \in Nat /\ wordlen < length /\ length \in Nat
  BY DEF TextIInv, AddCharacter
<1>3. DrewString(draws', wordlen')
  BY <1>1, <1>2, DrewCharacter DEF AddCharacter
<1>4. draws' \in Nat /\ wordlen' \in Nat /\ wordlen' <= length /\ tgt' = wordlen'
  BY <1>2 DEF TextIInv, AddCharacter
<1> QED
  BY <1>1, <1>2, <1>3, <1>4 DEF TextIInv, AddCharacter

LEMMA AddSentenceIs == TextIInv /\ AddSentence => TextIInv'
<1> SUFFICES ASSUME TextIInv, AddSentence PROVE TextIInv'
  OBVIOUS
<1>1. /\ draws \in Nat /\ wordlen \in Nat /\ length \in Nat /\ wordlen < length /\ tgt = wordlen
      /\ column \in Texts \cup {"POOL"} /\ pool = 0 /\ text_pc = "text"
  BY DEF TextIInv, AddSentence, AllColumns
<1> DEFINE needed == length - wordlen
<1>2. PICK s \in Sentences :
        /\ draws' = IF column = "POOL" THEN draws ELSE draws + s.draws
        /\ IF Fits(needed, s)
             THEN /\ wordlen' = wordlen + s.res + 1
                  /\ tgt' = tgt + s.res + 1
             ELSE /\ wordlen' = wordlen + needed
                  /\ tgt' = tgt + (IF s.len < needed THEN s.len ELSE needed)
  BY DEF AddSentence
<1>3. s.draws \in 1..20 /\ s.len \in 10..183 /\ s.res = s.len
  BY SentenceIs
<1>4. UNCHANGED <<text_pc, column, length, pool, hgOffset>>
  BY DEF AddSentence
<1>5. \E k \in Nat : /\ k >= 1 /\ wordlen' = wordlen + k /\ tgt' = wordlen' /\ wordlen' <= length
                     /\ k >= 11 \/ wordlen' = length
  <2>1. CASE Fits(needed, s)
    <3>1. s.res + 1 \in Nat /\ s.res + 1 >= 11 /\ wordlen' = wordlen + (s.res + 1)
          /\ tgt' = wordlen' /\ wordlen' <= length
      BY <1>1, <1>2, <1>3, <2>1 DEF Fits
    <3> QED
      BY <3>1
  <2>2. CASE ~Fits(needed, s)
    <3>1. needed \in Nat /\ needed >= 1 /\ wordlen' = wordlen + needed /\ wordlen' = length
      BY <1>1, <1>2, <2>2
    <3>2. needed < s.len + 1
      BY <1>1, <1>3, <2>2 DEF Fits
    <3>3. tgt' = wordlen'
      BY <1>1, <1>2, <1>3, <2>2, <3>2
    <3> QED
      BY <3>1, <3>3
  <2> QED
    BY <2>1, <2>2
<1> HIDE DEF needed
<1>6. wordlen' \in Nat /\ tgt' = wordlen' /\ wordlen' <= length /\ draws' \in Nat
  BY <1>1, <1>2, <1>3, <1>5
<1>7. ASSUME column \in Texts
      PROVE  Drew(draws', IF wordlen' < length THEN wordlen' ELSE wordlen' + 10)
  <2>1. Drew(draws, wordlen)
    BY <1>1, <1>7 DEF TextIInv
  <2>2. draws' = draws + s.draws
    BY <1>2, <1>7 DEF Texts
  <2>3. PICK k \in Nat : /\ k >= 1 /\ wordlen' = wordlen + k /\ wordlen' <= length
                         /\ k >= 11 \/ wordlen' = length
    BY <1>5
  <2>4. /\ k >= 11 => Drew(draws', wordlen') /\ Drew(draws', wordlen' + 10)
        /\ Drew(draws', wordlen' + 10)
    BY <1>1, <1>3, <2>1, <2>2, <2>3, DrewSentence
  <2> QED
    BY <1>1, <1>6, <2>3, <2>4
<1>8. column # "ADDRESS"
  BY DEF TextIInv, AddSentence
<1> QED
  BY <1>1, <1>4, <1>6, <1>7, <1>8 DEF TextIInv

LEMMA EndTextIs == TextIInv /\ EndText => TextIInv'
<1> SUFFICES ASSUME TextIInv, EndText PROVE TextIInv'
  OBVIOUS
<1>1. wordlen = length /\ pool = 0 /\ tgt = wordlen
  BY DEF TextIInv, EndText
<1>2. CASE column = "POOL"
  <2>1. text_pc = "text" /\ length = TEXT_POOL_SIZE
    BY <1>2 DEF TextIInv, EndText
  <2>2. column \notin Texts /\ TEXT_POOL_SIZE \in Nat
    BY <1>2, LengthsIs DEF Texts
  <2>3. pool' = TEXT_POOL_SIZE /\ text_pc' = "pool"
    BY <1>1, <1>2, <2>1 DEF EndText
  <2> QED
    BY <1>1, <1>2, <2>2, <2>3 DEF TextIInv, EndText
<1>3. CASE column # "POOL"
  BY <1>1, <1>3 DEF TextIInv, EndText
<1> QED
  BY <1>2, <1>3

\* A piece that begins where the longest one would still end in the pool.
LEMMA PieceIs ==
  \A m, l, room \in Nat : l <= m => \A h \in 0..(room - m) : h \in Nat /\ h + l <= room
OBVIOUS

LEMMA ReadPoolIs == TextIInv /\ ReadPool => TextIInv'
<1> SUFFICES ASSUME TextIInv, ReadPool PROVE TextIInv'
  OBVIOUS
<1>1. pool = TEXT_POOL_SIZE /\ pool' = pool
  BY DEF TextIInv, ReadPool
<1>2. column' \in Texts /\ column' \in AllColumns \ {"POOL"} /\ column' # "ADDRESS"
  BY DEF ReadPool, AllColumns, Texts
<1>3. length' \in Nat /\ length' <= TextColumn(column').max
  BY <1>2, LengthsIs DEF ReadPool
<1>4. hgOffset' \in 0..(TEXT_POOL_SIZE - TextColumn(column').max)
  BY DEF ReadPool, Begins
<1>5. TextColumn(column').max \in Nat /\ TEXT_POOL_SIZE \in Nat /\ TEXT_POOL_SIZE > 0
  BY <1>2, LengthsIs
<1>6. hgOffset' \in Nat /\ hgOffset' + length' <= pool'
  BY <1>1, <1>3, <1>4, <1>5, PieceIs
<1>7. wordlen' = length' /\ tgt' = length' /\ draws' = 2 /\ text_pc' = "done"
  BY DEF ReadPool
<1>8. pool' \in Nat /\ pool' > 0 /\ draws' \in Nat /\ wordlen' \in Nat
  BY <1>1, <1>3, <1>5, <1>7
<1>9. ~(column' \in Texts /\ pool' = 0)
  BY <1>8
<1>10. TextColumn(column)' = TextColumn(column')
  BY DEF TextColumn
<1>11. (length <= TextColumn(column).max)'
  BY <1>3, <1>10
<1>12. text_pc' = "done" /\ (column \in AllColumns)'
  BY <1>2, <1>7
<1>13. (/\ column # "POOL" /\ wordlen = length
        /\ pool > 0 => column \in Texts /\ draws = 2 /\ hgOffset + length <= pool)'
  BY <1>2, <1>6, <1>7
<1>14. (length \in Nat /\ hgOffset \in Nat /\ tgt = wordlen /\ wordlen <= length)'
  BY <1>3, <1>6, <1>7
<1>15. (column # "ADDRESS")'
  BY <1>2
<1> QED
  BY <1>8, <1>9, <1>11, <1>12, <1>13, <1>14, <1>15 DEF TextIInv

LEMMA TextNextIInv == TextIInv /\ [TextNext]_text_vars => TextIInv'
<1> SUFFICES ASSUME TextIInv, [TextNext]_text_vars PROVE TextIInv'
  OBVIOUS
<1>1. CASE UNCHANGED text_vars
  BY <1>1 DEF TextIInv, text_vars
<1> QED
  BY <1>1, DrawLengthIs, StartPoolIs, AddSentenceIs, AddCharacterIs, EndTextIs, ReadPoolIs
  DEF TextNext

LEMMA TextInvariant == TextSpec => []TextIInv
BY TextInitIInv, TextNextIInv, PTL DEF TextSpec

\* What follows from it.
LEMMA TextLengthIs == TextIInv => TextLength
<1> SUFFICES ASSUME TextIInv PROVE TextLength
  OBVIOUS
<1>1. tgt <= TextColumn(column).most
  <2>1. Roomy(column)
    BY RoomyIs DEF TextIInv
  <2> QED
    BY <2>1 DEF TextIInv, Roomy
<1>2. \A s \in Sentences : s.len = s.res /\ s.len <= MAX_SENT_LEN
  BY SentenceIs DEF MAX_SENT_LEN
<1>3. /\ text_pc = "done" => tgt = length /\ wordlen = length
      /\ text_pc = "done" /\ pool > 0 => hgOffset + length <= pool
  BY DEF TextIInv
<1> QED
  BY <1>1, <1>2, <1>3 DEF TextLength

LEMMA DrawsReservedIs == TextIInv => DrawsReserved
<1> SUFFICES ASSUME TextIInv, column # "POOL"
             PROVE  draws * TextColumn(column).times <= Reserved
  BY DEF DrawsReserved
<1>1. draws \in Nat /\ wordlen \in Nat /\ length \in Nat /\ pool \in Nat
  BY DEF TextIInv
<1>2. CASE pool > 0
  <2>1. text_pc = "done" /\ draws = 2
    BY <1>2 DEF TextIInv
  <2>2. column \in Texts
    BY <1>2, <2>1 DEF TextIInv
  <2>3. Reserved = 2 * TextColumn(column).times
    BY <1>2 DEF Reserved
  <2>4. TextColumn(column).times \in Nat
    BY <2>2, ColumnIs DEF TextColumn, Texts
  <2> QED
    BY <2>1, <2>3, <2>4
<1>3. CASE pool = 0 /\ column \in Texts
  <2>1. Drew(draws, IF wordlen < length THEN wordlen ELSE wordlen + 10)
    BY <1>3 DEF TextIInv
  <2>2. wordlen <= TextColumn(column).max /\ TextColumn(column).max \in Nat
    <3>1. TextColumn(column).max \in Nat
      BY <1>3, LengthsIs
    <3> QED
      BY <1>1, <3>1 DEF TextIInv
  <2>3. Drew(draws, TextColumn(column).max + 10)
    BY <1>1, <2>1, <2>2 DEF Drew
  <2>4. Reserves(column, draws)
    BY <1>1, <1>3, <2>3, ReservesText
  <2> QED
    BY <1>3, <2>4 DEF Reserves, Reserved
<1>4. CASE pool = 0 /\ column = "ADDRESS"
  <2>1. DrewString(draws, wordlen)
    BY <1>4 DEF TextIInv
  <2>2. TextColumn("ADDRESS").max = 40
    BY ColumnIs DEF TextColumn
  <2>3. DrewString(draws, TextColumn("ADDRESS").max)
    BY <1>1, <1>4, <2>1, <2>2 DEF TextIInv, DrewString
  <2>4. Reserves("ADDRESS", draws)
    BY <1>1, <2>3, ReservesString
  <2> QED
    BY <1>4, <2>4 DEF Reserves, Reserved
<1> QED
  BY <1>1, <1>2, <1>3, <1>4 DEF TextIInv, AllColumns

\* Whatever the words of the distributions and however many sentences a text takes, it is as
\* long as the length that was drawn and fits its array, and a sentence fits the buffer it is
\* made in (text.c).
THEOREM TextsFit == TextSpec => []TextLength
BY TextInvariant, TextLengthIs, PTL

\* No text of dbgen draws more numbers than rnd.h reserves for its column, and one of
\* tpch_tools no more than two.
THEOREM TextsDrawReserved == TextSpec => []DrawsReserved
BY TextInvariant, DrawsReservedIs, PTL
=============================================================================
