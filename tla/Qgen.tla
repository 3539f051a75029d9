-------------------------------- MODULE Qgen --------------------------------
(***************************************************************************)
(* qgen: from the templates of the 22 queries to the queries of a stream   *)
(* (qgen.c), their parameters drawn from one random number stream each     *)
(* (varsub.c; rnd.c: NextRand, UnifInt).                                   *)
(*                                                                         *)
(* The generator is the one of rnd.c with a smaller modulus.  A parameter  *)
(* is the number that was drawn for it; its text is left out, and so is    *)
(* everything of a template but its tags.                                  *)
(*                                                                         *)
(* The qgen of tpch_tools has other months for queries 14 and 15 and       *)
(* another permutation; it draws the same numbers, in 64 bits.             *)
(***************************************************************************)
EXTENDS Integers, Sequences, FiniteSets, SequencesExt

CONSTANTS
  QM, QA,        \* dM and nA of rnd.h: the modulus and the multiplier
  Rndms,         \* -r: the seeds
  Snums,         \* -p: the permutations, -1 for none
  Permutation,   \* a row of 22 queries for each
  QueryArgs,     \* the queries of the command line, <<>> for all
  Defaults,      \* -d: the values of DFLT
  Newer          \* whose qgen: TRUE for that of tpch_tools

QUERIES == 22
nQ == QM \div QA
nR == QM % QA

ASSUME QgenAssumption ==
  /\ QA \in Nat \ {0} /\ QM \in Nat /\ QM > QA /\ nR < nQ
  /\ Rndms \subseteq 1..(QM - 1) /\ Defaults \subseteq BOOLEAN /\ Newer \subseteq BOOLEAN
  /\ \A s \in Snums \ {-1} : /\ Permutation[s] \in [1..QUERIES -> 1..QUERIES]
                             /\ IsInjective(Permutation[s])
  /\ \A args \in QueryArgs : args \in Seq(1..QUERIES) /\ IsInjective(args)

-----------------------------------------------------------------------------
\* How varsub makes a parameter: a number of a range (a member of a distribution is its
\* place); one that must not be the one before; a brand, of two numbers; the region of the
\* nation before; a part of Q11's size; n members of a permuted array, the last `spare'
\* cleared again; `rest' is tpch_tools' way to permute.
Num(lo, hi) == [rule |-> "int", lo |-> lo, size |-> hi - lo + 1]
Pick(n)     == Num(1, n)
Other(n)    == [rule |-> "other", lo |-> 1, size |-> n]
Brand       == [rule |-> "brand", lo |-> 1, size |-> 5]
Region      == [rule |-> "region"]
Fraction    == [rule |-> "fraction"]
Permute(n, size, spare, rest) ==
  [rule |-> "permute", n |-> n, size |-> size, spare |-> spare, rest |-> rest]

Colors == 92
Types  == 150
Year   == Num(93, 97)

Rules ==
  << <<Num(60, 120)>>, <<Num(1, 50), Pick(Types), Pick(5)>>, <<Pick(5), Num(0, 30)>>,
     <<Num(1, 58)>>, <<Pick(5), Year>>, <<Year, Num(2, 9), Num(24, 25)>>,
     <<Pick(25), Other(25)>>, <<Pick(25), Region, Pick(Types)>>, <<Pick(Colors)>>,
     <<Num(1, 24)>>, <<Pick(25), Fraction>>, <<Pick(7), Other(7), Year>>,
     <<Pick(80), Pick(160)>>, <<Num(1, 60)>>, <<Num(1, 58)>>,
     <<Brand, Pick(Types), Permute(8, 50, 0, FALSE)>>, <<Brand, Pick(40)>>, <<Num(312, 315)>>,
     <<Brand, Brand, Brand, Num(1, 10), Num(10, 20), Num(20, 30)>>,
     <<Pick(Colors), Year, Pick(25)>>, <<Pick(25)>>, <<Permute(8, 25, 1, FALSE)>> >>

ToolsRules ==
  [Rules EXCEPT ![14] = <<Num(0, 59)>>, ![15] = <<Num(0, 57)>>,
                ![16] = <<Brand, Pick(Types), Permute(8, 50, 0, TRUE)>>,
                ![22] = <<Permute(8, 25, 1, TRUE)>>]

\* The array `defaults': how many there are for a query.
defaults == <<1, 3, 2, 1, 2, 3, 2, 3, 1, 1, 2, 3, 2, 1, 1, 10, 2, 1, 6, 3, 1, 7>>

\* The parameters that the templates name, in their order.
Tags ==
  << <<1>>, <<1, 2, 3, 3>>, <<1, 2, 2>>, <<1, 1>>, <<1, 2, 2>>, <<1, 1, 2, 2, 3>>,
     <<1, 2, 2, 1>>, <<1, 2, 3>>, <<1>>, <<1, 1>>, <<1, 2, 1>>, <<1, 2, 3, 3>>, <<1, 2>>,
     <<1, 1>>, <<1, 1>>, <<1, 2, 3, 4, 5, 6, 7, 8, 9, 10>>, <<1, 2>>, <<1>>,
     <<1, 4, 4, 2, 5, 5, 3, 6, 6>>, <<1, 2, 2, 3>>, <<>>,
     <<1, 2, 3, 4, 5, 6, 7, 1, 2, 3, 4, 5, 6, 7>> >>

VARIABLES
  qgen_pc,       \* "main", "varsub", "qsub", "end"
  newer_qgen,    \* the qgen of tpch_tools
  rndm,          \* the seed given
  default,       \* flags & DFLT
  Seed,          \* the streams, by query
  todo,          \* the queries to come, the first in work
  param,         \* varsub's static array
  rule,          \* varsub: the parameter in work
  at_tag,        \* qsub: the tag that is next
  asked          \* qsub: the parameters the query has got, with their numbers

qgen_vars == <<qgen_pc, newer_qgen, rndm, default, Seed, todo, param, rule, at_tag, asked>>

qnum == Head(todo)
RulesOf(q) == IF newer_qgen THEN ToolsRules[q] ELSE Rules[q]
\* A parameter is a tuple of numbers; Q11's fraction and the defaults are constants.
Empty    == <<>>
Constant == <<0>>
RegionOf(nation) == nation \o <<0>>

-----------------------------------------------------------------------------
\* Faulty variant: the seed is left as it is.
NextRand_Stuck(seed) == seed
\* Schrage's: no product passes the modulus.
NextRand(seed) ==
  LET s == QA * (seed % nQ) - nR * (seed \div nQ)
  IN  IF s < 0 THEN s + QM ELSE s

UnifInt(r, seed) == r.lo + (seed * r.size) \div QM

\* Faulty variant: every query draws from the stream of query 1.
Own_First(q) == 1
Own(q) == q

\* What n steps make of a seed.
Steps(n, seed) ==
  LET next == [s \in 0..(QM - 1) |-> NextRand(s)]
      f[k \in Nat] == IF k = 0 THEN seed ELSE next[f[k - 1]]
  IN  f[n]

\* permute: each member of the array changes places with a drawn one, of all or, in
\* tpch_tools, of those from it on; the parameters are the first ones.
Permuted(r, seeds) ==
  LET first(i) == IF r.rest THEN i ELSE 1
      Drawn(i) == first(i) + (seeds[i] * (r.size - first(i) + 1)) \div QM
      Exchanged(i) == [a \in [1..r.size -> 1..r.size] |->
                         [a EXCEPT ![i] = a[Drawn(i)], ![Drawn(i)] = a[i]]]
      set[i \in 0..r.size] == IF i = 0 THEN [k \in 1..r.size |-> k]
                             ELSE Exchanged(i)[set[i - 1]]
  IN  set[r.size]

-----------------------------------------------------------------------------
QgenInit ==
  /\ qgen_pc = "main"
  /\ newer_qgen = FALSE /\ rndm = 1 /\ default = FALSE
  /\ Seed = [q \in 1..QUERIES |-> 0]
  /\ todo = <<>> /\ asked = {}
  /\ param = [k \in 1..10 |-> Empty]
  /\ rule = 1 /\ at_tag = 1

\* The options that parameters depend on: the program, -r (or the time) and -d.
process_options ==
  newer_qgen' \in Newer /\ rndm' \in Rndms /\ default' \in Defaults

\* The queries of the command line, or all of them, each in its place in the permutation of -p.
Queries(s, args) ==
  LET queries == IF args = <<>> THEN [i \in 1..QUERIES |-> i] ELSE args
  IN  [i \in DOMAIN queries |-> IF s = -1 THEN queries[i] ELSE Permutation[s][queries[i]]]

\* main before its loop over the queries.
Setup ==
  /\ qgen_pc = "main"
  /\ process_options
  /\ Seed' = IF default' THEN Seed ELSE [q \in 1..QUERIES |-> Steps(q, rndm')]
  /\ \E s \in Snums, args \in QueryArgs : todo' = Queries(s, args)
  /\ qgen_pc' = "varsub"
  /\ UNCHANGED <<param, rule, at_tag, asked>>

\* What a rule writes: the array, where n is the next parameter and d are the numbers drawn.
Written(r, n, d) ==
  CASE r.rule \in {"int", "other"} -> [param EXCEPT ![n] = <<UnifInt(r, d[1])>>]
    [] r.rule = "brand"    -> [param EXCEPT ![n] = <<UnifInt(r, d[1]), UnifInt(r, d[2])>>]
    [] r.rule = "region"   -> [param EXCEPT ![n] = RegionOf(param[n - 1])]
    [] r.rule = "fraction" -> [param EXCEPT ![n] = Constant]
    [] r.rule = "permute"  ->
         LET set == Permuted(r, d)
         IN  [k \in 1..10 |-> IF k \notin n..(n + r.n - 1) THEN param[k]
                              ELSE IF k >= n + r.n - r.spare THEN Empty
                              ELSE <<set[k - n + 1]>>]

Draws(r) == CASE r.rule \in {"int", "other"} -> 1
              [] r.rule = "brand"   -> 2
              [] r.rule = "permute" -> r.size
              [] OTHER -> 0

\* Faulty variant: one redraw is enough.
Again_Never(r, n) == FALSE
\* Queries 7 and 12 draw until the second parameter is not the first.
Again(r, n) == r.rule = "other" /\ param'[n] = param[n - 1]

\* varsub(qnum, 0): one parameter.
Substitute ==
  /\ qgen_pc = "varsub" /\ todo # <<>> /\ ~default /\ rule <= Len(RulesOf(qnum))
  /\ LET r == RulesOf(qnum)[rule]
         q == Own(qnum)
         d == [i \in 1..Draws(r) |-> Steps(i, Seed[q])]
     IN  /\ param' = Written(r, rule, d)
         /\ Seed' = IF d = <<>> THEN Seed ELSE [Seed EXCEPT ![q] = d[Len(d)]]
         /\ rule' = IF Again(r, rule) THEN rule ELSE rule + 1
  /\ UNCHANGED <<qgen_pc, newer_qgen, rndm, default, todo, at_tag, asked>>

\* The parameter after the last one ends the list, but for query 16, which fills the array.
EndSubstitute ==
  /\ qgen_pc = "varsub" /\ todo # <<>> /\ (default \/ rule > Len(RulesOf(qnum)))
  /\ param' = IF default \/ rule > 10 \/ RulesOf(qnum)[rule - 1].rule = "permute" THEN param
              ELSE [param EXCEPT ![rule] = Empty]
  /\ qgen_pc' = "qsub"
  /\ UNCHANGED <<newer_qgen, rndm, default, Seed, todo, rule, at_tag, asked>>

\* qsub: a parameter of the template, which varsub prints.
Parameter ==
  /\ qgen_pc = "qsub" /\ at_tag <= Len(Tags[qnum])
  /\ LET k == Tags[qnum][at_tag]
     IN  asked' = asked \cup
           {<<k, IF ~default THEN param[k]
                 ELSE IF k <= defaults[qnum] THEN Constant ELSE Empty>>}
  /\ at_tag' = at_tag + 1
  /\ UNCHANGED <<qgen_pc, newer_qgen, rndm, default, Seed, todo, param, rule>>

\* The template ends: the next query.
EndQuery ==
  /\ qgen_pc = "qsub" /\ at_tag > Len(Tags[qnum])
  /\ todo' = Tail(todo)
  /\ rule' = 1 /\ at_tag' = 1 /\ asked' = {}
  /\ qgen_pc' = IF Len(todo) = 1 THEN "end" ELSE "varsub"
  /\ UNCHANGED <<newer_qgen, rndm, default, Seed, param>>

QgenNext == Setup \/ Substitute \/ EndSubstitute \/ Parameter \/ EndQuery

QgenSpec == QgenInit /\ [][QgenNext]_qgen_vars /\ WF_qgen_vars(QgenNext)

-----------------------------------------------------------------------------
(***************************************************************************)
(* Properties.                                                             *)
(***************************************************************************)

\* qgen ends: the loops that draw a second nation or ship mode until it differs do, since
\* the generator comes to every number.  Fairness is that of a program that runs.
QgenEnds == qgen_pc = "varsub" ~> qgen_pc = "end"

\* The n-th number of stream q, without drawing the ones before it.
Power[n \in Nat] == IF n = 0 THEN 1 ELSE (Power[n - 1] * QA) % QM
Nth(q, n) == (rndm * Power[q + n]) % QM

\* The numbers that the parameters before the k-th draw.
DrawsBefore(q, k) ==
  LET f[j \in 0..Len(RulesOf(q))] == IF j = 0 THEN 0 ELSE f[j - 1] + Draws(RulesOf(q)[j])
  IN  f[k - 1]

\* Every parameter a query gets was drawn for it, from its own stream: it is the number that
\* the seed gives for it whatever queries came before and in whatever order, and never what
\* another query has left in the static array.  With -d there is a default for each.
OwnParameters ==
  qgen_pc = "qsub" =>
    \A p \in asked :
      /\ p[2] # Empty
      /\ ~default /\ p[1] <= Len(RulesOf(qnum)) /\ RulesOf(qnum)[p[1]].rule = "int"
           /\ (\A j \in 1..(p[1] - 1) : RulesOf(qnum)[j].rule \in {"int", "brand", "region"}) =>
           p[2] = <<UnifInt(RulesOf(qnum)[p[1]], Nth(qnum, DrawsBefore(qnum, p[1]) + 1))>>

Compared(q) == CASE q = 7 -> {1, 2} [] q = 12 -> {1, 2} [] q = 16 -> 3..10 [] q = 22 -> 1..7
                 [] OTHER -> {}

\* What a query compares with one another differs: the nations of query 7 and the ship modes
\* of query 12, the eight sizes of query 16 and the seven country codes of query 22.
ParametersDiffer ==
  qgen_pc = "qsub" /\ ~default =>
    \A p, q \in {a \in asked : a[1] \in Compared(qnum)} : p[2] = q[2] => p[1] = q[1]
=============================================================================
