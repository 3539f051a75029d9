----------------------------- MODULE ParseQuery -----------------------------
(***************************************************************************)
(* parse_query: splits the output of qgen -c into statements               *)
(* (get_statement.c) and puts before and after each query a statement that *)
(* records its times (main.c).                                             *)
(*                                                                         *)
(* A line is a record: a comment, with the number of the query or without, *)
(* the start or the end of the transaction, text with or without the       *)
(* semicolon that ends a statement, or a blank.                            *)
(***************************************************************************)
EXTENDS Integers, Sequences, SequencesExt

CONSTANTS
  Workloads,       \* the input: a sequence of queries, each its number and its statements
  RunTypes         \* P, T, S, E: POWER, THROUGHPUT, SINGLE, EXPLAIN

ASSUME ParseAssumption ==
  /\ RunTypes \subseteq {"P", "T", "S", "E"}
  /\ \A w \in Workloads : w \in Seq(Range(w)) /\ \A i \in DOMAIN w :
       /\ w[i].id \in Nat \ {0}
       /\ LET st == w[i].statements
          IN  /\ st \in Seq(Range(st))
              /\ \A k \in DOMAIN st : st[k] \in Seq(Range(st[k])) /\ st[k] # <<>>

Query(id, statements) == [id |-> id, statements |-> statements]

\* qgen's template: comments, :b, then each statement in one or more pieces, and :e.
CommentLine(id) == [kind |-> "comment", id |-> id]
Blank      == [kind |-> "blank"]
START_TRAN == [kind |-> "start"]
END_TRAN   == [kind |-> "commit"]
Piece(text, last) == [kind |-> "sql", text |-> text, ends |-> last]

Shown(pieces) == [p \in DOMAIN pieces |-> Piece(pieces[p], p = Len(pieces))]

Block(query) ==
  <<CommentLine(0), CommentLine(query.id), CommentLine(0), START_TRAN, Blank>>
  \o FlattenSeq([s \in DOMAIN query.statements |-> Shown(query.statements[s])])
  \o <<Blank, END_TRAN, Blank>>

Rendered(queries) == FlattenSeq([q \in DOMAIN queries |-> Block(queries[q])])

VARIABLES
  parse_pc,        \* "open", "read" (get_statement), "begin", "statement", "block" (what it
                   \* returns), "eof"
  run_type,
  workload, lines, \* what is in the file, and its lines to come
  query_id,        \* sql_statement
  statement,
  out              \* query_output

parse_vars == <<parse_pc, run_type, workload, lines, query_id, statement, out>>

Timed == run_type \in {"P", "T"}

-----------------------------------------------------------------------------
ParseInit ==
  /\ parse_pc = "open"
  /\ run_type = "S" /\ workload = <<>> /\ lines = <<>>
  /\ query_id = 0 /\ statement = <<>> /\ out = <<>>

OpenFiles ==
  /\ parse_pc = "open"
  /\ workload' \in Workloads /\ run_type' \in RunTypes
  /\ lines' = Rendered(workload')
  /\ out' = IF Timed' THEN <<<<"isolation">>>> ELSE <<>>
  /\ parse_pc' = "read"
  /\ UNCHANGED <<query_id, statement>>

Line_(kind) == parse_pc = "read" /\ lines # <<>> /\ Head(lines).kind = kind
Consume == lines' = Tail(lines) /\ UNCHANGED <<run_type, workload, out>>

SkipBlank ==
  /\ Line_("blank") /\ Consume
  /\ UNCHANGED <<parse_pc, query_id, statement>>

\* Faulty variant: any comment gives a number.
Number_Any(line) == line.id
Number(line) == IF line.id > 0 THEN line.id ELSE query_id

ReadComment ==
  /\ Line_("comment") /\ Consume
  /\ query_id' = Number(Head(lines))
  /\ UNCHANGED <<parse_pc, statement>>

\* What was read of a statement until here is dropped when get_statement is called again.
ReadTransaction ==
  /\ Line_("start") \/ Line_("commit")
  /\ Consume
  /\ parse_pc' = IF Head(lines) = START_TRAN THEN "begin" ELSE "block"
  /\ UNCHANGED <<query_id, statement>>

\* statement and comment have 1024 and 256 characters and are filled without a bound: the model's
\* have no end, and those of no query in queries/ reach it.
ReadSql ==
  /\ Line_("sql") /\ Consume
  /\ statement' = Append(statement, Head(lines).text)
  /\ parse_pc' = IF Head(lines).ends THEN "statement" ELSE "read"
  /\ UNCHANGED query_id

ReadEof ==
  /\ parse_pc = "read" /\ lines = <<>>
  /\ parse_pc' = "eof"
  /\ UNCHANGED <<run_type, workload, lines, query_id, statement, out>>

\* The rest of main's loop, and the start of the next get_statement.
Written_(text) ==
  /\ out' = out \o text
  /\ statement' = <<>>
  /\ parse_pc' = "read"
  /\ UNCHANGED <<run_type, workload, lines, query_id>>

\* The line of SQL_COMMIT, which for MYSQL is empty.
WriteBegin ==
  /\ parse_pc = "begin"
  /\ Written_(IF Timed THEN <<<<"insert", query_id>>, <<"empty">>>> ELSE <<<<"empty">>>>)

\* The plan of query 15, which creates a view, is not asked for.
WriteStatement ==
  /\ parse_pc = "statement"
  /\ Written_(IF run_type = "E" /\ query_id = 15 THEN <<>> ELSE <<<<"exec", statement>>>>)

WriteEnd ==
  /\ parse_pc = "block"
  /\ Written_(IF Timed THEN <<<<"update", query_id>>, <<"empty">>>> ELSE <<<<"empty">>>>)

ParseNext ==
  \/ OpenFiles \/ SkipBlank \/ ReadComment \/ ReadTransaction \/ ReadSql \/ ReadEof
  \/ WriteBegin \/ WriteStatement \/ WriteEnd

ParseSpec == ParseInit /\ [][ParseNext]_parse_vars

-----------------------------------------------------------------------------
(***************************************************************************)
(* Property.                                                               *)
(***************************************************************************)

Opened == IF Timed THEN <<<<"isolation">>>> ELSE <<>>
Times(what, query) == IF Timed THEN <<<<what, query.id>>, <<"empty">>>> ELSE <<<<"empty">>>>
Statements(query) ==
  IF run_type = "E" /\ query.id = 15 THEN <<>>
  ELSE [s \in DOMAIN query.statements |-> <<"exec", query.statements[s]>>]
Recorded(query) == Times("insert", query) \o Statements(query) \o Times("update", query)

\* Every statement of every query comes out whole and in order, between the two statements
\* that record the times of that query, and of no other; nothing else does, but an empty line
\* after each of the two.
Executed ==
  parse_pc = "eof" =>
    out = Opened \o FlattenSeq([i \in DOMAIN workload |-> Recorded(workload[i])])
=============================================================================
