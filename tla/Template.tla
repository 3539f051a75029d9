------------------------------- MODULE Template -------------------------------
(***************************************************************************)
(* How qgen makes a query of its template (qgen.c): it reads the lines of  *)
(* queries/<n>.sql, strips their comments (strip_comments) and writes them *)
(* with a meaning in place of each tag (qsub).                             *)
(*                                                                         *)
(* A line is a sequence of items: text, a dash, a brace, a tag with the    *)
(* number after it, the end of the line.  Which value a parameter has is   *)
(* in Qgen.                                                                *)
(***************************************************************************)
EXTENDS Integers, Sequences, SequencesExt

CONSTANTS
  Templates,     \* the templates: sequences of lines
  QueryLists,    \* the queries to make: sequences of indices of Templates
  FlagSets,      \* the options: sets of tpl_flags
  SNUM           \* the stream of -p, or -1

TagKinds      == {"b", "c", "e", "n", "o", "q", "s", "x", "param", "unknown"}
Items         == [kind : TagKinds \cup {"text", "dash", "open", "close", "newline", "rowcnt_dflt"},
                  n : Int]
Item(kind, n) == [kind |-> kind, n |-> n]
Words(n)      == Item("text", n)
Dash          == Item("dash", 0)
Open          == Item("open", 0)
Close         == Item("close", 0)
Newline       == Item("newline", 0)
Tag(letter)   == Item(letter, 0)
RowCount(n)   == Item("n", n)
Param(n)      == Item("param", n)
VTAG(item)    == item.kind \in TagKinds

VARIABLES
  tpl_pc,        \* "main", "query" (between two), "lines", "strip", "tags"
  tpl_flags,     \* the options
  templates,     \* the templates to come, the first in work
  tpl_line,      \* the line of the template that is next
  in_comment,    \* strip_comments: a static variable
  unread,        \* the line from `mark' on
  tpl_out        \* what the query has become

tpl_vars == <<tpl_pc, tpl_flags, templates, tpl_line, in_comment, unread, tpl_out>>

qtag == Head(templates)
sql_lines == Templates[qtag]

First(item, s) == SelectInSeq(s, LAMBDA x : x = item)
From(s, i)     == SubSeq(s, i, Len(s))
\* The first dash of a line begins a comment if the next item is a dash.  A dash of its own
\* hides those after it.
Dashes(s) == First(Dash, s) > 0 /\ First(Dash, s) < Len(s) /\ s[First(Dash, s) + 1] = Dash

-----------------------------------------------------------------------------
TemplateInit ==
  /\ tpl_pc = "main"
  /\ tpl_flags = {} /\ templates = <<>> /\ tpl_line = 1
  /\ in_comment = FALSE /\ unread = <<>> /\ tpl_out = <<>>

\* process_options, and main up to its loop over the queries.
StartOutput ==
  /\ tpl_pc = "main"
  /\ tpl_flags' \in FlagSets /\ templates' \in QueryLists
  /\ tpl_pc' = "query"
  /\ UNCHANGED <<tpl_line, in_comment, unread, tpl_out>>

\* qsub(qtag, tpl_flags), up to its loop.
Beginning(f, q) == IF "DFLT_NUM" \in f THEN <<Item("rowcnt_dflt", q)>> ELSE <<>>
StartQuery ==
  /\ tpl_pc = "query" /\ templates # <<>>
  /\ tpl_out' = Beginning(tpl_flags, qtag)
  /\ tpl_line' = 1
  /\ tpl_pc' = "lines"
  /\ UNCHANGED <<tpl_flags, templates, in_comment, unread>>

NextLine ==
  /\ tpl_pc = "lines" /\ tpl_line <= Len(sql_lines)
  /\ unread' = sql_lines[tpl_line]
  /\ tpl_line' = tpl_line + 1
  /\ tpl_pc' = IF "COMMENT" \in tpl_flags THEN "tags" ELSE "strip"
  /\ UNCHANGED <<tpl_flags, templates, in_comment, tpl_out>>

\* strip_comments: what stands before the comment goes with it.
CommentEnds ==
  /\ tpl_pc = "strip" /\ in_comment /\ First(Close, unread) > 0
  /\ unread' = From(unread, First(Close, unread) + 1)
  /\ in_comment' = FALSE
  /\ UNCHANGED <<tpl_pc, tpl_flags, templates, tpl_line, tpl_out>>

\* Faulty variant: in_comment is not static.
CommentGoesOn_Once ==
  /\ tpl_pc = "strip" /\ in_comment /\ First(Close, unread) = 0
  /\ unread' = <<>> /\ in_comment' = FALSE
  /\ tpl_pc' = "tags"
  /\ UNCHANGED <<tpl_flags, templates, tpl_line, tpl_out>>
CommentGoesOn ==
  /\ tpl_pc = "strip" /\ in_comment /\ First(Close, unread) = 0
  /\ unread' = <<>>
  /\ tpl_pc' = "tags"
  /\ UNCHANGED <<tpl_flags, templates, tpl_line, in_comment, tpl_out>>

\* The end of the line goes with the comment.
CommentDashes ==
  /\ tpl_pc = "strip" /\ ~in_comment /\ Dashes(unread)
  /\ unread' = SubSeq(unread, 1, First(Dash, unread) - 1)
  /\ tpl_pc' = "tags"
  /\ UNCHANGED <<tpl_flags, templates, tpl_line, in_comment, tpl_out>>

CommentBegins ==
  /\ tpl_pc = "strip" /\ ~in_comment /\ ~Dashes(unread) /\ First(Open, unread) > 0
  /\ unread' = [unread EXCEPT ![First(Open, unread)] = Words(0)]
  /\ in_comment' = TRUE
  /\ UNCHANGED <<tpl_pc, tpl_flags, templates, tpl_line, tpl_out>>

NoComment ==
  /\ tpl_pc = "strip" /\ ~in_comment /\ ~Dashes(unread) /\ First(Open, unread) = 0
  /\ tpl_pc' = "tags"
  /\ UNCHANGED <<tpl_flags, templates, tpl_line, in_comment, unread, tpl_out>>

\* What stands for a tag, with options f in query q.  The stream of no -p is 0, and an unknown
\* tag is skipped.
Meaning(f, q, item) ==
  CASE item.kind \in {"b", "e"} -> IF "ANSI" \in f THEN <<>> ELSE <<item>>
    [] item.kind = "c" -> IF "DBASE" \in f THEN <<item>> ELSE <<>>
    [] item.kind = "n" -> IF "DFLT_NUM" \in f THEN <<>> ELSE <<item>>
    [] item.kind = "o" -> IF "OUTPUT" \in f THEN <<item>> ELSE <<>>
    [] item.kind = "q" -> <<Item("q", q)>>
    [] item.kind = "s" -> <<Item("s", IF SNUM < 0 THEN 0 ELSE SNUM)>>
    [] item.kind = "x" -> IF "EXPLAIN" \in f THEN <<item>> ELSE <<>>
    [] item.kind = "unknown" -> <<>>
    [] OTHER -> <<item>>

\* The text up to the first tag, and its meaning.  After :n the loop goes on with the same
\* `mark': the text before is written again and the rest of the line is lost.
Substitution ==
  /\ tpl_pc = "tags" /\ \E i \in DOMAIN unread : VTAG(unread[i])
  /\ LET i == SelectInSeq(unread, VTAG)
         before == SubSeq(unread, 1, i - 1)
     IN  /\ tpl_out' = tpl_out \o before \o Meaning(tpl_flags, qtag, unread[i])
         /\ unread' = IF unread[i].kind = "n" THEN before ELSE From(unread, i + 1)
  /\ UNCHANGED <<tpl_pc, tpl_flags, templates, tpl_line, in_comment>>

EndLine_ ==
  /\ tpl_pc = "tags" /\ \A i \in DOMAIN unread : ~VTAG(unread[i])
  /\ tpl_out' = tpl_out \o unread
  /\ unread' = <<>>
  /\ tpl_pc' = "lines"
  /\ UNCHANGED <<tpl_flags, templates, tpl_line, in_comment>>

EndTemplate ==
  /\ tpl_pc = "lines" /\ tpl_line > Len(sql_lines)
  /\ templates' = Tail(templates)
  /\ tpl_pc' = "query"
  /\ UNCHANGED <<tpl_flags, tpl_line, in_comment, unread, tpl_out>>

TemplateNext ==
  \/ StartOutput \/ StartQuery \/ NextLine \/ CommentEnds \/ CommentGoesOn \/ CommentDashes
  \/ CommentBegins \/ NoComment \/ Substitution \/ EndLine_ \/ EndTemplate

TemplateSpec == TemplateInit /\ [][TemplateNext]_tpl_vars

-----------------------------------------------------------------------------
(***************************************************************************)
(* Properties.                                                             *)
(***************************************************************************)

\* The brace that opened last before item i of line l, or at it, has not been closed before.
InBraces(template, l, i) ==
  \E m \in 1..l : \E j \in DOMAIN template[m] :
    /\ template[m][j] = Open /\ (m < l \/ j <= i)
    /\ \A k \in m..l : \A h \in DOMAIN template[k] :
         template[k][h] = Close => (k = m /\ h < j) \/ (k = l /\ h >= i)
BeginsDashes(s, i) == i < Len(s) /\ s[i] = Dash /\ s[i + 1] = Dash
AfterDashes(s, i)  == \E j \in 1..(i - 1) : BeginsDashes(s, j)

\* The shapes of the templates in queries/ : no line is empty (its end is an item), :n is the
\* first on its line, and a line with a comment in dashes has no dash before it. They have no
\* braces; here braces begin with a line, outside of others, and are closed.
Shaped(template) ==
  \A l \in DOMAIN template :
    /\ template[l] # <<>>
    /\ \A i \in DOMAIN template[l] :
         LET line == template[l]
         IN  /\ line[i].kind = "n" => i = 1
             /\ line[i] = Open => i = 1 /\ ~InBraces(template, l, 0)
                                  /\ \E m \in l..Len(template) : First(Close, template[m]) > 0
             /\ AfterDashes(line, i + 1) => Dashes(line) /\ First(Open, line) = 0
                                            /\ ~InBraces(template, l, i)

ASSUME TemplateAssumption ==
  /\ SNUM \in Nat \cup {-1}
  /\ Templates \in Seq(Seq(Seq(Items)))
  /\ \A q \in QueryLists : q \in Seq(DOMAIN Templates)
  /\ \A q \in DOMAIN Templates : Shaped(Templates[q])

\* What is not in a comment, or with -c all, is kept.
Kept(f, template, l, i) ==
  \/ "COMMENT" \in f
  \/ /\ ~InBraces(template, l, i)
     /\ ~AfterDashes(template[l], i) /\ ~BeginsDashes(template[l], i)
Becomes(f, q, l, i) ==
  IF Kept(f, Templates[q], l, i) THEN Meaning(f, q, Templates[q][l][i]) ELSE <<>>
LineBecomes(f, q, l) ==
  IF Templates[q][l][1].kind = "n" /\ Kept(f, Templates[q], l, 1)
    THEN Becomes(f, q, l, 1)
    ELSE FlattenSeq([i \in DOMAIN Templates[q][l] |-> Becomes(f, q, l, i)])

\* A query is its template alone, whatever queries came before it: everything that is not in
\* a comment, or with -c all of it, in its order, with a meaning for each tag, and nothing after
\* a :n on its line.
QueryIsTemplate ==
  tpl_pc = "lines" /\ tpl_line > Len(sql_lines) =>
    tpl_out = Beginning(tpl_flags, qtag)
              \o FlattenSeq([l \in DOMAIN sql_lines |-> LineBecomes(tpl_flags, qtag, l)])
=============================================================================
