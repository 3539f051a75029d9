-------------------------------- MODULE Text --------------------------------
(***************************************************************************)
(* The pseudo text of comments (text.c) and the random strings of          *)
(* addresses (bm_utils.c: a_rnd).                                          *)
(*                                                                         *)
(* A comment is made of sentences until its drawn length is reached, the   *)
(* last one cut off.  What matters is how long it gets, since it goes into *)
(* an array of a fixed size, and how many numbers it draws, since rnd.h    *)
(* reserves a number of draws for it.  A word is its length, from the      *)
(* shortest to the longest of its kind in dists.dss.                       *)
(*                                                                         *)
(* tpch_tools makes one long text, the pool, and a comment is a piece of   *)
(* it: two draws.                                                          *)
(***************************************************************************)
EXTENDS Integers, Sequences

Seeds == INSTANCE Streams WITH Modulus <- 1000003

CONSTANTS
  TextColumns,     \* the columns to write, "POOL" for those of tpch_tools
  TextLengths,     \* TextLengths[c]: the lengths that may be drawn for column c
  Vocabularies,    \* v[k]: the lengths of the words of kind k; a sentence is of one vocabulary
  TEXT_POOL_SIZE

\* TEXT and V_STR take lengths from 0.4 to 1.6 times an average, cut off; `most' is the room
\* there is, `times' the texts in a row.
Column(avg, stream, most, times) ==
  [min |-> (avg * 4) \div 10, max |-> (avg * 16) \div 10, most |-> most, times |-> times,
   stream |-> stream]

TextColumn(c) ==
  CASE c = "P_CMNT"  -> Column(14, Seeds!P_CMNT_SD, 22, 1)
    [] c = "PS_CMNT" -> Column(124, Seeds!PS_CMNT_SD, 198, 4)
    [] c = "O_CMNT"  -> Column(49, Seeds!O_CMNT_SD, 78, 1)
    [] c = "L_CMNT"  -> Column(27, Seeds!L_CMNT_SD, 43, 7)
    [] c = "C_CMNT"  -> Column(73, Seeds!C_CMNT_SD, 116, 1)
    [] c = "S_CMNT"  -> Column(63, Seeds!S_CMNT_SD, 100, 1)
    [] c = "N_CMNT"  -> Column(72, Seeds!N_CMNT_SD, 151, 1)
    [] c = "ADDRESS" -> Column(25, Seeds!C_ADDR_SD, 40, 1)
    [] c = "POOL"    -> [min |-> TEXT_POOL_SIZE, max |-> TEXT_POOL_SIZE,
                         most |-> TEXT_POOL_SIZE, times |-> 1, stream |-> 0]

Texts == {"P_CMNT", "PS_CMNT", "O_CMNT", "L_CMNT", "C_CMNT", "S_CMNT", "N_CMNT"}

\* dists.dss: the shortest and the longest word of each kind; "JC" is one with its comma.
Short == 1
Long  == 2
WordLen(word, w) ==
  CASE word = "N" -> <<5, 14>>[w]  [] word = "V" -> <<3, 9>>[w]  [] word = "J"  -> <<3, 9>>[w]
    [] word = "D" -> <<4, 11>>[w]  [] word = "X" -> <<2, 14>>[w] [] word = "JC" -> <<4, 10>>[w]
    [] word = "P" -> <<2, 12>>[w]  [] word = "T" -> <<1, 2>>[w]
Kinds == {"N", "V", "J", "D", "X", "JC", "P", "T"}

ASSUME TextAssumption ==
  /\ TextColumns \subseteq Texts \cup {"ADDRESS", "POOL"}
  /\ TEXT_POOL_SIZE \in Nat /\ \A c \in Texts : TextColumn(c).max <= TEXT_POOL_SIZE
  /\ \A c \in Texts \cup {"ADDRESS"} :
       TextLengths[c] \subseteq TextColumn(c).min..TextColumn(c).max
  /\ \A v \in Vocabularies : \A word \in Kinds :
       v[word] \subseteq WordLen(word, Short)..WordLen(word, Long)

MAX_SENT_LEN == 256

VARIABLES
  text_pc,        \* "draw" (the length), "text" (dbg_text), "string" (a_rnd), "pool" (it is
                  \* filled), "done"
  column,
  length,         \* the length drawn
  wordlen,        \* dbg_text: as long as it believes the text is; a_rnd: i
  tgt,            \* as long as the text is
  draws,          \* numbers drawn
  pool,           \* as long as szTextPool is
  hgOffset        \* where the comment begins in it

text_vars == <<text_pc, column, length, wordlen, tgt, draws, pool, hgOffset>>

-----------------------------------------------------------------------------
NP == {<<"N">>, <<"J", "N">>, <<"JC", "J", "N">>, <<"D", "J", "N">>}
VP == {<<"V">>, <<"X", "V">>, <<"V", "D">>, <<"X", "V", "D">>}
Grammar == {<<"N", "V", "T">>, <<"N", "V", "P", "T">>, <<"N", "V", "N", "T">>,
            <<"N", "P", "V", "N", "T">>, <<"N", "P", "V", "P", "T">>}

Part(draw, len, res) == [draws |-> draw, len |-> len, res |-> res]

\* A form is drawn, and its tokens are appended one after the other, each one of parts[i].
Appended(S, P) ==
  {Part(s.draws + p.draws, s.len + p.len, s.res + p.res) : s \in S, p \in P}
Composed(parts) ==
  LET made[n \in 0..Len(parts)] ==
        IF n = 0 THEN {Part(1, 0, 0)} ELSE Appended(made[n - 1], parts[n])
  IN  made[Len(parts)]

\* txt_np, txt_vp: a draw for each word, and a blank after it.
Spelled(word, v) == {Part(1, l + 1, l + 1) : l \in v[word]}
Phrases(forms, v) ==
  UNION {Composed([i \in DOMAIN form |-> Spelled(form[i], v)]) : form \in forms}

\* What txt_sentence appends for a token: what it adds to the sentence, and to res.  The
\* terminator takes the place of the blank before it, which res does not see.
Tokens(t, v) ==
  CASE t = "N" -> Phrases(NP, v)
    [] t = "V" -> Phrases(VP, v)
    [] t = "P" -> {Part(1 + p.draws, l + 5 + p.len, l + 5 + p.res) :
                     l \in v["P"], p \in Phrases(NP, v)}
    [] t = "T" -> {Part(1, l - 1, l) : l \in v["T"]}

\* Faulty variant: the blank is not taken back.
ResLength_Blank(res) == res
ResLength(res) == res - 1

\* txt_sentence: the sentences there are, with the length it returns.
Sentences ==
  {[s EXCEPT !.res = ResLength(s.res)] :
     s \in UNION {Composed([i \in DOMAIN form |-> Tokens(form[i], v)]) :
                    form \in Grammar, v \in Vocabularies}}

-----------------------------------------------------------------------------
TextInit ==
  /\ text_pc = "draw"
  /\ column \in TextColumns
  /\ length = 0 /\ wordlen = 0 /\ tgt = 0 /\ draws = 0
  /\ pool = 0 /\ hgOffset = 0

DrawLength ==
  /\ text_pc = "draw" /\ column # "POOL"
  /\ length' \in TextLengths[column]
  /\ draws' = 1
  /\ text_pc' = IF column = "ADDRESS" THEN "string" ELSE "text"
  /\ UNCHANGED <<column, wordlen, tgt, pool, hgOffset>>

\* tpch_tools: the first comment fills the pool.
StartPool ==
  /\ text_pc = "draw" /\ column = "POOL"
  /\ length' = TEXT_POOL_SIZE
  /\ text_pc' = "text"
  /\ UNCHANGED <<column, wordlen, tgt, draws, pool, hgOffset>>

Fits(needed, s) == needed >= s.res + 1

\* dbg_text: a sentence and a blank, or as much of a sentence as is needed.
AddSentence ==
  /\ text_pc = "text" /\ wordlen < length
  /\ \E s \in Sentences :
       LET needed == length - wordlen
       IN  /\ draws' = IF column = "POOL" THEN draws ELSE draws + s.draws
           /\ IF Fits(needed, s)
                THEN /\ wordlen' = wordlen + s.res + 1
                     /\ tgt' = tgt + s.res + 1
                ELSE /\ wordlen' = wordlen + needed
                     /\ tgt' = tgt + (IF s.len < needed THEN s.len ELSE needed)
  /\ UNCHANGED <<text_pc, column, length, pool, hgOffset>>

\* Faulty variant: one number for each character.
Drawn_Each(i) == TRUE
\* a_rnd: one number for five characters.
Drawn(i) == i % 5 = 0

AddCharacter ==
  /\ text_pc = "string" /\ wordlen < length
  /\ draws' = IF Drawn(wordlen) THEN draws + 1 ELSE draws
  /\ wordlen' = wordlen + 1
  /\ tgt' = tgt + 1
  /\ UNCHANGED <<text_pc, column, length, pool, hgOffset>>

EndText ==
  /\ text_pc \in {"text", "string"} /\ wordlen >= length
  /\ IF column = "POOL" THEN pool' = tgt /\ text_pc' = "pool"
                        ELSE UNCHANGED pool /\ text_pc' = "done"
  /\ UNCHANGED <<column, length, wordlen, tgt, draws, hgOffset>>

Begins(c) == 0..(TEXT_POOL_SIZE - TextColumn(c).max)

\* tpch_tools: a comment is a piece of the pool.
ReadPool ==
  /\ text_pc = "pool"
  /\ column' \in Texts /\ hgOffset' \in Begins(column')
  /\ length' \in TextLengths[column']
  /\ wordlen' = length' /\ tgt' = length'
  /\ draws' = 2
  /\ text_pc' = "done"
  /\ UNCHANGED pool

TextNext ==
  DrawLength \/ StartPool \/ AddSentence \/ AddCharacter \/ EndText \/ ReadPool

TextSpec == TextInit /\ [][TextNext]_text_vars

-----------------------------------------------------------------------------
(***************************************************************************)
(* Properties.                                                             *)
(***************************************************************************)

\* A comment is as long as the length that was drawn and returned, whatever the words: the
\* pieces add up over any number of sentences, each fits MAX_SENT_LEN, and the array is not
\* overrun.  A piece of the pool ends within the pool.
TextLength ==
  /\ text_pc = "done" => tgt = length /\ wordlen = length
  /\ text_pc = "done" /\ pool > 0 => hgOffset + length <= pool
  /\ tgt <= TextColumn(column).most
  /\ text_pc = "text" => \A s \in Sentences : s.len = s.res /\ s.len <= MAX_SENT_LEN

\* rnd.h's boundary for the stream of a text, in tpch_tools two draws for each text of a row.
Reserved ==
  IF pool > 0 THEN 2 * TextColumn(column).times ELSE Seeds!Boundary(TextColumn(column).stream)

\* A row never draws more than rnd.h reserves for it, also where sentences are short ("always
\* round-up to a known per-row boundary", rnd.h:24).
DrawsReserved ==
  column # "POOL" => draws * TextColumn(column).times <= Reserved
=============================================================================
