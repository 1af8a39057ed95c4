------------------------------ MODULE TaskQuery ------------------------------
(***************************************************************************)
(* What the filter and sort prompts of the task panel mean (internal/tui): *)
(* the parser of filter_expression.go, the columns and operators a filter  *)
(* may use, which rows it keeps, the order of sort.go, and what tab offers *)
(* while a filter is typed (view_completion.go, completion.go).            *)
(*                                                                         *)
(* Text is a sequence of tokens; the character level (quotes, escapes,     *)
(* where a token ends) is left out, and so is the evaluation of a filter   *)
(* on a task.  In the order of rows a value is a number or Missing.        *)
(***************************************************************************)
EXTENDS Integers, Sequences, SequencesExt, FiniteSets

CONSTANTS
  Words,      \* bound: unquoted words the user types, columns and values
  Fragments,  \* bound: words typed in part
  Begins,     \* the words each fragment begins
  Statuses,   \* values of the status column among the tasks
  MaxTokens   \* bound: tokens typed into the filter prompt

ASSUME QueryAssumption ==
  Begins \in [Fragments -> SUBSET (Words \cup Statuses \cup {"and", "or", "not"})]

VARIABLE prompt

Missing == 0
Booleans == {"and", "or", "not"}
\* ">" stands for the four that compare by size.
Comparisons == {"=", "!=", "~", ">"}

Bare(word) == [kind |-> "value", text |-> word, quoted |-> FALSE]
Quoted(word) == [kind |-> "value", text |-> word, quoted |-> TRUE]
Op(word) == [kind |-> "op", text |-> word, quoted |-> FALSE]
Paren(word) == [kind |-> "paren", text |-> word, quoted |-> FALSE]
FilterToken == {Bare(w) : w \in Words \cup Booleans} \cup {Quoted("or")}
               \cup {Op(o) : o \in Comparisons \cup {"!"}} \cup {Paren("("), Paren(")")}

-----------------------------------------------------------------------------
(* The parser.  It is run from a token and gives the expression and the    *)
(* next token, or fails.                                                   *)

Condition(column, operator, value) ==
  [op |-> "is", column |-> column, operator |-> operator, value |-> value]
And(l, r) == [op |-> "and", left |-> l, right |-> r]
Or(l, r) == [op |-> "or", left |-> l, right |-> r]
Not(e) == [op |-> "not", left |-> e]

Fail == [ok |-> FALSE]
Parsed(e, next) == [ok |-> TRUE, expr |-> e, next |-> next]

TokenIs(s, i, t) == i <= Len(s) /\ s[i] = t
HasKeyword(s, i, word) == TokenIs(s, i, Bare(word))
IsBoolean(t) == ~t.quoted /\ t.text \in Booleans
IsWord(s, i) == i <= Len(s) /\ s[i].kind = "value" /\ ~IsBoolean(s[i])
StartsExpression(s, i) ==
  IsWord(s, i) \/ TokenIs(s, i, Paren("(")) \/ TokenIs(s, i, Op("!"))
StartsNot(s, i) == HasKeyword(s, i, "not") \/ TokenIs(s, i, Op("!"))

ParseCondition(s, i) ==
  LET operated == i < Len(s) /\ s[i + 1].kind = "op" /\ s[i + 1].text # "!"
  IN IF ~IsWord(s, i) THEN Fail
     ELSE IF ~operated THEN Parsed(Condition("text", "~", s[i].text), i + 1)
     ELSE IF ~IsWord(s, i + 2) THEN Fail
     ELSE Parsed(Condition(s[i].text, s[i + 1].text, s[i + 2].text), i + 3)

RECURSIVE ParseOr(_, _), OrRest(_, _), ParseAnd(_, _), AndRest(_, _), ParseUnary(_, _)

ParseUnary(s, i) ==
  IF StartsNot(s, i)
  THEN LET child == ParseUnary(s, i + 1)
       IN IF child.ok THEN Parsed(Not(child.expr), child.next) ELSE Fail
  ELSE IF TokenIs(s, i, Paren("("))
  THEN LET child == ParseOr(s, i + 1)
       IN IF child.ok /\ TokenIs(s, child.next, Paren(")"))
          THEN Parsed(child.expr, child.next + 1) ELSE Fail
  ELSE ParseCondition(s, i)

AndRest(s, left) ==
  LET i == left.next
      right == ParseUnary(s, IF HasKeyword(s, i, "and") THEN i + 1 ELSE i)
  IN IF \/ i > Len(s) \/ HasKeyword(s, i, "or") \/ TokenIs(s, i, Paren(")"))
        \/ ~HasKeyword(s, i, "and") /\ ~StartsExpression(s, i)
     THEN left
     ELSE IF ~right.ok THEN Fail
     ELSE AndRest(s, Parsed(And(left.expr, right.expr), right.next))

ParseAnd(s, i) ==
  LET left == ParseUnary(s, i) IN IF left.ok THEN AndRest(s, left) ELSE Fail

OrRest(s, left) ==
  LET right == ParseAnd(s, left.next + 1)
  IN IF ~HasKeyword(s, left.next, "or") THEN left
     ELSE IF ~right.ok THEN Fail
     ELSE OrRest(s, Parsed(Or(left.expr, right.expr), right.next))

\* Broken: OR binds as tightly as AND.
ParseOrFlat(s, i) ==
  LET left == ParseUnary(s, i)
      after == IF left.ok THEN left.next ELSE i
      right == ParseOr(s, after + 1)
  IN IF ~left.ok THEN Fail
     ELSE IF HasKeyword(s, after, "or")
     THEN IF right.ok THEN Parsed(Or(left.expr, right.expr), right.next) ELSE Fail
     ELSE IF HasKeyword(s, after, "and")
     THEN IF right.ok THEN Parsed(And(left.expr, right.expr), right.next) ELSE Fail
     ELSE AndRest(s, left)

ParseOr(s, i) ==
  LET left == ParseAnd(s, i) IN IF left.ok THEN OrRest(s, left) ELSE Fail

ParseFilter(s) ==
  LET all == ParseOr(s, 1)
  IN IF all.ok /\ all.next = Len(s) + 1 THEN {all.expr} ELSE {}

-----------------------------------------------------------------------------
(* What a filter may say, and which rows it keeps. *)

\* Columns that only a filter takes, and two of those that are sorted by too.
Special == {"completed", "text"}
Builtin == {"status", "due"}

\* Operators each kind of column takes.
ValidOperator(column, operator) ==
  CASE column = "text" -> operator \in {"=", "!=", "~"}
    [] column = "completed" -> operator \in {"=", "!="}
    [] OTHER -> operator \in Comparisons

RECURSIVE Valid(_)
Valid(e) ==
  IF e.op = "is" THEN /\ e.column \in Special \cup Builtin
                      /\ ValidOperator(e.column, e.operator)
  ELSE /\ Valid(e.left)
       /\ e.op # "not" => Valid(e.right)

\* A filter the prompt accepts.
Accepted(s) == \E e \in ParseFilter(s) : Valid(e)

-----------------------------------------------------------------------------
(* The reference the parser is checked against: the grammar in the comment *)
(* of ParseFilter, read as the set of expressions a stretch of tokens has. *)
(*   or ::= and {OR and}    and ::= unary {[AND] unary}                    *)
(*   unary ::= (NOT | !) unary | "(" or ")" | value [operator value]       *)

RECURSIVE GrammarOr(_), GrammarAnd(_), GrammarUnary(_)
Until(s, i) == SubSeq(s, 1, i - 1)
From(s, i) == SubSeq(s, i, Len(s))
GrammarUnary(s) ==
  UNION {
    IF Len(s) > 1 /\ StartsNot(s, 1) THEN {Not(e) : e \in GrammarUnary(Tail(s))} ELSE {},
    IF Len(s) > 2 /\ s[1] = Paren("(") /\ Last(s) = Paren(")")
      THEN GrammarOr(SubSeq(s, 2, Len(s) - 1)) ELSE {},
    IF Len(s) = 1 /\ IsWord(s, 1) THEN {Condition("text", "~", s[1].text)} ELSE {},
    IF /\ Len(s) = 3 /\ IsWord(s, 1) /\ IsWord(s, 3)
       /\ s[2].kind = "op" /\ s[2].text # "!"
      THEN {Condition(s[1].text, s[2].text, s[3].text)} ELSE {}}
\* An implicit AND is not followed by the word NOT.
GrammarAnd(s) ==
  GrammarUnary(s) \cup
  UNION {{And(l, r) : l \in GrammarAnd(Until(s, i)), r \in GrammarUnary(From(s, i))}
         : i \in {j \in 2..Len(s) : StartsExpression(s, j)}} \cup
  UNION {{And(l, r) : l \in GrammarAnd(Until(s, i)), r \in GrammarUnary(From(s, i + 1))}
         : i \in {j \in 2..(Len(s) - 1) : HasKeyword(s, j, "and")}}
GrammarOr(s) ==
  GrammarAnd(s) \cup
  UNION {{Or(l, r) : l \in GrammarOr(Until(s, i)), r \in GrammarAnd(From(s, i + 1))}
         : i \in {j \in 2..(Len(s) - 1) : HasKeyword(s, j, "or")}}

-----------------------------------------------------------------------------
(* Tab: what is offered where.  before is the text up to the word under    *)
(* the cursor, frag the part of that word typed, "" between words.         *)

EndsWith(s, t) == s # <<>> /\ Last(s) = t
HasOp(s) == \E i \in DOMAIN s : s[i].kind = "op"
EndsWithBoolean(s) == s # <<>> /\ Last(s).kind = "value" /\ IsBoolean(Last(s))
BooleanPrefix(frag) == frag # "" /\ Begins[frag] \cap Booleans # {}
IsColumn(word) == word \in Special \cup Builtin
OpenParens(s) == Len(SelectSeq(s, LAMBDA t : t = Paren("(")))
                 - Len(SelectSeq(s, LAMBDA t : t = Paren(")")))

\* An operator waits for a value of the column before it.
AfterOperator(s) ==
  /\ Len(s) > 1
  /\ Last(s).kind = "op" /\ Last(s).text # "!"
  /\ s[Len(s) - 1].kind = "value" /\ s[Len(s) - 1].text \notin Booleans

\* Broken: a value that is a boolean word is offered without quotes.
OfferedValueBare(word) == Bare(word)

OfferedValue(word) == IF word \in Booleans THEN Quoted(word) ELSE Bare(word)
ColumnOffers == {Bare(c) : c \in Special \cup Builtin}
OperatorOffers(column) ==
  {Op(o) : o \in IF column = "due" THEN Comparisons ELSE Comparisons \ {">"}}
ValueOffers(column) ==
  CASE column = "status" -> {OfferedValue(v) : v \in Statuses}
    [] column = "completed" -> {Bare("true"), Bare("false")}
    [] OTHER -> {}
BooleanOffers(s) ==
  {Bare(b) : b \in Booleans} \cup IF OpenParens(s) > 0 THEN {Paren(")")} ELSE {}
Matching(offers, frag) ==
  IF frag = "" THEN offers ELSE {t \in offers : t.kind = "value" /\ t.text \in Begins[frag]}

Replace(offers, frag) == [keep |-> FALSE, offers |-> Matching(offers, frag)]
Keep(offers) == [keep |-> TRUE, offers |-> offers]

FilterCompletion(s, frag) ==
  CASE AfterOperator(s) -> Replace(ValueOffers(s[Len(s) - 1].text), frag)
    [] /\ ~AfterOperator(s) /\ ~HasOp(s) /\ frag = "" /\ s # <<>>
       /\ IsColumn(Last(s).text) -> Keep(OperatorOffers(Last(s).text))
    [] /\ ~HasOp(s) /\ IsColumn(frag)
       /\ s = <<>> \/ EndsWithBoolean(s) \/ EndsWith(s, Paren("(")) ->
         Keep(OperatorOffers(frag))
    [] /\ ~AfterOperator(s) /\ HasOp(s) /\ ~EndsWithBoolean(s)
       /\ frag = "" \/ BooleanPrefix(frag)
       /\ frag = "" => ~EndsWith(s, Paren("(")) -> Replace(BooleanOffers(s), frag)
    [] OTHER ->
         Replace(ColumnOffers \cup
                 (IF s = <<>> /\ (frag = "" \/ BooleanPrefix(frag))
                  THEN {Bare("not")} ELSE {}), frag)

-----------------------------------------------------------------------------
(* The order of rows: ordered criteria, missing values last.  A row is a   *)
(* function from columns to values.                                        *)

Criterion == [column : Builtin, descending : BOOLEAN]

\* Criteria the prompt accepts: no column twice.
SortAccepted(criteria) ==
  /\ \A i \in DOMAIN criteria : criteria[i].column \in Builtin
  /\ \A i, j \in DOMAIN criteria :
       i # j => criteria[i].column # criteria[j].column

\* The first criterion that tells two rows apart decides.
Before(c, l, r) ==
  IF (l[c.column] = Missing) # (r[c.column] = Missing) THEN r[c.column] = Missing
  ELSE IF c.descending THEN l[c.column] > r[c.column] ELSE l[c.column] < r[c.column]
Equal(c, l, r) == l[c.column] = r[c.column]

Less(criteria, l, r) ==
  \E i \in DOMAIN criteria :
    /\ \A j \in 1..(i - 1) : Equal(criteria[j], l, r)
    /\ Before(criteria[i], l, r)

\* A stable sort: each row goes behind every row it is not less than.
RECURSIVE SortTaskRows(_, _)
SortTaskRows(criteria, rows) ==
  IF rows = <<>> THEN <<>>
  ELSE LET sorted == SortTaskRows(criteria, Front(rows))
           at == Cardinality({i \in DOMAIN sorted : ~Less(criteria, Last(rows), sorted[i])})
       IN InsertAt(sorted, at + 1, Last(rows))

-----------------------------------------------------------------------------
(* The filter prompt.  chosen is what tab put behind or in place of frag;  *)
(* tab again puts another offer there, any other key keeps it.             *)

Nothing == [kind |-> "none", text |-> "", quoted |-> FALSE]
Empty == [before |-> <<>>, frag |-> "", chosen |-> Nothing]

FragmentText(p) == IF p.frag = "" THEN <<>> ELSE <<Bare(p.frag)>>
TabText(p, t) ==
  IF FilterCompletion(p.before, p.frag).keep
  THEN p.before \o FragmentText(p) \o <<t>> ELSE Append(p.before, t)
PromptText(p) == IF p.chosen = Nothing THEN p.before \o FragmentText(p) ELSE TabText(p, p.chosen)

QueryInit == prompt = Empty

\* Any key but tab goes on from what is shown.
Type(t) ==
  /\ Len(PromptText(prompt)) < MaxTokens
  /\ prompt' = [Empty EXCEPT !.before = Append(PromptText(prompt), t)]

TypeFragment(f) ==
  /\ Len(PromptText(prompt)) < MaxTokens
  /\ prompt' = [Empty EXCEPT !.before = PromptText(prompt), !.frag = f]

Tab ==
  /\ Len(PromptText(prompt)) <= MaxTokens
  /\ \E t \in FilterCompletion(prompt.before, prompt.frag).offers \ {prompt.chosen} :
       prompt' = [prompt EXCEPT !.chosen = t]

\* Enter closes the prompt if the filter is accepted, escape always.
SubmitInput == Accepted(PromptText(prompt)) /\ prompt' = Empty
CancelInput == prompt # Empty /\ prompt' = Empty

QueryNext ==
  \/ \E t \in FilterToken : Type(t)
  \/ \E f \in Fragments : TypeFragment(f)
  \/ Tab
  \/ SubmitInput
  \/ CancelInput

QuerySpec == QueryInit /\ [][QueryNext]_prompt

-----------------------------------------------------------------------------
(* Properties *)

\* The recursive descent of ParseFilter accepts what the documented grammar
\* does and gives the one expression the grammar has: AND binds tighter than
\* OR, both group to the left, NOT takes what follows, nothing is left over
\* (filter_expression.go, parseOr to parseCondition).
ParserFollowsGrammar == ParseFilter(PromptText(prompt)) = GrammarOr(PromptText(prompt))

\* The text can still become a filter the prompt accepts.
WithParensClosed(s) == s \o [i \in 1..OpenParens(s) |-> Paren(")")]
Viable(s) ==
  \E end \in {<<>>, <<Bare("open")>>, <<Op("="), Bare("open")>>,
              <<Bare("status"), Op("="), Bare("open")>>} :
    Accepted(WithParensClosed(s \o end))

\* Offers of the code that are refused: NOT after a condition (only ! may
\* follow one), ~ for completed, AND, OR or ) after !, and AND or OR after (.
Refused(p, t) ==
  \/ t = Bare("not") /\ HasOp(p.before) /\ ~EndsWithBoolean(p.before)
  \/ t = Op("~") /\ Last(p.before \o FragmentText(p)) = Bare("completed")
  \/ EndsWith(p.before, Op("!"))
  \/ t.text \in {"and", "or"} /\ EndsWith(p.before, Paren("("))

\* Whatever else tab offers leads on to a filter that is accepted, when what is
\* typed so far does (view_completion.go against filter_expression.go).
OffersAreAccepted ==
  Viable(prompt.before) =>
    \A t \in FilterCompletion(prompt.before, prompt.frag).offers :
      Refused(prompt, t) \/ Viable(TabText(prompt, t))

\* The same of every offer, which the code does not keep.
EveryOfferIsAccepted ==
  Viable(prompt.before) =>
    \A t \in FilterCompletion(prompt.before, prompt.frag).offers :
      Viable(TabText(prompt, t))

\* Sorting loses no row, respects the criteria, keeps rows that the criteria do
\* not tell apart in their order, and puts rows without a value last in either
\* direction (sort.go, sortTaskRows).
SampleRows == [1..3 -> [Builtin -> 0..2]]
RowsOf(rows) == [i \in 1..3 |-> [id |-> i, status |-> rows[i]["status"],
                                  due |-> rows[i]["due"]]]
SortIsStable ==
  prompt = Empty =>
    \A criteria \in {c \in SeqOf(Criterion, 2) : SortAccepted(c)}, rows \in SampleRows :
      LET s == SortTaskRows(criteria, RowsOf(rows))
      IN /\ Range(s) = Range(RowsOf(rows))
         /\ \A j \in 1..3 : \A i \in 1..(j - 1) :
              /\ ~Less(criteria, s[j], s[i])
              /\ s[i].id < s[j].id \/ Less(criteria, s[i], s[j])
              /\ criteria = <<>> \/ s[i][criteria[1].column] # Missing
                 \/ s[j][criteria[1].column] = Missing

==============================================================================
