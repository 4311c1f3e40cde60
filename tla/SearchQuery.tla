---------------------------- MODULE SearchQuery ----------------------------
(***************************************************************************)
(* SearchQueryInput (query/mod.rs): the tree of a search query, and what   *)
(* into_tantivy_query makes of it for one document.                        *)
(*                                                                         *)
(* The query parser is one object for the whole tree: a Parse node with    *)
(* conjunction_mode switches it to conjunctions and nothing switches it    *)
(* back, so IntoTantivyQuery passes that setting from node to node in the  *)
(* order in which the code visits them.                                    *)
(*                                                                         *)
(* A document has terms <<field, path, word>> (path is "" unless the field *)
(* is JSON) and a range column.  How tantivy compares words (positions,    *)
(* edit distance, expansions of a prefix or a pattern) is its own affair:  *)
(* a fuzzy term is its word, and a phrase the words it consists of, which  *)
(* the documents here have in that order if they have them at all.         *)
(***************************************************************************)
EXTENDS Sequences, TLC, RangeQueries

CONSTANTS
  TextField,   \* the names of the indexed text fields
  JsonField    \* and of the JSON fields

Field == TextField \cup JsonField

Default == CHOOSE f \in TextField : TRUE

\* The nodes.
All                     == [op |-> "all"]
Empty                   == [op |-> "empty"]
Term(field, path, word) == [op |-> "term", field |-> field, path |-> path, word |-> word]
TermAnywhere(word)      == [op |-> "term_anywhere", word |-> word]
FuzzyTerm(field, path, word) ==
  [op |-> "fuzzy_term", field |-> field, path |-> path, word |-> word]
FuzzyPhrase(field, path, words, match_all_terms) ==
  [op |-> "fuzzy_phrase", field |-> field, path |-> path, words |-> words, all |-> match_all_terms]
Phrase(field, path, words) ==
  [op |-> "phrase", field |-> field, path |-> path, words |-> words]
PhrasePrefix(field, path, words) ==
  [op |-> "phrase_prefix", field |-> field, path |-> path, words |-> words]
Exists(field)           == [op |-> "exists", field |-> field]
Regex(field, path, word) ==
  [op |-> "regex", field |-> field, path |-> path, word |-> word]
RegexPhrase(field, path, word) ==
  [op |-> "regex_phrase", field |-> field, path |-> path, word |-> word]
TermSet(terms)          == [op |-> "term_set", terms |-> terms]
MoreLikeThis(words)     == [op |-> "more_like_this", words |-> words]
Parse(words, conj)      == [op |-> "parse", words |-> words, conj |-> conj]
Boolean(must, should, must_not) ==
  [op |-> "boolean", must |-> must, should |-> should, must_not |-> must_not]
DisjunctionMax(qs)      == [op |-> "disjunction_max", disjuncts |-> qs]
Wrapped(kind, q)        == [op |-> kind, query |-> q]
RangeRelation(rel, type, lower, upper) ==
  [op |-> "range", rel |-> rel, type |-> type, lower |-> lower, upper |-> upper]

Wrappers == {"boost", "const_score", "with_index"}

Children(q) ==
  CASE q.op = "boolean" -> q.must \o q.should \o q.must_not
    [] q.op = "disjunction_max" -> q.disjuncts
    [] q.op \in Wrappers -> <<q.query>>
    [] OTHER -> <<>>

RECURSIVE ContainsMoreLikeThis(_)
ContainsMoreLikeThis(q) ==
  \/ q.op = "more_like_this"
  \/ \E i \in DOMAIN Children(q) : ContainsMoreLikeThis(Children(q)[i])

-----------------------------------------------------------------------------
(* Leaves.                                                                 *)

HasWord(doc, field, path, word) == <<field, path, word>> \in doc.terms

\* value_to_term: the path counts for JSON fields only.
ValueToTerm(field, path, word) == <<field, IF field \in JsonField THEN path ELSE "", word>>

\* split_field_and_path, then as_field_type on the field alone ...
SplitLookup(q) == q.field \in Field

\* ... or as_field_type on the whole name.
WholeLookup(q, fields) == q.field \in fields /\ q.path = ""

\* tantivy's BooleanQuery: without a Must clause a Should clause has to
\* match, so a query of MustNot clauses alone matches nothing.
BooleanMatches(must, should, mustNot) ==
  /\ \A i \in DOMAIN must : must[i]
  /\ \A i \in DOMAIN mustNot : ~mustNot[i]
  /\ must = <<>> => \E i \in DOMAIN should : should[i]

\* One clause for each token of the phrase, Must or Should.
FuzzyPhraseMatches(q, doc) ==
  LET terms == [i \in DOMAIN q.words |-> ValueToTerm(q.field, q.path, q.words[i]) \in doc.terms]
  IN  IF q.all THEN BooleanMatches(terms, <<>>, <<>>) ELSE BooleanMatches(<<>>, terms, <<>>)

\* TermSet and Regex forget to split the field's name, and RegexPhrase
\* forgets the path.
Leaf(q, doc) ==
  LET Has(t) == ValueToTerm(t.field, t.path, t.word) \in doc.terms
  IN
  CASE q.op = "all"   -> [ok |-> TRUE, match |-> TRUE]
    [] q.op = "empty" -> [ok |-> TRUE, match |-> FALSE]
    [] q.op \in {"term", "fuzzy_term"} -> [ok |-> SplitLookup(q), match |-> Has(q)]
    [] q.op = "term_anywhere" ->
         [ok |-> TRUE, match |-> \E f \in Field : ValueToTerm(f, "", q.word) \in doc.terms]
    [] q.op \in {"phrase", "phrase_prefix"} ->
         [ok |-> SplitLookup(q),
          match |-> \A i \in DOMAIN q.words : ValueToTerm(q.field, q.path, q.words[i]) \in doc.terms]
    [] q.op = "fuzzy_phrase" -> [ok |-> SplitLookup(q), match |-> FuzzyPhraseMatches(q, doc)]
    [] q.op = "exists" -> [ok |-> q.field \in Field, match |-> \E t \in doc.terms : t[1] = q.field]
    [] q.op = "regex" -> [ok |-> WholeLookup(q, TextField), match |-> Has(q)]
    [] q.op = "regex_phrase" ->
         [ok |-> SplitLookup(q), match |-> \E t \in doc.terms : t[1] = q.field /\ t[3] = q.word]
    [] q.op = "term_set" ->
         [ok |-> \A i \in DOMAIN q.terms : WholeLookup(q.terms[i], Field),
          match |-> \E i \in DOMAIN q.terms : Has(q.terms[i])]
    [] q.op = "more_like_this" ->
         [ok |-> TRUE, match |-> \E w \in q.words : HasWord(doc, Default, "", w)]
    [] q.op = "range" -> [ok |-> TRUE, match |-> RangeLeaf(q, doc)]

\* The query string "a b" asks for both words or for one of them.
ParseMatches(words, conj, doc) ==
  IF conj THEN \A w \in words : HasWord(doc, Default, "", w)
          ELSE \E w \in words : HasWord(doc, Default, "", w)

-----------------------------------------------------------------------------
RECURSIVE IntoTantivyQuery(_, _, _), IntoAll(_, _, _)

\* [ok, match, conj]: whether the query could be built, whether it matches,
\* and the parser's setting afterwards.
IntoTantivyQuery(q, doc, conj) ==
  CASE q.op = "parse" ->
         LET mode == conj \/ q.conj
         IN  [ok |-> TRUE, match |-> ParseMatches(q.words, mode, doc), conj |-> mode]
    [] q.op = "boolean" ->
         LET rs == IntoAll(q.must \o q.should \o q.must_not, doc, conj)
             m  == Len(q.must)
             s  == Len(q.should)
             ms == [i \in DOMAIN rs |-> rs[i].match]
         IN  [ok    |-> \A i \in DOMAIN rs : rs[i].ok,
              match |-> BooleanMatches(SubSeq(ms, 1, m), SubSeq(ms, m + 1, m + s),
                                       SubSeq(ms, m + s + 1, Len(ms))),
              conj  |-> IF rs = <<>> THEN conj ELSE rs[Len(rs)].conj]
    [] q.op = "disjunction_max" ->
         LET rs == IntoAll(q.disjuncts, doc, conj)
         IN  [ok    |-> \A i \in DOMAIN rs : rs[i].ok,
              match |-> \E i \in DOMAIN rs : rs[i].match,
              conj  |-> IF rs = <<>> THEN conj ELSE rs[Len(rs)].conj]
    [] q.op \in Wrappers -> IntoTantivyQuery(q.query, doc, conj)
    [] OTHER -> Leaf(q, doc) @@ [conj |-> conj]

IntoAll(qs, doc, conj) ==
  IF qs = <<>> THEN <<>>
  ELSE LET first == IntoTantivyQuery(Head(qs), doc, conj)
       IN  <<first>> \o IntoAll(Tail(qs), doc, first.conj)

-----------------------------------------------------------------------------
(* What a query asks for, for reference.                                   *)

RECURSIVE Means(_, _)
Means(q, doc) ==
  CASE q.op = "all"   -> TRUE
    [] q.op = "empty" -> FALSE
    [] q.op \in {"term", "fuzzy_term", "regex", "regex_phrase"} ->
         HasWord(doc, q.field, q.path, q.word)
    [] q.op = "term_anywhere" -> \E f \in Field : HasWord(doc, f, "", q.word)
    [] q.op \in {"phrase", "phrase_prefix"} ->
         \A i \in DOMAIN q.words : HasWord(doc, q.field, q.path, q.words[i])
    [] q.op = "fuzzy_phrase" ->
         LET found == {i \in DOMAIN q.words : HasWord(doc, q.field, q.path, q.words[i])}
         IN  found # {} /\ (q.all => found = DOMAIN q.words)
    [] q.op = "exists" -> \E t \in doc.terms : t[1] = q.field
    [] q.op = "term_set" ->
         \E i \in DOMAIN q.terms : HasWord(doc, q.terms[i].field, q.terms[i].path, q.terms[i].word)
    [] q.op = "more_like_this" -> \E w \in q.words : HasWord(doc, Default, "", w)
    [] q.op = "parse" -> ParseMatches(q.words, q.conj, doc)
    [] q.op = "range" -> RangeMeans(q, doc)
    [] q.op = "boolean" ->
         /\ \A i \in DOMAIN q.must : Means(q.must[i], doc)
         /\ \A i \in DOMAIN q.must_not : ~Means(q.must_not[i], doc)
         /\ q.must = <<>> => \E i \in DOMAIN q.should : Means(q.should[i], doc)
    [] q.op = "disjunction_max" -> \E i \in DOMAIN q.disjuncts : Means(q.disjuncts[i], doc)
    [] q.op \in Wrappers -> Means(q.query, doc)

\* The leaves of a query.
RECURSIVE Leaves(_)
Leaves(q) ==
  IF Children(q) = <<>> THEN {q}
  ELSE UNION {Leaves(Children(q)[i]) : i \in DOMAIN Children(q)}
=============================================================================
