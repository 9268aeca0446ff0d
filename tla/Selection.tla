----------------------------- MODULE Selection -----------------------------
(***************************************************************************)
(* Selectors over labels and the walks of paged views                      *)
(* (routing.rs: Selector, StoreCandidateReader; label.rs;                  *)
(* resource/select.rs; paging.rs; the page_ queries of supervisor.rs).     *)
(*                                                                         *)
(* A text is a sequence of tokens: a character, or a word the parser       *)
(* never splits (a key, "in", "notin").  Only the order of tokens stands   *)
(* for the byte order of texts; any total order would do.                  *)
(***************************************************************************)
EXTENDS Integers, Sequences, FiniteSets, SequencesExt

CONSTANTS
  Alphabet,      \* the tokens, in their order
  Custom,        \* keys of the `labels` category
  MaxInput,      \* SELECTOR_INPUT_MAX_BYTES
  MaxPredicates, \* SELECTOR_MAX_PREDICATES
  MaxSet,        \* SELECTOR_MAX_SET_VALUES
  MaxValue,      \* LABEL_VALUE_MAX_BYTES
  MaxLabels,     \* LABEL_SET_MAX_ENTRIES
  MaxPage,       \* MAX_VIEW_PAGE_ITEMS, DEFAULT_PAGE_LIMIT
  NumNames,      \* names are their place in canonical order
  Own,           \* the node's own name
  Inserts,       \* the label insertions a writer may make
  Limits         \* the page limits a caller may ask for

VARIABLES
  text,    \* the expression a caller gave
  selector, \* what Selector::parse made of it
  means,   \* the predicates of the text as written
  kind,    \* which pages are walked
  catalog, \* what is stored under each name
  frozen,  \* the one snapshot of a candidate reader
  walk,    \* cursor, names received and whether pages remain
  steady,  \* names that were live and meant by the text at every step so far
  ever     \* names that were at some step

selectionVars == <<text, selector, means, kind, catalog, frozen, walk, steady, ever>>

-----------------------------------------------------------------------------
(* The parser                                                               *)

\* char::is_whitespace knows more than the four characters an escape can name;
\* "nb", the non-breaking space, stands for the others.
Whitespace == {"sp", "nl", "nb"}
Delimiters == {"=", "!", "(", ")", ",", "\\"}
Special == Delimiters \cup {"sp"}

\* The reserved keys, and the one spelling that QualifiedTag::parse lowers.
Reserved == {"type", "uri"}
Tag(word) == IF word = "K" THEN "k" ELSE word

Failed == [ok |-> FALSE]

\* LabelKey::parse and LabelValue::parse accept these.
LabelKey(key) == key \in Custom
LabelValue(value) == value # <<>> /\ Len(value) <= MaxValue

\* The first position from p on whose token ends a run of tokens of set S.
End(t, p, S) ==
  CHOOSE q \in p .. Len(t) + 1 :
    /\ q > Len(t) \/ t[q] \notin S
    /\ \A r \in p .. q - 1 : t[r] \in S

Peek(t, p) == IF p > Len(t) THEN "" ELSE t[p]

skip_whitespace(t, p) == End(t, p, Whitespace)

parse_key(t, p) ==
  LET q == End(t, p, Range(Alphabet) \ (Whitespace \cup Delimiters))
  IN  IF q = p + 1 /\ (LabelKey(Tag(t[p])) \/ Tag(t[p]) \in Reserved)
      THEN [ok |-> TRUE, at |-> q, key |-> Tag(t[p])]
      ELSE Failed

unescape(c) == IF c = "n" THEN "nl" ELSE c

RECURSIVE Value(_, _, _, _)
Value(t, p, in_list, value) ==
  LET c == Peek(t, p) IN
  CASE c = "\\" -> IF Peek(t, p + 1) \in Special \cup {"n"}
                   THEN Value(t, p + 2, in_list, Append(value, unescape(t[p + 1])))
                   ELSE Failed
    [] c \in Whitespace \cup {""} \/ (in_list /\ c \in {",", ")"}) ->
         IF LabelValue(value) THEN [ok |-> TRUE, at |-> p, value |-> value] ELSE Failed
    [] c \in {"(", "=", "!"} \/ (~in_list /\ c \in {",", ")"}) -> Failed
    [] OTHER -> Value(t, p + 1, in_list, Append(value, c))

parse_value(t, p, in_list) == Value(t, p, in_list, <<>>)

\* The items of a list, from behind its parenthesis or a comma.
RECURSIVE Items(_, _, _)
Items(t, p, values) ==
  IF Len(values) >= MaxSet THEN Failed
  ELSE LET v == parse_value(t, skip_whitespace(t, p), TRUE) IN
       IF ~v.ok THEN Failed
       ELSE LET q == skip_whitespace(t, v.at)
                more == Append(values, v.value)
            IN  CASE Peek(t, q) = "," -> Items(t, q + 1, more)
                  [] Peek(t, q) = ")" -> [ok |-> TRUE, at |-> q + 1, values |-> more]
                  [] OTHER -> Failed

parse_set(t, p) == IF Peek(t, p) = "(" THEN Items(t, p + 1, <<>>) ELSE Failed

Predicate(at, op, key, values) ==
  [ok |-> TRUE, at |-> at, predicate |-> [op |-> op, key |-> key, values |-> values]]

\* The predicate of a key and what follows it from p on.  A key that stands
\* alone leaves the cursor where it was: whitespace and a bare "!" belong to
\* the next predicate.
parse_operator_tail(t, p, key) ==
  LET q == skip_whitespace(t, p)
      compared(op, at) ==
        LET v == parse_value(t, skip_whitespace(t, at), FALSE)
        IN  IF v.ok THEN Predicate(v.at, op, key, <<v.value>>) ELSE Failed
      member(op) ==
        LET s == parse_set(t, skip_whitespace(t, q + 1))
        IN  IF s.ok THEN Predicate(s.at, op, key, s.values) ELSE Failed
  IN  CASE Peek(t, q) = "=" -> compared("eq", q + 1)
        [] Peek(t, q) = "!" /\ Peek(t, q + 1) = "=" -> compared("ne", q + 2)
        [] /\ Peek(t, q) \in {"in", "notin"}
           /\ Peek(t, q + 1) \in Whitespace \cup {"", "("} -> member(t[q])
        [] OTHER -> Predicate(p, "exists", key, <<>>)

RECURSIVE Stream(_, _, _, _)
Stream(t, p, bounded, predicates) ==
  LET q == skip_whitespace(t, p) IN
  IF q > Len(t) THEN [ok |-> TRUE, predicates |-> predicates]
  ELSE IF bounded /\ Len(predicates) >= MaxPredicates THEN Failed
  ELSE LET negated == t[q] = "!"
           k == parse_key(t, IF negated THEN q + 1 ELSE q)
           p1 == IF ~k.ok THEN Failed
                 ELSE IF negated THEN Predicate(k.at, "absent", k.key, <<>>)
                 ELSE parse_operator_tail(t, k.at, k.key)
       IN  IF p1.ok THEN Stream(t, p1.at, bounded, Append(predicates, p1.predicate)) ELSE Failed

parse_predicate_stream(t, bounded) == Stream(t, 1, bounded, <<>>)

-----------------------------------------------------------------------------
(* The canonical text                                                       *)

Rank(c) == CHOOSE i \in DOMAIN Alphabet : Alphabet[i] = c

\* The order of texts, and a set of texts as a sorted sequence.
Precedes(s, t) ==
  \/ IsStrictPrefix(s, t)
  \/ \E i \in DOMAIN s \cap DOMAIN t :
       SubSeq(s, 1, i - 1) = SubSeq(t, 1, i - 1) /\ Rank(s[i]) < Rank(t[i])
Sorted(texts) == SetToSortSeq(texts, Precedes)

Joined(texts, by) ==
  FlattenSeq([i \in DOMAIN texts |-> IF i = 1 THEN texts[i] ELSE <<by>> \o texts[i]])

escape_value(value) ==
  FlattenSeq([i \in DOMAIN value |->
    IF value[i] = "nl" THEN <<"\\", "n">>
    ELSE IF value[i] \in Special THEN <<"\\", value[i]>>
    ELSE <<value[i]>>])

\* Members are sorted and deduplicated before they are escaped.
canonical_set(values) ==
  LET sorted == Sorted(Range(values))
  IN  Joined([i \in DOMAIN sorted |-> escape_value(sorted[i])], ",")

canonical(p) ==
  CASE p.op = "exists" -> <<p.key>>
    [] p.op = "absent" -> <<"!", p.key>>
    [] p.op = "eq" -> <<p.key, "=">> \o escape_value(p.values[1])
    [] p.op = "ne" -> <<p.key, "!", "=">> \o escape_value(p.values[1])
    [] OTHER -> <<p.key, "sp", p.op, "sp", "(">> \o canonical_set(p.values) \o <<")">>

\* Selector::parse.  The predicates kept are those of the canonical text.
parse(t) ==
  LET raw == IF t = <<>> \/ Len(t) > MaxInput THEN Failed ELSE parse_predicate_stream(t, TRUE)
      canon == Joined(Sorted({canonical(raw.predicates[i]) : i \in DOMAIN raw.predicates}), "sp")
  IN  IF ~raw.ok THEN Failed
      ELSE IF raw.predicates = <<>> \/ Len(canon) > MaxInput THEN Failed
      ELSE LET reparsed == parse_predicate_stream(canon, FALSE)
           IN  IF reparsed.ok
               THEN [ok |-> TRUE, canonical |-> canon, predicates |-> reparsed.predicates]
               ELSE Failed

-----------------------------------------------------------------------------
(* Labels and matching                                                      *)

\* An absent label is found as the empty value, which no label has.
Absent == <<>>

matches(p, found) ==
  CASE p.op = "exists" -> found # Absent
    [] p.op = "absent" -> found = Absent
    [] p.op \in {"eq", "in"} -> found # Absent /\ found \in Range(p.values)
    [] OTHER -> found = Absent \/ found \notin Range(p.values)

\* LabelSet::insert, once, and for a sequence of insertions of which the first
\* that is refused fails the whole (ResourceLabels::custom).
insert(labels, key, value) ==
  IF \/ ~LabelKey(key) \/ ~LabelValue(value)
     \/ key \in DOMAIN labels \/ Cardinality(DOMAIN labels) >= MaxLabels
  THEN Failed
  ELSE [ok |-> TRUE, labels |-> [k \in DOMAIN labels \cup {key} |->
                                   IF k = key THEN value ELSE labels[k]]]

Labelled(inserts) ==
  FoldLeft(LAMBDA l, i : IF l.ok THEN insert(l.labels, i[1], i[2]) ELSE l,
           [ok |-> TRUE, labels |-> [k \in {} |-> Absent]], inserts)

\* What a key resolves to: record_matches for a resource; a node descriptor
\* has custom labels only (Selector::matches).
Lookup(entry, key) ==
  IF kind = "resources" /\ key \in Reserved THEN entry[key]
  ELSE IF key \in DOMAIN entry.labels THEN entry.labels[key]
  ELSE Absent

matches_with(predicates, entry) ==
  \A i \in DOMAIN predicates : matches(predicates[i], Lookup(entry, predicates[i].key))

-----------------------------------------------------------------------------
(* Pages                                                                    *)

Names == 1 .. NumNames
Nothing == [removed |-> TRUE, stored |-> FALSE]
Live(entries, n) == ~entries[n].removed

\* The names in a table or a store, and those among them that are live and that
\* the predicates select.
Stored(entries) == {n \in Names : entries[n].stored}
Living(entries) == {n \in Names : Live(entries, n)}
Chosen(entries, predicates) == {n \in Living(entries) : matches_with(predicates, entries[n])}

\* What the pages of this kind are meant to list; for a selection, what the text
\* says as it was written.
Selecting == {"resources", "candidates"}
Meant(entries) ==
  CASE kind \in Selecting -> Chosen(entries, means)
    [] kind = "sessions" -> Living(entries)
    [] OTHER -> Stored(entries)

Clamp(limit) == IF limit < 1 THEN 1 ELSE IF limit > MaxPage THEN MaxPage ELSE limit

FirstOf(names, limit) ==
  LET sorted == SetToSortSeq(names, <)
  IN  SubSeq(sorted, 1, IF Len(sorted) < limit THEN Len(sorted) ELSE limit)

\* A slip: the page resumes behind the entry that was only peeked at.
PastPeeked(entries, selected, cursor, limit) ==
  LET items == FirstOf({n \in selected : n > cursor}, limit)
      further == {n \in entries : n > Last(items)}
      more == Len(items) = limit /\ further # {}
  IN  [items |-> items, next |-> IF more THEN Min(further) ELSE 0]

\* scan_paged and page_keys: up to `limit` selected names behind the cursor.  A
\* full page continues only if a further entry is read, selected or not.
Page(entries, selected, cursor, limit) ==
  LET items == FirstOf({n \in selected : n > cursor}, limit)
      more == Len(items) = limit /\ \E n \in entries : n > Last(items)
  IN  [items |-> items, next |-> IF more THEN Last(items) ELSE 0]

\* A snapshot for every page, and the one snapshot of a candidate reader.
select_page(limit) ==
  Page(Stored(catalog), Chosen(catalog, selector.predicates), walk.cursor, limit)
next_matching_nodes(limit) ==
  Page(Stored(frozen), Chosen(frozen, selector.predicates), walk.cursor, limit)

\* A members page first stores the node's own descriptor if there is none.
Entry(labels) ==
  [removed |-> FALSE, stored |-> TRUE, type |-> <<"x">>, uri |-> <<"x">>, labels |-> labels]
ensure_self_descriptor ==
  IF catalog[Own].stored THEN catalog
  ELSE [catalog EXCEPT ![Own] = Entry([k \in {} |-> Absent])]

\* Members with removed ones; sessions that are alive; edges and listeners.
page_members(limit) ==
  Page(Stored(ensure_self_descriptor), Stored(ensure_self_descriptor), walk.cursor, limit)
page_sessions(limit) == Page(Living(catalog), Living(catalog), walk.cursor, limit)
page_topology(limit) == Page(Stored(catalog), Stored(catalog), walk.cursor, limit)
page_listeners(limit) == Page(Stored(catalog), Stored(catalog), walk.cursor, limit)

\* The cursor of trust pages is a number of bindings to skip.
paged_trust(offset, limit) ==
  LET sorted == SetToSortSeq(Stored(catalog), <)
      end == offset + limit
  IN  [items |-> SubSeq(sorted, offset + 1, IF end < Len(sorted) THEN end ELSE Len(sorted)),
       next |-> IF end < Len(sorted) THEN end ELSE 0]
page_trust(limit) == paged_trust(walk.cursor, limit)

NextPage ==
  /\ walk.open
  /\ \E limit \in {Clamp(l) : l \in Limits} :
       LET page == CASE kind = "resources" -> select_page(limit)
                     [] kind = "candidates" -> next_matching_nodes(limit)
                     [] kind = "members" -> page_members(limit)
                     [] kind = "sessions" -> page_sessions(limit)
                     [] kind = "topology" -> page_topology(limit)
                     [] kind = "listeners" -> page_listeners(limit)
                     [] kind = "trust" -> page_trust(limit)
       IN  walk' = [cursor |-> page.next, open |-> page.next # 0, got |-> walk.got \o page.items]
  /\ catalog' = IF kind = "members" THEN ensure_self_descriptor ELSE catalog
  /\ ever' = ever \cup Meant(catalog')
  /\ UNCHANGED <<text, selector, means, kind, frozen, steady>>

\* A name's entry changes between pages.
Change(n, entry) ==
  /\ walk.open
  /\ catalog' = [catalog EXCEPT ![n] = entry]
  /\ steady' = steady \cap Meant(catalog')
  /\ ever' = ever \cup Meant(catalog')
  /\ UNCHANGED <<text, selector, means, kind, frozen, walk>>

\* It becomes a live one; it stays as a removal or a dead session; it goes: the
\* retention sweep takes removals only, a table any entry.  A trust binding is
\* never erased.
Write(n) ==
  \E inserts \in IF kind \in Selecting THEN Inserts ELSE {<<>>} :
    /\ Labelled(inserts).ok
    /\ Change(n, Entry(Labelled(inserts).labels))
Withdraw(n) ==
  /\ kind # "trust" /\ Live(catalog, n)
  /\ Change(n, [removed |-> TRUE, stored |-> TRUE])
Purge(n) ==
  /\ kind # "trust" /\ catalog[n].stored
  /\ Live(catalog, n) => kind \in {"sessions", "topology", "listeners"}
  /\ Change(n, Nothing)

Begin(entries) ==
  /\ catalog = entries
  /\ frozen = entries
  /\ selector = parse(text)
  /\ means = IF selector.ok THEN parse_predicate_stream(text, TRUE).predicates ELSE <<>>
  /\ walk = [cursor |-> 0, open |-> kind \in Selecting => selector.ok, got |-> <<>>]
  /\ steady = IF walk.open THEN Meant(entries) ELSE {}
  /\ ever = steady

SelectionNext ==
  \/ NextPage
  \/ \E n \in Names : Write(n) \/ Withdraw(n) \/ Purge(n)

-----------------------------------------------------------------------------

\* The canonical text is accepted again as itself, with the predicates kept for
\* it, and selects what the text as written means, whatever an entry holds.
RoundTrips ==
  selector.ok =>
    /\ parse(selector.canonical) = selector
    /\ Chosen(catalog, selector.predicates) = Meant(catalog)

\* "Pages the live resource winners matching `selector` in canonical name
\* order", and the other paged views: names come in order and once, none that
\* was never meant, and at the end every name that was meant throughout has
\* come.  Over the one snapshot of a candidate reader this is exactly what the
\* snapshot holds.  Only trust pages, which count bindings, may repeat some.
WalkIsExact ==
  /\ kind # "trust" => \A i, j \in DOMAIN walk.got : i < j => walk.got[i] < walk.got[j]
  /\ Range(walk.got) \subseteq IF kind = "candidates" THEN Meant(frozen) ELSE ever
  /\ ~walk.open /\ (kind \in Selecting => selector.ok) =>
       (IF kind = "candidates" THEN Meant(frozen) ELSE steady) \subseteq Range(walk.got)
=============================================================================
