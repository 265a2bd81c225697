---------------------------- MODULE ParserObject ----------------------------
(***************************************************************************)
(* class parser, as a caller uses it: a grammar is loaded from its text or *)
(* from a blob, saved, given packrat parsing, and parsed with, from the    *)
(* start rule or from another.  What a parse makes of its input is the     *)
(* matter of ParseEngine; here it numbers the rules for its tables, once   *)
(* for each rule that is parsed from.  One text and one input for a text.  *)
(***************************************************************************)
EXTENDS GrammarBlob

CONSTANTS Texts,
          Careless      \* the caller parses from any rule, names rules that do not
                        \* exist and reads damaged blobs into a parser in use

VARIABLES text,                 \* the grammar text at hand
          loaded, rules, start, \* grammar_ (loaded: it is not null) and start_
          enablePackratParsing,
          blob,                 \* what the caller has saved
          ids,                  \* Definition::id of the rules of grammar_
          tables                \* for each rule parsed from, its definition_ids_ and
                                \* packrat_index_
vars == <<text, loaded, rules, start, enablePackratParsing, blob, ids, tables>>

NoBlob == [items |-> <<>>, rules |-> <<>>, start |-> NoName]
NoIds == 0

Init ==
  /\ text \in Texts
  /\ loaded = FALSE /\ rules = <<>> /\ start = NoName /\ enablePackratParsing = FALSE
  /\ blob = NoBlob /\ ids = <<>> /\ tables = <<>>

\* A new Grammar has new Definitions.
Replaced(rs) ==
  /\ rules' = rs /\ tables' = <<>>
  /\ ids' = [r \in DOMAIN rs |-> NoIds]

load_grammar ==
  LET load == perform_core(text)
  IN /\ loaded' = load.ok /\ start' = load.start /\ enablePackratParsing' = load.packrat
     /\ Replaced(load.rules)
     /\ UNCHANGED <<text, blob>>

\* The operator -> throws when it meets a null grammar; so does the caller.
serialize_grammar ==
  LET items == serialize(rules, start)
  IN /\ loaded /\ items # Unserializable
     /\ blob' = [items |-> items, rules |-> rules, start |-> start]
     /\ UNCHANGED <<text, loaded, rules, start, enablePackratParsing, ids, tables>>

\* The first n items of the blob.
load_blob(n) ==
  LET read == deserialize(SubSeq(blob.items, 1, n), start)
  IN /\ start' = read.start
     /\ IF read.ok
        THEN /\ loaded' = TRUE /\ Replaced(read.rules)
             /\ enablePackratParsing' = read.rules[read.start].enablePackratParsing
        ELSE UNCHANGED <<loaded, rules, ids, tables, enablePackratParsing>>
     /\ UNCHANGED <<text, blob>>

enable_packrat_parsing ==
  /\ loaded
  /\ rules' = [rules EXCEPT ![start].enablePackratParsing = enablePackratParsing]
  /\ UNCHANGED <<text, loaded, start, enablePackratParsing, blob, ids, tables>>

disable_eoi_check ==
  /\ loaded
  /\ rules' = [rules EXCEPT ![start].eoi_check = FALSE]
  /\ UNCHANGED <<text, loaded, start, enablePackratParsing, blob, ids, tables>>

\* parser[name] makes the rule that does not exist.
NewName == "Typo"
operator_index(name) ==
  /\ loaded
  /\ IF name \in DOMAIN rules THEN UNCHANGED <<rules, ids>>
     ELSE /\ rules' = (name :> Definition(NoNode)) @@ rules
          /\ ids' = (name :> NoIds) @@ ids
  /\ UNCHANGED <<text, loaded, start, enablePackratParsing, blob, tables>>

----------------------------------------------------------------------------
(* AssignIDToDefinition: the rules in the order in which a walk from one   *)
(* of them first meets them.                                               *)
RECURSIVE Met(_, _)
MetAll(opes, seen) == FoldLeft(LAMBDA s, e : Met(e, s), seen, opes)
MetRule(name, seen) ==
  IF name \in ToSet(seen) THEN seen ELSE Met(rules[name].body, Append(seen, name))
Met(e, seen) ==
  CASE e.op \in {"seq", "cho"} -> MetAll(e.kids, seen)
    [] e.op = "ref" -> MetRule(e.name, seen)
    [] e.op = "pre" -> MetAll(<<e.atom, e.binop>>, seen)
    [] e.op \in Unary -> Met(e.kid, seen)
    [] OTHER -> seen

\* The start rule skips white space and knows of words.
SkipsOf(from) ==
  IF from # start THEN <<>>
  ELSE LET has == SelectSeq(<<"%whitespace", "%word">>, LAMBDA r : r \in DOMAIN rules)
       IN [k \in DOMAIN has |-> rules[has[k]].body]

initialize_definition_ids(from) == MetAll(SkipsOf(from), MetRule(from, <<>>))

\* A rule's place in the tables of a parse; the rules that have none are
\* guarded only.
Guarded == -1
initialize_packrat_filter(from, met) ==
  LET grammar == [rules |-> Seen(rules), start |-> from,
                  whitespace |-> IF SkipsOf(from) = <<>> THEN NoNode ELSE Seqn(SkipsOf(from))]
      benefits == PackratFilter(grammar, {r \in DOMAIN rules : rules[r].can_be_empty})
      cached(k) == met[k] \in benefits
  IN [k \in DOMAIN met |-> IF cached(k) THEN Cardinality({l \in 1 .. k - 1 : cached(l)}) ELSE Guarded]

\* Definition::parse: the first one of a rule numbers the rules, and the first
\* with packrat parsing decides what is memoized.  Ids start from 1 here.  A
\* filter that is set up over the ids of another rule is left out.
IdsOf(met) == [r \in ToSet(met) |-> CHOOSE k \in DOMAIN met : met[k] = r]
Numbered(met) == \A k \in DOMAIN met : ids'[met[k]] = k
parse(from) ==
  LET met == initialize_definition_ids(from)
      known == from \in DOMAIN tables
      filtered == known /\ tables[from].index # <<>>
      index == initialize_packrat_filter(from, met)
      table == [size |-> Len(met),
                index |-> IF filtered THEN tables[from].index
                          ELSE IF rules[from].enablePackratParsing THEN index ELSE <<>>]
  IN /\ loaded /\ from \in DOMAIN rules
     /\ ids' = IF known THEN ids ELSE IdsOf(met) @@ ids
     /\ tables' = (from :> table) @@ tables
     /\ filtered \/ table.index = <<>> \/ Numbered(met)
     /\ UNCHANGED <<text, loaded, rules, start, enablePackratParsing, blob>>

Next ==
  \/ load_grammar \/ serialize_grammar \/ enable_packrat_parsing \/ disable_eoi_check
  \/ \E n \in 0 .. Len(blob.items) :
       /\ n < Len(blob.items) => Careless \/ ~loaded
       /\ load_blob(n)
  \/ \E name \in DOMAIN rules \cup (IF Careless THEN {NewName} ELSE {}) : operator_index(name)
  \/ \E from \in DOMAIN rules : (Careless \/ from = start) /\ parse(from)
Spec == Init /\ [][Next]_vars
=============================================================================
