----------------------------- MODULE PegGrammar -----------------------------
(***************************************************************************)
(* Parsing expressions as data: one constructor per operator class of      *)
(* peglib.h and per factory (seq, cho, zom, tok, ...).  A character is a   *)
(* string of length one, a text a sequence of characters; a text's length  *)
(* in bytes is its length here.                                            *)
(***************************************************************************)
EXTENDS Integers, Sequences

Fail == -1            \* static_cast<size_t>(-1), the length of no match
Inf  == -1            \* numeric_limits<size_t>::max() as a repetition's max_
NoNode == [op |-> "none"]
NoName == ""          \* a null Definition *, an empty std::string
NoText == <<>>        \* a null literal

\* cls (without a ^), chr; of all characters: dot
Chr(set)      == [op |-> "chr", set |-> set]
Lit(text)     == [op |-> "lit", text |-> text]
Seqn(kids)    == [op |-> "seq", kids |-> kids]
\* first[k]: the bytes that may start alternative k, every byte when its
\* first set says any_char or can_be_empty; named[k]: what an error says was
\* expected of alternative k.  <<>> before SetupFirstSets.
Cho(kids)     == [op |-> "cho", kids |-> kids, for_label |-> FALSE, first |-> <<>>, named |-> <<>>]
\* span: the repetition has a span_bitset_
Rep(e, min, max) == [op |-> "rep", kid |-> e, min |-> min, max |-> max, span |-> FALSE]
And(e)        == [op |-> "and", kid |-> e]
Not(e)        == [op |-> "not", kid |-> e]
Cap(name, e)  == [op |-> "cap", name |-> name, kid |-> e]
Csc(e)        == [op |-> "csc", kid |-> e]
Tok(e)        == [op |-> "tok", kid |-> e]
Ign(e)        == [op |-> "ign", kid |-> e]
Wsp(e)        == [op |-> "wsp", kid |-> e]
Ref(name)     == [op |-> "ref", name |-> name]
Back(name)    == [op |-> "bkr", name |-> name]
\* The operand is the macro call %recover(label), which comes to the label's
\* rule; the analyses see a parameter there, as GrammarAnalysis says.
Rec(label)    == [op |-> "rec", kid |-> Ref(label)]
Cut           == [op |-> "cut"]

\* k matches of a repetition are enough, and as many as it may have.
Saturated(e, k) == k >= e.min /\ e.max # Inf /\ k >= e.max

Zom(e) == Rep(e, 0, Inf)
Oom(e) == Rep(e, 1, Inf)
Opt(e) == Rep(e, 0, 1)
\* e^label
Labelled(e, label) == [Cho(<<e, Rec(label)>>) EXCEPT !.for_label = TRUE]

\* The operators with one operand.
Unary == {"rep", "and", "not", "cap", "csc", "tok", "ign", "wsp", "rec"}

(* A Definition: its operator and the attributes that a parse reads.  The  *)
(* predicate is the set of matched texts it rejects, the action whether    *)
(* there is one; no_whitespace and error_message are the instructions of   *)
(* those names, predicate_message whether a rejection gives a message.     *)
(* token is what FindLiteralToken finds in the body.                       *)
Rule(body) ==
  [body |-> body, is_left_recursive |-> FALSE, cached |-> FALSE, action |-> FALSE,
   rejected |-> {}, ignoreSemanticValue |-> FALSE, no_whitespace |-> FALSE,
   error_message |-> FALSE, predicate_message |-> FALSE, is_token |-> FALSE, token |-> NoText]

(* A grammar: its rules, the start rule, the operator of %whitespace (or   *)
(* NoNode) and %word, which is a repetition of one character class: its    *)
(* set of characters, {} when there is none.  first_sets: SetupFirstSets   *)
(* has been over it.  definition_ids: the rules that the start rule        *)
(* reaches, once AssignIDToDefinition has been over it.                    *)
Grammar(rules, start, whitespace, word) ==
  [rules |-> rules, start |-> start, word |-> word, has_cut |-> FALSE, first_sets |-> FALSE,
   definition_ids |-> {},
   whitespace |-> IF whitespace = NoNode THEN NoNode ELSE Wsp(Ign(whitespace))]

(* A text stands at p.  One that begins like a word is a whole word.       *)
StandsAt(text, p, in, word) ==
  /\ p + Len(text) <= Len(in) /\ \A q \in 1 .. Len(text) : in[p + q] = text[q]
  /\ text # <<>> /\ text[1] \in word =>
       \/ p + Len(text) = Len(in)
       \/ in[p + Len(text) + 1] \notin word

(* A grammar whose operators are those in N: every operand and every rule  *)
(* referred to is there, which the loader checks of a grammar text         *)
(* (ReferenceChecker) and the user sees to otherwise.                      *)
WellFormed(gr, N) ==
  /\ Ref(gr.start) \in N /\ gr.whitespace \in N \cup {NoNode}
  /\ \A r \in DOMAIN gr.rules : gr.rules[r].body \in N
  /\ \A e \in N : /\ e.op \in {"seq", "cho"} => e.kids \in Seq(N)
                  /\ e.op \in Unary => e.kid \in N
                  /\ e.op = "lit" => e.text \in Seq(STRING)
                  /\ e.op = "rep" => e.min \in Nat /\ e.max \in Nat \cup {Inf}
                  /\ e.op = "ref" => e.name \in DOMAIN gr.rules
=============================================================================
