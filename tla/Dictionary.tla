----------------------------- MODULE Dictionary -----------------------------
(***************************************************************************)
(* Trie and Dictionary: the operator 'a' | 'b' | ..., which matches the    *)
(* longest of its words.                                                   *)
(***************************************************************************)
EXTENDS CharacterClass

Lower(text) == [i \in DOMAIN text |-> tolower(text[i])]
Folded(text, ignore_case) == IF ignore_case THEN Lower(text) ELSE text

\* dic_ once the first len characters of the item number id are in it.
EnterEnds(dic, item, len, id) ==
  LET sv == SubSeq(item, 1, len)
  IN (sv :> [done |-> len = Len(item), match |-> len = Len(item) \/ (sv \in DOMAIN dic /\ dic[sv].match),
             id |-> IF sv \in DOMAIN dic THEN dic[sv].id ELSE id]) @@ dic
EnterLatest(dic, item, len, id) ==
  LET sv == SubSeq(item, 1, len)
      had == sv \in DOMAIN dic
  IN (sv :> [done |-> len = Len(item) /\ (had => dic[sv].done),
             match |-> len = Len(item) \/ (had /\ dic[sv].match), id |-> id]) @@ dic
Enter(dic, item, len, id) ==
  LET last == len = Len(item)
      sv == SubSeq(item, 1, len)
  IN IF sv \notin DOMAIN dic THEN (sv :> [done |-> last, match |-> last, id |-> id]) @@ dic
     ELSE IF last THEN [dic EXCEPT ![sv].match = TRUE]
     ELSE [dic EXCEPT ![sv].done = FALSE]

Trie(items, ignore_case) ==
  LET add(dic, id) ==
        LET item == Folded(items[id + 1], ignore_case)
        IN FoldLeft(LAMBDA d, len : Enter(d, item, len, id), dic, [k \in DOMAIN item |-> k])
      lens == {Len(items[k]) : k \in DOMAIN items}
  IN [dic |-> FoldLeft(add, <<>>, [k \in DOMAIN items |-> k - 1]), ignore_case |-> ignore_case,
      items_count |-> Len(items), max_len |-> CHOOSE n \in lens : \A l \in lens : l <= n]

\* The length of the match, and the id of the last entry that matched.
TrieMatch(trie, text) ==
  LET limit == IF Len(text) < trie.max_len THEN Len(text) ELSE trie.max_len
      folded == Folded(text, trie.ignore_case)
      entry(len) == trie.dic[SubSeq(folded, 1, len)]
      known(len) == SubSeq(folded, 1, len) \in DOMAIN trie.dic
      seen == {n \in 1 .. limit : /\ \A l \in 1 .. n : known(l)
                                  /\ \A l \in 1 .. n - 1 : ~entry(l).done}
      found == {n \in seen : entry(n).match}
      best == CHOOSE n \in found : \A l \in found : l <= n
  IN IF found = {} THEN [len |-> 0, id |-> -1] ELSE [len |-> best, id |-> entry(best).id]

----------------------------------------------------------------------------
\* The white space at s; none when there is no whitespaceOpe.
skip_whitespace(blanks, s) ==
  LET ends == {i \in 0 .. Len(s) : \A j \in 0 .. i - 1 : Unit(s, j) \in blanks}
  IN CHOOSE i \in ends : \A j \in ends : j <= i

\* word: the characters of which a word must not go on, blanks: those of the
\* white space.  choice is what the operator leaves in the values, nothing
\* where it did not get to that.
DictionaryMatch(trie, word, blanks, s) ==
  LET m == TrieMatch(trie, s)
      rest == From(s, m.len)
      goes_on == rest # <<>> /\ Head(rest) \in word
  IN IF m.len = 0 THEN [len |-> Fail, choice |-> -1]
     ELSE IF goes_on THEN [len |-> Fail, choice |-> m.id]
     ELSE [len |-> m.len + skip_whitespace(blanks, rest), choice |-> m.id]
=============================================================================
