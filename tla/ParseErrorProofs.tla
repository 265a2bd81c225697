-------------------------- MODULE ParseErrorProofs --------------------------
(***************************************************************************)
(* Proofs about what a parse reports: what an error says was expected is   *)
(* not there, and a failure is always reported.                            *)
(***************************************************************************)
EXTENDS ParseErrors, ParseMeaningProofs

(* Max is the greatest element of a set of numbers that has one.           *)
LEMMA MaxFacts ==
  ASSUME NEW n \in Nat, NEW T, T \subseteq 1 .. n, T # {}
  PROVE  Max(T) \in T /\ \A k \in T : k <= Max(T)
<1> DEFINE D == {n - t : t \in T}
<1>0. \A t \in T : t \in Nat /\ n - t \in Nat
  OBVIOUS
<1>1. D \subseteq Nat /\ D # {}
  <2>1. PICK t \in T : TRUE
    OBVIOUS
  <2>2. n - t \in D
    BY <2>1
  <2> QED BY <1>0, <2>2
<1>2. PICK d \in D : \A k \in D : d <= k
  <2> HIDE DEF D
  <2> QED BY <1>1, Least
<1>3. PICK m \in T : d = n - m
  BY <1>2
<1>4. \A k \in T : m >= k
  <2> TAKE k \in T
  <2>1. n - k \in D
    OBVIOUS
  <2>2. n - m <= n - k
    BY <1>2, <1>3, <2>1
  <2> QED BY <1>0, <2>2
<1>5. \E x \in T : \A y \in T : x >= y
  BY <1>4
<1>6. Max(T) \in T /\ \A y \in T : Max(T) >= y
  BY <1>5 DEF Max
<1> QED BY <1>6

(* A part of a sequence is a sequence.                                     *)
LEMMA SubSeqIs ==
  ASSUME NEW s, IsSeq(s), NEW m \in Nat, NEW n \in 0 .. Len(s)
  PROVE  /\ IsSeq(SubSeq(s, m + 1, n))
         /\ m = 0 => Len(SubSeq(s, m + 1, n)) = n /\ \A k \in 1 .. n : SubSeq(s, m + 1, n)[k] = s[k]
<1>1. Len(s) \in Nat /\ DOMAIN s = 1 .. Len(s)
  BY SeqFacts
<1>2. \A k \in m + 1 .. n : s[k] \in ToSet(s)
  BY <1>1 DEF ToSet
<1>3. /\ SubSeq(s, m + 1, n) \in Seq(ToSet(s))
      /\ Len(SubSeq(s, m + 1, n)) = IF m + 1 <= n THEN n - (m + 1) + 1 ELSE 0
      /\ \A i \in 1 .. n - (m + 1) + 1 : SubSeq(s, m + 1, n)[i] = s[m + 1 + i - 1]
  BY <1>1, <1>2, SubSeqProperties
<1>4. IsSeq(SubSeq(s, m + 1, n))
  BY <1>3, SeqIsSeq
<1>5. ASSUME m = 0
      PROVE  Len(SubSeq(s, m + 1, n)) = n /\ \A k \in 1 .. n : SubSeq(s, m + 1, n)[k] = s[k]
  <2>1. n \in Nat /\ n - (m + 1) + 1 = n /\ \A i \in 1 .. n : m + 1 + i - 1 = i
    BY <1>1, <1>5
  <2> QED BY <1>3, <1>5, <2>1
<1> QED BY <1>4, <1>5

----------------------------------------------------------------------------
(* What becomes of an ErrorInfo.                                           *)
Says(info) == InfoOK(info) /\ AllAbsent(info)

\* Nothing that it reports is lost.
Lasts(old, new) ==
  /\ Recorded(old) => Recorded(new)
  /\ new.last_output_pos = old.last_output_pos

Info(error_pos, tokens, message_pos, message, label, last, keep) ==
  [error_pos |-> error_pos, expected_tokens |-> tokens, message_pos |-> message_pos,
   message |-> message, label |-> label, last_output_pos |-> last, keep_previous_token |-> keep]

(* An ErrorInfo is the record of its fields, of their types.               *)
LEMMA InfoParts ==
  ASSUME NEW info, InfoOK(info)
  PROVE  /\ info = Info(info.error_pos, info.expected_tokens, info.message_pos, info.message,
                        info.label, info.last_output_pos, info.keep_previous_token)
         /\ info.error_pos \in Places \cup {NoPos} /\ info.message_pos \in Places \cup {NoPos}
         /\ info.last_output_pos \in Places \cup {NoPos} /\ IsSeq(info.expected_tokens)
BY DEF InfoOK, Info

(* A record of such fields is an ErrorInfo.                                *)
LEMMA InfoMade ==
  ASSUME NEW error_pos \in Places \cup {NoPos}, NEW tokens, IsSeq(tokens),
         NEW message_pos \in Places \cup {NoPos}, NEW message, NEW label,
         NEW last \in Places \cup {NoPos}, NEW keep
  PROVE  InfoOK(Info(error_pos, tokens, message_pos, message, label, last, keep))
BY DEF InfoOK, Info

(* With its list of expected tokens empty, it says nothing.                *)
LEMMA SaysNothing ==
  ASSUME NEW info, InfoOK(info), info.expected_tokens = <<>> PROVE Says(info)
<1>1. ToSet(<<>>) = {}
  BY NoFrames DEF ToSet
<1> QED BY <1>1 DEF Says, AllAbsent

(* A failure at p, no earlier than the last, moves the list on to p or     *)
(* keeps what was expected there.                                          *)
LEMMA FailingSays ==
  ASSUME job \in Jobs, NEW info, InfoOK(info), NEW p \in Places, ~(info.error_pos > p), NEW keep
  PROVE  LET new == Failing(info, p, keep) IN
         /\ InfoOK(new) /\ new.error_pos = p /\ new.last_output_pos = info.last_output_pos
         /\ new.keep_previous_token = info.keep_previous_token
         /\ AllAbsent(info) => AllAbsent(new)
<1> DEFINE new == Failing(info, p, keep)
           made == Info(p, <<>>, info.message_pos, info.message, info.label, info.last_output_pos,
                        info.keep_previous_token)
<1>1. /\ info = Info(info.error_pos, info.expected_tokens, info.message_pos, info.message,
                     info.label, info.last_output_pos, info.keep_previous_token)
      /\ info.error_pos \in Places \cup {NoPos} /\ info.message_pos \in Places \cup {NoPos}
      /\ info.last_output_pos \in Places \cup {NoPos} /\ IsSeq(<<>>)
  BY InfoParts, NoFrames
<1>2. p \in Nat /\ (info.error_pos \in Nat \/ info.error_pos = NoPos)
  BY <1>1, InputFacts
<1>3. CASE info.error_pos < p \/ ~keep
  <2>1. new = made
    BY <1>1, <1>3 DEF Failing, Info
  <2>2. InfoOK(made)
    BY <1>1, InfoMade
  <2>3. /\ made.error_pos = p /\ made.last_output_pos = info.last_output_pos
        /\ made.keep_previous_token = info.keep_previous_token /\ made.expected_tokens = <<>>
    BY DEF Info
  <2> HIDE DEF made, new
  <2>4. Says(new)
    BY <2>1, <2>2, <2>3, SaysNothing
  <2> QED BY <2>1, <2>2, <2>3, <2>4 DEF Says, new
<1>4. CASE ~(info.error_pos < p) /\ keep
  BY <1>2, <1>4 DEF Failing, NoPos
<1> QED BY <1>3, <1>4

(* What is added to the list must be absent too.                           *)
LEMMA AddSays ==
  ASSUME NEW info, InfoOK(info), NEW literal, NEW rule
  PROVE  LET new == add(info, literal, rule) IN
         /\ InfoOK(new) /\ new.error_pos = info.error_pos /\ new.message_pos = info.message_pos
         /\ new.last_output_pos = info.last_output_pos
         /\ new.keep_previous_token = info.keep_previous_token
         /\ AllAbsent(info) /\ (literal # NoText => Absent(literal, info.error_pos)) => AllAbsent(new)
<1> DEFINE new == add(info, literal, rule)
           tokens == Append(info.expected_tokens, <<literal, rule>>)
           made == Info(info.error_pos, tokens, info.message_pos, info.message, info.label,
                        info.last_output_pos, info.keep_previous_token)
<1>1. /\ info = Info(info.error_pos, info.expected_tokens, info.message_pos, info.message,
                     info.label, info.last_output_pos, info.keep_previous_token)
      /\ info.error_pos \in Places \cup {NoPos} /\ info.message_pos \in Places \cup {NoPos}
      /\ info.last_output_pos \in Places \cup {NoPos} /\ IsSeq(info.expected_tokens)
  BY InfoParts
<1>2. IsSeq(tokens) /\ ToSet(tokens) = ToSet(info.expected_tokens) \cup {<<literal, rule>>}
  <2>1. /\ IsSeq(tokens) /\ DOMAIN tokens = 1 .. Len(info.expected_tokens) + 1
        /\ DOMAIN info.expected_tokens = 1 .. Len(info.expected_tokens)
        /\ Len(info.expected_tokens) \in Nat
        /\ tokens[Len(info.expected_tokens) + 1] = <<literal, rule>>
        /\ \A k \in 1 .. Len(info.expected_tokens) : tokens[k] = info.expected_tokens[k]
    BY <1>1, AppendFacts, SeqFacts
  <2> DEFINE n == Len(info.expected_tokens)  old == info.expected_tokens
  <2> HIDE DEF tokens, old
  <2>2. \A t : t \in ToSet(tokens) <=> \E k \in 1 .. n + 1 : t = tokens[k]
    BY <2>1 DEF ToSet
  <2>3. \A t : t \in ToSet(old) <=> \E k \in 1 .. n : t = old[k]
    BY <2>1 DEF ToSet, old
  <2>4. \A k : k \in 1 .. n + 1 <=> k \in 1 .. n \/ k = n + 1
    BY <2>1
  <2>5. tokens[n + 1] = <<literal, rule>> /\ \A k \in 1 .. n : tokens[k] = old[k]
    BY <2>1 DEF old
  <2> HIDE DEF n
  <2>6. \A t : t \in ToSet(tokens) <=> t \in ToSet(old) \/ t = <<literal, rule>>
    BY <2>2, <2>3, <2>4, <2>5
  <2> QED BY <2>1, <2>6 DEF old
<1>3. new = info \/ new = made
  BY <1>1 DEF add, Info
<1>4. InfoOK(made)
  BY <1>1, <1>2, InfoMade
<1>5. /\ made.error_pos = info.error_pos /\ made.last_output_pos = info.last_output_pos
      /\ made.keep_previous_token = info.keep_previous_token /\ made.expected_tokens = tokens
      /\ made.message_pos = info.message_pos
  BY DEF Info
<1> HIDE DEF new, made, tokens
<1>6. ASSUME AllAbsent(info), literal # NoText => Absent(literal, info.error_pos) PROVE AllAbsent(made)
  BY <1>2, <1>5, <1>6 DEF AllAbsent
<1> QED BY <1>3, <1>4, <1>5, <1>6 DEF new

(* So may a failure that is recorded at p.                                 *)
LEMMA FailureSays ==
  ASSUME job \in Jobs, NEW info, InfoOK(info), NEW p \in Places, ~(info.error_pos > p),
         NEW keep, NEW literal, NEW rule
  PROVE  LET new == add(Failing(info, p, keep), literal, rule) IN
         /\ InfoOK(new) /\ Recorded(new) /\ Lasts(info, new)
         /\ new.keep_previous_token = info.keep_previous_token
         /\ AllAbsent(info) /\ (literal # NoText => Absent(literal, p)) => AllAbsent(new)
<1> DEFINE mid == Failing(info, p, keep)  new == add(mid, literal, rule)
<1>1. /\ InfoOK(mid) /\ mid.error_pos = p /\ mid.last_output_pos = info.last_output_pos
      /\ mid.keep_previous_token = info.keep_previous_token
      /\ AllAbsent(info) => AllAbsent(mid)
  BY FailingSays
<1> HIDE DEF mid
<1>2. /\ InfoOK(new) /\ new.error_pos = mid.error_pos /\ new.last_output_pos = mid.last_output_pos
      /\ new.keep_previous_token = mid.keep_previous_token
      /\ AllAbsent(mid) /\ (literal # NoText => Absent(literal, mid.error_pos)) => AllAbsent(new)
  BY <1>1, AddSays
<1> HIDE DEF new
<1>3. Recorded(new) /\ Lasts(info, new)
  BY <1>1, <1>2, InputFacts DEF Recorded, Lasts
<1> QED BY <1>1, <1>2, <1>3 DEF new, mid

(* set_error_pos: if the literal it adds is absent.                        *)
LEMMA SetErrorSays ==
  ASSUME job \in Jobs, InfoOK(error_info), NEW p \in Places, NEW literal, set_error_pos(p, literal)
  PROVE  /\ InfoOK(error_info') /\ Lasts(error_info, error_info')
         /\ Logging => Recorded(error_info')
         /\ AllAbsent(error_info) /\ (error_literal(literal) # NoText => Absent(error_literal(literal), p))
              => AllAbsent(error_info')
<1>1. p \in Nat /\ error_info.error_pos \in Places \cup {NoPos}
  BY InfoParts, InputFacts
<1>2. CASE ~Logging \/ error_info.error_pos > p
  <2>1. error_info' = error_info
    BY <1>2 DEF set_error_pos
  <2>2. error_info.error_pos > p => Recorded(error_info)
    BY <1>1 DEF Recorded, NoPos
  <2> QED BY <1>2, <2>1, <2>2 DEF Lasts
<1>3. CASE Logging /\ ~(error_info.error_pos > p)
  <2>1. error_info' = add(Failing(error_info, p, error_info.keep_previous_token), error_literal(literal), error_rule)
    BY <1>3 DEF set_error_pos
  <2> QED BY <1>3, <2>1, FailureSays
<1> QED BY <1>2, <1>3

Messaged(info, p, message) == [info EXCEPT !.message_pos = p, !.message = message]
Labelling(info, p, message) == [info EXCEPT !.message_pos = p, !.message = message, !.label = message]

(* A message changes nothing of that.                                      *)
LEMMA MessageSays ==
  ASSUME NEW info, InfoOK(info), NEW p \in Places, job \in Jobs, NEW message, NEW new,
         new = Messaged(info, p, message) \/ new = Labelling(info, p, message)
  PROVE  /\ InfoOK(new) /\ Recorded(new) /\ Lasts(info, new) /\ (AllAbsent(info) => AllAbsent(new))
         /\ new.message_pos = p
<1>1. /\ info = Info(info.error_pos, info.expected_tokens, info.message_pos, info.message,
                     info.label, info.last_output_pos, info.keep_previous_token)
      /\ info.error_pos \in Places \cup {NoPos} /\ p \in Places \cup {NoPos}
      /\ info.last_output_pos \in Places \cup {NoPos} /\ IsSeq(info.expected_tokens)
  BY InfoParts
<1>2. PICK label : new = Info(info.error_pos, info.expected_tokens, p, message, label,
                              info.last_output_pos, info.keep_previous_token)
  BY <1>1 DEF Info, Messaged, Labelling
<1>3. InfoOK(new)
  BY <1>1, <1>2, InfoMade
<1>4. /\ new.error_pos = info.error_pos /\ new.expected_tokens = info.expected_tokens
      /\ new.message_pos = p /\ new.last_output_pos = info.last_output_pos
  BY <1>2 DEF Info
<1> QED BY <1>3, <1>4, InputFacts DEF Recorded, Lasts, AllAbsent

(* Nor does the flag for the next alternative.                             *)
LEMMA KeepSays ==
  ASSUME NEW info, InfoOK(info), NEW keep
  PROVE  LET new == [info EXCEPT !.keep_previous_token = keep] IN
         /\ InfoOK(new) /\ Lasts(info, new) /\ (Recorded(info) => Recorded(new))
         /\ (AllAbsent(info) => AllAbsent(new))
<1> DEFINE new == [info EXCEPT !.keep_previous_token = keep]
<1>1. /\ info = Info(info.error_pos, info.expected_tokens, info.message_pos, info.message,
                     info.label, info.last_output_pos, info.keep_previous_token)
      /\ info.error_pos \in Places \cup {NoPos} /\ info.message_pos \in Places \cup {NoPos}
      /\ info.last_output_pos \in Places \cup {NoPos} /\ IsSeq(info.expected_tokens)
  BY InfoParts
<1>2. new = Info(info.error_pos, info.expected_tokens, info.message_pos, info.message, info.label,
                 info.last_output_pos, keep)
  BY <1>1 DEF Info
<1> HIDE DEF new
<1>3. InfoOK(new)
  BY <1>1, <1>2, InfoMade
<1>4. /\ new.error_pos = info.error_pos /\ new.expected_tokens = info.expected_tokens
      /\ new.message_pos = info.message_pos /\ new.last_output_pos = info.last_output_pos
  BY <1>2 DEF Info
<1>5. InfoOK(new) /\ Lasts(info, new) /\ (Recorded(info) => Recorded(new)) /\ (AllAbsent(info) => AllAbsent(new))
  BY <1>3, <1>4 DEF Recorded, Lasts, AllAbsent
<1> QED BY <1>5 DEF new

----------------------------------------------------------------------------
(* The alternatives that a choice filters out.                             *)
NameAbsent(e, p, k) == e.named[k][1] # NoText => Absent(e.named[k][1], p)
HasName(e, k)       == e.named[k] # <<NoText, NoName>>

(* One of them.                                                            *)
LEMMA FilteringSays ==
  ASSUME job \in Jobs, NEW info, InfoOK(info), NEW e, NEW p \in Places, NEW k
  PROVE  LET new == Filtering(info, e, p, k) IN
         /\ InfoOK(new) /\ Lasts(info, new)
         /\ Logging /\ HasName(e, k) => Recorded(new)
         /\ AllAbsent(info) /\ NameAbsent(e, p, k) => AllAbsent(new)
<1> DEFINE new == Filtering(info, e, p, k)
<1>1. p \in Nat /\ info.error_pos \in Places \cup {NoPos}
  BY InfoParts, InputFacts
<1>2. CASE ~Logging \/ ~HasName(e, k) \/ info.error_pos > p
  <2>1. new = info
    BY <1>2 DEF Filtering, HasName
  <2>2. info.error_pos > p => Recorded(info)
    BY <1>1 DEF Recorded, NoPos
  <2> QED BY <1>2, <2>1, <2>2 DEF Lasts
<1>3. CASE Logging /\ HasName(e, k) /\ ~(info.error_pos > p)
  <2>1. new = add(Failing(info, p, k > 1), e.named[k][1], e.named[k][2])
    BY <1>3 DEF Filtering, HasName
  <2> HIDE DEF new
  <2>2. InfoOK(new) /\ Recorded(new) /\ Lasts(info, new) /\ (AllAbsent(info) /\ NameAbsent(e, p, k) => AllAbsent(new))
    BY <1>3, <2>1, FailureSays DEF NameAbsent
  <2> QED BY <2>2 DEF new
<1> QED BY <1>2, <1>3

Filters(f, e, p, first, last) ==
  f = [k \in 0 .. last |-> IF k < first THEN error_info ELSE Filtering(f[k - 1], e, p, k)]

(* The error information after each of them is well defined.               *)
LEMMA FiltersExist ==
  ASSUME NEW e, NEW p, NEW first \in Nat \ {0}, NEW last \in Nat
  PROVE  \E f : Filters(f, e, p, first, last)
<1> DEFINE Bad == {n \in Nat : ~\E f : Filters(f, e, p, first, n)}
<1>1. CASE Bad = {}
  BY <1>1
<1>2. CASE Bad # {}
  <2>1. PICK l \in Bad : \A m \in Bad : l <= m
    <3> HIDE DEF Bad
    <3>1. Bad \subseteq Nat
      BY DEF Bad
    <3> QED BY <1>2, <3>1, Least
  <2>2. l \in Nat /\ ~\E f : Filters(f, e, p, first, l)
    BY <2>1
  <2>3. CASE l < first
    <3>1. \A k \in 0 .. l : k < first
      BY <2>2, <2>3
    <3> DEFINE f == [k \in 0 .. l |-> error_info]
    <3>2. Filters(f, e, p, first, l)
      BY <3>1 DEF Filters
    <3> QED BY <2>2, <3>2
  <2>4. CASE ~(l < first)
    <3>1. l - 1 \in Nat /\ l \in Nat /\ l >= first
      BY <2>2, <2>4
    <3>2. l - 1 \notin Bad
      <4> HIDE DEF Bad
      <4> QED BY <2>1, <2>2
    <3>3. PICK h : Filters(h, e, p, first, l - 1)
      BY <3>1, <3>2
    <3> DEFINE f == [k \in 0 .. l |-> IF k = l THEN Filtering(h[l - 1], e, p, l) ELSE h[k]]
    <3>4. \A k \in 0 .. l - 1 : h[k] = IF k < first THEN error_info ELSE Filtering(h[k - 1], e, p, k)
      BY <3>3 DEF Filters
    <3>5. \A k \in 0 .. l - 1 : f[k] = h[k]
      BY <3>1
    <3>6. f[l] = Filtering(h[l - 1], e, p, l)
      BY <3>1
    <3>7. \A k \in 0 .. l : f[k] = IF k < first THEN error_info ELSE Filtering(f[k - 1], e, p, k)
      <4> TAKE k \in 0 .. l
      <4> HIDE DEF f
      <4>1. CASE k = l
        <5>1. l - 1 \in 0 .. l - 1 /\ ~(k < first)
          BY <3>1, <4>1
        <5> QED BY <3>5, <3>6, <4>1, <5>1
      <4>2. CASE k # l
        <5>1. k \in 0 .. l - 1 /\ (~(k < first) => k - 1 \in 0 .. l - 1)
          BY <3>1, <4>2
        <5> QED BY <3>4, <3>5, <5>1
      <4> QED BY <4>1, <4>2
    <3>8. Filters(f, e, p, first, l)
      <4> DEFINE h1 == [k \in 0 .. l |-> IF k < first THEN error_info ELSE Filtering(f[k - 1], e, p, k)]
      <4>1. f = h1
        BY <3>7
      <4> QED BY <4>1 DEF Filters
    <3> QED BY <2>2, <3>8
  <2> QED BY <2>3, <2>4
<1> QED BY <1>1, <1>2

(* It is what FilterOut leaves.                                            *)
LEMMA FilterOutIs ==
  ASSUME NEW e, NEW p, NEW first \in Nat \ {0}, NEW last \in Nat, NEW keep,
         FilterOut(e, p, first, last, keep)
  PROVE  \E f : /\ Filters(f, e, p, first, last)
                /\ error_info' = [f[last] EXCEPT !.keep_previous_token = keep]
<1> DEFINE f == CHOOSE h : Filters(h, e, p, first, last)
<1>1. Filters(f, e, p, first, last)
  BY FiltersExist
<1>2. error_info' = [f[last] EXCEPT !.keep_previous_token = keep]
  BY DEF FilterOut, Filters
<1> QED BY <1>1, <1>2

(* All of them.                                                            *)
LEMMA FilterOutSays ==
  ASSUME job \in Jobs, InfoOK(error_info), NEW e, NEW p \in Places, NEW first \in Nat \ {0}, NEW last \in Int,
         last >= first - 1, NEW keep, FilterOut(e, p, first, last, keep)
  PROVE  /\ InfoOK(error_info') /\ Lasts(error_info, error_info')
         /\ Logging /\ (\E k \in first .. last : HasName(e, k)) => Recorded(error_info')
         /\ AllAbsent(error_info) /\ (\A k \in first .. last : NameAbsent(e, p, k)) => AllAbsent(error_info')
<1>1. PICK f : Filters(f, e, p, first, last) /\ error_info' = [f[last] EXCEPT !.keep_previous_token = keep]
  <2>1. last \in Nat
    OBVIOUS
  <2> QED BY <2>1, FilterOutIs
<1>2. \A k \in 0 .. last : f[k] = IF k < first THEN error_info ELSE Filtering(f[k - 1], e, p, k)
  BY <1>1 DEF Filters
<1> DEFINE Good(n) == /\ InfoOK(f[n]) /\ Lasts(error_info, f[n])
                      /\ Logging /\ (\E k \in first .. n : HasName(e, k)) => Recorded(f[n])
                      /\ AllAbsent(error_info) /\ (\A k \in first .. n : NameAbsent(e, p, k)) => AllAbsent(f[n])
           Bad == {n \in Nat : n >= first - 1 /\ n <= last /\ ~Good(n)}
<1> HIDE DEF Good
<1>3. ASSUME first - 1 <= last PROVE Good(first - 1)
  <2>1. f[first - 1] = error_info
    BY <1>2, <1>3
  <2>2. \A k \in first .. first - 1 : FALSE
    OBVIOUS
  <2> QED BY <2>1, <2>2 DEF Good, Lasts
<1>4. ASSUME NEW n \in first .. last, Good(n - 1) PROVE Good(n)
  <2>1. f[n] = Filtering(f[n - 1], e, p, n)
    BY <1>2
  <2>2. InfoOK(f[n - 1]) /\ Lasts(error_info, f[n - 1])
    BY <1>4 DEF Good
  <2>3. /\ InfoOK(f[n]) /\ Lasts(f[n - 1], f[n])
        /\ Logging /\ HasName(e, n) => Recorded(f[n])
        /\ AllAbsent(f[n - 1]) /\ NameAbsent(e, p, n) => AllAbsent(f[n])
    BY <2>1, <2>2, FilteringSays
  <2>4. Lasts(error_info, f[n])
    BY <2>2, <2>3 DEF Lasts
  <2>5. \A k \in first .. n : k \in first .. n - 1 \/ k = n
    OBVIOUS
  <2>6. ASSUME Logging, NEW k \in first .. n, HasName(e, k) PROVE Recorded(f[n])
    <3>1. CASE k = n
      BY <2>3, <2>6, <3>1
    <3>2. CASE k # n
      BY <1>4, <2>3, <2>5, <2>6, <3>2 DEF Good, Lasts
    <3> QED BY <3>1, <3>2
  <2>7. ASSUME AllAbsent(error_info), \A k \in first .. n : NameAbsent(e, p, k) PROVE AllAbsent(f[n])
    <3>1. n \in first .. n /\ \A k \in first .. n - 1 : k \in first .. n
      OBVIOUS
    <3>2. NameAbsent(e, p, n) /\ \A k \in first .. n - 1 : NameAbsent(e, p, k)
      BY <2>7, <3>1
    <3> QED BY <1>4, <2>3, <2>7, <3>2 DEF Good
  <2> QED BY <2>3, <2>4, <2>6, <2>7 DEF Good
<1>5. Good(last)
  <2> SUFFICES ASSUME ~Good(last) PROVE FALSE
    OBVIOUS
  <2>1. last \in Bad /\ Bad \subseteq Nat
    OBVIOUS
  <2>2. PICK n \in Bad : \A m \in Bad : n <= m
    <3> HIDE DEF Bad
    <3> QED BY <2>1, Least
  <2>3. n \in Nat /\ n >= first - 1 /\ n <= last /\ ~Good(n)
    BY <2>2
  <2>4. n # first - 1
    BY <1>3, <2>3
  <2>5. n \in first .. last /\ ~Good(n - 1)
    BY <1>4, <2>3, <2>4
  <2>6. n - 1 \in Bad
    BY <2>3, <2>4, <2>5
  <2> QED BY <2>2, <2>3, <2>6
<1>6. /\ InfoOK(error_info') /\ Lasts(f[last], error_info')
      /\ (Recorded(f[last]) => Recorded(error_info')) /\ (AllAbsent(f[last]) => AllAbsent(error_info'))
  <2>1. InfoOK(f[last])
    BY <1>5 DEF Good
  <2> QED BY <1>1, <2>1, KeepSays
<1> QED BY <1>5, <1>6 DEF Good, Lasts

(* A literal that names an alternative starts with one of the bytes that   *)
(* the filter lets pass: it is absent where the filter lets none pass.     *)
LEMMA NamesAbsent ==
  ASSUME job \in Jobs, NEW W, NamesLiterals(Here, W), NEW e \in Own, e.op = "cho", NEW p \in Places,
         NEW k \in 1 .. Len(e.kids), ~MayStart(e, p, k)
  PROVE  NameAbsent(e, p, k)
<1> DEFINE text == e.named[k][1]
<1> SUFFICES ASSUME text # NoText, StandsAt(text, p, input, g.word) PROVE FALSE
  BY DEF NameAbsent, Absent
<1>1. p < Len(input) /\ e.first # <<>> /\ Byte(p) \notin e.first[k]
  BY DEF MayStart
<1>2. text \in Seq(STRING) /\ text[1] \in e.first[k]
  BY <1>1, HereIs DEF NamesLiterals
<1>3. Len(text) \in Nat /\ Len(text) # 0
  BY <1>2, SeqIsSeq DEF NoText
<1>4. input[p + 1] = text[1]
  BY <1>3 DEF StandsAt
<1> QED BY <1>1, <1>2, <1>4 DEF Byte

----------------------------------------------------------------------------
(* How the stack moves: what a frame is of and calls, and what captures    *)
(* its snapshot has.                                                       *)
Pushes(f, e) ==
  /\ Snaps(f) => f.snap.caps = Len(capture_entries)
  /\ \/ f.op = "skip" /\ HasSpace /\ e = g.whitespace
     \/ /\ f.op = node.op /\ f.node = node /\ f.op \notin {"lit", "rule", "body", "skip"}
        /\ node.op \in {"tok", "ign", "wsp"} => e = node.kid
        /\ node.op = "rep" => ~node.span
        /\ node.op = "cho" => f.k \in 1 .. Len(node.kids)

Sets(f, e) ==
  \/ top.op = "tok" /\ f.op = "skip" /\ HasSpace /\ e = g.whitespace
  \/ /\ f.op = top.op /\ top.op \in {"seq", "cho", "rep"}
     /\ Snaps(f) => f.snap.caps \in {Len(capture_entries), top.snap.caps}
     /\ f.op = "cho" => f.node = top.node /\ f.k \in 1 .. Len(f.node.kids)

Shifts ==
  \/ frames' = frames /\ ctl'.do = "return"
  \/ frames # <<>> /\ frames' = Front(frames) /\ ctl'.do = "return"
  \/ \E f : ctl.do = "call" /\ ctl'.do = "call" /\ Pushes(f, ctl'.node) /\ frames' = Append(frames, f)
  \/ \E f : frames # <<>> /\ ctl'.do = "call" /\ Sets(f, ctl'.node) /\ frames' = SetTop(frames, f)

(* Entering an operand is such a move.                                     *)
LEMMA ShiftEnter ==
  ASSUME ctl.do = "call", NEW f, NEW e, Pushes(f, e), NEW p, Enter(f, e, p) PROVE Shifts
<1>1. ctl' = Call(e, p) /\ ctl'.do = "call" /\ ctl'.node = e /\ frames' = Append(frames, f)
  BY DEF Enter, Call
<1> QED BY <1>1 DEF Shifts

(* So is calling the next operand.                                         *)
LEMMA ShiftResume ==
  ASSUME NEW op, Resuming(op), NEW f, NEW e, Sets(f, e), NEW p, Resume(f, e, p) PROVE Shifts
<1>1. ctl' = Call(e, p) /\ ctl'.do = "call" /\ ctl'.node = e /\ frames' = SetTop(frames, f) /\ frames # <<>>
  BY DEF Resume, Call, Resuming
<1> QED BY <1>1 DEF Shifts

(* So is returning.                                                        *)
LEMMA ShiftLeave ==
  ASSUME NEW op, Resuming(op), NEW m, Leave(m) PROVE Shifts
BY DEF Resuming, Leave, Return, Shifts

(* So is answering without a frame.                                        *)
LEMMA ShiftAnswer ==
  ASSUME NEW m, Answer(m) PROVE Shifts
BY DEF Answer, Return, Shifts

(* So is a match with the whitespace after it.                             *)
LEMMA ShiftMatched ==
  ASSUME ctl.do = "call", NEW p, NEW m, MatchedFrom(p, m) PROVE Shifts
<1>1. HasSpace => Pushes(SkipFrame(p, m), g.whitespace)
  BY DEF SkipFrame, Frame, Pushes, Snaps
<1> QED BY <1>1, ShiftEnter, ShiftAnswer DEF MatchedFrom, Skips, HasSpace

(* So is a literal.                                                        *)
LEMMA ShiftLiteral ==
  ASSUME ctl.do = "call", NEW text, parse_literal(text) PROVE Shifts
BY ShiftMatched, ShiftAnswer DEF parse_literal

(* A new frame for the operator that is called.                            *)
LEMMA PushesNew ==
  ASSUME NEW op, node.op = op, op \notin {"lit", "rule", "body", "skip"}, NEW e, ~Snaps(Frame(op, node, here)),
         op \in {"tok", "ign", "wsp"} => e = node.kid, op \notin {"rep", "cho"}
  PROVE  Pushes(Frame(op, node, here), e) /\ Pushes([Frame(op, node, here) EXCEPT !.k = 1], e)
BY DEF Pushes, Frame, Snaps

(* Such a frame with a snapshot.                                           *)
LEMMA PushesSnap ==
  ASSUME NEW op, node.op = op, op \notin {"lit", "rule", "body", "skip", "tok", "ign", "wsp"}, NEW e,
         op = "rep" => ~node.span, NEW k
  PROVE  /\ op # "cho" => Pushes([Frame(op, node, here) EXCEPT !.snap = Snapshot], e)
         /\ (op = "cho" => k \in 1 .. Len(node.kids)) => Pushes([Frame(op, node, here) EXCEPT !.k = k, !.snap = Snapshot], e)
<1>1. Snapshot.caps = Len(capture_entries)
  BY DEF Snapshot
<1> HIDE DEF Snapshot
<1> QED BY <1>1 DEF Pushes, Frame

(* Every combinator moves the stack so.                                    *)
LEMMA CombinatorShifts ==
  ASSUME FramesOK, Combinator PROVE Shifts
<1>1. CASE CharEnter
  BY <1>1, ShiftAnswer DEF CharEnter
<1>2. CASE LiteralEnter
  BY <1>2, ShiftLiteral DEF LiteralEnter, Entering
<1>3. CASE BackReferenceEnter
  BY <1>3, ShiftLiteral, ShiftAnswer DEF BackReferenceEnter, Entering
<1>4. CASE SkipResume
  BY <1>4, ShiftLeave DEF SkipResume
<1>5. CASE SequenceEnter
  <2>1. ctl.do = "call" /\ node.op = "seq"
    BY <1>5 DEF SequenceEnter, Entering, node
  <2>2. ~Snaps(Frame("seq", node, here))
    BY DEF Snaps, Frame
  <2>3. Pushes([Frame("seq", node, here) EXCEPT !.k = 1], node.kids[1])
    BY <2>1, <2>2, PushesNew
  <2> QED BY <1>5, <2>1, <2>3, ShiftAnswer, ShiftEnter DEF SequenceEnter
<1>6. CASE SequenceResume
  <2> DEFINE i == top.i + len  f == Advanced(top, i, top.k + 1)
  <2>1. /\ Resuming("seq")
        /\ Leave(Fail) \/ Leave(i) \/ Resume(f, top.node.kids[top.k + 1], top.pos + i)
    BY <1>6 DEF SequenceResume, Advanced
  <2>2. f.op = "seq" /\ top.op = "seq"
    BY <2>1, ReturnFacts, AdvancedIs DEF FrameOf
  <2> HIDE DEF f, i
  <2>3. Sets(f, top.node.kids[top.k + 1])
    BY <2>2 DEF Sets, Snaps
  <2> QED BY <2>1, <2>3, ShiftLeave, ShiftResume
<1>7. CASE ChoiceEnter
  <2> DEFINE k == NextOf(Open(node, here, 1))
             f == [Frame("cho", node, here) EXCEPT !.k = k, !.snap = Snapshot]
  <2>1. /\ ctl.do = "call" /\ node.op = "cho"
        /\ Answer(Fail) \/ (Open(node, here, 1) # {} /\ Enter(f, node.kids[k], here))
    BY <1>7 DEF ChoiceEnter, Entering, node
  <2>2. Open(node, here, 1) # {} => Pushes(f, node.kids[k])
    <3>1. Len(node.kids) \in Nat
      BY <2>1, CallFacts, OperatorFacts DEF FramesOK
    <3>2. Open(node, here, 1) # {} => k \in 1 .. Len(node.kids)
      BY <3>1, OpenFacts
    <3> QED BY <2>1, <3>2, PushesSnap
  <2> HIDE DEF f, k
  <2> QED BY <2>1, <2>2, ShiftAnswer, ShiftEnter
<1>8. CASE ChoiceMatched
  BY <1>8, ShiftLeave DEF ChoiceMatched
<1>9. CASE ChoiceFailed
  <2> DEFINE open == Open(top.node, top.pos, top.k + 1)  k == NextOf(open)  f == Counted(top, k)
  <2>1. /\ Resuming("cho")
        /\ Leave(Fail) \/ (open # {} /\ Resume(f, top.node.kids[k], top.pos))
    BY <1>9 DEF ChoiceFailed, Counted
  <2>2. /\ FrameOK(top) /\ top.op = "cho"
        /\ f.op = "cho" /\ f.snap = top.snap /\ f.node = top.node /\ f.k = k
    BY <2>1, ReturnFacts, CountedIs DEF FrameOf
  <2>3. top.k \in Nat /\ Len(top.node.kids) \in Nat
    BY <2>2, OperatorFacts DEF FrameOK, HasOperator, FramesOK
  <2>4. open # {} => k \in top.k + 1 .. Len(top.node.kids)
    BY <2>3, OpenFacts
  <2> HIDE DEF f, k, open
  <2>5. open # {} => Sets(f, top.node.kids[k])
    BY <2>2, <2>3, <2>4 DEF Sets
  <2> QED BY <2>1, <2>5, ShiftLeave, ShiftResume
<1>10. CASE RepetitionEnter
  <2> DEFINE f == [Frame("rep", node, here) EXCEPT !.snap = Snapshot]
  <2>1. /\ ctl.do = "call" /\ node.op = "rep"
        /\ (\E m : Answer(m)) \/ (~node.span /\ Enter(f, node.kid, here))
    BY <1>10 DEF RepetitionEnter, Entering, node
  <2>2. ~node.span => Pushes(f, node.kid)
    BY <2>1, PushesSnap
  <2> HIDE DEF f
  <2> QED BY <2>1, <2>2, ShiftAnswer, ShiftEnter
<1>11. CASE RepetitionMatched
  <2> DEFINE i == top.i + len  f == Round(top, i, top.k + 1, Snapshot)
  <2>1. Resuming("rep") /\ (Leave(i) \/ Resume(f, top.node.kid, top.pos + i))
    BY <1>11 DEF RepetitionMatched, Round
  <2>2. f.op = "rep" /\ top.op = "rep" /\ f.snap = Snapshot
    BY <2>1, ReturnFacts, RoundIs DEF FrameOf
  <2>3. Snapshot.caps = Len(capture_entries)
    BY DEF Snapshot
  <2> HIDE DEF f, i
  <2>4. Sets(f, top.node.kid)
    BY <2>2, <2>3 DEF Sets
  <2> QED BY <2>1, <2>4, ShiftLeave, ShiftResume
<1>12. CASE RepetitionFailed
  BY <1>12, ShiftLeave DEF RepetitionFailed
<1>13. CASE PredicateEnter
  <2>1. ctl.do = "call" /\ node.op \in {"and", "not"}
    BY <1>13 DEF PredicateEnter, Entering, node
  <2>2. Pushes([Frame(node.op, node, here) EXCEPT !.snap = Snapshot], node.kid)
    BY <2>1, PushesSnap
  <2> QED BY <1>13, <2>1, <2>2, ShiftEnter DEF PredicateEnter
<1>14. CASE AndPredicateResume
  BY <1>14, ShiftLeave DEF AndPredicateResume
<1>15. CASE NotPredicateResume
  BY <1>15, ShiftLeave DEF NotPredicateResume
<1>16. CASE CaptureScopeEnter
  <2>1. ctl.do = "call" /\ node.op = "csc"
    BY <1>16 DEF CaptureScopeEnter, Entering, node
  <2>2. Pushes([Frame("csc", node, here) EXCEPT !.snap = Snapshot], node.kid)
    BY <2>1, PushesSnap
  <2> QED BY <1>16, <2>1, <2>2, ShiftEnter DEF CaptureScopeEnter
<1>17. CASE CaptureScopeResume \/ CaptureResume
  BY <1>17, ShiftLeave DEF CaptureScopeResume, CaptureResume
<1>18. CASE CaptureEnter \/ TokenBoundaryEnter \/ IgnoreEnter \/ RecoveryEnter
  <2>1. PICK op \in {"cap", "tok", "ign", "rec"} :
          ctl.do = "call" /\ node.op = op /\ Enter(Frame(op, node, here), node.kid, here)
    BY <1>18 DEF CaptureEnter, TokenBoundaryEnter, IgnoreEnter, RecoveryEnter, Entering, node
  <2>2. Pushes(Frame(op, node, here), node.kid)
    BY <2>1 DEF Pushes, Frame, Snaps
  <2> QED BY <2>1, <2>2, ShiftEnter
<1>19. CASE TokenBoundaryResume
  <2>1. /\ Resuming("tok")
        /\ Leave(len) \/ (HasSpace /\ Resume(SkipFrame(top.pos, len), g.whitespace, top.pos + len))
    BY <1>19 DEF TokenBoundaryResume, Skips, HasSpace
  <2>2. HasSpace => Sets(SkipFrame(top.pos, len), g.whitespace)
    BY <2>1 DEF SkipFrame, Frame, Sets, Resuming, top
  <2> QED BY <2>1, <2>2, ShiftLeave, ShiftResume
<1>20. CASE IgnoreResume \/ WhitespaceResume \/ RecoveryResume
  BY <1>20, ShiftLeave DEF IgnoreResume, WhitespaceResume, RecoveryResume
<1>21. CASE WhitespaceEnter
  <2>1. /\ ctl.do = "call" /\ node.op = "wsp"
        /\ Answer(0) \/ Enter(Frame("wsp", node, here), node.kid, here)
    BY <1>21 DEF WhitespaceEnter, Entering, node
  <2>2. Pushes(Frame("wsp", node, here), node.kid)
    BY <2>1 DEF Pushes, Frame, Snaps
  <2> QED BY <2>1, <2>2, ShiftAnswer, ShiftEnter
<1>22. CASE CutEnter
  BY <1>22, ShiftAnswer DEF CutEnter
<1> QED BY <1>1, <1>2, <1>3, <1>4, <1>5, <1>6, <1>7, <1>8, <1>9, <1>10, <1>11, <1>12, <1>13, <1>14,
           <1>15, <1>16, <1>17, <1>18, <1>19, <1>20, <1>21, <1>22 DEF Combinator

----------------------------------------------------------------------------
(* The rules move the stack in their own way: one is answered, or ends, or *)
(* starts, or is parsed again, or skips the whitespace after its body.     *)
Runs(f) ==
  /\ f.op = "rule" /\ ctl'.do = "call" /\ ctl'.node = rule_of(f).body
  /\ \/ /\ ctl.do = "call" /\ node.op = "ref"
        /\ frames' = Append(Append(frames, f), Frame("body", f.node, f.pos))
     \/ /\ frames # <<>> /\ top.op = "rule"
        /\ frames' = Append(SetTop(frames, f), Frame("body", f.node, f.pos))

Trails(f) ==
  /\ frames # <<>> /\ top.op = "body" /\ f.op = "body" /\ f.node = top.node
  /\ HasSpace /\ ctl'.do = "call" /\ ctl'.node = g.whitespace /\ frames' = SetTop(frames, f)

Turns ==
  \/ frames' = frames /\ ctl'.do = "return"
  \/ frames # <<>> /\ frames' = Front(frames) /\ ctl'.do = "return"
  \/ \E f : Runs(f) \/ Trails(f)

(* A rule that starts is such a move.                                      *)
LEMMA RunTurns ==
  ASSUME Entering("ref"), NEW f, f.op = "rule", RunRule(f) PROVE Turns
BY DEF Entering, node, RunRule, StartBody, Call, Runs, Turns

(* So is another round.                                                    *)
LEMMA GrowTurns ==
  ASSUME FramesOK, Resuming("rule"), NEW c, Grow(top, c) PROVE Turns
<1> DEFINE s == Seed(len, ctl.val, c, top.seed.saved_refs)  f == Reseeded(top, 1, s)
<1>1. RunRuleAgain(f) /\ frames # <<>> /\ top.op = "rule" /\ FrameOK(top)
  BY ReturnFacts DEF Grow, Reseeded
<1>2. f.op = "rule"
  BY <1>1, ReseededIs DEF FrameOf
<1> HIDE DEF f, s
<1> QED BY <1>1, <1>2 DEF RunRuleAgain, StartBody, Call, Runs, Turns

(* So is an answer, and the end of a rule.                                 *)
LEMMA AnswerTurns ==
  ASSUME (\E entry : Known(entry)) \/ (Resuming("rule") /\ \E m, v : Finished(m, v)) PROVE Turns
BY DEF Known, Answer, Finished, Leave, Return, Resuming, Turns

(* Every call of a rule moves the stack so.                                *)
LEMMA RuleCallTurns ==
  ASSUME FramesOK, RuleCall PROVE Turns
<1>1. CASE MemoHit \/ GuardHit \/ PlainHit \/ SeedHit
  BY <1>1, AnswerTurns DEF MemoHit, GuardHit, PlainHit, SeedHit
<1>2. CASE MemoMiss \/ GuardMiss \/ PlainMiss \/ SeedStart
  <2>1. PICK f : /\ Entering("ref") /\ RunRule(f)
                 /\ \/ f = Frame("rule", node, here)
                    \/ \E save : f = [Frame("rule", node, here) EXCEPT !.save = save]
                    \/ \E seed : f = [Frame("rule", node, here) EXCEPT !.seed = seed]
    BY <1>2 DEF MemoMiss, Memoized, GuardMiss, Guarded, PlainMiss, Plain, SeedStart, LeftRecursive
  <2>2. f.op = "rule"
    BY <2>1 DEF Frame
  <2> QED BY <2>1, <2>2, RunTurns
<1>3. CASE MemoReturn \/ GuardReturn \/ PlainReturn
  BY <1>3, AnswerTurns DEF MemoReturn, GuardReturn, PlainReturn, Returning
<1>4. CASE SeedReturn \/ GrowReturn
  <2>1. /\ Resuming("rule")
        /\ (\E c : Grow(top, c)) \/ \E m, v : Finished(m, v)
    BY <1>4 DEF SeedReturn, GrowReturn, Growing
  <2> QED BY <2>1, AnswerTurns, GrowTurns
<1>5. CASE BodySkips
  <2> DEFINE f == Advanced(top, len, 1)
  <2>1. /\ Resuming("body") /\ HasSpace /\ Resume(f, g.whitespace, top.pos + len)
    BY <1>5 DEF BodySkips, Skips, HasSpace, Advanced
  <2>2. f.op = "body" /\ top.op = "body" /\ f.node = top.node /\ frames # <<>>
    BY <2>1, ReturnFacts, AdvancedIs DEF FrameOf
  <2> HIDE DEF f
  <2> QED BY <2>1, <2>2 DEF Resume, Call, Trails, Turns
<1>6. CASE BodyReturns
  BY <1>6 DEF BodyReturns, Resuming, Return, Turns
<1> QED BY <1>1, <1>2, <1>3, <1>4, <1>5, <1>6 DEF RuleCall

----------------------------------------------------------------------------
(* Inside a rule that is known by its token, only the operators of W run.  *)
HasToken(s) == \E j \in DOMAIN s : OfToken(s[j])

(* A frame may be pushed there if it is quiet.                             *)
LEMMA QuietPushed ==
  ASSUME NEW W, NEW s, NEW c, IsSeq(s), Quiet(W, s, c), NEW f, NEW c2,
         HasToken(s) => QuietFrame(W, f),
         HasToken(s) \/ OfToken(f) => (c2.do = "call" => c2.node \in W)
  PROVE  Quiet(W, Append(s, f), c2)
<1> DEFINE n == Len(s)  t == Append(s, f)
<1>1. /\ n \in Nat /\ DOMAIN s = 1 .. n /\ DOMAIN t = 1 .. n + 1 /\ Len(t) = n + 1
      /\ t[n + 1] = f /\ \A k \in 1 .. n : t[k] = s[k]
  BY SeqFacts, AppendFacts
<1> HIDE DEF n, t
<1>2. ASSUME NEW j \in 1 .. n + 1, OfToken(t[j])
      PROVE  (\A k \in j + 1 .. n + 1 : QuietFrame(W, t[k])) /\ (c2.do = "call" => c2.node \in W)
  <2>1. CASE j = n + 1
    BY <1>1, <1>2, <2>1
  <2>2. CASE j # n + 1
    <3>1. j \in 1 .. n /\ OfToken(s[j]) /\ HasToken(s)
      BY <1>1, <1>2, <2>2 DEF HasToken
    <3>2. \A k \in j + 1 .. n : QuietFrame(W, s[k])
      BY <1>1, <3>1 DEF Quiet, n
    <3>3. \A k \in j + 1 .. n + 1 : (k \in j + 1 .. n /\ k \in 1 .. n) \/ k = n + 1
      BY <1>1
    <3> QED BY <1>1, <3>1, <3>2, <3>3
  <2> QED BY <2>1, <2>2
<1> QED BY <1>1, <1>2 DEF Quiet, t

(* So may one be replaced, and the rule's own frame stays its own.         *)
LEMMA QuietReplaced ==
  ASSUME NEW W, NEW s, NEW c, IsSeq(s), s # <<>>, Quiet(W, s, c), NEW f, NEW c2,
         QuietFrame(W, Last(s)) => QuietFrame(W, f),
         (QuietFrame(W, Last(s)) /\ HasToken(s)) \/ OfToken(f) => (c2.do = "call" => c2.node \in W)
  PROVE  Quiet(W, SetTop(s, f), c2)
<1> DEFINE n == Len(s)  t == SetTop(s, f)
<1>1. /\ n \in Nat /\ n > 0 /\ DOMAIN s = 1 .. n /\ DOMAIN t = 1 .. n /\ Len(t) = n
      /\ t[n] = f /\ Last(s) = s[n] /\ \A k \in 1 .. n - 1 : t[k] = s[k]
  BY SeqFacts, SetTopFacts DEF Last
<1> HIDE DEF n, t
<1>2. ASSUME NEW j \in 1 .. n, OfToken(t[j])
      PROVE  (\A k \in j + 1 .. n : QuietFrame(W, t[k])) /\ (c2.do = "call" => c2.node \in W)
  <2>1. CASE j = n
    BY <1>1, <1>2, <2>1
  <2>2. CASE j # n
    <3>1. j \in 1 .. n - 1 /\ OfToken(s[j]) /\ HasToken(s)
      BY <1>1, <1>2, <2>2 DEF HasToken
    <3>2. \A k \in j + 1 .. n : QuietFrame(W, s[k])
      BY <1>1, <3>1 DEF Quiet, n
    <3>3. QuietFrame(W, Last(s)) /\ QuietFrame(W, f)
      BY <1>1, <3>1, <3>2
    <3>4. \A k \in j + 1 .. n : (k \in j + 1 .. n /\ k \in 1 .. n - 1) \/ k = n
      BY <1>1
    <3> QED BY <1>1, <3>1, <3>2, <3>3, <3>4
  <2> QED BY <2>1, <2>2
<1> QED BY <1>1, <1>2 DEF Quiet, t

(* Returning calls nothing.                                                *)
LEMMA QuietPopped ==
  ASSUME NEW W, NEW s, NEW c, IsSeq(s), Quiet(W, s, c), NEW c2, c2.do = "return"
  PROVE  Quiet(W, s, c2) /\ (s # <<>> => Quiet(W, Front(s), c2))
<1> DEFINE n == Len(s)  t == Front(s)
<1>1. Quiet(W, s, c2)
  BY DEF Quiet
<1>2. ASSUME s # <<>> PROVE Quiet(W, t, c2)
  <2>1. /\ n \in Nat /\ n > 0 /\ DOMAIN s = 1 .. n /\ DOMAIN t = 1 .. n - 1 /\ Len(t) = n - 1
        /\ \A k \in 1 .. n - 1 : t[k] = s[k]
    BY <1>2, SeqFacts, FrontFacts
  <2> HIDE DEF t
  <2>2. ASSUME NEW j \in 1 .. n - 1, OfToken(t[j]), NEW k \in j + 1 .. n - 1 PROVE QuietFrame(W, t[k])
    <3>1. j \in 1 .. n /\ OfToken(s[j]) /\ k \in j + 1 .. n /\ t[k] = s[k]
      BY <2>1, <2>2
    <3> QED BY <2>1, <3>1 DEF Quiet
  <2> QED BY <2>1, <2>2 DEF Quiet
<1> QED BY <1>1, <1>2

(* The body of a rule with a token, and the whitespace there, are of W.    *)
LEMMA TokenIs ==
  ASSUME FramesOK, NEW W, NamesLiterals(Here, W), NEW f, FrameOK(f), OfToken(f)
  PROVE  rule_of(f).body \in W /\ (HasSpace => g.whitespace \in W)
<1>1. f.node \in Own /\ f.node.op = "ref" /\ job \in Jobs
  BY DEF FrameOK, HasOperator, OfToken, FramesOK
<1>2. f.node.name \in Names
  BY <1>1, OperatorFacts
<1> QED BY <1>2, HereIs DEF NamesLiterals, OfToken, rule_of, Spaces, HasSpace, Names, rules

(* That of W which is called there is a literal, a span or quiet.          *)
LEMMA OnlyIs ==
  ASSUME NEW W, NamesLiterals(Here, W), NEW e \in W
  PROVE  /\ e.op \in {"lit", "tok", "ign", "wsp", "rep"}
         /\ e.op \in {"tok", "ign", "wsp"} => e.kid \in W
         /\ e.op = "rep" => e.span /\ e.min = 0
BY DEF NamesLiterals, OnlyLiterals

(* The operators move the stack quietly.                                   *)
LEMMA QuietShifts ==
  ASSUME FramesOK, NEW W, NamesLiterals(Here, W), Quiet(W, frames, ctl), Shifts
  PROVE  Quiet(W, frames', ctl')
<1>0. IsSeq(frames) /\ \A k \in DOMAIN frames : FrameOK(frames[k])
  BY DEF FramesOK, StackOK
<1>1. HasToken(frames) => /\ ctl.do = "call" => node \in W
                          /\ HasSpace => g.whitespace \in W
  BY <1>0, TokenIs DEF HasToken, Quiet, node
<1>2. CASE ctl'.do = "return" /\ (frames' = frames \/ (frames # <<>> /\ frames' = Front(frames)))
  BY <1>0, <1>2, QuietPopped
<1>3. ASSUME NEW f, ctl.do = "call", Pushes(f, ctl'.node), frames' = Append(frames, f)
      PROVE  Quiet(W, frames', ctl')
  <2>1. ~OfToken(f)
    BY <1>3 DEF Pushes, OfToken
  <2>2. HasToken(frames) => QuietFrame(W, f) /\ ctl'.node \in W
    BY <1>1, <1>3, OnlyIs DEF Pushes, QuietFrame
  <2> QED BY <1>0, <1>3, <2>1, <2>2, QuietPushed
<1>4. ASSUME NEW f, frames # <<>>, Sets(f, ctl'.node), frames' = SetTop(frames, f)
      PROVE  Quiet(W, frames', ctl')
  <2>1. ~OfToken(f) /\ (QuietFrame(W, top) => QuietFrame(W, f) /\ HasSpace /\ ctl'.node = g.whitespace)
    BY <1>4 DEF Sets, OfToken, QuietFrame
  <2> QED BY <1>0, <1>1, <1>4, <2>1, QuietReplaced DEF top
<1> QED BY <1>2, <1>3, <1>4 DEF Shifts

(* So do the rules.                                                        *)
LEMMA QuietTurns ==
  ASSUME FramesOK, NEW W, NamesLiterals(Here, W), Quiet(W, frames, ctl), StackOK(frames', ctl'), Turns
  PROVE  Quiet(W, frames', ctl')
<1>0. IsSeq(frames) /\ \A k \in DOMAIN frames : FrameOK(frames[k])
  BY DEF FramesOK, StackOK
<1>00. \A k \in DOMAIN frames' : FrameOK(frames'[k])
  BY DEF StackOK
<1>1. HasToken(frames) => (ctl.do = "call" => node \in W)
  BY DEF HasToken, Quiet, node
<1>2. CASE ctl'.do = "return" /\ (frames' = frames \/ (frames # <<>> /\ frames' = Front(frames)))
  BY <1>0, <1>2, QuietPopped
<1>3. ASSUME NEW f, Runs(f) PROVE Quiet(W, frames', ctl')
  <2> DEFINE b == Frame("body", f.node, f.pos)
             below == IF ctl.do = "call" /\ node.op = "ref" THEN Append(frames, f) ELSE SetTop(frames, f)
             idle == Return(0, NoVal)
  <2>1. ~OfToken(f) /\ idle.do = "return" /\ b.op = "body" /\ b.node = f.node
    BY <1>3 DEF Runs, OfToken, Return, Frame
  <2> HIDE DEF b, idle
  <2>2. HasToken(frames) => ~(ctl.do = "call" /\ node.op = "ref")
    BY <1>1, OnlyIs
  <2>3. ASSUME ctl.do = "call", node.op = "ref", frames' = Append(Append(frames, f), b)
        PROVE  \E s : IsSeq(s) /\ frames' = Append(s, b) /\ Quiet(W, s, idle) /\ ~HasToken(s)
    <3>1. ~HasToken(frames)
      BY <2>2, <2>3
    <3>2. Quiet(W, Append(frames, f), idle)
      BY <1>0, <2>1, <3>1, QuietPushed
    <3>3. ~HasToken(Append(frames, f))
      <4>1. /\ Len(frames) \in Nat /\ DOMAIN frames = 1 .. Len(frames)
            /\ DOMAIN Append(frames, f) = 1 .. Len(frames) + 1 /\ Append(frames, f)[Len(frames) + 1] = f
            /\ \A k \in 1 .. Len(frames) : Append(frames, f)[k] = frames[k]
        BY <1>0, SeqFacts, AppendFacts
      <4>2. \A k \in 1 .. Len(frames) + 1 : k \in 1 .. Len(frames) \/ k = Len(frames) + 1
        BY <4>1
      <4> QED BY <2>1, <3>1, <4>1, <4>2 DEF HasToken
    <3> QED BY <1>0, <2>3, <3>2, <3>3, AppendFacts
  <2>4. ASSUME frames # <<>>, top.op = "rule", frames' = Append(SetTop(frames, f), b)
        PROVE  \E s : IsSeq(s) /\ frames' = Append(s, b) /\ Quiet(W, s, idle) /\ ~HasToken(s)
    <3> DEFINE n == Len(frames)  s == SetTop(frames, f)
    <3>1. /\ n \in Nat /\ n > 0 /\ DOMAIN frames = 1 .. n /\ DOMAIN s = 1 .. n /\ IsSeq(s)
          /\ s[n] = f /\ top = frames[n] /\ \A k \in 1 .. n - 1 : s[k] = frames[k]
      BY <1>0, <2>4, SeqFacts, SetTopFacts DEF Last, top
    <3> HIDE DEF s
    <3>2. ~QuietFrame(W, top)
      BY <2>4 DEF QuietFrame
    <3>3. \A k \in 1 .. n - 1 : ~OfToken(frames[k])
      <4> SUFFICES ASSUME NEW k \in 1 .. n - 1, OfToken(frames[k]) PROVE FALSE
        OBVIOUS
      <4>1. k \in 1 .. n /\ n \in k + 1 .. n
        BY <3>1
      <4> QED BY <3>1, <3>2, <4>1 DEF Quiet
    <3>4. ~HasToken(s)
      <4>1. n \in Nat
        BY <3>1
      <4> HIDE DEF n
      <4>2. \A k \in 1 .. n : k \in 1 .. n - 1 \/ k = n
        BY <4>1
      <4> QED BY <2>1, <3>1, <3>3, <4>2 DEF HasToken
    <3>5. Quiet(W, s, idle)
      BY <3>4 DEF Quiet, HasToken
    <3> QED BY <2>4, <3>1, <3>4, <3>5 DEF s
  <2>5. PICK s : IsSeq(s) /\ frames' = Append(s, b) /\ Quiet(W, s, idle) /\ ~HasToken(s)
    BY <1>3, <2>3, <2>4 DEF Runs, b
  <2>6. OfToken(b) => ctl'.node \in W
    <3>1. FrameOK(b)
      BY <1>00, <2>5, AppendFacts, SeqFacts
    <3>2. rule_of(b) = rule_of(f)
      BY <2>1 DEF rule_of
    <3> QED BY <1>3, <3>1, <3>2, TokenIs DEF Runs
  <2> QED BY <2>5, <2>6, QuietPushed
<1>4. ASSUME NEW f, Trails(f) PROVE Quiet(W, frames', ctl')
  <2>1. /\ frames # <<>> /\ top.op = "body" /\ f.op = "body" /\ f.node = top.node /\ HasSpace
        /\ ctl'.node = g.whitespace /\ frames' = SetTop(frames, f)
    BY <1>4 DEF Trails
  <2>2. ~QuietFrame(W, top)
    BY <2>1 DEF QuietFrame
  <2>3. OfToken(f) => OfToken(top)
    BY <2>1 DEF OfToken, rule_of
  <2>4. FrameOK(top)
    BY <1>0, <2>1, SeqFacts DEF top, Last
  <2>5. OfToken(f) => ctl'.node \in W
    BY <2>1, <2>3, <2>4, TokenIs
  <2> QED BY <1>0, <2>1, <2>2, <2>5, QuietReplaced DEF top
<1> QED BY <1>2, <1>3, <1>4 DEF Turns

(* So does the parse itself.                                               *)
LEMMA QuietTop ==
  ASSUME FramesOK, NEW W, Quiet(W, frames, ctl), TopWhitespace \/ TopReturn
  PROVE  Quiet(W, frames', ctl')
<1>1. /\ Resuming("top")
      /\ frames' = <<>> \/ frames' = SetTop(frames, [top EXCEPT !.i = len, !.k = 1])
  BY DEF TopWhitespace, TopReturn, Returned
<1>2. CASE frames' = <<>>
  BY <1>2, NoFrames DEF Quiet
<1>3. CASE frames' = SetTop(frames, [top EXCEPT !.i = len, !.k = 1])
  <2> DEFINE f == Advanced(top, len, 1)
  <2>1. FrameOK(top) /\ top.op = "top" /\ frames # <<>> /\ IsSeq(frames)
    BY <1>1, ReturnFacts DEF FramesOK, StackOK
  <2>2. f.op = "top"
    BY <2>1, AdvancedIs DEF FrameOf
  <2>3. frames' = SetTop(frames, f)
    BY <1>3 DEF Advanced
  <2> HIDE DEF f
  <2>4. ~QuietFrame(W, top) /\ ~OfToken(f)
    BY <2>1, <2>2 DEF QuietFrame, OfToken
  <2> QED BY <2>1, <2>3, <2>4, QuietReplaced DEF top
<1> QED BY <1>1, <1>2, <1>3

----------------------------------------------------------------------------
(* Snapshots, when the stack or the captures change.                       *)

(* A frame is pushed with a snapshot of what there is, or without.         *)
LEMMA SnapsPushed ==
  ASSUME NEW s, IsSeq(s), NEW n \in Nat, SnapsOK(s, n), NEW f, Snaps(f) => f.snap.caps = n
  PROVE  SnapsOK(Append(s, f), n)
<1> DEFINE l == Len(s)  t == Append(s, f)
<1>1. /\ l \in Nat /\ DOMAIN s = 1 .. l /\ DOMAIN t = 1 .. l + 1
      /\ t[l + 1] = f /\ \A k \in 1 .. l : t[k] = s[k]
  BY SeqFacts, AppendFacts
<1> HIDE DEF l, t
<1>2. \A k \in 1 .. l + 1 : k \in 1 .. l \/ k = l + 1
  BY <1>1
<1>3. \A k \in 1 .. l + 1 : Snaps(t[k]) => t[k].snap.caps \in 0 .. n
  BY <1>1, <1>2 DEF SnapsOK
<1>4. ASSUME NEW k \in 1 .. l + 1, NEW j \in 1 .. l + 1, k <= j, Snaps(t[k]), Snaps(t[j])
      PROVE  t[k].snap.caps <= t[j].snap.caps
  <2>1. CASE j = l + 1
    BY <1>1, <1>3, <1>4, <2>1
  <2>2. CASE j # l + 1
    <3>1. k \in 1 .. l /\ j \in 1 .. l
      BY <1>1, <1>4, <2>2
    <3> QED BY <1>1, <1>4, <3>1 DEF SnapsOK
  <2> QED BY <2>1, <2>2
<1> QED BY <1>1, <1>3, <1>4 DEF SnapsOK, t

(* The innermost frame takes a new snapshot or keeps its own.              *)
LEMMA SnapsReplaced ==
  ASSUME NEW s, IsSeq(s), s # <<>>, NEW n \in Nat, SnapsOK(s, n), NEW f,
         Snaps(f) => f.snap.caps = n \/ (Snaps(Last(s)) /\ f.snap.caps = Last(s).snap.caps)
  PROVE  SnapsOK(SetTop(s, f), n)
<1> DEFINE l == Len(s)  t == SetTop(s, f)
<1>1. /\ l \in Nat /\ l > 0 /\ DOMAIN s = 1 .. l /\ DOMAIN t = 1 .. l
      /\ t[l] = f /\ Last(s) = s[l] /\ \A k \in 1 .. l - 1 : t[k] = s[k]
  BY SeqFacts, SetTopFacts DEF Last
<1> HIDE DEF l, t
<1>2. \A k \in 1 .. l : k \in 1 .. l - 1 \/ k = l
  BY <1>1
<1>3. \A k \in 1 .. l : Snaps(t[k]) => t[k].snap.caps \in 0 .. n
  BY <1>1, <1>2 DEF SnapsOK
<1>4. ASSUME NEW k \in 1 .. l, NEW j \in 1 .. l, k <= j, Snaps(t[k]), Snaps(t[j])
      PROVE  t[k].snap.caps <= t[j].snap.caps
  <2>1. CASE j = l
    <3>1. CASE k = l
      BY <1>1, <1>3, <1>4, <2>1, <3>1
    <3>2. CASE k # l
      <4>1. k \in 1 .. l - 1 /\ k <= l /\ k \in DOMAIN s /\ l \in DOMAIN s /\ t[k] = s[k]
        BY <1>1, <1>4, <3>2
      <4>2. s[k].snap.caps \in 0 .. n /\ (Snaps(s[l]) => s[k].snap.caps <= s[l].snap.caps)
        BY <1>4, <4>1 DEF SnapsOK
      <4> QED BY <1>1, <1>4, <2>1, <4>1, <4>2
    <3> QED BY <3>1, <3>2
  <2>2. CASE j # l
    <3>1. k \in 1 .. l - 1 /\ j \in 1 .. l - 1 /\ k \in 1 .. l /\ j \in 1 .. l
      BY <1>1, <1>4, <2>2
    <3> QED BY <1>1, <1>4, <3>1 DEF SnapsOK
  <2> QED BY <2>1, <2>2
<1> QED BY <1>1, <1>3, <1>4 DEF SnapsOK, t

(* A frame is popped.                                                      *)
LEMMA SnapsPopped ==
  ASSUME NEW s, IsSeq(s), s # <<>>, NEW n, SnapsOK(s, n) PROVE SnapsOK(Front(s), n)
<1> DEFINE t == Front(s)
<1>1. \A k \in DOMAIN t : k \in DOMAIN s /\ t[k] = s[k]
  BY SeqFacts, FrontFacts
<1> HIDE DEF t
<1>2. SnapsOK(t, n)
  BY <1>1 DEF SnapsOK
<1> QED BY <1>2 DEF t

(* Captures are added, or those since the innermost snapshot taken away.   *)
LEMMA SnapsMoved ==
  ASSUME NEW s, IsSeq(s), NEW n \in Nat, SnapsOK(s, n), NEW m \in Nat,
         m >= n \/ (s # <<>> /\ Snaps(Last(s)) /\ m = Last(s).snap.caps)
  PROVE  SnapsOK(s, m)
<1>1. CASE m >= n
  BY <1>1 DEF SnapsOK
<1>2. CASE s # <<>> /\ Snaps(Last(s)) /\ m = Last(s).snap.caps
  <2>1. /\ Len(s) \in Nat /\ Len(s) \in DOMAIN s /\ Last(s) = s[Len(s)]
        /\ \A k \in DOMAIN s : k <= Len(s)
    BY <1>2, SeqFacts DEF Last
  <2> QED BY <1>2, <2>1 DEF SnapsOK
<1> QED BY <1>1, <1>2

----------------------------------------------------------------------------
(* The captures and the choices of the next stack.                         *)
StepCaptures ==
  /\ IsSeq(capture_entries') /\ \A c \in DOMAIN capture_entries' : IsSeq(capture_entries'[c][2])
  /\ SnapsOK(frames', Len(capture_entries'))

(* Where they do not change.                                               *)
LEMMA CapturesStay ==
  ASSUME FramesOK, CapturesOK, capture_entries' = capture_entries,
         Shifts \/ Turns \/ TopWhitespace \/ TopReturn
  PROVE  StepCaptures
<1> DEFINE n == Len(capture_entries)
<1>1. IsSeq(frames) /\ n \in Nat /\ SnapsOK(frames, n)
  BY SeqFacts DEF FramesOK, StackOK, CapturesOK
<1>2. ASSUME frames' = frames \/ (frames # <<>> /\ frames' = Front(frames)) PROVE SnapsOK(frames', n)
  BY <1>1, <1>2, SnapsPopped
<1>3. ASSUME NEW f, Snaps(f) => f.snap.caps = n, frames' = Append(frames, f) PROVE SnapsOK(frames', n)
  BY <1>1, <1>3, SnapsPushed
<1>4. ASSUME NEW f, frames # <<>>, frames' = SetTop(frames, f),
             Snaps(f) => f.snap.caps = n \/ (Snaps(top) /\ f.snap.caps = top.snap.caps)
      PROVE  SnapsOK(frames', n)
  BY <1>1, <1>4, SnapsReplaced DEF top
<1>5. ASSUME Shifts PROVE SnapsOK(frames', n)
  <2>1. ASSUME NEW f, Sets(f, ctl'.node)
        PROVE  Snaps(f) => f.snap.caps = n \/ (Snaps(top) /\ f.snap.caps = top.snap.caps)
    BY <2>1 DEF Sets, Snaps
  <2> QED BY <1>2, <1>3, <1>4, <1>5, <2>1 DEF Shifts, Pushes
<1>6. ASSUME Turns PROVE SnapsOK(frames', n)
  <2>1. ASSUME NEW f, Runs(f) PROVE SnapsOK(frames', n)
    <3> DEFINE b == Frame("body", f.node, f.pos)
    <3>1. ~Snaps(f) /\ ~Snaps(b)
      BY <2>1 DEF Runs, Snaps, Frame
    <3> HIDE DEF b
    <3>2. PICK s : IsSeq(s) /\ SnapsOK(s, n) /\ frames' = Append(s, b)
      <4>1. CASE frames' = Append(Append(frames, f), b)
        <5>1. SnapsOK(Append(frames, f), n)
          BY <1>1, <3>1, SnapsPushed
        <5> QED BY <1>1, <4>1, <5>1, AppendFacts
      <4>2. CASE frames # <<>> /\ frames' = Append(SetTop(frames, f), b)
        <5>1. SnapsOK(SetTop(frames, f), n)
          BY <1>1, <3>1, <4>2, SnapsReplaced
        <5> QED BY <1>1, <4>2, <5>1, SetTopFacts
      <4> QED BY <2>1, <4>1, <4>2 DEF Runs, b
    <3> QED BY <1>1, <3>1, <3>2, SnapsPushed
  <2>2. ASSUME NEW f, Trails(f) PROVE SnapsOK(frames', n)
    BY <1>4, <2>2 DEF Trails, Snaps
  <2> QED BY <1>2, <1>6, <2>1, <2>2 DEF Turns
<1>7. ASSUME TopWhitespace \/ TopReturn PROVE SnapsOK(frames', n)
  <2>1. /\ Resuming("top")
        /\ frames' = <<>> \/ frames' = SetTop(frames, [top EXCEPT !.i = len, !.k = 1])
    BY <1>7 DEF TopWhitespace, TopReturn, Returned
  <2>2. CASE frames' = <<>>
    BY <2>2, NoFrames DEF SnapsOK
  <2>3. CASE frames' = SetTop(frames, [top EXCEPT !.i = len, !.k = 1])
    <3> DEFINE f == Advanced(top, len, 1)
    <3>1. FrameOK(top) /\ top.op = "top" /\ frames # <<>> /\ frames' = SetTop(frames, f)
      BY <2>1, <2>3, ReturnFacts DEF Advanced
    <3>2. ~Snaps(f)
      BY <3>1, AdvancedIs DEF FrameOf, Snaps
    <3> HIDE DEF f
    <3> QED BY <1>4, <3>1, <3>2
  <2> QED BY <2>1, <2>2, <2>3
<1>8. SnapsOK(frames', n)
  BY <1>5, <1>6, <1>7
<1> QED BY <1>8 DEF StepCaptures, CapturesOK

(* Where those since the innermost snapshot are taken away.                *)
LEMMA CapturesBack ==
  ASSUME FramesOK, CapturesOK, frames # <<>>, Snaps(top),
         capture_entries' = First(capture_entries, top.snap.caps),
         \/ frames' = Front(frames)
         \/ \E f : Snaps(f) /\ f.snap = top.snap /\ frames' = SetTop(frames, f)
  PROVE  StepCaptures
<1> DEFINE n == Len(capture_entries)  m == top.snap.caps  left == First(capture_entries, m)
<1>1. IsSeq(frames) /\ n \in Nat /\ SnapsOK(frames, n) /\ IsSeq(capture_entries)
  BY SeqFacts DEF FramesOK, StackOK, CapturesOK
<1>2. m \in 0 .. n
  <2>1. Len(frames) \in DOMAIN frames /\ top = frames[Len(frames)]
    BY <1>1, SeqFacts DEF top, Last
  <2> QED BY <1>1, <2>1 DEF SnapsOK
<1>3. IsSeq(left) /\ Len(left) = m /\ \A k \in 1 .. m : left[k] = capture_entries[k]
  <2>1. left = SubSeq(capture_entries, 0 + 1, m)
    BY DEF First
  <2> HIDE DEF left, m
  <2> QED BY <1>1, <1>2, <2>1, SubSeqIs DEF n
<1>4. SnapsOK(frames, m)
  BY <1>1, <1>2, SnapsMoved DEF top
<1>5. SnapsOK(frames', m)
  <2>1. CASE frames' = Front(frames)
    BY <1>1, <1>4, <2>1, SnapsPopped
  <2>2. ASSUME NEW f, Snaps(f), f.snap = top.snap, frames' = SetTop(frames, f) PROVE SnapsOK(frames', m)
    BY <1>1, <1>2, <1>4, <2>2, SnapsReplaced
  <2> QED BY <2>1, <2>2
<1> HIDE DEF left, m
<1>6. \A c \in DOMAIN left : IsSeq(left[c][2])
  <2>1. \A c \in DOMAIN left : c \in DOMAIN capture_entries /\ left[c] = capture_entries[c]
    BY <1>1, <1>2, <1>3, SeqFacts
  <2> QED BY <2>1 DEF CapturesOK
<1> QED BY <1>3, <1>5, <1>6 DEF StepCaptures, left, m

(* Where one is added.                                                     *)
LEMMA CapturesAdded ==
  ASSUME FramesOK, CapturesOK, CaptureResume, len # Fail PROVE StepCaptures
<1> DEFINE text == SubSeq(input, top.pos + 1, top.pos + len)
           new == Append(capture_entries, <<top.node.name, text>>)  n == Len(capture_entries)
<1>1. /\ IsSeq(frames) /\ n \in Nat /\ SnapsOK(frames, n) /\ IsSeq(capture_entries)
      /\ DOMAIN capture_entries = 1 .. n
  BY SeqFacts DEF FramesOK, StackOK, CapturesOK
<1>2. Resuming("cap") /\ frames # <<>> /\ frames' = Front(frames) /\ capture_entries' = new
  BY DEF CaptureResume, Resuming, Leave
<1>3. IsSeq(text)
  <2>1. top.pos \in Nat /\ top.i \in Nat /\ len \in Nat /\ Fits(top.pos, top.i + len) /\ Len(input) \in Nat
    BY <1>2, ReturnFacts
  <2>2. IsSeq(input) /\ top.pos + len \in 0 .. Len(input)
    BY <2>1, InputFacts DEF Fits, FramesOK
  <2> QED BY <2>1, <2>2, SubSeqIs
<1> HIDE DEF text
<1>4. /\ IsSeq(new) /\ Len(new) = n + 1 /\ DOMAIN new = 1 .. n + 1
      /\ new[n + 1] = <<top.node.name, text>> /\ \A k \in 1 .. n : new[k] = capture_entries[k]
  BY <1>1, AppendFacts
<1> HIDE DEF new
<1>5. \A c \in DOMAIN new : IsSeq(new[c][2])
  <2>1. \A c \in DOMAIN new : c \in 1 .. n \/ c = n + 1
    BY <1>1, <1>4
  <2> QED BY <1>1, <1>3, <1>4, <2>1 DEF CapturesOK
<1>6. SnapsOK(frames', n + 1)
  BY <1>1, <1>2, SnapsMoved, SnapsPopped
<1> QED BY <1>2, <1>4, <1>5, <1>6 DEF StepCaptures

(* Every operator keeps them so.                                           *)
LEMMA CombinatorCaptures ==
  ASSUME FramesOK, CapturesOK, Combinator PROVE StepCaptures
<1>1. Shifts
  BY CombinatorShifts
<1>2. CASE capture_entries' = capture_entries
  BY <1>1, <1>2, CapturesStay
<1>3. CASE ChoiceFailed
  <2> DEFINE k == NextOf(Open(top.node, top.pos, top.k + 1))  f == Counted(top, k)
  <2>1. /\ Resuming("cho") /\ (Leave(Fail) \/ Resume(f, top.node.kids[k], top.pos))
        /\ capture_entries' = First(capture_entries, top.snap.caps)
    BY <1>3 DEF ChoiceFailed, Counted, rollback
  <2>2. frames # <<>> /\ top.op = "cho" /\ f.op = "cho" /\ f.snap = top.snap
    BY <2>1, ReturnFacts, CountedIs DEF FrameOf
  <2> HIDE DEF f, k
  <2> QED BY <2>1, <2>2, CapturesBack DEF Leave, Resume, Snaps
<1>4. CASE RepetitionFailed \/ AndPredicateResume \/ NotPredicateResume \/ CaptureScopeResume
  <2>1. \/ capture_entries' = capture_entries
        \/ /\ \E op \in {"rep", "and", "not", "csc"} : Resuming(op)
           /\ frames' = Front(frames) /\ capture_entries' = First(capture_entries, top.snap.caps)
    BY <1>4 DEF RepetitionFailed, AndPredicateResume, NotPredicateResume, CaptureScopeResume,
                rollback, Leave, values
  <2>2. (\E op \in {"rep", "and", "not", "csc"} : Resuming(op)) => frames # <<>> /\ Snaps(top)
    BY DEF Resuming, Snaps, top
  <2> QED BY <1>2, <2>1, <2>2, CapturesBack
<1>5. CASE CaptureResume
  <2>1. len = Fail => capture_entries' = capture_entries
    BY <1>5 DEF CaptureResume
  <2> QED BY <1>2, <1>5, <2>1, CapturesAdded
<1>6. CASE CharEnter \/ LiteralEnter \/ BackReferenceEnter \/ SkipResume \/ SequenceEnter \/ SequenceResume
  BY <1>2, <1>6 DEF CharEnter, LiteralEnter, BackReferenceEnter, SkipResume, SequenceEnter,
     SequenceResume, silent, values, context
<1>7. CASE ChoiceEnter \/ ChoiceMatched \/ RepetitionEnter \/ RepetitionMatched \/ PredicateEnter
  BY <1>2, <1>7 DEF ChoiceEnter, ChoiceMatched, RepetitionEnter, RepetitionMatched, PredicateEnter,
     silent, values, context
<1>8. CASE CaptureScopeEnter \/ CaptureEnter \/ TokenBoundaryEnter \/ TokenBoundaryResume \/ IgnoreEnter
  BY <1>2, <1>8 DEF CaptureScopeEnter, CaptureEnter, TokenBoundaryEnter, TokenBoundaryResume,
     IgnoreEnter, silent, values, context
<1>9. CASE IgnoreResume \/ WhitespaceEnter \/ WhitespaceResume \/ RecoveryEnter \/ RecoveryResume \/ CutEnter
  BY <1>2, <1>9 DEF IgnoreResume, WhitespaceEnter, WhitespaceResume, RecoveryEnter, RecoveryResume,
     CutEnter, values
<1> QED BY <1>3, <1>4, <1>5, <1>6, <1>7, <1>8, <1>9 DEF Combinator

(* The rules leave the captures alone.                                     *)
LEMMA RuleCallCaptures ==
  ASSUME FramesOK, CapturesOK, RuleCall PROVE StepCaptures
<1>1. capture_entries' = capture_entries
  BY DEF RuleCall, MemoHit, MemoMiss, MemoReturn, GuardHit, GuardMiss, GuardReturn, PlainHit,
         PlainMiss, PlainReturn, SeedHit, SeedStart, SeedReturn, GrowReturn, BodySkips, BodyReturns,
         Known, Finished, RunRule, RunRuleAgain, Grow, StartBody, values
<1> QED BY <1>1, RuleCallTurns, CapturesStay

(* Each choice stays at one of its alternatives.                           *)
LEMMA ChoicesStay ==
  ASSUME FramesOK, ChoicesOK(frames), Shifts \/ Turns \/ TopWhitespace \/ TopReturn
  PROVE  ChoicesOK(frames')
<1> DEFINE AtOne(f) == f.op = "cho" => f.k \in 1 .. Len(f.node.kids)
<1>1. IsSeq(frames)
  BY DEF FramesOK, StackOK
<1>2. ASSUME NEW s, IsSeq(s), ChoicesOK(s), NEW f, AtOne(f)
      PROVE  /\ ChoicesOK(Append(s, f)) /\ IsSeq(Append(s, f))
             /\ s # <<>> => ChoicesOK(Front(s)) /\ ChoicesOK(SetTop(s, f)) /\ IsSeq(SetTop(s, f))
  <2> DEFINE n == Len(s)  t == Append(s, f)  u == Front(s)  v == SetTop(s, f)
  <2>1. /\ n \in Nat /\ DOMAIN s = 1 .. n /\ DOMAIN t = 1 .. n + 1 /\ t[n + 1] = f
        /\ \A k \in 1 .. n : t[k] = s[k]
    BY <1>2, SeqFacts, AppendFacts
  <2>2. s # <<>> => /\ n > 0 /\ DOMAIN u = 1 .. n - 1 /\ DOMAIN v = 1 .. n /\ v[n] = f
                    /\ \A k \in 1 .. n - 1 : u[k] = s[k] /\ v[k] = s[k]
    BY <1>2, SeqFacts, FrontFacts, SetTopFacts
  <2> HIDE DEF n, t, u, v
  <2>3. \A k \in DOMAIN t : (k \in DOMAIN s /\ t[k] = s[k]) \/ t[k] = f
    <3>1. \A k \in 1 .. n + 1 : k \in 1 .. n \/ k = n + 1
      BY <2>1
    <3> QED BY <2>1, <3>1
  <2>4. s # <<>> => /\ \A k \in DOMAIN u : k \in DOMAIN s /\ u[k] = s[k]
                    /\ \A k \in DOMAIN v : (k \in DOMAIN s /\ v[k] = s[k]) \/ v[k] = f
    <3>1. n > 0 => \A k \in 1 .. n : k \in 1 .. n - 1 \/ k = n
      BY <2>1
    <3>2. \A k \in 1 .. n - 1 : k \in 1 .. n
      BY <2>1
    <3> QED BY <2>1, <2>2, <3>1, <3>2
  <2>5. ChoicesOK(t) /\ (s # <<>> => ChoicesOK(u) /\ ChoicesOK(v))
    BY <1>2, <2>3, <2>4 DEF ChoicesOK
  <2> QED BY <1>2, <2>5, AppendFacts, SetTopFacts DEF t, u, v
<1> HIDE DEF AtOne
<1>3. ASSUME Shifts PROVE ChoicesOK(frames')
  <2>1. \A f : Pushes(f, ctl'.node) \/ Sets(f, ctl'.node) => AtOne(f)
    BY DEF Pushes, Sets, AtOne
  <2>2. AtOne(Frame("skip", NoNode, 0))
    BY DEF AtOne, Frame
  <2> QED BY <1>1, <1>2, <1>3, <2>1, <2>2 DEF Shifts
<1>4. ASSUME Turns PROVE ChoicesOK(frames')
  <2>1. ASSUME NEW f, Runs(f) PROVE ChoicesOK(frames')
    <3>1. AtOne(f) /\ AtOne(Frame("body", f.node, f.pos))
      BY <2>1 DEF Runs, AtOne, Frame
    <3> QED BY <1>1, <1>2, <2>1, <3>1 DEF Runs
  <2>2. ASSUME NEW f, Trails(f) PROVE ChoicesOK(frames')
    <3>1. AtOne(f)
      BY <2>2 DEF Trails, AtOne
    <3> QED BY <1>1, <1>2, <2>2, <3>1 DEF Trails
  <2>3. AtOne(Frame("skip", NoNode, 0))
    BY DEF AtOne, Frame
  <2> QED BY <1>1, <1>2, <1>4, <2>1, <2>2, <2>3 DEF Turns
<1>5. ASSUME TopWhitespace \/ TopReturn PROVE ChoicesOK(frames')
  <2> DEFINE f == Advanced(top, len, 1)
  <2>1. /\ Resuming("top") /\ (frames' = <<>> \/ frames' = SetTop(frames, f))
    BY <1>5 DEF TopWhitespace, TopReturn, Returned, Advanced
  <2>2. frames # <<>> /\ f.op = "top"
    BY <2>1, ReturnFacts, AdvancedIs DEF FrameOf
  <2>3. AtOne(f)
    BY <2>2 DEF AtOne
  <2>4. ChoicesOK(<<>>)
    BY NoFrames DEF ChoicesOK
  <2> HIDE DEF f
  <2> QED BY <1>1, <1>2, <2>1, <2>2, <2>3, <2>4
<1> QED BY <1>3, <1>4, <1>5

----------------------------------------------------------------------------
(* What each action makes of the error: it names nothing that is there,    *)
(* and where the parse tells, a failure is recorded before it is returned. *)
ReturnsFail(c) == c.do = "return" /\ c.len = Fail

Speaks ==
  /\ InfoOK(error_info')
  /\ \A W : NamesLiterals(Here, W) /\ Quiet(W, frames, ctl) /\ AllAbsent(error_info)
       => AllAbsent(error_info')
  /\ Tells(Here) => /\ Lasts(error_info, error_info')
                    /\ Logging /\ ReturnsFail(ctl') => ReturnsFail(ctl) \/ Recorded(error_info')

(* An action that records nothing must not fail by itself.                 *)
LEMMA Unspoken ==
  ASSUME InfoOK(error_info), error_info' = error_info, ReturnsFail(ctl') => ReturnsFail(ctl) PROVE Speaks
BY DEF Speaks, Lasts

(* What is recorded without a literal names the token of the rule around   *)
(* it, if that has one.                                                    *)
LEMMA NothingNamed ==
  ASSUME FramesOK, ~HasToken(frames) PROVE error_literal(NoText) = NoText
<1>1. IsSeq(frames)
  BY DEF FramesOK, StackOK
<1>2. Len(frames) \in Nat /\ DOMAIN frames = 1 .. Len(frames)
  BY <1>1, SeqFacts
<1>3. CASE rule_stack = {}
  BY <1>3 DEF error_literal
<1>4. CASE rule_stack # {}
  <2> DEFINE m == Max(rule_stack)
  <2>1. m \in rule_stack
    BY <1>2, <1>4, MaxFacts DEF rule_stack
  <2> HIDE DEF m
  <2>2. frames[m].op = "body" /\ m \in DOMAIN frames
    BY <2>1 DEF rule_stack
  <2>3. rules[frames[m].node.name].token = NoText
    BY <2>2 DEF HasToken, OfToken, rule_of
  <2> QED BY <1>4, <2>3 DEF error_literal, ruled, m
<1> QED BY <1>3, <1>4

(* Such a failure is recorded where no rule with a token is around it.     *)
LEMMA UnnamedSpeaks ==
  ASSUME FramesOK, InfoOK(error_info), NEW p \in Places, set_error_pos(p, NoText),
         \A W : NamesLiterals(Here, W) /\ Quiet(W, frames, ctl) => ~HasToken(frames)
  PROVE  Speaks
<1>1. /\ InfoOK(error_info') /\ Lasts(error_info, error_info') /\ (Logging => Recorded(error_info'))
      /\ AllAbsent(error_info)
           /\ (error_literal(NoText) # NoText => Absent(error_literal(NoText), p))
         => AllAbsent(error_info')
  BY SetErrorSays DEF FramesOK
<1> QED BY <1>1, NothingNamed DEF Speaks

(* A character that is not there.                                          *)
LEMMA CharSpeaks ==
  ASSUME FramesOK, InfoOK(error_info), CharEnter PROVE Speaks
<1>1. /\ ctl.do = "call" /\ node.op = "chr" /\ here \in Places
  BY CallFacts DEF CharEnter, Entering, node
<1>2. CASE here < Len(input) /\ Byte(here) \in node.set
  <2>1. error_info' = error_info /\ ~ReturnsFail(ctl')
    BY <1>2 DEF CharEnter, Answer, Return, ReturnsFail, Fail
  <2> QED BY <2>1, Unspoken
<1>3. CASE ~(here < Len(input) /\ Byte(here) \in node.set)
  <2>1. set_error_pos(here, NoText)
    BY <1>3 DEF CharEnter
  <2>2. \A W : NamesLiterals(Here, W) /\ Quiet(W, frames, ctl) => ~HasToken(frames)
    BY <1>1, OnlyIs DEF Quiet, HasToken, node
  <2> QED BY <1>1, <2>1, <2>2, UnnamedSpeaks
<1> QED BY <1>2, <1>3

(* A literal that is not there, or a captured text.                        *)
LEMMA LiteralSpeaks ==
  ASSUME FramesOK, InfoOK(error_info), ctl.do = "call", NEW text, IsSeq(text), parse_literal(text)
  PROVE  Speaks
<1>0. job \in Jobs /\ here \in Places /\ Len(text) \in Nat /\ (text = <<>> => Len(text) = 0)
  BY CallFacts, SeqFacts DEF FramesOK
<1>1. CASE Matches(text, here) /\ ~WordGoesOn(text, here)
  <2>1. error_info' = error_info /\ MatchedFrom(here, Len(text))
    BY <1>1 DEF parse_literal
  <2>2. ~ReturnsFail(ctl')
    BY <1>0, <2>1 DEF MatchedFrom, Enter, Call, Answer, Return, ReturnsFail, Fail
  <2> QED BY <2>1, <2>2, Unspoken
<1>2. CASE ~(Matches(text, here) /\ ~WordGoesOn(text, here))
  <2>1. set_error_pos(here, text)
    BY <1>2 DEF parse_literal
  <2>2. Absent(text, here)
    BY <1>0, <1>2, StandsIff DEF Absent
  <2>3. text # NoText
    <3>1. text = <<>> => StandsAt(text, here, input, g.word)
      BY <1>0, InputFacts DEF StandsAt
    <3> QED BY <2>2, <3>1 DEF Absent, NoText
  <2>4. error_literal(text) = text
    BY <2>3 DEF error_literal
  <2>5. /\ InfoOK(error_info') /\ Lasts(error_info, error_info') /\ (Logging => Recorded(error_info'))
        /\ AllAbsent(error_info) => AllAbsent(error_info')
    BY <1>0, <2>1, <2>2, <2>4, SetErrorSays
  <2> QED BY <2>5 DEF Speaks
<1> QED BY <1>1, <1>2

(* Either of them.                                                         *)
LEMMA TextSpeaks ==
  ASSUME FramesOK, Recording, LiteralEnter \/ BackReferenceEnter PROVE Speaks
<1>1. InfoOK(error_info) /\ CapturesOK /\ ctl.do = "call" /\ here \in Places /\ node \in Own /\ job \in Jobs
  BY CallFacts DEF Recording, LiteralEnter, BackReferenceEnter, Entering, FramesOK
<1>2. CASE LiteralEnter
  <2>1. IsSeq(node.text) /\ parse_literal(node.text)
    BY <1>1, <1>2, OperatorFacts DEF LiteralEnter, Entering, node
  <2> QED BY <1>1, <2>1, LiteralSpeaks
<1>3. CASE BackReferenceEnter
  <2> DEFINE named == {c \in DOMAIN capture_entries : capture_entries[c][1] = node.name}
  <2>1. CASE named = {}
    <3> DEFINE info == [error_info EXCEPT !.message_pos = here, !.message = UndefinedBack]
    <3>1. error_info' = info
      BY <1>3, <2>1 DEF BackReferenceEnter
    <3>2. /\ InfoOK(info) /\ Recorded(info) /\ Lasts(error_info, info)
          /\ AllAbsent(error_info) => AllAbsent(info)
      <4>1. info = Messaged(error_info, here, UndefinedBack)
        BY DEF Messaged
      <4> HIDE DEF info
      <4> QED BY <1>1, <4>1, MessageSays
    <3> HIDE DEF info
    <3> QED BY <3>1, <3>2 DEF Speaks
  <2>2. CASE named # {}
    <3> DEFINE m == Max(named)
    <3>1. DOMAIN capture_entries = 1 .. Len(capture_entries) /\ Len(capture_entries) \in Nat
      BY <1>1, SeqFacts DEF CapturesOK
    <3>2. m \in named
      BY <2>2, <3>1, MaxFacts
    <3>3. parse_literal(capture_entries[m][2])
      BY <1>3, <2>2 DEF BackReferenceEnter
    <3> HIDE DEF m
    <3>4. IsSeq(capture_entries[m][2])
      BY <1>1, <3>2 DEF CapturesOK
    <3> QED BY <1>1, <3>3, <3>4, LiteralSpeaks
  <2> QED BY <2>1, <2>2
<1> QED BY <1>2, <1>3

(* The alternatives that a choice filters out.                             *)
LEMMA FilteredSpeaks ==
  ASSUME job \in Jobs, InfoOK(error_info), NEW e \in Own, e.op = "cho", NEW p \in Places,
         NEW first \in Nat \ {0}, NEW last \in Int, last >= first - 1, last <= Len(e.kids), NEW keep,
         FilterOut(e, p, first, last, keep), \A k \in first .. last : ~MayStart(e, p, k),
         ReturnsFail(ctl') => ReturnsFail(ctl) \/ (first = 1 /\ last = Len(e.kids))
  PROVE  Speaks
<1>0. Len(e.kids) \in Nat
  BY OperatorFacts
<1>1. /\ InfoOK(error_info') /\ Lasts(error_info, error_info')
      /\ Logging /\ (\E k \in first .. last : HasName(e, k)) => Recorded(error_info')
      /\ AllAbsent(error_info) /\ (\A k \in first .. last : NameAbsent(e, p, k)) => AllAbsent(error_info')
  BY FilterOutSays
<1>2. ASSUME NEW W, NamesLiterals(Here, W), NEW k \in first .. last PROVE NameAbsent(e, p, k)
  <2>1. k \in 1 .. Len(e.kids)
    BY <1>0
  <2> QED BY <1>2, <2>1, NamesAbsent
<1>3. ASSUME Tells(Here), first = 1, last = Len(e.kids) PROVE \E k \in first .. last : HasName(e, k)
  <2>1. last # 0
    BY <1>3, HereIs DEF Tells
  <2>2. \A k \in first .. last : p < Len(input) /\ e.first # <<>> /\ Byte(p) \notin e.first[k]
    BY DEF MayStart
  <2>3. p < Len(input) /\ e.first # <<>>
    BY <1>0, <1>3, <2>1, <2>2
  <2>4. p + 1 \in 1 .. Len(input)
    BY <2>3, InputFacts
  <2>5. \A k \in 1 .. Len(e.kids) : input[p + 1] \notin e.first[k]
    BY <1>3, <2>2 DEF Byte
  <2>6. \E k \in 1 .. Len(e.kids) : e.named[k] # <<NoText, NoName>>
    BY <1>3, <2>3, <2>4, <2>5, HereIs DEF Tells
  <2> QED BY <1>3, <2>6 DEF HasName
<1> QED BY <1>1, <1>2, <1>3 DEF Speaks

(* The alternatives before the next that is tried are filtered out.        *)
LEMMA NextFacts ==
  ASSUME NEW e, NEW p, NEW from \in Nat, Len(e.kids) \in Nat, Open(e, p, from) # {}
  PROVE  LET m == NextOf(Open(e, p, from)) IN
         m \in from .. Len(e.kids) /\ \A k \in from .. m - 1 : ~MayStart(e, p, k)
<1> DEFINE open == Open(e, p, from)  m == NextOf(open)
<1>1. open \subseteq Nat
  BY DEF Open
<1>2. m \in from .. Len(e.kids) /\ \A k \in open : m <= k
  <2> HIDE DEF open
  <2>1. m \in open /\ \A k \in open : m <= k
    BY <1>1, MinFacts DEF NextOf, open
  <2> QED BY <2>1, OpenFacts DEF open
<1> HIDE DEF m
<1>3. ASSUME NEW k \in from .. m - 1, MayStart(e, p, k) PROVE FALSE
  <2>1. k \in from .. Len(e.kids) /\ ~(m <= k)
    BY <1>2, <1>3
  <2> QED BY <1>2, <1>3, <2>1 DEF Open
<1> QED BY <1>2, <1>3 DEF m

(* A choice, when it is called, when an alternative matches and when one   *)
(* fails.                                                                  *)
LEMMA ChoiceSpeaks ==
  ASSUME FramesOK, Recording, ChoiceEnter \/ ChoiceMatched \/ ChoiceFailed PROVE Speaks
<1>0. job \in Jobs /\ InfoOK(error_info) /\ ChoicesOK(frames) /\ IsSeq(frames)
  BY DEF FramesOK, StackOK, Recording
<1>1. CASE ChoiceEnter
  <2> DEFINE open == Open(node, here, 1)  n == Len(node.kids)
  <2>1. /\ node \in Own /\ node.op = "cho" /\ here \in Places /\ n \in Nat
    BY <1>0, <1>1, CallFacts, OperatorFacts DEF ChoiceEnter, Entering, node
  <2>2. CASE open = {}
    <3>1. FilterOut(node, here, 1, n, FALSE)
      BY <1>1, <2>2 DEF ChoiceEnter
    <3>2. \A k \in 1 .. n : ~MayStart(node, here, k)
      BY <2>2 DEF Open
    <3> DEFINE a == 1
    <3>3. a \in Nat \ {0} /\ n \in Int /\ n >= a - 1 /\ n <= Len(node.kids) /\ a = 1 /\ n = Len(node.kids)
      BY <2>1
    <3>4. FilterOut(node, here, a, n, FALSE) /\ \A k \in a .. n : ~MayStart(node, here, k)
      BY <3>1, <3>2
    <3> HIDE DEF open, a, n
    <3> QED BY <1>0, <2>1, <3>3, <3>4, FilteredSpeaks
  <2>3. CASE open # {}
    <3> DEFINE m == NextOf(open)
    <3> DEFINE a == 1  l == m - 1
    <3>1. /\ FilterOut(node, here, a, l, m > 1)
          /\ Enter([Frame("cho", node, here) EXCEPT !.k = m, !.snap = Snapshot], node.kids[m], here)
      BY <1>1, <2>3 DEF ChoiceEnter
    <3>2. m \in 1 .. n /\ \A k \in a .. l : ~MayStart(node, here, k)
      BY <2>1, <2>3, NextFacts
    <3>3. ~ReturnsFail(ctl')
      BY <3>1 DEF Enter, Call, ReturnsFail
    <3> HIDE DEF m, n
    <3>4. a \in Nat \ {0} /\ l \in Int /\ l >= a - 1 /\ l <= Len(node.kids)
      BY <2>1, <3>2 DEF n
    <3> HIDE DEF a, l
    <3> QED BY <1>0, <2>1, <3>1, <3>2, <3>3, <3>4, FilteredSpeaks
  <2> QED BY <2>2, <2>3
<1>2. CASE ChoiceMatched
  <2>1. error_info' = [error_info EXCEPT !.keep_previous_token = FALSE] /\ len # Fail /\ ~ReturnsFail(ctl')
    BY <1>2 DEF ChoiceMatched, Leave, Return, ReturnsFail
  <2>2. /\ InfoOK(error_info') /\ Lasts(error_info, error_info')
        /\ (AllAbsent(error_info) => AllAbsent(error_info'))
    BY <1>0, <2>1, KeepSays
  <2> QED BY <2>1, <2>2 DEF Speaks
<1>3. CASE ChoiceFailed
  <2> DEFINE e == top.node  n == Len(e.kids)  open == Open(e, top.pos, top.k + 1)
  <2>1. Resuming("cho") /\ len = Fail
    BY <1>3 DEF ChoiceFailed
  <2>2. /\ frames # <<>> /\ FrameOK(top) /\ top.op = "cho" /\ ReturnsFail(ctl)
    BY <2>1, ReturnFacts DEF ReturnsFail, len
  <2>3. e \in Own /\ e.op = "cho" /\ top.pos \in Places /\ n \in Nat
    BY <1>0, <2>2, OperatorFacts DEF FrameOK, HasOperator
  <2>4. top.k \in 1 .. n
    <3>1. Len(frames) \in DOMAIN frames /\ top = frames[Len(frames)]
      BY <1>0, <2>2, SeqFacts DEF top, Last
    <3> QED BY <1>0, <2>2, <3>1 DEF ChoicesOK
  <2>5. CASE was_cut \/ open = {}
    <3> DEFINE a == top.k + 1  l == IF was_cut THEN top.k ELSE n
    <3>1. FilterOut(e, top.pos, a, l, FALSE)
      BY <1>3, <2>5 DEF ChoiceFailed
    <3>2. \A k \in a .. l : ~MayStart(e, top.pos, k)
      BY <2>4, <2>5 DEF Open
    <3>3. l \in Int /\ l >= a - 1 /\ l <= Len(e.kids) /\ a \in Nat \ {0}
      BY <2>3, <2>4
    <3> HIDE DEF a, l, e, open, n
    <3> QED BY <1>0, <2>2, <2>3, <3>1, <3>2, <3>3, FilteredSpeaks
  <2>6. CASE ~was_cut /\ open # {}
    <3> DEFINE m == NextOf(open)  a == top.k + 1  l == m - 1
    <3>1. FilterOut(e, top.pos, a, l, TRUE)
      BY <1>3, <2>6 DEF ChoiceFailed
    <3>2. m \in a .. n /\ \A k \in a .. l : ~MayStart(e, top.pos, k)
      <4>1. a \in Nat
        BY <2>4
      <4> QED BY <2>3, <2>6, <4>1, NextFacts
    <3> HIDE DEF m
    <3>3. l \in Int /\ l >= a - 1 /\ l <= Len(e.kids) /\ a \in Nat \ {0}
      BY <2>3, <2>4, <3>2
    <3> HIDE DEF a, l, e, open, n
    <3> QED BY <1>0, <2>2, <2>3, <3>1, <3>2, <3>3, FilteredSpeaks
  <2> QED BY <2>5, <2>6
<1> QED BY <1>1, <1>2, <1>3

(* A repetition: only a loop over a character class records a failure.     *)
LEMMA RepetitionSpeaks ==
  ASSUME FramesOK, Recording, RepetitionEnter \/ RepetitionMatched \/ RepetitionFailed PROVE Speaks
<1>0. job \in Jobs /\ InfoOK(error_info)
  BY DEF FramesOK, Recording
<1>1. CASE RepetitionEnter
  <2> DEFINE m == Span(node, here)
  <2>1. node \in Own /\ node.op = "rep" /\ here \in Places /\ node.min \in Nat
    BY <1>0, <1>1, CallFacts, OperatorFacts DEF RepetitionEnter, Entering, node
  <2>2. m \in 0 .. Len(input) - here /\ Len(input) \in Nat /\ here \in Nat
    BY <1>0, <2>1, SpanFacts, InputFacts
  <2>3. CASE node.span /\ m < node.min
    <3>1. set_error_pos(here + m, NoText)
      BY <1>1, <2>3 DEF RepetitionEnter
    <3>2. here + m \in Places
      BY <2>2 DEF Places
    <3>3. \A W : NamesLiterals(Here, W) /\ Quiet(W, frames, ctl) => ~HasToken(frames)
      <4> SUFFICES ASSUME NEW W, NamesLiterals(Here, W), Quiet(W, frames, ctl), HasToken(frames) PROVE FALSE
        OBVIOUS
      <4>1. ctl.do = "call"
        BY <1>1 DEF RepetitionEnter, Entering
      <4>2. node \in W
        BY <4>1 DEF Quiet, HasToken, node
      <4>3. node.min = 0
        BY <2>1, <4>2, OnlyIs
      <4> QED BY <2>2, <2>3, <4>3
    <3> HIDE DEF m
    <3> QED BY <1>0, <3>1, <3>2, <3>3, UnnamedSpeaks
  <2>4. CASE ~(node.span /\ m < node.min)
    <3>1. /\ error_info' = error_info
          /\ \/ Answer(m) \/ Answer(0)
             \/ Enter([Frame("rep", node, here) EXCEPT !.snap = Snapshot], node.kid, here)
      BY <1>1, <2>4 DEF RepetitionEnter
    <3>2. ~ReturnsFail(ctl')
      BY <2>2, <3>1 DEF Answer, Return, Enter, Call, ReturnsFail, Fail
    <3> QED BY <1>0, <3>1, <3>2, Unspoken
  <2> QED BY <2>3, <2>4
<1>2. CASE RepetitionMatched
  <2>1. Resuming("rep") /\ len # Fail /\ error_info' = error_info
    BY <1>2 DEF RepetitionMatched, context, errors
  <2>2. top.i + len \in Nat
    BY <2>1, ReturnFacts
  <2>3. ~ReturnsFail(ctl')
    BY <1>2, <2>2 DEF RepetitionMatched, Leave, Return, Resume, Call, ReturnsFail, Fail
  <2> QED BY <1>0, <2>1, <2>3, Unspoken
<1>3. CASE RepetitionFailed
  <2>1. ReturnsFail(ctl) /\ error_info' = error_info
    BY <1>3 DEF RepetitionFailed, Resuming, ReturnsFail, len, errors
  <2> QED BY <1>0, <2>1, Unspoken
<1> QED BY <1>1, <1>2, <1>3

(* A negative predicate whose operand matched.                             *)
LEMMA NotSpeaks ==
  ASSUME FramesOK, Recording, NotPredicateResume PROVE Speaks
<1>0. job \in Jobs /\ InfoOK(error_info) /\ IsSeq(frames)
  BY DEF FramesOK, StackOK, Recording
<1>1. CASE len = Fail
  <2>1. error_info' = error_info /\ ~ReturnsFail(ctl')
    BY <1>1 DEF NotPredicateResume, Leave, Return, ReturnsFail, Fail
  <2> QED BY <1>0, <2>1, Unspoken
<1>2. CASE len # Fail
  <2>1. Resuming("not") /\ set_error_pos(top.pos, NoText)
    BY <1>2 DEF NotPredicateResume
  <2>2. frames # <<>> /\ top.op = "not" /\ top.pos \in Places
    BY <2>1, ReturnFacts DEF FrameOK
  <2>3. \A W : NamesLiterals(Here, W) /\ Quiet(W, frames, ctl) => ~HasToken(frames)
    <3> SUFFICES ASSUME NEW W, Quiet(W, frames, ctl), NEW j \in DOMAIN frames, OfToken(frames[j]) PROVE FALSE
      BY DEF HasToken
    <3>1. Len(frames) \in Nat /\ DOMAIN frames = 1 .. Len(frames) /\ Len(frames) # 0 /\ top = frames[Len(frames)]
      BY <1>0, <2>2, SeqFacts DEF top, Last
    <3>2. j # Len(frames)
      BY <2>2, <3>1 DEF OfToken
    <3>3. Len(frames) \in j + 1 .. Len(frames)
      BY <3>1, <3>2
    <3>4. QuietFrame(W, top)
      BY <3>1, <3>3 DEF Quiet
    <3> QED BY <2>2, <3>4 DEF QuietFrame
  <2> QED BY <1>0, <2>1, <2>2, <2>3, UnnamedSpeaks
<1> QED BY <1>1, <1>2

(* What clear leaves of an ErrorInfo says nothing.                         *)
LEMMA ClearedSays ==
  ASSUME NEW info, InfoOK(info), NEW new, new = clear(info) PROVE InfoOK(new) /\ AllAbsent(new)
<1>1. /\ info = Info(info.error_pos, info.expected_tokens, info.message_pos, info.message,
                     info.label, info.last_output_pos, info.keep_previous_token)
      /\ info.last_output_pos \in Places \cup {NoPos} /\ IsSeq(<<>>)
  BY InfoParts, NoFrames
<1>2. new = Info(NoPos, <<>>, NoPos, NoName, info.label, info.last_output_pos, info.keep_previous_token)
  BY <1>1 DEF clear, Info
<1>3. InfoOK(new)
  BY <1>1, <1>2, InfoMade
<1>4. new.expected_tokens = <<>>
  BY <1>2 DEF Info
<1> QED BY <1>3, <1>4, SaysNothing DEF Says

(* What a report changes in an ErrorInfo.                                  *)
LEMMA OutputSays ==
  ASSUME NEW info, InfoOK(info), NEW label, NEW last \in Places \cup {NoPos},
         NEW new, new = [info EXCEPT !.last_output_pos = last, !.label = label]
  PROVE  InfoOK(new)
<1>1. /\ info = Info(info.error_pos, info.expected_tokens, info.message_pos, info.message,
                     info.label, info.last_output_pos, info.keep_previous_token)
      /\ info.error_pos \in Places \cup {NoPos} /\ info.message_pos \in Places \cup {NoPos}
      /\ IsSeq(info.expected_tokens)
  BY InfoParts
<1>2. new = Info(info.error_pos, info.expected_tokens, info.message_pos, info.message, label,
                 last, info.keep_previous_token)
  BY <1>1 DEF Info
<1> QED BY <1>1, <1>2, InfoMade

(* A recovery: a message before, and after it the error is reported and    *)
(* forgotten.                                                              *)
LEMMA RecoverySpeaks ==
  ASSUME FramesOK, Recording, RecoveryEnter \/ RecoveryResume PROVE Speaks
<1>0. job \in Jobs /\ InfoOK(error_info)
  BY DEF FramesOK, Recording
<1>1. \E e \in Own : e.op = "rec"
  <2>1. CASE RecoveryEnter
    BY <2>1, CallFacts DEF RecoveryEnter, Entering, node
  <2>2. CASE RecoveryResume
    <3>1. FrameOK(top) /\ top.op = "rec"
      BY <2>2, ReturnFacts DEF RecoveryResume
    <3> QED BY <3>1 DEF FrameOK, HasOperator
  <2> QED BY <2>1, <2>2
<1>2. ~Tells(Here)
  BY <1>1, HereIs DEF Tells
<1>3. InfoOK(error_info') /\ (AllAbsent(error_info) => AllAbsent(error_info'))
  <2>1. CASE error_info' = error_info
    BY <1>0, <2>1
  <2>2. CASE RecoveryEnter /\ error_info' # error_info
    <3> DEFINE new == set_message(here, node.kid.name)
    <3>1. error_info' = new /\ here \in Places
      BY <2>2, CallFacts DEF RecoveryEnter, Entering
    <3>2. new = Labelling(error_info, here, node.kid.name)
      BY DEF set_message, Labelling
    <3> HIDE DEF new
    <3> QED BY <1>0, <3>1, <3>2, MessageSays
  <2>3. CASE RecoveryResume /\ error_info' # error_info
    <3> DEFINE out == AfterOutput(error_info)  last == OutputPos(error_info)  label == OutputLabel(error_info)
               new == clear(out)
    <3>1. error_info' = new
      BY <2>3 DEF RecoveryResume, errors
    <3>2. /\ last \in Places \cup {NoPos}
          /\ out = error_info \/ out = [error_info EXCEPT !.last_output_pos = last, !.label = label]
      BY <1>0, InfoParts DEF OutputPos, AfterOutput
    <3> HIDE DEF out, last, label
    <3>3. InfoOK(out)
      BY <1>0, <3>2, OutputSays
    <3>4. new = clear(out)
      OBVIOUS
    <3> HIDE DEF new
    <3> QED BY <3>1, <3>3, <3>4, ClearedSays
  <2> QED BY <2>1, <2>2, <2>3
<1> QED BY <1>2, <1>3 DEF Speaks

(* The other operators record nothing.                                     *)
LEMMA QuietlySpeaks ==
  ASSUME FramesOK, Recording,
         \/ SkipResume \/ SequenceEnter \/ SequenceResume \/ PredicateEnter \/ AndPredicateResume
         \/ CaptureScopeEnter \/ CaptureScopeResume \/ CaptureEnter \/ CaptureResume
         \/ TokenBoundaryEnter \/ TokenBoundaryResume \/ IgnoreEnter \/ IgnoreResume
         \/ WhitespaceEnter \/ WhitespaceResume \/ CutEnter
  PROVE  Speaks
<1>1. error_info' = error_info
  BY DEF SkipResume, SequenceEnter, SequenceResume, PredicateEnter, AndPredicateResume,
     CaptureScopeEnter, CaptureScopeResume, CaptureEnter, CaptureResume, TokenBoundaryEnter,
     TokenBoundaryResume, IgnoreEnter, IgnoreResume, WhitespaceEnter, WhitespaceResume, CutEnter,
     context, errors
<1>2. ReturnsFail(ctl') => ReturnsFail(ctl)
  <2>1. CASE SkipResume
    <3>1. Resuming("skip") /\ (len # Fail => top.i + len \in Nat)
      BY <2>1, ReturnFacts DEF SkipResume
    <3> QED BY <2>1, <3>1 DEF SkipResume, Resuming, Leave, Return, ReturnsFail, len, Fail
  <2>2. CASE SequenceResume
    <3>1. Resuming("seq") /\ (len # Fail => top.i + len \in Nat)
      BY <2>2, ReturnFacts DEF SequenceResume
    <3> QED BY <2>2, <3>1 DEF SequenceResume, Resuming, Leave, Resume, Return, Call, ReturnsFail, len, Fail
  <2>3. CASE SequenceEnter \/ PredicateEnter \/ CaptureScopeEnter \/ CaptureEnter
             \/ TokenBoundaryEnter \/ IgnoreEnter \/ WhitespaceEnter \/ CutEnter
    <3>1. \/ \E e, p : ctl' = Call(e, p)
          \/ ctl' = Return(0, NoVal)
      BY <2>3 DEF SequenceEnter, PredicateEnter, CaptureScopeEnter, CaptureEnter, TokenBoundaryEnter,
         IgnoreEnter, WhitespaceEnter, CutEnter, Answer, Enter
    <3> QED BY <3>1 DEF Return, Call, ReturnsFail, Fail
  <2>4. CASE CaptureScopeResume \/ CaptureResume \/ IgnoreResume \/ WhitespaceResume
    <3>1. ctl.do = "return" /\ ctl' = Return(len, NoVal)
      BY <2>4 DEF CaptureScopeResume, CaptureResume, IgnoreResume, WhitespaceResume, Leave, Resuming
    <3> QED BY <3>1 DEF Return, ReturnsFail, len
  <2>5. CASE AndPredicateResume
    <3>1. ctl.do = "return" /\ ctl' = Return(IF len = Fail THEN Fail ELSE 0, NoVal)
      BY <2>5 DEF AndPredicateResume, Leave, Resuming
    <3> QED BY <3>1 DEF Return, ReturnsFail, len, Fail
  <2>6. CASE TokenBoundaryResume
    <3>1. /\ ctl.do = "return"
          /\ \/ ctl' = Return(len, NoVal)
             \/ ctl' = Call(g.whitespace, top.pos + len)
      BY <2>6 DEF TokenBoundaryResume, Leave, Resume, Resuming
    <3> QED BY <3>1 DEF Return, Call, ReturnsFail, len
  <2> QED BY <2>1, <2>2, <2>3, <2>4, <2>5, <2>6
<1> QED BY <1>1, <1>2, Unspoken DEF Recording

(* Every operator.                                                         *)
LEMMA CombinatorSpeaks ==
  ASSUME FramesOK, Recording, Combinator PROVE Speaks
BY CharSpeaks, TextSpeaks, ChoiceSpeaks, RepetitionSpeaks, NotSpeaks, RecoverySpeaks, QuietlySpeaks
   DEF Combinator, Recording

(* A rule records a message where it fails, or where its predicate rejects *)
(* the match.                                                              *)
LEMMA BodySpeaks ==
  ASSUME FramesOK, Recording, BodyReturns PROVE Speaks
<1> DEFINE r == rule_of(top)
           m == IF len = Fail THEN Fail ELSE top.i + len
           rejects == m # Fail /\ SubSeq(input, top.pos + 1, top.pos + m) \in r.rejected
           complains == IF m = Fail THEN r.error_message ELSE rejects /\ r.predicate_message
<1>0. job \in Jobs /\ InfoOK(error_info)
  BY DEF FramesOK, Recording
<1>1. /\ Resuming("body") /\ frames # <<>> /\ FrameOK(top) /\ top.op = "body"
      /\ len # Fail => top.i + len \in Nat
  BY ReturnFacts DEF BodyReturns
<1>2. /\ error_info' = IF Logging /\ complains THEN WithMessage(top.pos, name_of(top)) ELSE error_info
      /\ ReturnsFail(ctl') => m = Fail \/ rejects
  <2>1. m # Fail => m \in Nat
    BY <1>1
  <2> QED BY <2>1 DEF BodyReturns, Return, ReturnsFail
<1>3. m = Fail => ReturnsFail(ctl)
  BY <1>1 DEF Resuming, ReturnsFail, len, Fail
<1>4. ASSUME Tells(Here), rejects PROVE r.predicate_message
  <2>1. top.node \in Own /\ top.node.op = "ref" /\ top.node.name \in Names
    BY <1>0, <1>1, OperatorFacts DEF FrameOK, HasOperator
  <2>2. r.rejected # {}
    BY <1>4
  <2> QED BY <1>4, <2>1, <2>2, HereIs DEF Tells, rule_of, Names, rules
<1>5. top.pos \in Places /\ top.pos \in Nat /\ error_info.message_pos \in Places \cup {NoPos}
  BY <1>0, <1>1, InputFacts, InfoParts DEF FrameOK
<1> DEFINE new == WithMessage(top.pos, name_of(top))
<1>6. /\ InfoOK(new) /\ Recorded(new) /\ Lasts(error_info, new)
      /\ (AllAbsent(error_info) => AllAbsent(new))
  <2>1. CASE error_info.message_pos < top.pos
    <3>1. new = Labelling(error_info, top.pos, name_of(top))
      BY <2>1 DEF WithMessage, set_message, Labelling
    <3> HIDE DEF new
    <3> QED BY <1>0, <1>5, <3>1, MessageSays
  <2>2. CASE ~(error_info.message_pos < top.pos)
    <3>1. new = error_info
      BY <2>2 DEF WithMessage
    <3> HIDE DEF new
    <3> QED BY <1>0, <1>5, <2>2, <3>1 DEF Recorded, Lasts, NoPos
  <2> QED BY <2>1, <2>2
<1> HIDE DEF new
<1>7. CASE Logging /\ complains
  <2>1. error_info' = new
    BY <1>2, <1>7 DEF new
  <2> QED BY <1>6, <2>1 DEF Speaks
<1>8. CASE ~(Logging /\ complains)
  <2>1. error_info' = error_info
    BY <1>2, <1>8
  <2>2. Tells(Here) /\ Logging /\ ReturnsFail(ctl') => ReturnsFail(ctl)
    BY <1>2, <1>3, <1>4, <1>8
  <2> QED BY <1>0, <2>1, <2>2 DEF Speaks, Lasts
<1> QED BY <1>7, <1>8

----------------------------------------------------------------------------
(* The next state, whatever the action.                                    *)
StepSays ==
  /\ InfoOK(error_info')
  /\ \A W : NamesLiterals(Here, W) /\ Quiet(W, frames, ctl) /\ AllAbsent(error_info)
       => AllAbsent(error_info')

(* Of a rule call only the end of a body records anything.                 *)
LEMMA RuleCallErrors ==
  ASSUME RuleCall PROVE BodyReturns \/ error_info' = error_info
BY DEF RuleCall, MemoHit, MemoMiss, MemoReturn, GuardHit, GuardMiss, GuardReturn, PlainHit, PlainMiss,
   PlainReturn, SeedHit, SeedStart, SeedReturn, GrowReturn, BodySkips, Known, Finished, RunRule,
   RunRuleAgain, Grow, StartBody, errors

(* What the parse records at its end is a message inside the input.        *)
LEMMA ReturnedErrors ==
  ASSUME FramesOK, NEW ret, NEW i \in Nat, Returned(ret, i)
  PROVE  error_info' = error_info \/ (i \in Places /\ error_info' = Messaged(error_info, i, EndExpected))
<1>1. Len(input) \in Nat
  BY InputFacts DEF FramesOK
<1> QED BY <1>1 DEF Returned, post_process, Messaged, Places

(* Definition::parse_core records no more than that the end was expected.  *)
LEMMA TopErrors ==
  ASSUME FramesOK, TopWhitespace \/ TopReturn
  PROVE  \/ error_info' = error_info
         \/ \E i \in Places : error_info' = Messaged(error_info, i, EndExpected)
<1>1. Resuming("top")
  BY DEF TopWhitespace, TopReturn
<1>2. top.i \in Nat /\ 0 \in Nat /\ (len # Fail => top.i + len \in Nat)
  BY <1>1, ReturnFacts
<1>3. error_info' = error_info \/ \E ret, i : i \in Nat /\ Returned(ret, i)
  BY <1>2 DEF TopWhitespace, TopReturn, errors
<1> QED BY <1>3, ReturnedErrors

(* What a step of any kind may record.                                     *)
LEMMA NextSays ==
  ASSUME FramesOK, Recording, [Next]_vars PROVE StepSays
<1>0. job \in Jobs /\ InfoOK(error_info)
  BY DEF FramesOK, Recording
<1>1. CASE Combinator \/ BodyReturns
  BY <1>1, CombinatorSpeaks, BodySpeaks DEF Speaks, StepSays
<1>2. CASE error_info' = error_info
  BY <1>0, <1>2 DEF StepSays
<1>3. CASE TopWhitespace \/ TopReturn
  BY <1>0, <1>2, <1>3, TopErrors, MessageSays DEF StepSays
<1>4. CASE UNCHANGED vars
  BY <1>2, <1>4 DEF vars, context, errors
<1> QED BY <1>1, <1>2, <1>3, <1>4, RuleCallErrors DEF Next, Step, Idle

(* Where the next stack is, its snapshots, choices and quiet are.          *)
LEMMA NextStack ==
  ASSUME FramesOK, Recording, [Next]_vars
  PROVE  /\ StepCaptures /\ ChoicesOK(frames')
         /\ \A W : NamesLiterals(Here, W) /\ Quiet(W, frames, ctl) => Quiet(W, frames', ctl')
<1>0. CapturesOK /\ ChoicesOK(frames)
  BY DEF Recording
<1>1. CASE Combinator
  <2>1. Shifts
    BY <1>1, CombinatorShifts
  <2> QED BY <1>0, <1>1, <2>1, CombinatorCaptures, ChoicesStay, QuietShifts
<1>2. CASE RuleCall
  <2>1. Turns /\ StackOK(frames', ctl')
    BY <1>2, RuleCallTurns, RuleCallKeeps
  <2> QED BY <1>0, <1>2, <2>1, RuleCallCaptures, ChoicesStay, QuietTurns
<1>3. CASE TopWhitespace \/ TopReturn
  <2>1. capture_entries' = capture_entries
    BY <1>3 DEF TopWhitespace, TopReturn, silent, values
  <2> QED BY <1>0, <1>3, <2>1, CapturesStay, ChoicesStay, QuietTop
<1>4. CASE UNCHANGED vars
  <2>1. frames' = frames /\ ctl' = ctl /\ capture_entries' = capture_entries
    BY <1>4 DEF vars, context, silent, values
  <2> QED BY <1>0, <2>1 DEF CapturesOK, StepCaptures
<1> QED BY <1>1, <1>2, <1>3, <1>4 DEF Next, Step, Idle

(* The same of the next state.                                             *)
LEMMA ErrorsPrimed ==
  ASSUME job' = job
  PROVE  /\ InfoOK(error_info') => InfoOK(error_info)'
         /\ StepCaptures => CapturesOK'
         /\ ChoicesOK(frames') => ChoicesOK(frames)'
         /\ AllAbsent(error_info') => AllAbsent(error_info)'
         /\ \A W : /\ NamesLiterals(Here, W)' <=> NamesLiterals(Here, W)
                   /\ Quiet(W, frames', ctl') => Quiet(W, frames, ctl)'
<1>1. /\ Here' = Here /\ rules' = rules /\ g' = g /\ input' = input /\ Places' = Places
  BY LanguagePrimed
<1>2. InfoOK(error_info') => InfoOK(error_info)'
  BY <1>1 DEF InfoOK
<1>3. StepCaptures => CapturesOK'
  BY DEF StepCaptures, CapturesOK, SnapsOK, Snaps
<1>4. ChoicesOK(frames') => ChoicesOK(frames)'
  BY DEF ChoicesOK
<1>5. AllAbsent(error_info') => AllAbsent(error_info)'
  BY <1>1 DEF AllAbsent, Absent
<1>6. \A W : /\ NamesLiterals(Here, W)' <=> NamesLiterals(Here, W)
             /\ Quiet(W, frames', ctl') => Quiet(W, frames, ctl)'
  BY <1>1 DEF Quiet, OfToken, QuietFrame, rule_of
<1> QED BY <1>2, <1>3, <1>4, <1>5, <1>6

(* A parse begins with nothing recorded.                                   *)
LEMMA InitErrors == ASSUME Init PROVE Recording /\ ErrorsHold
<1> DEFINE f == Frame("top", NoNode, 0)
<1>1. /\ frames = <<f>> /\ f.op = "top" /\ error_info = NoErrors /\ capture_entries = <<>>
      /\ job \in Jobs
  BY DEF Init, Frame
<1> HIDE DEF f
<1>2. DOMAIN frames = {1} /\ frames[1] = f
  BY <1>1
<1>3. InfoOK(NoErrors) /\ AllAbsent(NoErrors)
  <2>1. IsSeq(<<>>)
    BY NoFrames
  <2>2. NoErrors = Info(NoPos, <<>>, NoPos, NoName, NoName, NoPos, FALSE)
    BY DEF NoErrors, Info
  <2>3. InfoOK(NoErrors)
    BY <2>1, <2>2, InfoMade
  <2>4. NoErrors.expected_tokens = <<>>
    BY DEF NoErrors
  <2> QED BY <2>3, <2>4, SaysNothing DEF Says
<1>4. CapturesOK
  BY <1>1, <1>2, NoFrames DEF CapturesOK, SnapsOK, Snaps
<1>5. ChoicesOK(frames) /\ \A W : Quiet(W, frames, ctl)
  BY <1>1, <1>2 DEF ChoicesOK, Quiet, OfToken
<1> QED BY <1>1, <1>3, <1>4, <1>5 DEF Recording, ErrorsHold

(* A step keeps both.                                                      *)
LEMMA NextErrors ==
  ASSUME IInv, Recording, ErrorsHold, [Next]_vars PROVE Recording' /\ ErrorsHold'
<1>1. FramesOK /\ job' = job
  BY NextJob DEF IInv
<1>2. StepSays /\ StepCaptures /\ ChoicesOK(frames')
  BY <1>1, NextSays, NextStack
<1>3. Recording'
  BY <1>1, <1>2, ErrorsPrimed DEF Recording, StepSays
<1>4. ASSUME NEW W, NamesLiterals(Here, W)' PROVE AllAbsent(error_info)' /\ Quiet(W, frames, ctl)'
  <2>1. NamesLiterals(Here, W)
    BY <1>1, <1>4, ErrorsPrimed
  <2>2. AllAbsent(error_info) /\ Quiet(W, frames, ctl)
    BY <2>1 DEF ErrorsHold
  <2>3. AllAbsent(error_info') /\ Quiet(W, frames', ctl')
    BY <1>1, <1>2, <2>1, <2>2, NextStack DEF StepSays
  <2> QED BY <1>1, <2>3, ErrorsPrimed
<1> QED BY <1>3, <1>4 DEF ErrorsHold

(* The inductive invariant of what a parse records.                        *)
LEMMA ErrorsAlways == Spec => [](IInv /\ Recording /\ ErrorsHold)
BY InitErrors, NextErrors, Invariant, PTL DEF Spec

(* No literal that an error lists as expected stands where the error says  *)
(* it is missing, at any moment of a parse: of every grammar in which only *)
(* literals and spans run inside the rules that are known by their token,  *)
(* whitespace included, and the literals that name the alternatives of a   *)
(* filtered choice start with a byte of the first set.                     *)
THEOREM ExpectedAbsentAlways == Spec => []((\E W : NamesLiterals(Here, W)) => ExpectedIsAbsent)
<1>1. ErrorsHold => ((\E W : NamesLiterals(Here, W)) => ExpectedIsAbsent)
  BY DEF ErrorsHold, AllAbsent, Absent, ExpectedIsAbsent
<1> QED BY <1>1, ErrorsAlways, PTL

----------------------------------------------------------------------------
(* What the parse tells.  Where no operator recovers and no rule is left-  *)
(* recursive, a failure has been recorded before it is returned, and stays *)
(* so; what is memoized as a failure is that of a rule in progress, or has *)
(* been recorded too.                                                      *)
StepTells ==
  /\ ~recovered'
  /\ frames' # <<>> => reports' = <<>> /\ error_info'.last_output_pos = NoPos
  /\ frames' # <<>> /\ ReturnsFail(ctl') => Recorded(error_info')
  /\ \A q \in Names \X Places : memo'[q].len = Fail =>
       /\ job.packrat /\ rules[q[1]].cached
       /\ Recorded(error_info') \/ \E x \in InProgress(frames') : x.name = q[1] /\ x.pos = q[2]
  /\ frames' = <<>> => result'.ret \/ reports' # <<>>

(* There is no recovery to take the log away.                              *)
LEMMA LoggingIs ==
  ASSUME FramesOK, Tells(Here) PROVE Logging <=> job.log
<1>1. \A k \in DOMAIN frames : frames[k].op # "rec"
  <2> SUFFICES ASSUME NEW k \in DOMAIN frames, frames[k].op = "rec" PROVE FALSE
    OBVIOUS
  <2>1. frames[k].node \in Own /\ frames[k].node.op = "rec"
    BY DEF FramesOK, StackOK, FrameOK, HasOperator
  <2> QED BY <2>1, HereIs DEF Tells
<1> QED BY <1>1 DEF Logging, LoggingIn

(* A step that speaks, and starts and ends no rule.                        *)
LEMMA SpokenTells ==
  ASSUME FramesOK, Tells(Here), job.log, Telling, Speaks, frames # <<>>, frames' # <<>>, memo' = memo,
         InProgress(frames') = InProgress(frames), recovered' = recovered, reports' = reports
  PROVE  StepTells
<1>1. /\ Lasts(error_info, error_info')
      /\ ReturnsFail(ctl') => ReturnsFail(ctl) \/ Recorded(error_info')
  BY LoggingIs DEF Speaks
<1>2. ReturnsFail(ctl) => Recorded(error_info)
  BY DEF Telling, Done, ReturnsFail
<1> QED BY <1>1, <1>2 DEF StepTells, Telling, Done, Lasts

(* The operators report nothing and recover nothing.                       *)
LEMMA CombinatorReports ==
  ASSUME FramesOK, Tells(Here), Combinator PROVE recovered' = recovered /\ reports' = reports
<1>1. ~RecoveryEnter /\ ~RecoveryResume
  <2>1. \A e \in Own : e.op # "rec"
    BY HereIs DEF Tells
  <2>2. ASSUME RecoveryEnter PROVE FALSE
    BY <2>1, <2>2, CallFacts DEF RecoveryEnter, Entering, node
  <2>3. ASSUME RecoveryResume PROVE FALSE
    <3>1. FrameOK(top) /\ top.op = "rec"
      BY <2>3, ReturnFacts DEF RecoveryResume
    <3> QED BY <2>1, <3>1 DEF FrameOK, HasOperator
  <2> QED BY <2>2, <2>3
<1>2. CASE CharEnter \/ LiteralEnter \/ BackReferenceEnter \/ SkipResume \/ SequenceEnter \/ SequenceResume
  BY <1>2 DEF CharEnter, LiteralEnter, BackReferenceEnter, SkipResume, SequenceEnter, SequenceResume,
     context, silent, modes, errors
<1>3. CASE ChoiceEnter \/ ChoiceMatched \/ ChoiceFailed \/ RepetitionEnter \/ RepetitionMatched
           \/ RepetitionFailed
  BY <1>3 DEF ChoiceEnter, ChoiceMatched, ChoiceFailed, RepetitionEnter, RepetitionMatched,
     RepetitionFailed, context, silent, modes, errors
<1>4. CASE PredicateEnter \/ AndPredicateResume \/ NotPredicateResume \/ CaptureScopeEnter
           \/ CaptureScopeResume \/ CaptureEnter \/ CaptureResume
  BY <1>4 DEF PredicateEnter, AndPredicateResume, NotPredicateResume, CaptureScopeEnter,
     CaptureScopeResume, CaptureEnter, CaptureResume, context, silent, modes, errors
<1>5. CASE TokenBoundaryEnter \/ TokenBoundaryResume \/ IgnoreEnter \/ IgnoreResume \/ WhitespaceEnter
           \/ WhitespaceResume \/ CutEnter
  BY <1>5 DEF TokenBoundaryEnter, TokenBoundaryResume, IgnoreEnter, IgnoreResume, WhitespaceEnter,
     WhitespaceResume, CutEnter, context, silent, modes, errors
<1> QED BY <1>1, <1>2, <1>3, <1>4, <1>5 DEF Combinator

(* No operator returns a failure that it has not recorded.                 *)
LEMMA CombinatorTells ==
  ASSUME FramesOK, Recording, Tells(Here), job.log, Telling, Combinator PROVE StepTells
<1>1. Speaks /\ frames # <<>> /\ frames' # <<>> /\ InProgress(frames') = InProgress(frames)
  BY CombinatorSpeaks, StillParsing, CombinatorMoves, QuietCalls
<1> QED BY <1>1, CombinatorReports, CombinatorLeaves, SpokenTells

(* Nor do the rules.                                                       *)
LEMMA RuleCallReports ==
  ASSUME RuleCall PROVE recovered' = recovered /\ reports' = reports
BY DEF RuleCall, MemoHit, MemoMiss, MemoReturn, GuardHit, GuardMiss, GuardReturn, PlainHit, PlainMiss,
   PlainReturn, SeedHit, SeedStart, SeedReturn, GrowReturn, BodySkips, BodyReturns, Known, Finished,
   RunRule, RunRuleAgain, Grow, StartBody, errors, modes

(* A failure that answers a rule from its memo was recorded: no guard      *)
(* refuses the rule, as it is not in progress here.                        *)
LEMMA HitTells ==
  ASSUME FramesOK, RulesOK, Tells(Here), job.log, Telling, ~Reenters, MemoHit \/ GuardHit \/ PlainHit
  PROVE  StepTells
<1>1. /\ Entering("ref") /\ key = <<node.name, here>> /\ key \in Names \X Places /\ frames # <<>>
      /\ node.name \in Names /\ here \in Places /\ here # NoPos
  BY KeyFacts, CallFacts, InputFacts
     DEF MemoHit, Memoized, GuardHit, Guarded, PlainHit, Plain, key, FramesOK
<1>2. \A x \in InProgress(frames) : ~(x.name = node.name /\ x.pos = here)
  BY <1>1 DEF Reenters
<1>3. MemoHit
  <2>1. ~GuardHit
    <3> SUFFICES ASSUME active_pos[node.name] = here PROVE FALSE
      BY DEF GuardHit
    <3> QED BY <1>1, <1>2 DEF RulesOK, CallsOK, Latest
  <2>2. ~PlainHit
    <3> SUFFICES ASSUME lr_memo[key] # NoMemo, ~rules[node.name].is_left_recursive PROVE FALSE
      BY DEF PlainHit, Plain, callee
    <3> QED BY <1>1, <1>2 DEF RulesOK, CallsOK
  <2> QED BY <2>1, <2>2
<1>4. /\ frames' = frames /\ InProgress(frames') = InProgress(frames)
      /\ ReturnsFail(ctl') => memo[key].len = Fail
      /\ memo' = memo /\ error_info' = error_info /\ recovered' = recovered /\ reports' = reports
  BY <1>3 DEF MemoHit, Known, Answer, Return, ReturnsFail, memos, errors, modes
<1>5. memo[key].len = Fail => Recorded(error_info)
  BY <1>1, <1>2 DEF Telling
<1> QED BY <1>1, <1>4, <1>5 DEF StepTells, Telling, Done

(* A rule that starts registers its failure while it is in progress.       *)
LEMMA MissTells ==
  ASSUME FramesOK, Tells(Here), job.log, Telling, MemoMiss \/ GuardMiss \/ PlainMiss PROVE StepTells
<1>1. /\ Entering("ref") /\ key = <<node.name, here>> /\ key \in Names \X Places /\ frames # <<>>
      /\ DOMAIN memo = Names \X Places
  BY KeyFacts, CallFacts
     DEF MemoMiss, Memoized, GuardMiss, Guarded, PlainMiss, Plain, key, FramesOK, MemosOK, EntriesOK
<1>2. \E f : f.op = "rule" /\ f.node = node /\ f.pos = here /\ RunRule(f)
  BY SavedIs DEF MemoMiss, GuardMiss, PlainMiss, Frame
<1>3. PICK f : f.op = "rule" /\ f.node = node /\ f.pos = here /\ RunRule(f)
  BY <1>2
<1>4. /\ InProgress(frames) \subseteq InProgress(frames')
      /\ \E x \in InProgress(frames') : x.name = node.name /\ x.pos = here
  BY <1>3, RunCalls
<1>5. ctl'.do = "call" /\ error_info' = error_info /\ recovered' = recovered /\ reports' = reports
  BY <1>3 DEF RunRule, StartBody, Call, errors
<1>6. frames' # <<>>
  BY StillParsing DEF RuleCall
<1>7. \/ memo' = memo
      \/ job.packrat /\ rules[node.name].cached /\ memo' = [memo EXCEPT ![key] = Failed]
  BY DEF MemoMiss, Memoized, callee, GuardMiss, PlainMiss
<1>8. ASSUME NEW q \in Names \X Places, memo'[q].len = Fail
      PROVE  /\ job.packrat /\ rules[q[1]].cached
             /\ Recorded(error_info') \/ \E x \in InProgress(frames') : x.name = q[1] /\ x.pos = q[2]
  <2>1. CASE memo'[q] = memo[q]
    BY <1>4, <1>5, <1>8, <2>1 DEF Telling
  <2>2. CASE memo'[q] # memo[q]
    <3>1. q = key /\ job.packrat /\ rules[node.name].cached
      BY <1>1, <1>7, <2>2
    <3> QED BY <1>1, <1>4, <3>1
  <2> QED BY <2>1, <2>2
<1> QED BY <1>1, <1>5, <1>6, <1>8 DEF StepTells, Telling, Done, ReturnsFail

(* A rule that ends with a failure leaves it in its memo, recorded.        *)
LEMMA EndTells ==
  ASSUME FramesOK, Tells(Here), job.log, Telling, MemoReturn \/ GuardReturn \/ PlainReturn PROVE StepTells
<1>1. /\ Resuming("rule") /\ frames' = Front(frames) /\ ctl' = Return(len, NoVal)
      /\ error_info' = error_info /\ recovered' = recovered /\ reports' = reports
      /\ \/ memo' = memo /\ ~(job.packrat /\ rule_of(top).cached)
         \/ memo' = memo /\ len = Fail
         \/ memo' = [memo EXCEPT ![InRule(top)] = Entry(len, ctl.val)] /\ len # Fail
  BY DEF MemoReturn, GuardReturn, PlainReturn, Returning, Finished, Leave, errors, modes,
         write_packrat_cache, rule_of, name_of, InRule
<1>2. /\ InRule(top) = <<top.node.name, top.pos>> /\ rule_of(top) = rules[top.node.name]
      /\ InRule(top) \in Names \X Places /\ DOMAIN memo = Names \X Places /\ frames # <<>>
  BY <1>1, RuleFacts DEF rule_of, name_of, FramesOK, MemosOK, EntriesOK, Resuming
<1>3. ReturnsFail(ctl') => Recorded(error_info)
  <2>1. ReturnsFail(ctl') => ReturnsFail(ctl)
    BY <1>1 DEF ReturnsFail, Return, Resuming, len
  <2> QED BY <1>2, <2>1 DEF Telling, Done, ReturnsFail
<1>4. len = Fail => Recorded(error_info)
  BY <1>1, <1>2 DEF Telling, Done, Resuming, len
<1>5. frames' # <<>>
  BY StillParsing DEF RuleCall
<1>6. ASSUME NEW q \in Names \X Places, memo'[q].len = Fail
      PROVE  /\ job.packrat /\ rules[q[1]].cached
             /\ Recorded(error_info') \/ \E x \in InProgress(frames') : x.name = q[1] /\ x.pos = q[2]
  <2>1. memo[q].len = Fail /\ (q = InRule(top) => len = Fail \/ ~(job.packrat /\ rule_of(top).cached))
    <3>1. CASE memo' = memo /\ (len = Fail \/ ~(job.packrat /\ rule_of(top).cached))
      BY <1>6, <3>1
    <3>2. CASE memo' = [memo EXCEPT ![InRule(top)] = Entry(len, ctl.val)] /\ len # Fail
      <4>1. q # InRule(top)
        BY <1>2, <1>6, <3>2 DEF Entry
      <4> QED BY <1>2, <1>6, <3>2, <4>1
    <3> QED BY <1>1, <3>1, <3>2
  <2>2. /\ job.packrat /\ rules[q[1]].cached
        /\ Recorded(error_info) \/ \E x \in InProgress(frames) : x.name = q[1] /\ x.pos = q[2]
    BY <2>1 DEF Telling
  <2>3. CASE q = InRule(top)
    BY <1>1, <1>2, <1>4, <2>1, <2>2, <2>3
  <2>4. CASE q # InRule(top)
    <3>1. \A x \in InProgress(frames) : x.name = q[1] /\ x.pos = q[2] => x \in InProgress(frames')
      <4> SUFFICES ASSUME NEW x \in InProgress(frames), x.name = q[1], x.pos = q[2]
                   PROVE  x \in InProgress(frames')
        OBVIOUS
      <4>1. ~(x.name = top.node.name /\ x.pos = top.pos)
        BY <1>2, <2>4
      <4> QED BY <1>1, <4>1, EndedCalls
    <3> QED BY <1>1, <2>2, <3>1
  <2> QED BY <2>3, <2>4
<1> QED BY <1>1, <1>2, <1>3, <1>5, <1>6 DEF StepTells, Telling, Done

(* Nor does a rule that is not refused.                                    *)
LEMMA RuleCallTells ==
  ASSUME FramesOK, RulesOK, Recording, Tells(Here), job.log, Telling, ~Reenters, RuleCall PROVE StepTells
<1>1. ~LeftRecursive /\ ~Growing
  <2>1. ~LeftRecursive
    BY KeyFacts, HereIs DEF LeftRecursive, Tells, callee, Names, rules
  <2>2. ~Growing
    BY RuleFacts, HereIs DEF Growing, Tells, rule_of, name_of, Names, rules
  <2> QED BY <2>1, <2>2
<1>2. CASE BodySkips \/ BodyReturns
  <2>1. Moves(QuietOps) /\ memo' = memo
    <3>1. CASE BodyReturns
      <4>1. frames # <<>> /\ Last(frames).op = "body" /\ frames' = Front(frames) /\ memo' = memo
        BY <3>1 DEF BodyReturns, Resuming, memos
      <4> QED BY <4>1 DEF Moves, QuietOps, FrameOps
    <3>2. CASE BodySkips
      <4> DEFINE f == Advanced(top, len, 1)
      <4>1. Resuming("body") /\ frames' = SetTop(frames, f) /\ memo' = memo
        BY <3>2 DEF BodySkips, Resume, Advanced, memos
      <4>2. f.op = "body"
        BY <4>1, ReturnFacts, AdvancedIs DEF FrameOf
      <4> HIDE DEF f
      <4> QED BY <4>1, <4>2 DEF Moves, QuietOps, FrameOps, Resuming
    <3> QED BY <1>2, <3>1, <3>2
  <2>2. Speaks
    <3>1. CASE BodyReturns
      BY <3>1, BodySpeaks
    <3>2. CASE BodySkips
      BY <3>2, Unspoken DEF BodySkips, Resume, Call, ReturnsFail, errors, Recording
    <3> QED BY <1>2, <3>1, <3>2
  <2> QED BY <2>1, <2>2, QuietCalls, StillParsing, RuleCallReports, SpokenTells
<1> QED BY <1>1, <1>2, HitTells, MissTells, EndTells DEF RuleCall, SeedHit, SeedStart, SeedReturn, GrowReturn

(* What is recorded when the parse fails is reported: it has a position.   *)
LEMMA ReturnedTells ==
  ASSUME FramesOK, Recording, Telling, job.log, frames # <<>>, NEW ret, NEW i \in Places, Returned(ret, i),
         ReturnsFail(ctl) \/ (len # Fail /\ (ret <=> i = Len(input))), Resuming("top")
  PROVE  /\ Recorded(error_info) => Recorded(error_info')
         /\ ret \/ reports' # <<>>
<1> DEFINE info == IF i < Len(input) /\ len # Fail /\ error_info.error_pos < i
                   THEN Messaged(error_info, i, EndExpected) ELSE error_info
<1>1. error_info' = info /\ (ret \/ output_log(info))
  BY DEF Returned, post_process, Messaged
<1>2. /\ InfoOK(error_info) /\ job \in Jobs /\ i \in Nat /\ i <= Len(input) /\ Len(input) \in Nat
      /\ {error_info.error_pos, error_info.message_pos} \subseteq Places \cup {NoPos} /\ reports = <<>>
      /\ error_info.last_output_pos = NoPos
  BY InputFacts, InfoParts DEF Recording, FramesOK, Telling, Done
<1>3. CASE info = error_info
  <2>1. ret \/ Recorded(error_info)
    <3>1. CASE ReturnsFail(ctl)
      BY <3>1 DEF Telling, Done, ReturnsFail
    <3>2. CASE len # Fail /\ ~ret /\ ~Recorded(error_info)
      <4>1. i < Len(input) /\ error_info.error_pos = NoPos
        BY <1>2, <3>2 DEF Recorded, ReturnsFail, len
      <4>2. error_info.error_pos < i /\ info = Messaged(error_info, i, EndExpected)
        BY <1>2, <3>2, <4>1 DEF NoPos
      <4>3. error_info = Messaged(error_info, i, EndExpected)
        BY <1>3, <4>2
      <4> HIDE DEF info
      <4>4. error_info.message_pos = i
        BY <1>2, <4>3, MessageSays
      <4>5. i # NoPos
        BY <1>2 DEF NoPos
      <4> QED BY <4>4, <4>5 DEF Recorded
    <3> QED BY <3>1, <3>2
  <2> QED
    <3>0. /\ error_info.error_pos \in Nat \/ error_info.error_pos = NoPos
          /\ error_info.message_pos \in Nat \/ error_info.message_pos = NoPos
      BY <1>2, InputFacts
    <3>1. Recorded(error_info) => Outputs(error_info)
      BY <1>2, <3>0 DEF Recorded, Outputs, OutputPos, NoPos
    <3> HIDE DEF info
    <3>2. ret \/ reports' = Append(<<>>, Report(error_info))
      BY <1>1, <1>2, <1>3, <2>1, <3>1 DEF output_log
    <3>3. \A x : Append(<<>>, x) # <<>>
      OBVIOUS
    <3> QED BY <1>1, <1>3, <3>2, <3>3
<1>4. CASE info = Messaged(error_info, i, EndExpected)
  <2> HIDE DEF info
  <2>0. info = Messaged(error_info, i, EndExpected) \/ info = Labelling(error_info, i, EndExpected)
    BY <1>4
  <2>1. InfoOK(info) /\ Recorded(info) /\ info.message_pos = i /\ Lasts(error_info, info)
    BY <1>2, <2>0, MessageSays, SMTT(30)
  <2>2. Outputs(info)
    BY <1>2, <2>1, InputFacts DEF Outputs, OutputPos, Lasts, NoPos
  <2>3. ret \/ reports' = Append(<<>>, Report(info))
    BY <1>1, <1>2, <2>2 DEF output_log
  <2>4. \A x : Append(<<>>, x) # <<>>
    OBVIOUS
  <2> QED BY <1>1, <2>1, <2>3, <2>4
<1> QED BY <1>3, <1>4

(* A parse that ends unmatched reports.                                    *)
LEMMA TopTells ==
  ASSUME FramesOK, Recording, Telling, job.log, TopWhitespace \/ TopReturn PROVE StepTells
<1>1. /\ Resuming("top") /\ frames # <<>> /\ top.op = "top" /\ IsSeq(frames)
      /\ top.i \in Places /\ 0 \in Places /\ (len # Fail => top.i + len \in Places)
      /\ memo' = memo /\ recovered' = recovered
  <2>1. Resuming("top") /\ memo' = memo /\ recovered' = recovered
    BY DEF TopWhitespace, TopReturn, silent, memos, modes
  <2>2. FrameOK(top) /\ top.op = "top" /\ Standing(top) \in Places /\ top.i \in Nat
    BY <2>1, ReturnFacts
  <2>3. top.i \in Places
    BY <2>2 DEF FrameOK, Standing
  <2> QED BY <2>1, <2>2, <2>3, ReturnFacts, InputFacts DEF FramesOK, StackOK
<1>2. InProgress(frames) = {}
  <2>1. DOMAIN frames = {1} /\ frames[1].op = "top"
    <3>1. /\ Len(frames) \in Nat /\ Len(frames) # 0 /\ DOMAIN frames = 1 .. Len(frames)
          /\ top = frames[Len(frames)]
      BY <1>1, SeqFacts DEF top, Last
    <3>2. Len(frames) = 1
      BY <1>1, <3>1 DEF FramesOK, StackOK
    <3> QED BY <1>1, <3>1, <3>2
  <2> QED BY <2>1 DEF InProgress
<1>3. /\ len = Fail => ReturnsFail(ctl)
      /\ ~recovered /\ reports = <<>> /\ error_info.last_output_pos = NoPos
      /\ \A q \in Names \X Places : memo[q].len = Fail =>
           job.packrat /\ rules[q[1]].cached /\ Recorded(error_info)
  BY <1>1, <1>2 DEF Telling, Done, ReturnsFail, len, Resuming
<1>4. CASE TopWhitespace /\ len # Fail
  <2> DEFINE f == Advanced(top, len, 1)
  <2>1. frames' = SetTop(frames, f) /\ ctl'.do = "call" /\ reports' = reports /\ error_info' = error_info
    BY <1>4 DEF TopWhitespace, StartRule, Call, Advanced, errors
  <2>2. f.op = "top"
    BY <1>1, ReturnFacts, AdvancedIs DEF FrameOf
  <2> HIDE DEF f
  <2>3. frames' # <<>>
    BY <1>1, <2>1, SetTopFacts, SeqFacts
  <2> QED BY <1>1, <1>3, <2>1, <2>3 DEF StepTells, ReturnsFail
<1>5. CASE ~(TopWhitespace /\ len # Fail)
  <2>1. PICK ret, i : /\ i \in Places /\ Returned(ret, i)
                      /\ ReturnsFail(ctl) \/ (len # Fail /\ (ret <=> i = Len(input)))
    BY <1>1, <1>3, <1>5 DEF TopWhitespace, TopReturn
  <2>2. (Recorded(error_info) => Recorded(error_info')) /\ (ret \/ reports' # <<>>)
    BY <1>1, <2>1, ReturnedTells
  <2>3. frames' = <<>> /\ result'.ret = ret
    BY <2>1 DEF Returned
  <2> QED BY <1>1, <1>3, <2>2, <2>3 DEF StepTells
<1> QED BY <1>4, <1>5

(* The same of the next state.                                             *)
LEMMA TellsPrimed ==
  ASSUME job' = job
  PROVE  (Tells(Here)' <=> Tells(Here)) /\ (StepTells => Telling')
<1>1. Here' = Here /\ rules' = rules /\ Names' = Names /\ Places' = Places
  BY LanguagePrimed
<1>2. StepTells => Telling'
  BY <1>1 DEF StepTells, Telling, Done, ReturnsFail, InProgress, Recorded
<1> QED BY <1>1, <1>2

(* A parse begins with nothing memoized.                                   *)
LEMMA InitTells == ASSUME Init PROVE Telling
<1>1. /\ ~recovered /\ reports = <<>> /\ error_info.last_output_pos = NoPos /\ ctl.do = "call"
      /\ frames # <<>> /\ \A q \in Names \X Places : memo[q].len # Fail
  BY DEF Init, NoErrors, StartRule, Call, NoMemo, Entry, Fail
<1> QED BY <1>1 DEF Telling, Done

(* A step that refuses no rule keeps it.                                   *)
LEMMA NextTells ==
  ASSUME IInv, Recording, Tells(Here), job.log, Telling, ~Reenters, [Next]_vars PROVE Telling'
<1>1. FramesOK /\ RulesOK /\ job' = job
  BY NextJob DEF IInv
<1>2. CASE Combinator \/ RuleCall \/ TopWhitespace \/ TopReturn
  BY <1>1, <1>2, CombinatorTells, RuleCallTells, TopTells, TellsPrimed
<1>3. CASE UNCHANGED vars
  BY <1>3 DEF vars, context, silent, values, modes, memos, errors, caller, Telling, Done, InProgress,
     Recorded, rules, g, Names, Places, input
<1> QED BY <1>2, <1>3 DEF Next, Step, Idle

(* A failure that is told, at every step.                                  *)
Told == Tells(Here) /\ job.log => Telling

(* Told is kept by every step that refuses no rule.                        *)
LEMMA NextTold ==
  ASSUME IInv, Recording, Told, ~Reenters, [Next]_vars PROVE Told'
<1>1. job' = job
  BY NextJob
<1> QED BY <1>1, TellsPrimed, NextTells DEF Told

(* Told at the end is what FailureReported says.                           *)
LEMMA ToldReported == ASSUME Told PROVE Tells(Here) => FailureReported
BY DEF Told, Telling, FailureReported

(* A parse that fails tells its log why, of every grammar without left     *)
(* recursion and recovery whose predicates have messages and whose         *)
(* filtered choices name an alternative, if the guards of                  *)
(* Holder::parse_core never refuse a rule: a refused rule records nothing. *)
THEOREM FailureReportedAlways == Spec /\ []~Reenters => [](Tells(Here) => FailureReported)
<1>1. Init => Told
  BY InitTells DEF Told
<1>2. IInv /\ Recording /\ Told /\ ~Reenters /\ [Next]_vars => Told'
  BY NextTold
<1> QED BY <1>1, <1>2, ToldReported, ErrorsAlways, PTL DEF Spec

(* Of a classical grammar without left recursion they never do, so that    *)
(* each of its failures is reported.                                       *)
THEOREM CoveredReportedAlways == Spec => [](Covered /\ Tells(Here) => FailureReported)
<1> DEFINE ToldThere == Covered => Told
<1>1. Init => ToldThere
  BY InitTells DEF Told
<1>2. IInv /\ Recording /\ (Covered => ~Reenters) /\ ToldThere /\ [Next]_vars => ToldThere'
  <2> SUFFICES ASSUME IInv, Recording, Covered => ~Reenters, ToldThere, [Next]_vars, Covered' PROVE Told'
    OBVIOUS
  <2>1. job' = job
    BY NextJob
  <2>2. Covered
    BY <2>1, CoversPrimed DEF Covered
  <2> QED BY <2>2, NextTold
<1>3. ToldThere => (Covered /\ Tells(Here) => FailureReported)
  BY ToldReported
<1> HIDE DEF ToldThere
<1> QED BY <1>1, <1>2, <1>3, NeverReentersAlways, ErrorsAlways, PTL DEF Spec
=============================================================================
