----------------------------- MODULE ParseErrors ----------------------------
(***************************************************************************)
(* What holds at every step of a parse and makes what it reports true:     *)
(* ExpectedIsAbsent and FailureReported.                                   *)
(***************************************************************************)
EXTENDS ParseMeaning

(* An ErrorInfo, and what it says.                                         *)
InfoOK(info) ==
  /\ info = [error_pos |-> info.error_pos, expected_tokens |-> info.expected_tokens,
             message_pos |-> info.message_pos, message |-> info.message, label |-> info.label,
             last_output_pos |-> info.last_output_pos,
             keep_previous_token |-> info.keep_previous_token]
  /\ {info.error_pos, info.message_pos, info.last_output_pos} \subseteq Places \cup {NoPos}
  /\ IsSeq(info.expected_tokens)

Absent(text, p) == ~StandsAt(text, p, input, g.word)
AllAbsent(info) ==
  \A t \in ToSet(info.expected_tokens) : t[1] # NoText => Absent(t[1], info.error_pos)

(* A rollback only takes captures away: a frame's snapshot has no more of  *)
(* them than there are, nor than the snapshots of the frames above it.  A  *)
(* back reference therefore finds a text that was matched.                 *)
Snaps(f) == f.op \in {"cho", "rep", "and", "not", "csc"}
SnapsOK(s, n) ==
  /\ \A k \in DOMAIN s : Snaps(s[k]) => s[k].snap.caps \in 0 .. n
  /\ \A k, l \in DOMAIN s : k <= l /\ Snaps(s[k]) /\ Snaps(s[l]) => s[k].snap.caps <= s[l].snap.caps
CapturesOK ==
  /\ IsSeq(capture_entries) /\ \A c \in DOMAIN capture_entries : IsSeq(capture_entries[c][2])
  /\ SnapsOK(frames, Len(capture_entries))

(* A rule that is known by its token runs only the operators in W, and     *)
(* calls no rule.                                                          *)
OfToken(f) == f.op = "body" /\ rule_of(f).token # NoText
QuietFrame(W, f) == f.op = "skip" \/ (f.op \in {"tok", "ign", "wsp"} /\ f.node \in W)
Quiet(W, s, c) ==
  \A j \in DOMAIN s : OfToken(s[j]) =>
    /\ \A k \in j + 1 .. Len(s) : QuietFrame(W, s[k])
    /\ c.do = "call" => c.node \in W

(* A choice is at one of its alternatives.                                 *)
ChoicesOK(s) == \A k \in DOMAIN s : s[k].op = "cho" => s[k].k \in 1 .. Len(s[k].node.kids)

Recording  == InfoOK(error_info) /\ CapturesOK /\ ChoicesOK(frames)
ErrorsHold == \A W : NamesLiterals(Here, W) => AllAbsent(error_info) /\ Quiet(W, frames, ctl)

----------------------------------------------------------------------------
(* A failure that is on its way to its caller, or memoized for a rule that *)
(* is no longer being parsed, has left something to report, and nothing is *)
(* reported before the end.                                                *)
Recorded(info) == info.error_pos # NoPos \/ info.message_pos # NoPos

Telling ==
  /\ ~recovered
  /\ ~Done => reports = <<>> /\ error_info.last_output_pos = NoPos
  /\ ~Done /\ ctl.do = "return" /\ ctl.len = Fail => Recorded(error_info)
  /\ \A q \in Names \X Places : memo[q].len = Fail =>
       /\ job.packrat /\ rules[q[1]].cached
       /\ Recorded(error_info) \/ \E x \in InProgress(frames) : x.name = q[1] /\ x.pos = q[2]
  /\ Done => result.ret \/ reports # <<>>
=============================================================================
