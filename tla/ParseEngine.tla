---------------------------- MODULE ParseEngine -----------------------------
(***************************************************************************)
(* Definition::parse_core and parser::post_process: one parse, from its    *)
(* Context to its Result, and what it reports.                             *)
(***************************************************************************)
EXTENDS RuleCalls

NoResult == [ret |-> FALSE, i |-> Fail]

StartRule(p) == Call(Ref(g.start), p)

Init ==
  /\ job \in Jobs
  /\ result = NoResult
  /\ frames = <<Frame("top", NoNode, 0)>>
  /\ ctl = IF g.whitespace = NoNode THEN StartRule(0) ELSE Call(g.whitespace, 0)
  /\ scopes = <<EmptyScope>>
  /\ capture_entries = <<>> /\ cut_stack = <<>>
  /\ in_token_boundary_count = 0 /\ in_whitespace = FALSE /\ recovered = FALSE
  /\ memo = [q \in Names \X Places |-> NoMemo]
  /\ active_pos = [r \in Names |-> NoPos]
  /\ lr_memo = [q \in Names \X Places |-> NoMemo]
  /\ lr_refs_hit = {} /\ lr_active_seeds = {}
  /\ error_info = NoErrors /\ reports = <<>>

\* What is left to report of a parse that fails; info: its error_info.
post_process(ret, info) ==
  /\ error_info' = info
  /\ IF job.log /\ ~ret THEN output_log(info) ELSE UNCHANGED reports

Returned(ret, i) ==
  /\ result' = [ret |-> ret, i |-> i]
  /\ frames' = <<>> /\ ctl' = Return(0, NoVal)
  /\ post_process(ret, IF i < Len(input) /\ len # Fail /\ error_info.error_pos < i
                       THEN [error_info EXCEPT !.message_pos = i, !.message = EndExpected]
                       ELSE error_info)

\* The whitespace before the start rule.
TopWhitespace ==
  /\ Resuming("top") /\ g.whitespace # NoNode /\ top.k = 0
  /\ IF len = Fail THEN Returned(FALSE, 0)
     ELSE /\ frames' = SetTop(frames, [top EXCEPT !.i = len, !.k = 1])
          /\ ctl' = StartRule(len)
          /\ UNCHANGED <<result, errors>>
  /\ UNCHANGED <<job, silent>>

\* The start rule, and the check that it matched the whole input.
TopReturn ==
  /\ Resuming("top") /\ (g.whitespace = NoNode \/ top.k = 1)
  /\ IF len = Fail THEN Returned(FALSE, top.i)
     ELSE Returned(top.i + len = Len(input), top.i + len)
  /\ UNCHANGED <<job, silent>>

Done == frames = <<>>

Step == Combinator \/ RuleCall \/ TopWhitespace \/ TopReturn
Idle == Done /\ UNCHANGED vars           \* the parse is over

Next == Step \/ Idle

Spec == Init /\ [][Next]_vars

(* A parse runs on its caller's thread until it returns.                   *)
FairSpec == Spec /\ WF_vars(Step)
=============================================================================
