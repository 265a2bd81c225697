----------------------------- MODULE ErrorInfo ------------------------------
(***************************************************************************)
(* What a parse reports: ErrorInfo, Context::set_error_pos, and the error  *)
(* a prioritized choice records for the alternatives it filters out.       *)
(*                                                                         *)
(* A message stands for whose it is: the name of the rule with the         *)
(* error_message or the predicate, or one of the two of the library.  An   *)
(* expected token is a literal, a rule or both; the code compares literals *)
(* by address, so that two equal ones are listed twice.                    *)
(***************************************************************************)
EXTENDS ParseContext

NoErrors ==
  [error_pos |-> NoPos, expected_tokens |-> <<>>, message_pos |-> NoPos, message |-> NoName,
   label |-> NoName, last_output_pos |-> NoPos, keep_previous_token |-> FALSE]

EndExpected   == "expected end of input"
UndefinedBack == "undefined back reference"

\* A recovery takes log and error_reporter away while its operand runs.
\* A mutant: they stay.
LoggingAlways(calls) == job.log
LoggingIn(calls) == job.log /\ \A k \in DOMAIN calls : calls[k].op # "rec"
Logging == LoggingIn(frames)

clear(info) ==
  [info EXCEPT !.error_pos = NoPos, !.expected_tokens = <<>>,
               !.message_pos = NoPos, !.message = NoName]

\* A mutant of Failing: what was expected at an earlier position is kept.
FailingKeeps(info, p, keep) == [info EXCEPT !.error_pos = p]
\* A failure at p.  It forgets what was expected before p and, but in a
\* later alternative of a choice, what was expected at p.
Failing(info, p, keep) ==
  IF info.error_pos < p \/ ~keep
  THEN [info EXCEPT !.error_pos = p, !.expected_tokens = <<>>] ELSE info

add(info, literal, rule) ==
  IF <<literal, rule>> = <<NoText, NoName>> \/ <<literal, rule>> \in ToSet(info.expected_tokens)
  THEN info ELSE [info EXCEPT !.expected_tokens = Append(@, <<literal, rule>>)]

----------------------------------------------------------------------------
(* set_error_pos.  The rule to name is the outermost token, or else the    *)
(* innermost rule.                                                         *)
rule_stack == {k \in DOMAIN frames : frames[k].op = "body"}     \* the depths of the rules
ruled(k)   == frames[k].node.name

error_rule ==
  LET tokens == {k \in rule_stack : rules[ruled(k)].is_token}
  IN IF rule_stack = {} THEN NoName
     ELSE ruled(IF tokens = {} THEN Max(rule_stack) ELSE Min(tokens))

error_literal(literal) ==
  IF literal # NoText \/ rule_stack = {} THEN literal ELSE rules[ruled(Max(rule_stack))].token

set_error_pos(p, literal) ==
  error_info' =
    IF ~Logging \/ error_info.error_pos > p THEN error_info
    ELSE add(Failing(error_info, p, error_info.keep_previous_token), error_literal(literal), error_rule)

set_message(p, message) ==
  [error_info EXCEPT !.message_pos = p, !.message = message, !.label = message]

\* A message of a rule that was tried at p.
WithMessage(p, rule) == IF error_info.message_pos < p THEN set_message(p, rule) ELSE error_info

----------------------------------------------------------------------------
(* A choice e at p, which filters out its alternatives from the first to   *)
(* the last, and then runs another (keep: not the first) or ends.          *)
Filtering(info, e, p, k) ==
  IF ~Logging \/ e.named[k] = <<NoText, NoName>> \/ info.error_pos > p THEN info
  ELSE add(Failing(info, p, k > 1), e.named[k][1], e.named[k][2])

FilterOut(e, p, first, last, keep) ==
  LET filtered[k \in 0 .. last] ==
        IF k < first THEN error_info ELSE Filtering(filtered[k - 1], e, p, k)
  IN error_info' = [filtered[last] EXCEPT !.keep_previous_token = keep]

----------------------------------------------------------------------------
(* output_log.  Each report is further on than the one before.             *)
OutputPos(info) == IF info.message_pos # NoPos THEN info.message_pos ELSE info.error_pos
Outputs(info)   == OutputPos(info) > info.last_output_pos

\* A syntax error without a label takes the first rule that it names.
OutputLabel(info) ==
  LET named == SelectSeq(info.expected_tokens, LAMBDA t : t[1] = NoText)
  IN IF info.message_pos # NoPos \/ info.label # NoName \/ named = <<>>
     THEN info.label ELSE Head(named)[2]

Report(info) ==
  [pos |-> OutputPos(info), label |-> OutputLabel(info), message |-> info.message,
   expected |-> IF info.message_pos # NoPos THEN {} ELSE ToSet(info.expected_tokens)]

AfterOutput(info) ==
  IF Outputs(info)
  THEN [info EXCEPT !.last_output_pos = OutputPos(info), !.label = OutputLabel(info)] ELSE info

\* A mutant of output_log: it reports what is left after clear.
output_log_cleared(info) ==
  reports' = IF Outputs(clear(info)) THEN Append(reports, Report(clear(info))) ELSE reports
output_log(info) == reports' = IF Outputs(info) THEN Append(reports, Report(info)) ELSE reports
=============================================================================
